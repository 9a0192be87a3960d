------------------------ MODULE MigrationImportProof ------------------------
(***************************************************************************)
(* Proofs about MigrationImport, for any source, any number of imports and *)
(* of failures, with other handlers at work all the time: a failed import  *)
(* has left nothing, a successful one is whole, and a host the other proxy *)
(* protected is never served without its list.                             *)
(***************************************************************************)
EXTENDS MigrationImport, TLAPS

-----------------------------------------------------------------------------
(* The inductive invariant. *)

Writing == {"certs", "lists", "copy", "finish", "routes", "apply"}
Undoing == {"undoHosts", "undoRoutes", "undoLists", "undoCerts"}
Stages == {"idle", "prepare"} \cup Writing \cup Undoing

\* The source objects a stage still has to write, the ids it has to delete.
TodoType ==
  CASE stage = "certs" -> SUBSET SourceCerts
    [] stage \in {"lists", "copy", "finish"} -> SUBSET SourceLists
    [] stage = "routes" -> SUBSET SourceRoutes
    [] stage = "undoRoutes" -> SUBSET made.routes
    [] stage = "undoLists" -> SUBSET made.lists
    [] stage = "undoCerts" -> SUBSET made.certs
    [] stage \in {"idle", "prepare", "apply", "undoHosts"} -> {todo}

RecordType ==
  [certs : SUBSET Of(attempt), lists : SUBSET Of(attempt), files : SUBSET Of(attempt),
   routes : SUBSET {id \in Of(attempt) : id[2] \in SourceRoutes},
   hosts : SUBSET {id \in Of(attempt) : id[2] \in SourceHosts}]

TablesType ==
  /\ certs \subseteq Ids /\ material \subseteq certs
  /\ lists \subseteq Ids /\ logins \subseteq lists /\ files \subseteq Ids

RoutesType ==
  /\ routes \in [RouteIds -> Route \cup {None}] /\ routes[Mine] # None
  /\ conf \in [RouteIds -> Served \cup {None}]

HandlerType ==
  /\ stage \in Stages
  /\ attempt \in 0..MaxImports /\ (stage # "idle" => attempt # 0)
  /\ batch \subseteq SourceHosts
  /\ todo \in TodoType
  /\ stage \in {"copy", "finish"} => current \in SourceLists
  /\ made \in RecordType

TypeInv == TablesType /\ RoutesType /\ HandlerType

ForeignKeys ==
  \A id \in RouteIds :
    routes[id] # None =>
      routes[id].cert \in certs \cup {None} /\ routes[id].list \in lists \cup {None}

Routed(n) == {id \in RouteIds \cap Of(n) : routes[id] # None}

Nothing(n) ==
  /\ Of(n) \cap UNION {certs, lists, files} = {}
  /\ \A id \in RouteIds \cap Of(n) : routes[id] = None /\ conf[id] = None

\* Of imports to come there is nothing.
Untouched ==
  /\ \A n \in 1..MaxImports : n > attempt => Nothing(n)
  /\ stage = "prepare" => Nothing(attempt)

\* What the handler has written it has recorded, and in this order.
Recorded ==
  /\ stage = "prepare" => made = NoRecord
  /\ stage \in Writing \cup Undoing =>
       /\ Of(attempt) \cap certs \subseteq made.certs
       /\ Of(attempt) \cap lists \subseteq made.lists
       /\ Of(attempt) \cap files \subseteq made.files
       /\ Routed(attempt) \subseteq made.routes \cup made.hosts
  /\ stage = "certs" => made.lists = {} /\ made.files = {}
  /\ stage \in {"certs", "lists", "copy", "finish"} => made.routes = {}
  /\ stage \in Writing \ {"apply"} => made.hosts = {}

\* What has been written is whole.
Written ==
  /\ stage = "certs" =>
       \A c \in SourceCerts \ (todo \cup failed) : Id(c) \in material
  /\ stage \in Writing \ {"certs"} =>
       /\ \A c \in SourceCerts \ failed : Id(c) \in material
       /\ \A l \in WithLogin :
            Id(l) \in lists =>
              Id(l) \in logins \/ (stage \in {"copy", "finish"} /\ l = current)
  /\ stage = "routes" => \A r \in SourceRoutes \ todo : routes[Id(r)] = Input(r)
  /\ stage = "apply" => \A x \in SourceRoutes \cup batch : routes[Id(x)] = Input(x)

Undamaged == \A d \in damaged : d[1] # attempt

\* What has been taken back is gone.
Undone ==
  /\ stage \in Undoing \ {"undoHosts"} /\ <<attempt, "hosts">> \notin damaged =>
       \A id \in Routed(attempt) : id[2] \notin SourceHosts
  /\ Undamaged =>
       /\ stage = "undoRoutes" => Routed(attempt) \subseteq todo
       /\ stage \in {"undoLists", "undoCerts"} => Routed(attempt) = {}
       /\ stage = "undoLists" => Of(attempt) \cap lists \subseteq todo
       /\ stage = "undoCerts" =>
            Of(attempt) \cap (lists \cup files) = {} /\ Of(attempt) \cap certs \subseteq todo
       /\ stage = "idle" /\ outcome = "failed" => Nothing(attempt)

\* The row of a protected host names a list of its own import, complete with
\* its logins.
RowsGuarded ==
  \A id \in RouteIds \ {Mine} :
    /\ routes[id] # None /\ id[2] \in SourceHosts /\ ListOf[id[2]] # None
    /\ <<id[1], "hosts">> \notin damaged
    => routes[id].list \in Of(id[1]) /\ Guards(routes[id].list)

ImportInv ==
  /\ TypeInv /\ ForeignKeys /\ Untouched /\ Recorded /\ Written /\ Undone
  /\ RowsGuarded /\ ImportedHostsAreGuarded

-----------------------------------------------------------------------------
(* Ids, rows and what Apply makes of them. *)

LEMMA IdFacts ==
  ASSUME TypeInv, stage # "idle"
  PROVE  /\ attempt \in 1..MaxImports
         /\ Of(attempt) \subseteq Ids
         /\ \A x \in Source : Id(x) \in Of(attempt)
         /\ \A x \in SourceRoutes \cup SourceHosts : Id(x) \in RouteIds /\ Id(x) # Mine
         /\ \A id \in Of(attempt) : id = Id(id[2]) /\ id[2] \in Source
         /\ \A x : Id(x)[1] = attempt /\ Id(x)[2] = x
<1>1. attempt \in 1..MaxImports
  BY SourceAssumption DEF TypeInv, HandlerType
<1>2. \A x \in Source : Id(x) \in Ids
  BY <1>1 DEF Id, Ids
<1>3. \A id \in Of(attempt) : id = Id(id[2]) /\ id[2] \in Source
  BY DEF Of, Id, Ids
<1>4. \A x : Id(x)[1] = attempt /\ Id(x)[2] = x
  BY DEF Id
<1>5. SourceRoutes \cup SourceHosts \subseteq Source
  BY DEF Source
<1> QED BY <1>1, <1>2, <1>3, <1>4, <1>5, SourceAssumption DEF Of, RouteIds

LEMMA RouteIdFacts ==
  /\ \A id \in RouteIds \ {Mine} : id \in Ids /\ id[2] \in SourceRoutes \cup SourceHosts
  /\ \A id \in Ids : id[2] \in SourceRoutes \cup SourceHosts => id \in RouteIds
  /\ Mine \in RouteIds /\ \A n : Mine \notin Of(n)
BY SourceAssumption DEF RouteIds, Of

LEMMA InputFacts ==
  ASSUME TypeInv, stage # "idle", NEW x \in SourceRoutes \cup SourceHosts
  PROVE  /\ Input(x) \in Route /\ Input(x) # None
         /\ Input(x).cert = MapCert(x)
         /\ Input(x).list = IF x \in SourceHosts /\ ListOf[x] # None THEN Id(ListOf[x]) ELSE None
         /\ CertOf[x] # None => CertOf[x] \in SourceCerts
         /\ x \in SourceHosts /\ ListOf[x] # None => ListOf[x] \in SourceLists
<1>1. CertOf[x] \in SourceCerts \cup {None}
  BY SourceAssumption
<1>2. x \in SourceHosts => ListOf[x] \in SourceLists \cup {None}
  BY SourceAssumption
<1>3. SourceCerts \cup SourceLists \subseteq Source
  BY DEF Source
<1>4. MapCert(x) \in Refs
  BY <1>1, <1>3, IdFacts DEF MapCert, Refs
<1>5. (IF x \in SourceHosts /\ ListOf[x] # None THEN Id(ListOf[x]) ELSE None) \in Refs
  BY <1>2, <1>3, IdFacts DEF Refs
<1>6. Input(x) \in Route
  BY <1>4, <1>5 DEF Input, Route
<1>7. Input(x) # None
  BY <1>6, SourceAssumption
<1> QED BY <1>1, <1>2, <1>6, <1>7 DEF Input

(* References to deleted rows become NULL, all else of a row stays.        *)
LEMMA UnreferencedFacts ==
  ASSUME TypeInv, NEW gone
  PROVE  /\ Unreferenced(gone) \in [RouteIds -> Route \cup {None}]
         /\ \A id \in RouteIds :
              /\ Unreferenced(gone)[id] = None <=> routes[id] = None
              /\ routes[id] # None =>
                   /\ Unreferenced(gone)[id].cert =
                        IF routes[id].cert \in gone THEN None ELSE routes[id].cert
                   /\ Unreferenced(gone)[id].list =
                        IF routes[id].list \in gone THEN None ELSE routes[id].list
<1> DEFINE new(id) == [routes[id] EXCEPT
             !.cert = IF routes[id].cert \in gone THEN None ELSE routes[id].cert,
             !.list = IF routes[id].list \in gone THEN None ELSE routes[id].list]
<1>1. ASSUME NEW id \in RouteIds, routes[id] # None
      PROVE  /\ new(id) \in Route /\ new(id) # None
             /\ new(id).cert = IF routes[id].cert \in gone THEN None ELSE routes[id].cert
             /\ new(id).list = IF routes[id].list \in gone THEN None ELSE routes[id].list
  <2>1. routes[id] \in Route
    BY <1>1 DEF TypeInv, RoutesType
  <2>2. new(id) \in Route
    BY <2>1 DEF Route, Refs
  <2>3. new(id) # None
    BY <2>2, SourceAssumption
  <2> QED BY <2>1, <2>2, <2>3 DEF Route
<1>2. Unreferenced(gone) = [id \in RouteIds |-> IF routes[id] = None THEN None ELSE new(id)]
  BY DEF Unreferenced
<1> HIDE DEF new
<1> QED BY <1>1, <1>2

LEMMA RenderedFacts ==
  ASSUME TypeInv
  PROVE  /\ Rendered \in [RouteIds -> Served \cup {None}]
         /\ \A id \in RouteIds :
              /\ routes[id] = None => Rendered[id] = None
              /\ routes[id] # None =>
                   /\ Rendered[id] # None
                   /\ Rendered[id].guarded =
                        (routes[id].list # None /\ Guards(routes[id].list))
<1> DEFINE new(id) == [cert |-> routes[id].cert,
                       guarded |-> routes[id].list # None /\ Guards(routes[id].list)]
<1>1. ASSUME NEW id \in RouteIds, routes[id] # None
      PROVE  /\ new(id) \in Served /\ new(id) # None
             /\ new(id).guarded = (routes[id].list # None /\ Guards(routes[id].list))
  <2>1. routes[id] \in Route
    BY <1>1 DEF TypeInv, RoutesType
  <2>2. routes[id].cert \in Refs
    BY <2>1 DEF Route
  <2>3. (routes[id].list # None /\ Guards(routes[id].list)) \in BOOLEAN
    OBVIOUS
  <2>4. new(id) \in Served
    BY <2>2, <2>3 DEF Served
  <2>5. new(id) # None
    BY <2>4, SourceAssumption
  <2> QED BY <2>4, <2>5
<1>2. Rendered = [id \in RouteIds |-> IF routes[id] = None THEN None ELSE new(id)]
  BY DEF Rendered
<1> HIDE DEF new
<1> QED BY <1>1, <1>2

(* nginx.conf stays or is rendered from the present tables, and what met   *)
(* the rollback is not forgotten.                                          *)
LEMMA ConfSteps ==
  ASSUME [Next]_vars
  PROVE  conf' \in {conf, Rendered} /\ damaged \subseteq damaged'
<1> USE DEF Damage, world, tables
<1>1. CASE Import
  BY <1>1 DEF Import, Prepare, PrepareRefuses, IssueSucceeds, IssueFails, ImportCertFails,
    CertsDone, CreateList, CopyFile, CopyFails, FinishList, ListsDone, CreateRoute, CreateHosts,
    Activate, ActivateFails, ApplyOk, ApplyFails
<1>2. CASE Rollback
  BY <1>2 DEF Rollback, UndoHosts, UndoRoute, UndoList, UndoCert, UndoRoutesDone,
    UndoListsDone, UndoApply, ApplyOk, ApplyFails
<1>3. CASE Others
  BY <1>3 DEF Others, OtherApply, AssignMine, DeleteList, ApplyOk
<1>4. CASE Crash
  BY <1>4 DEF Crash
<1>5. ASSUME NEW selected, Begin(selected)
      PROVE  conf' \in {conf, Rendered} /\ damaged \subseteq damaged'
  BY <1>5 DEF Begin
<1>6. CASE UNCHANGED vars
  BY <1>6 DEF vars
<1> QED BY <1>1, <1>2, <1>3, <1>4, <1>5, <1>6 DEF Next

-----------------------------------------------------------------------------
(* Every action keeps the invariant, one part of it at a time. *)

(* The sets of ids hold ids.                                               *)
LEMMA TablesStep ==
  ASSUME TypeInv, [Next]_vars
  PROVE  TablesType'
<1> USE DEF TypeInv, TablesType
<1>1. CASE Prepare
  BY <1>1 DEF Prepare, tables
<1>2. CASE PrepareRefuses
  BY <1>2 DEF PrepareRefuses, tables
<1>3. ASSUME NEW c \in SourceCerts, IssueSucceeds(c) PROVE TablesType'
  BY <1>3, IdFacts DEF IssueSucceeds, Source, tables
<1>4. ASSUME NEW c \in SourceCerts, IssueFails(c) PROVE TablesType'
  BY <1>4, IdFacts DEF IssueFails, Source, tables
<1>5. ASSUME NEW c \in SourceCerts, ImportCertFails(c) PROVE TablesType'
  BY <1>5, IdFacts DEF ImportCertFails, Source, tables
<1>6. CASE CertsDone
  BY <1>6 DEF CertsDone, tables
<1>7. ASSUME NEW l \in SourceLists, CreateList(l) PROVE TablesType'
  BY <1>7, IdFacts DEF CreateList, Source, tables
<1>8. CASE CopyFile
  BY <1>8, IdFacts DEF CopyFile, HandlerType, Source, tables
<1>9. CASE CopyFails
  BY <1>9 DEF CopyFails, tables
<1>10. CASE FinishList
  BY <1>10, IdFacts DEF FinishList, HandlerType, Source, tables
<1>11. CASE ListsDone
  BY <1>11 DEF ListsDone, tables
<1>12. ASSUME NEW r \in SourceRoutes, CreateRoute(r) PROVE TablesType'
  BY <1>12 DEF CreateRoute, tables
<1>13. CASE CreateHosts
  BY <1>13 DEF CreateHosts, tables
<1>14. CASE Activate
  BY <1>14 DEF Activate, tables
<1>15. CASE ActivateFails
  BY <1>15 DEF ActivateFails, tables
<1>16. CASE UndoHosts
  BY <1>16 DEF UndoHosts, tables
<1>17. ASSUME NEW id \in Ids, UndoRoute(id) PROVE TablesType'
  BY <1>17 DEF UndoRoute, tables
<1>18. ASSUME NEW id \in Ids, UndoList(id) PROVE TablesType'
  BY <1>18 DEF UndoList, tables
<1>19. ASSUME NEW id \in Ids, UndoCert(id) PROVE TablesType'
  BY <1>19 DEF UndoCert, tables
<1>20. CASE UndoRoutesDone
  BY <1>20 DEF UndoRoutesDone, tables
<1>21. CASE UndoListsDone
  BY <1>21 DEF UndoListsDone, tables
<1>22. CASE UndoApply
  BY <1>22 DEF UndoApply, tables
<1>23. CASE OtherApply
  BY <1>23 DEF OtherApply, tables
<1>24. ASSUME NEW id \in Ids, AssignMine(id) PROVE TablesType'
  BY <1>24 DEF AssignMine, tables
<1>25. ASSUME NEW id \in Ids, DeleteList(id) PROVE TablesType'
  BY <1>25 DEF DeleteList, tables
<1>26. CASE Crash
  BY <1>26 DEF Crash, tables
<1>27. ASSUME NEW selected \in SUBSET SourceHosts, Begin(selected) PROVE TablesType'
  BY <1>27 DEF Begin, tables
<1>28. CASE UNCHANGED vars
  BY <1>28 DEF vars, tables
<1> QED
  BY <1>1, <1>2, <1>3, <1>4, <1>5, <1>6, <1>7, <1>8, <1>9, <1>10, <1>11, <1>12, <1>13, <1>14,
     <1>15, <1>16, <1>17, <1>18, <1>19, <1>20, <1>21, <1>22, <1>23, <1>24, <1>25, <1>26, <1>27,
     <1>28 DEF Next, Import, Rollback, Others

LEMMA RoutesStep ==
  ASSUME TypeInv, [Next]_vars
  PROVE  RoutesType'
<1>0. conf' \in [RouteIds -> Served \cup {None}]
  BY ConfSteps, RenderedFacts DEF TypeInv, RoutesType
<1> USE <1>0 DEF RoutesType, TypeInv
<1>1. CASE Prepare
  BY <1>1 DEF Prepare, tables
<1>2. CASE PrepareRefuses
  BY <1>2 DEF PrepareRefuses, tables
<1>3. ASSUME NEW c \in SourceCerts, IssueSucceeds(c) PROVE RoutesType'
  BY <1>3 DEF IssueSucceeds, tables
<1>4. ASSUME NEW c \in SourceCerts, IssueFails(c) PROVE RoutesType'
  BY <1>4 DEF IssueFails, tables
<1>5. ASSUME NEW c \in SourceCerts, ImportCertFails(c) PROVE RoutesType'
  BY <1>5 DEF ImportCertFails, tables
<1>6. CASE CertsDone
  BY <1>6 DEF CertsDone, tables
<1>7. ASSUME NEW l \in SourceLists, CreateList(l) PROVE RoutesType'
  BY <1>7 DEF CreateList, tables
<1>8. CASE CopyFile
  BY <1>8 DEF CopyFile, tables
<1>9. CASE CopyFails
  BY <1>9 DEF CopyFails, tables
<1>10. CASE FinishList
  BY <1>10 DEF FinishList, tables
<1>11. CASE ListsDone
  BY <1>11 DEF ListsDone, tables
<1>12. ASSUME NEW r \in SourceRoutes, CreateRoute(r) PROVE RoutesType'
  <2>1. r \in SourceRoutes /\ stage # "idle"
    BY <1>12 DEF CreateRoute
  <2>2. Id(r) \in RouteIds /\ Id(r) # Mine /\ Input(r) \in Route
    BY <2>1, IdFacts, InputFacts
  <2>3. routes' = routes \/ routes' = [routes EXCEPT ![Id(r)] = Input(r)]
    BY <1>12 DEF CreateRoute
  <2> QED BY <2>2, <2>3, RouteIdFacts
<1>13. CASE CreateHosts
  <2>1. CASE \A h \in batch : Insertable(h)
    <3>1. \A h \in batch : Input(h) \in Route
      BY <1>13, InputFacts DEF CreateHosts, HandlerType
    <3> QED BY <1>13, <2>1, <3>1, RouteIdFacts DEF CreateHosts
  <2> QED BY <1>13, <2>1 DEF CreateHosts
<1>14. CASE Activate
  BY <1>14 DEF Activate, tables
<1>15. CASE ActivateFails
  BY <1>15 DEF ActivateFails, tables
<1>16. CASE UndoHosts
  BY <1>16, RouteIdFacts DEF UndoHosts, HandlerType, RecordType, tables
<1>17. ASSUME NEW id \in Ids, UndoRoute(id) PROVE RoutesType'
  BY <1>17, RouteIdFacts DEF UndoRoute, HandlerType, TodoType, RecordType, tables
<1>18. ASSUME NEW id \in Ids, UndoList(id) PROVE RoutesType'
  BY <1>18, UnreferencedFacts, RouteIdFacts DEF UndoList, tables
<1>19. ASSUME NEW id \in Ids, UndoCert(id) PROVE RoutesType'
  BY <1>19, UnreferencedFacts, RouteIdFacts DEF UndoCert, tables
<1>20. CASE UndoRoutesDone
  BY <1>20 DEF UndoRoutesDone, tables
<1>21. CASE UndoListsDone
  BY <1>21 DEF UndoListsDone, tables
<1>22. CASE UndoApply
  BY <1>22 DEF UndoApply, tables
<1>23. CASE OtherApply
  BY <1>23 DEF OtherApply, tables
<1>24. ASSUME NEW id \in Ids, AssignMine(id) PROVE RoutesType'
  <2>1. routes[Mine] \in Route
    BY RouteIdFacts
  <2>2. id \in Refs
    BY <1>24 DEF Refs
  <2>3. (IF id \in lists THEN [routes[Mine] EXCEPT !.list = id]
                       ELSE [routes[Mine] EXCEPT !.cert = id]) \in Route
    BY <2>1, <2>2 DEF Route
  <2> QED BY <1>24, <2>3, RouteIdFacts, SourceAssumption DEF AssignMine
<1>25. ASSUME NEW id \in Ids, DeleteList(id) PROVE RoutesType'
  BY <1>25 DEF DeleteList, tables
<1>26. CASE Crash
  BY <1>26 DEF Crash, tables
<1>27. ASSUME NEW selected \in SUBSET SourceHosts, Begin(selected) PROVE RoutesType'
  BY <1>27 DEF Begin, tables
<1>28. CASE UNCHANGED vars
  BY <1>28 DEF vars, tables
<1> QED
  BY <1>1, <1>2, <1>3, <1>4, <1>5, <1>6, <1>7, <1>8, <1>9, <1>10, <1>11, <1>12, <1>13, <1>14,
     <1>15, <1>16, <1>17, <1>18, <1>19, <1>20, <1>21, <1>22, <1>23, <1>24, <1>25, <1>26, <1>27,
     <1>28 DEF Next, Import, Rollback, Others

LEMMA HandlerStep ==
  ASSUME TypeInv, [Next]_vars
  PROVE  HandlerType'
<1> USE SourceAssumption DEF TypeInv, HandlerType, TodoType, RecordType, Stages, Writing, Undoing,
    Of, local
<1>1. CASE Prepare
  BY <1>1 DEF Prepare
<1>2. CASE PrepareRefuses
  BY <1>2 DEF PrepareRefuses
<1>3. ASSUME NEW c \in SourceCerts, IssueSucceeds(c) PROVE HandlerType'
  BY <1>3, IdFacts DEF IssueSucceeds, Source, RecordCert
<1>4. ASSUME NEW c \in SourceCerts, IssueFails(c) PROVE HandlerType'
  BY <1>4, IdFacts DEF IssueFails, Source, RecordCert
<1>5. ASSUME NEW c \in SourceCerts, ImportCertFails(c) PROVE HandlerType'
  BY <1>5, IdFacts DEF ImportCertFails, Source, RecordCert
<1>6. CASE CertsDone
  BY <1>6 DEF CertsDone
<1>7. ASSUME NEW l \in SourceLists, CreateList(l) PROVE HandlerType'
  BY <1>7, IdFacts DEF CreateList, Source
<1>8. CASE CopyFile
  BY <1>8, IdFacts DEF CopyFile, Source
<1>9. CASE CopyFails
  BY <1>9 DEF CopyFails
<1>10. CASE FinishList
  BY <1>10 DEF FinishList
<1>11. CASE ListsDone
  BY <1>11 DEF ListsDone
<1>12. ASSUME NEW r \in SourceRoutes, CreateRoute(r) PROVE HandlerType'
  BY <1>12, IdFacts DEF CreateRoute, Source
<1>13. CASE CreateHosts
  BY <1>13, IdFacts DEF CreateHosts, Source
<1>14. CASE Activate
  BY <1>14 DEF Activate
<1>15. CASE ActivateFails
  BY <1>15 DEF ActivateFails
<1>16. CASE UndoHosts
  BY <1>16 DEF UndoHosts
<1>17. ASSUME NEW id \in Ids, UndoRoute(id) PROVE HandlerType'
  BY <1>17 DEF UndoRoute
<1>18. ASSUME NEW id \in Ids, UndoList(id) PROVE HandlerType'
  BY <1>18 DEF UndoList
<1>19. ASSUME NEW id \in Ids, UndoCert(id) PROVE HandlerType'
  BY <1>19 DEF UndoCert
<1>20. CASE UndoRoutesDone
  BY <1>20 DEF UndoRoutesDone
<1>21. CASE UndoListsDone
  BY <1>21 DEF UndoListsDone
<1>22. CASE UndoApply
  BY <1>22 DEF UndoApply
<1>23. CASE OtherApply
  BY <1>23 DEF OtherApply
<1>24. ASSUME NEW id \in Ids, AssignMine(id) PROVE HandlerType'
  BY <1>24 DEF AssignMine
<1>25. ASSUME NEW id \in Ids, DeleteList(id) PROVE HandlerType'
  BY <1>25 DEF DeleteList
<1>26. CASE Crash
  BY <1>26 DEF Crash
<1>27. ASSUME NEW selected \in SUBSET SourceHosts, Begin(selected) PROVE HandlerType'
  BY <1>27 DEF Begin, NoRecord
<1>28. CASE UNCHANGED vars
  BY <1>28 DEF vars
<1> QED
  BY <1>1, <1>2, <1>3, <1>4, <1>5, <1>6, <1>7, <1>8, <1>9, <1>10, <1>11, <1>12, <1>13, <1>14,
     <1>15, <1>16, <1>17, <1>18, <1>19, <1>20, <1>21, <1>22, <1>23, <1>24, <1>25, <1>26, <1>27,
     <1>28 DEF Next, Import, Rollback, Others

LEMMA TypeStep ==
  ASSUME TypeInv, [Next]_vars
  PROVE  TypeInv'
BY TablesStep, RoutesStep, HandlerStep DEF TypeInv

LEMMA KeysStep ==
  ASSUME TypeInv, ForeignKeys, [Next]_vars
  PROVE  ForeignKeys'
<1> USE DEF ForeignKeys, tables
<1>1. CASE Prepare
  BY <1>1 DEF Prepare
<1>2. CASE PrepareRefuses
  BY <1>2 DEF PrepareRefuses
<1>3. ASSUME NEW c \in SourceCerts, IssueSucceeds(c) PROVE ForeignKeys'
  BY <1>3 DEF IssueSucceeds
<1>4. ASSUME NEW c \in SourceCerts, IssueFails(c) PROVE ForeignKeys'
  BY <1>4 DEF IssueFails
<1>5. ASSUME NEW c \in SourceCerts, ImportCertFails(c) PROVE ForeignKeys'
  BY <1>5 DEF ImportCertFails
<1>6. CASE CertsDone
  BY <1>6 DEF CertsDone
<1>7. ASSUME NEW l \in SourceLists, CreateList(l) PROVE ForeignKeys'
  BY <1>7 DEF CreateList
<1>8. CASE CopyFile
  BY <1>8 DEF CopyFile
<1>9. CASE CopyFails
  BY <1>9 DEF CopyFails
<1>10. CASE FinishList
  BY <1>10 DEF FinishList
<1>11. CASE ListsDone
  BY <1>11 DEF ListsDone
<1>12. ASSUME NEW r \in SourceRoutes, CreateRoute(r) PROVE ForeignKeys'
  <2>1. r \in SourceRoutes \cup SourceHosts /\ stage # "idle"
    BY <1>12 DEF CreateRoute
  <2>2. Id(r) \in RouteIds
    BY <2>1, IdFacts
  <2>3. Insertable(r) => Input(r).cert \in certs \cup {None} /\ Input(r).list \in lists \cup {None}
    BY <2>1, InputFacts DEF Insertable
  <2> QED BY <1>12, <2>2, <2>3 DEF CreateRoute, TypeInv, RoutesType
<1>13. CASE CreateHosts
  <2>1. CASE \A h \in batch : Insertable(h)
    <3>1. ASSUME NEW h \in batch
          PROVE  Input(h).cert \in certs \cup {None} /\ Input(h).list \in lists \cup {None}
      <4>1. stage # "idle" /\ h \in SourceHosts
        BY <1>13 DEF CreateHosts, TypeInv, HandlerType
      <4> QED BY <2>1, <4>1, InputFacts DEF Insertable
    <3> QED BY <1>13, <2>1, <3>1 DEF CreateHosts
  <2> QED BY <1>13, <2>1 DEF CreateHosts
<1>14. CASE Activate
  BY <1>14 DEF Activate
<1>15. CASE ActivateFails
  BY <1>15 DEF ActivateFails
<1>16. CASE UndoHosts
  BY <1>16 DEF UndoHosts
<1>17. ASSUME NEW id \in Ids, UndoRoute(id) PROVE ForeignKeys'
  BY <1>17 DEF UndoRoute, TypeInv, RoutesType
<1>18. ASSUME NEW id \in Ids, UndoList(id) PROVE ForeignKeys'
  BY <1>18, UnreferencedFacts DEF UndoList
<1>19. ASSUME NEW id \in Ids, UndoCert(id) PROVE ForeignKeys'
  BY <1>19, UnreferencedFacts DEF UndoCert
<1>20. CASE UndoRoutesDone
  BY <1>20 DEF UndoRoutesDone
<1>21. CASE UndoListsDone
  BY <1>21 DEF UndoListsDone
<1>22. CASE UndoApply
  BY <1>22 DEF UndoApply
<1>23. CASE OtherApply
  BY <1>23 DEF OtherApply
<1>24. ASSUME NEW id \in Ids, AssignMine(id) PROVE ForeignKeys'
  BY <1>24 DEF AssignMine, TypeInv, RoutesType, Route
<1>25. ASSUME NEW id \in Ids, DeleteList(id) PROVE ForeignKeys'
  BY <1>25 DEF DeleteList
<1>26. CASE Crash
  BY <1>26 DEF Crash
<1>27. ASSUME NEW selected \in SUBSET SourceHosts, Begin(selected) PROVE ForeignKeys'
  BY <1>27 DEF Begin
<1>28. CASE UNCHANGED vars
  BY <1>28 DEF vars
<1> QED
  BY <1>1, <1>2, <1>3, <1>4, <1>5, <1>6, <1>7, <1>8, <1>9, <1>10, <1>11, <1>12, <1>13, <1>14,
     <1>15, <1>16, <1>17, <1>18, <1>19, <1>20, <1>21, <1>22, <1>23, <1>24, <1>25, <1>26, <1>27,
     <1>28 DEF Next, Import, Rollback, Others

(* An import changes nothing but what bears its number, and nothing before *)
(* its batch is ready.                                                     *)
LEMMA OwnIds ==
  ASSUME TypeInv, [Next]_vars
  PROVE  LET own == IF stage \in {"idle", "prepare"} THEN {} ELSE Of(attempt)
         IN /\ certs' \subseteq certs \cup own
            /\ lists' \subseteq lists \cup own
            /\ files' \subseteq files \cup own
            /\ \A id \in RouteIds : routes[id] = None /\ routes'[id] # None => id \in own
<1> DEFINE own == IF stage \in {"idle", "prepare"} THEN {} ELSE Of(attempt)
           Mono == /\ certs' \subseteq certs \cup own
                   /\ lists' \subseteq lists \cup own
                   /\ files' \subseteq files \cup own
                   /\ \A id \in RouteIds : routes[id] = None /\ routes'[id] # None => id \in own
<1> USE DEF tables
<1>1. CASE Prepare
  BY <1>1 DEF Prepare
<1>2. CASE PrepareRefuses
  BY <1>2 DEF PrepareRefuses
<1>3. ASSUME NEW c \in SourceCerts, IssueSucceeds(c) PROVE Mono
  BY <1>3, IdFacts DEF IssueSucceeds, Source
<1>4. ASSUME NEW c \in SourceCerts, IssueFails(c) PROVE Mono
  BY <1>4, IdFacts DEF IssueFails, Source
<1>5. ASSUME NEW c \in SourceCerts, ImportCertFails(c) PROVE Mono
  BY <1>5, IdFacts DEF ImportCertFails, Source
<1>6. CASE CertsDone
  BY <1>6 DEF CertsDone
<1>7. ASSUME NEW l \in SourceLists, CreateList(l) PROVE Mono
  BY <1>7, IdFacts DEF CreateList, Source
<1>8. CASE CopyFile
  BY <1>8, IdFacts DEF CopyFile, TypeInv, HandlerType, Source
<1>9. CASE CopyFails
  BY <1>9 DEF CopyFails
<1>10. CASE FinishList
  BY <1>10, IdFacts DEF FinishList, TypeInv, HandlerType, Source
<1>11. CASE ListsDone
  BY <1>11 DEF ListsDone
<1>12. ASSUME NEW r \in SourceRoutes, CreateRoute(r) PROVE Mono
  <2>1. Id(r) \in Of(attempt) /\ stage \notin {"idle", "prepare"}
    BY <1>12, IdFacts DEF CreateRoute, Source
  <2> QED BY <1>12, <2>1 DEF CreateRoute, TypeInv, RoutesType
<1>13. CASE CreateHosts
  <2>1. stage \notin {"idle", "prepare"}
    BY <1>13 DEF CreateHosts
  <2>2. \A id \in RouteIds : routes[id] = None /\ routes'[id] # None => id \in Of(attempt)
    BY <1>13, RouteIdFacts DEF CreateHosts, Of
  <2> QED BY <1>13, <2>1, <2>2 DEF CreateHosts
<1>14. CASE Activate
  BY <1>14 DEF Activate
<1>15. CASE ActivateFails
  BY <1>15 DEF ActivateFails
<1>16. CASE UndoHosts
  BY <1>16 DEF UndoHosts, TypeInv, RoutesType
<1>17. ASSUME NEW id \in Ids, UndoRoute(id) PROVE Mono
  BY <1>17 DEF UndoRoute, TypeInv, RoutesType
<1>18. ASSUME NEW id \in Ids, UndoList(id) PROVE Mono
  BY <1>18, UnreferencedFacts DEF UndoList
<1>19. ASSUME NEW id \in Ids, UndoCert(id) PROVE Mono
  BY <1>19, UnreferencedFacts DEF UndoCert
<1>20. CASE UndoRoutesDone
  BY <1>20 DEF UndoRoutesDone
<1>21. CASE UndoListsDone
  BY <1>21 DEF UndoListsDone
<1>22. CASE UndoApply
  BY <1>22 DEF UndoApply
<1>23. CASE OtherApply
  BY <1>23 DEF OtherApply
<1>24. ASSUME NEW id \in Ids, AssignMine(id) PROVE Mono
  BY <1>24 DEF AssignMine, TypeInv, RoutesType
<1>25. ASSUME NEW id \in Ids, DeleteList(id) PROVE Mono
  BY <1>25 DEF DeleteList
<1>26. CASE Crash
  BY <1>26 DEF Crash
<1>27. ASSUME NEW selected \in SUBSET SourceHosts, Begin(selected) PROVE Mono
  BY <1>27 DEF Begin
<1>28. CASE UNCHANGED vars
  BY <1>28 DEF vars
<1> QED
  BY <1>1, <1>2, <1>3, <1>4, <1>5, <1>6, <1>7, <1>8, <1>9, <1>10, <1>11, <1>12, <1>13, <1>14,
     <1>15, <1>16, <1>17, <1>18, <1>19, <1>20, <1>21, <1>22, <1>23, <1>24, <1>25, <1>26, <1>27,
     <1>28 DEF Next, Import, Rollback, Others

LEMMA NothingStays ==
  ASSUME TypeInv, [Next]_vars, NEW n, Nothing(n), n # attempt \/ stage \in {"idle", "prepare"}
  PROVE  Nothing(n)'
<1>1. \A id \in RouteIds \cap Of(n) : conf'[id] = None
  BY ConfSteps, RenderedFacts DEF Nothing
<1>2. /\ certs' \cap Of(n) = {} /\ lists' \cap Of(n) = {} /\ files' \cap Of(n) = {}
      /\ \A id \in RouteIds \cap Of(n) : routes'[id] = None
  BY OwnIds DEF Nothing, Of
<1> QED BY <1>1, <1>2 DEF Nothing

LEMMA AttemptSteps ==
  ASSUME [Next]_vars
  PROVE  \/ attempt' = attempt /\ (stage' = "prepare" => stage = "prepare")
         \/ /\ attempt' = attempt + 1 /\ attempt < MaxImports
            /\ stage = "idle" /\ stage' = "prepare"
<1> DEFINE Goal == \/ attempt' = attempt /\ (stage' = "prepare" => stage = "prepare")
                   \/ /\ attempt' = attempt + 1 /\ attempt < MaxImports
                      /\ stage = "idle" /\ stage' = "prepare"
<1>1. CASE Prepare
  BY <1>1 DEF Prepare
<1>2. CASE PrepareRefuses
  BY <1>2 DEF PrepareRefuses
<1>3. ASSUME NEW c \in SourceCerts, IssueSucceeds(c) PROVE Goal
  BY <1>3 DEF IssueSucceeds
<1>4. ASSUME NEW c \in SourceCerts, IssueFails(c) PROVE Goal
  BY <1>4 DEF IssueFails
<1>5. ASSUME NEW c \in SourceCerts, ImportCertFails(c) PROVE Goal
  BY <1>5 DEF ImportCertFails
<1>6. CASE CertsDone
  BY <1>6 DEF CertsDone
<1>7. ASSUME NEW l \in SourceLists, CreateList(l) PROVE Goal
  BY <1>7 DEF CreateList
<1>8. CASE CopyFile
  BY <1>8 DEF CopyFile
<1>9. CASE CopyFails
  BY <1>9 DEF CopyFails
<1>10. CASE FinishList
  BY <1>10 DEF FinishList
<1>11. CASE ListsDone
  BY <1>11 DEF ListsDone
<1>12. ASSUME NEW r \in SourceRoutes, CreateRoute(r) PROVE Goal
  BY <1>12 DEF CreateRoute
<1>13. CASE CreateHosts
  BY <1>13 DEF CreateHosts
<1>14. CASE Activate
  BY <1>14 DEF Activate
<1>15. CASE ActivateFails
  BY <1>15 DEF ActivateFails
<1>16. CASE UndoHosts
  BY <1>16 DEF UndoHosts
<1>17. ASSUME NEW id \in Ids, UndoRoute(id) PROVE Goal
  BY <1>17 DEF UndoRoute
<1>18. ASSUME NEW id \in Ids, UndoList(id) PROVE Goal
  BY <1>18 DEF UndoList
<1>19. ASSUME NEW id \in Ids, UndoCert(id) PROVE Goal
  BY <1>19 DEF UndoCert
<1>20. CASE UndoRoutesDone
  BY <1>20 DEF UndoRoutesDone
<1>21. CASE UndoListsDone
  BY <1>21 DEF UndoListsDone
<1>22. CASE UndoApply
  BY <1>22 DEF UndoApply
<1>23. CASE OtherApply
  BY <1>23 DEF OtherApply
<1>24. ASSUME NEW id \in Ids, AssignMine(id) PROVE Goal
  BY <1>24 DEF AssignMine
<1>25. ASSUME NEW id \in Ids, DeleteList(id) PROVE Goal
  BY <1>25 DEF DeleteList
<1>26. CASE Crash
  BY <1>26 DEF Crash
<1>27. ASSUME NEW selected \in SUBSET SourceHosts, Begin(selected) PROVE Goal
  BY <1>27 DEF Begin
<1>28. CASE UNCHANGED vars
  BY <1>28 DEF vars
<1> QED
  BY <1>1, <1>2, <1>3, <1>4, <1>5, <1>6, <1>7, <1>8, <1>9, <1>10, <1>11, <1>12, <1>13, <1>14,
     <1>15, <1>16, <1>17, <1>18, <1>19, <1>20, <1>21, <1>22, <1>23, <1>24, <1>25, <1>26, <1>27,
     <1>28 DEF Next, Import, Rollback, Others

LEMMA UntouchedStep ==
  ASSUME TypeInv, Untouched, [Next]_vars
  PROVE  Untouched'
<1>1. attempt \in Nat /\ attempt' \in Nat
  BY AttemptSteps, SourceAssumption DEF TypeInv, HandlerType
<1>2. ASSUME NEW n \in 1..MaxImports, n > attempt' PROVE Nothing(n)'
  <2>1. n \in Nat /\ n > attempt /\ n # attempt
    BY <1>1, <1>2, AttemptSteps, SourceAssumption
  <2> QED BY <2>1, NothingStays DEF Untouched
<1>3. ASSUME stage' = "prepare", NEW n, n = attempt' PROVE Nothing(n)'
  <2>1. CASE stage = "prepare" /\ n = attempt
    BY <2>1, NothingStays DEF Untouched
  <2>2. CASE n = attempt + 1 /\ attempt < MaxImports
    <3>1. n \in 1..MaxImports /\ n > attempt /\ n # attempt
      BY <1>1, <2>2, SourceAssumption
    <3> QED BY <3>1, NothingStays DEF Untouched
  <2> QED BY <1>3, <2>1, <2>2, AttemptSteps
<1>4. stage' = "prepare" => Nothing(attempt)'
  BY <1>3 DEF Nothing, Of
<1> QED BY <1>2, <1>4 DEF Untouched

LEMMA RecordedStep ==
  ASSUME TypeInv, Untouched, Recorded, [Next]_vars
  PROVE  Recorded'
<1> USE DEF Recorded, Routed, Writing, Undoing, tables, local, Of
<1>1. CASE Prepare
  BY <1>1 DEF Prepare, Untouched, Nothing, NoRecord
<1>2. CASE PrepareRefuses
  BY <1>2 DEF PrepareRefuses
<1>3. ASSUME NEW c \in SourceCerts, IssueSucceeds(c) PROVE Recorded'
  BY <1>3 DEF IssueSucceeds, RecordCert, TypeInv, HandlerType, RecordType
<1>4. ASSUME NEW c \in SourceCerts, IssueFails(c) PROVE Recorded'
  BY <1>4 DEF IssueFails, RecordCert, TypeInv, HandlerType, RecordType
<1>5. ASSUME NEW c \in SourceCerts, ImportCertFails(c) PROVE Recorded'
  BY <1>5 DEF ImportCertFails, RecordCert, TypeInv, HandlerType, RecordType
<1>6. CASE CertsDone
  BY <1>6 DEF CertsDone
<1>7. ASSUME NEW l \in SourceLists, CreateList(l) PROVE Recorded'
  BY <1>7 DEF CreateList, TypeInv, HandlerType, RecordType
<1>8. CASE CopyFile
  BY <1>8 DEF CopyFile, TypeInv, HandlerType, RecordType
<1>9. CASE CopyFails
  BY <1>9 DEF CopyFails
<1>10. CASE FinishList
  BY <1>10 DEF FinishList, TypeInv, HandlerType, RecordType
<1>11. CASE ListsDone
  BY <1>11 DEF ListsDone
<1>12. ASSUME NEW r \in SourceRoutes, CreateRoute(r) PROVE Recorded'
  BY <1>12, RouteIdFacts DEF CreateRoute, TypeInv, RoutesType, HandlerType, RecordType
<1>13. CASE CreateHosts
  <2>1. CASE \A h \in batch : Insertable(h)
    <3>1. /\ stage = "routes" /\ stage' = "apply"
          /\ made' = [made EXCEPT !.hosts = {Id(h) : h \in batch}]
          /\ UNCHANGED <<attempt, certs, lists, files>>
      BY <1>13, <2>1 DEF CreateHosts
    <3>2. /\ made'.certs = made.certs /\ made'.lists = made.lists /\ made'.files = made.files
          /\ made'.routes = made.routes /\ made'.hosts = {Id(h) : h \in batch}
      BY <3>1 DEF TypeInv, HandlerType, RecordType
    <3>3. ASSUME NEW id \in RouteIds, id \in Of(attempt), routes'[id] # None
          PROVE  id \in made'.routes \cup made'.hosts
      <4>1. id # Mine /\ id[1] = attempt /\ id = Id(id[2])
        BY <3>1, <3>3, RouteIdFacts, IdFacts
      <4>2. CASE id[2] \in batch
        BY <3>2, <4>1, <4>2
      <4>3. CASE id[2] \notin batch
        <5>1. routes'[id] = routes[id]
          BY <1>13, <2>1, <3>3, <4>1, <4>3 DEF CreateHosts
        <5>2. id \in made.routes \cup made.hosts
          BY <3>1, <3>3, <5>1
        <5> QED BY <3>1, <3>2, <5>2
      <4> QED BY <4>2, <4>3
    <3> QED BY <3>1, <3>2, <3>3
  <2> QED BY <1>13, <2>1 DEF CreateHosts
<1>14. CASE Activate
  BY <1>14 DEF Activate
<1>15. CASE ActivateFails
  BY <1>15 DEF ActivateFails
<1>16. CASE UndoHosts
  BY <1>16, RouteIdFacts DEF UndoHosts, TypeInv, RoutesType, HandlerType, RecordType
<1>17. ASSUME NEW id \in Ids, UndoRoute(id) PROVE Recorded'
  BY <1>17, RouteIdFacts DEF UndoRoute, TypeInv, RoutesType, HandlerType, RecordType
<1>18. ASSUME NEW id \in Ids, UndoList(id) PROVE Recorded'
  BY <1>18, UnreferencedFacts DEF UndoList
<1>19. ASSUME NEW id \in Ids, UndoCert(id) PROVE Recorded'
  BY <1>19, UnreferencedFacts DEF UndoCert
<1>20. CASE UndoRoutesDone
  BY <1>20 DEF UndoRoutesDone
<1>21. CASE UndoListsDone
  BY <1>21 DEF UndoListsDone
<1>22. CASE UndoApply
  BY <1>22 DEF UndoApply
<1>23. CASE OtherApply
  BY <1>23 DEF OtherApply
<1>24. ASSUME NEW id \in Ids, AssignMine(id) PROVE Recorded'
  BY <1>24, RouteIdFacts DEF AssignMine, TypeInv, RoutesType, HandlerType, RecordType
<1>25. ASSUME NEW id \in Ids, DeleteList(id) PROVE Recorded'
  BY <1>25 DEF DeleteList
<1>26. CASE Crash
  BY <1>26 DEF Crash
<1>27. ASSUME NEW selected \in SUBSET SourceHosts, Begin(selected) PROVE Recorded'
  BY <1>27 DEF Begin, NoRecord
<1>28. CASE UNCHANGED vars
  BY <1>28 DEF vars
<1> QED
  BY <1>1, <1>2, <1>3, <1>4, <1>5, <1>6, <1>7, <1>8, <1>9, <1>10, <1>11, <1>12, <1>13, <1>14,
     <1>15, <1>16, <1>17, <1>18, <1>19, <1>20, <1>21, <1>22, <1>23, <1>24, <1>25, <1>26, <1>27,
     <1>28 DEF Next, Import, Rollback, Others

LEMMA SameIds ==
  ASSUME attempt' = attempt, failed' = failed
  PROVE  \A x : Id(x)' = Id(x) /\ Input(x)' = Input(x)
BY DEF Id, Input, MapCert

LEMMA WrittenStep ==
  ASSUME TypeInv, Recorded, Written, [Next]_vars
  PROVE  Written'
<1> USE DEF Written, Writing, tables, local
<1>1. CASE Prepare
  BY <1>1 DEF Prepare
<1>2. CASE PrepareRefuses
  BY <1>2, SameIds DEF PrepareRefuses, Undoing
<1>3. ASSUME NEW c \in SourceCerts, IssueSucceeds(c) PROVE Written'
  BY <1>3, SameIds DEF IssueSucceeds
<1>4. ASSUME NEW c \in SourceCerts, IssueFails(c) PROVE Written'
  BY <1>4 DEF IssueFails, Id
<1>5. ASSUME NEW c \in SourceCerts, ImportCertFails(c) PROVE Written'
  BY <1>5, SameIds DEF ImportCertFails
<1>6. CASE CertsDone
  <2>1. stage = "certs" /\ stage' = "lists" /\ todo = {} /\ UNCHANGED <<tables, attempt, failed>>
    BY <1>6 DEF CertsDone
  <2>2. \A c \in SourceCerts \ failed : Id(c) \in material
    BY <2>1
  <2>3. \A l \in WithLogin : Id(l) \notin lists
    <3>1. Of(attempt) \cap lists = {}
      BY <2>1 DEF Recorded
    <3>2. WithLogin \subseteq Source
      BY SourceAssumption DEF Source
    <3> QED BY <2>1, <3>1, <3>2, IdFacts
  <2> QED BY <2>1, <2>2, <2>3, SameIds
<1>7. ASSUME NEW l \in SourceLists, CreateList(l) PROVE Written'
  BY <1>7, SameIds DEF CreateList, Id
<1>8. CASE CopyFile
  BY <1>8, SameIds DEF CopyFile
<1>9. CASE CopyFails
  BY <1>9, SameIds DEF CopyFails
<1>10. CASE FinishList
  BY <1>10, SameIds DEF FinishList
<1>11. CASE ListsDone
  BY <1>11, SameIds DEF ListsDone
<1>12. ASSUME NEW r \in SourceRoutes, CreateRoute(r) PROVE Written'
  BY <1>12, SameIds, IdFacts DEF CreateRoute, TypeInv, RoutesType, HandlerType, TodoType
<1>13. CASE CreateHosts
  BY <1>13, SameIds, IdFacts DEF CreateHosts, TypeInv, RoutesType, HandlerType, TodoType
<1>14. CASE Activate
  BY <1>14, SameIds DEF Activate, Undoing
<1>15. CASE ActivateFails
  BY <1>15, SameIds DEF ActivateFails, Undoing
<1>16. CASE UndoHosts
  BY <1>16, SameIds DEF UndoHosts, Undoing
<1>17. ASSUME NEW id \in Ids, UndoRoute(id) PROVE Written'
  BY <1>17, SameIds DEF UndoRoute, Undoing
<1>18. ASSUME NEW id \in Ids, UndoList(id) PROVE Written'
  BY <1>18, SameIds DEF UndoList, Undoing
<1>19. ASSUME NEW id \in Ids, UndoCert(id) PROVE Written'
  BY <1>19, SameIds DEF UndoCert, Undoing
<1>20. CASE UndoRoutesDone
  BY <1>20, SameIds DEF UndoRoutesDone, Undoing
<1>21. CASE UndoListsDone
  BY <1>21, SameIds DEF UndoListsDone, Undoing
<1>22. CASE UndoApply
  BY <1>22, SameIds DEF UndoApply, Undoing
<1>23. CASE OtherApply
  BY <1>23, SameIds DEF OtherApply
<1>24. ASSUME NEW id \in Ids, AssignMine(id) PROVE Written'
  BY <1>24, SameIds, IdFacts DEF AssignMine, TypeInv, RoutesType, HandlerType, TodoType
<1>25. ASSUME NEW id \in Ids, DeleteList(id) PROVE Written'
  BY <1>25, SameIds DEF DeleteList
<1>26. CASE Crash
  BY <1>26, SameIds DEF Crash, Undoing
<1>27. ASSUME NEW selected \in SUBSET SourceHosts, Begin(selected) PROVE Written'
  BY <1>27, SameIds DEF Begin, Undoing
<1>28. CASE UNCHANGED vars
  BY <1>28, SameIds DEF vars
<1> QED
  BY <1>1, <1>2, <1>3, <1>4, <1>5, <1>6, <1>7, <1>8, <1>9, <1>10, <1>11, <1>12, <1>13, <1>14,
     <1>15, <1>16, <1>17, <1>18, <1>19, <1>20, <1>21, <1>22, <1>23, <1>24, <1>25, <1>26, <1>27,
     <1>28 DEF Next, Import, Rollback, Others

(* An error that meets the rollback is remembered.                         *)
LEMMA DamageFacts ==
  ASSUME NEW what, Damage(what), attempt' = attempt
  PROVE  ~Undamaged'
<1>1. <<attempt, what>> \in damaged'
  BY DEF Damage
<1>2. <<attempt, what>>[1] = attempt
  OBVIOUS
<1> QED BY <1>1, <1>2 DEF Undamaged

LEMMA StillUndamaged ==
  ASSUME [Next]_vars, attempt' = attempt
  PROVE  Undamaged' => Undamaged
BY ConfSteps DEF Undamaged

LEMMA UndoneStep ==
  ASSUME TypeInv, Untouched, Recorded, Undone, [Next]_vars
  PROVE  Undone'
<1> USE DEF Undone, Undamaged, Routed, Writing, Undoing, tables, local, world, Of
<1>1. CASE Prepare
  BY <1>1 DEF Prepare
<1>2. CASE PrepareRefuses
  <2>1. Nothing(attempt)'
    <3>1. stage = "prepare" /\ attempt' = attempt
      BY <1>2 DEF PrepareRefuses
    <3>2. PICK n : n = attempt
      OBVIOUS
    <3>3. Nothing(n)'
      BY <3>1, <3>2, NothingStays DEF Untouched
    <3> QED BY <3>1, <3>2, <3>3 DEF Nothing
  <2> QED BY <1>2, <2>1 DEF PrepareRefuses
<1>3. ASSUME NEW c \in SourceCerts, IssueSucceeds(c) PROVE Undone'
  BY <1>3 DEF IssueSucceeds
<1>4. ASSUME NEW c \in SourceCerts, IssueFails(c) PROVE Undone'
  BY <1>4 DEF IssueFails
<1>5. ASSUME NEW c \in SourceCerts, ImportCertFails(c) PROVE Undone'
  BY <1>5 DEF ImportCertFails
<1>6. CASE CertsDone
  BY <1>6 DEF CertsDone
<1>7. ASSUME NEW l \in SourceLists, CreateList(l) PROVE Undone'
  BY <1>7 DEF CreateList
<1>8. CASE CopyFile
  BY <1>8 DEF CopyFile
<1>9. CASE CopyFails
  BY <1>9 DEF CopyFails
<1>10. CASE FinishList
  BY <1>10 DEF FinishList
<1>11. CASE ListsDone
  BY <1>11 DEF ListsDone
<1>12. ASSUME NEW r \in SourceRoutes, CreateRoute(r) PROVE Undone'
  BY <1>12 DEF CreateRoute
<1>13. CASE CreateHosts
  BY <1>13 DEF CreateHosts
<1>14. CASE Activate
  BY <1>14 DEF Activate
<1>15. CASE ActivateFails
  BY <1>15 DEF ActivateFails
<1>16. CASE UndoHosts
  <2>1. /\ stage = "undoHosts" /\ stage' = "undoRoutes" /\ attempt' = attempt
        /\ todo' = made.routes /\ UNCHANGED <<certs, lists, files, made>>
    BY <1>16 DEF UndoHosts
  <2>2. CASE routes' = [id \in RouteIds |-> IF id \in made.hosts THEN None ELSE routes[id]]
    <3>1. ASSUME NEW id \in RouteIds, id \in Of(attempt), routes'[id] # None
          PROVE  id \in made.routes /\ id[2] \notin SourceHosts
      <4>1. id \notin made.hosts /\ routes[id] # None
        BY <2>2, <3>1
      <4>2. id \in made.routes
        BY <2>1, <3>1, <4>1 DEF Recorded
      <4>3. id[2] \in SourceRoutes
        BY <4>2 DEF TypeInv, HandlerType, RecordType
      <4> QED BY <4>2, <4>3, SourceAssumption
    <3> QED BY <2>1, <3>1
  <2>3. CASE Damage("hosts") /\ UNCHANGED routes
    <3>1. ~Undamaged' /\ <<attempt, "hosts">> \in damaged'
      BY <2>1, <2>3, DamageFacts DEF Damage
    <3> QED BY <2>1, <3>1
  <2> QED BY <1>16, <2>2, <2>3 DEF UndoHosts
<1>17. ASSUME NEW id \in Ids, UndoRoute(id) PROVE Undone'
  <2>1. /\ stage = "undoRoutes" /\ stage' = "undoRoutes" /\ attempt' = attempt
        /\ todo' = todo \ {id} /\ damaged \subseteq damaged'
        /\ Undamaged' => routes' = [routes EXCEPT ![id] = None] /\ Undamaged
        /\ routes' \in {routes, [routes EXCEPT ![id] = None]}
    BY <1>17, DamageFacts, StillUndamaged, ConfSteps DEF UndoRoute
  <2>2. Routed(attempt)' \subseteq Routed(attempt) /\ (Undamaged' => id \notin Routed(attempt)')
    BY <2>1 DEF TypeInv, RoutesType
  <2> QED BY <2>1, <2>2
<1>18. ASSUME NEW id \in Ids, UndoList(id) PROVE Undone'
  <2>1. /\ stage = "undoLists" /\ stage' = "undoLists" /\ attempt' = attempt
        /\ todo' = todo \ {id} /\ damaged \subseteq damaged'
        /\ Undamaged' => lists' = lists \ {id} /\ Undamaged
        /\ routes' \in {routes, Unreferenced({id})}
    BY <1>18, DamageFacts, StillUndamaged, ConfSteps DEF UndoList
  <2>2. Routed(attempt)' \subseteq Routed(attempt)
    BY <2>1, UnreferencedFacts
  <2> QED BY <2>1, <2>2
<1>19. ASSUME NEW id \in Ids, UndoCert(id) PROVE Undone'
  <2>1. /\ stage = "undoCerts" /\ stage' = "undoCerts" /\ attempt' = attempt
        /\ todo' = todo \ {id} /\ damaged \subseteq damaged' /\ UNCHANGED <<lists, files>>
        /\ Undamaged' => certs' = certs \ {id} /\ Undamaged
        /\ routes' \in {routes, Unreferenced({id})}
    BY <1>19, DamageFacts, StillUndamaged, ConfSteps DEF UndoCert
  <2>2. Routed(attempt)' \subseteq Routed(attempt)
    BY <2>1, UnreferencedFacts
  <2> QED BY <2>1, <2>2
<1>20. CASE UndoRoutesDone
  BY <1>20 DEF UndoRoutesDone, Recorded
<1>21. CASE UndoListsDone
  BY <1>21 DEF UndoListsDone, Recorded
<1>22. CASE UndoApply
  <2>1. /\ stage = "undoCerts" /\ stage' = "idle" /\ todo = {}
        /\ UNCHANGED <<tables, attempt>>
    BY <1>22 DEF UndoApply
  <2>2. CASE ApplyOk /\ UNCHANGED damaged
    <3>1. ASSUME Undamaged PROVE Nothing(attempt)'
      <4>1. Routed(attempt) = {} /\ Of(attempt) \cap UNION {certs, lists, files} = {}
        BY <2>1, <3>1
      <4>2. \A id \in RouteIds \cap Of(attempt) : routes[id] = None /\ Rendered[id] = None
        BY <4>1, RenderedFacts
      <4> QED BY <2>1, <2>2, <4>1, <4>2 DEF Nothing, ApplyOk
    <3> QED BY <2>1, <2>2, <3>1
  <2>3. CASE damaged' = damaged \cup {<<attempt, "apply">>}
    <3>1. ~Undamaged'
      <4>1. <<attempt, "apply">>[1] = attempt'
        BY <2>1
      <4> QED BY <2>3, <4>1
    <3> QED BY <2>1, <3>1
  <2> QED BY <1>22, <2>2, <2>3 DEF UndoApply
<1>23. CASE OtherApply
  <2>1. ASSUME stage = "idle", outcome = "failed", Undamaged PROVE Nothing(attempt)'
    <3>1. attempt' = attempt
      BY <1>23 DEF OtherApply
    <3>2. PICK n : n = attempt
      OBVIOUS
    <3>3. Nothing(n)'
      BY <2>1, <3>2, NothingStays
    <3> QED BY <3>1, <3>2, <3>3 DEF Nothing
  <2> QED BY <1>23, <2>1 DEF OtherApply
<1>24. ASSUME NEW id \in Ids, AssignMine(id) PROVE Undone'
  <2>1. ASSUME stage = "idle", outcome = "failed", Undamaged PROVE Nothing(attempt)'
    <3>1. attempt' = attempt
      BY <1>24 DEF AssignMine
    <3>2. PICK n : n = attempt
      OBVIOUS
    <3>3. Nothing(n)'
      BY <2>1, <3>2, NothingStays
    <3> QED BY <3>1, <3>2, <3>3 DEF Nothing
  <2> QED BY <1>24, <2>1, RouteIdFacts DEF AssignMine, TypeInv, RoutesType
<1>25. ASSUME NEW id \in Ids, DeleteList(id) PROVE Undone'
  <2>1. ASSUME stage = "idle", outcome = "failed", Undamaged PROVE Nothing(attempt)'
    <3>1. attempt' = attempt
      BY <1>25 DEF DeleteList
    <3>2. PICK n : n = attempt
      OBVIOUS
    <3>3. Nothing(n)'
      BY <2>1, <3>2, NothingStays
    <3> QED BY <3>1, <3>2, <3>3 DEF Nothing
  <2> QED BY <1>25, <2>1 DEF DeleteList
<1>26. CASE Crash
  <2>1. stage' = "idle" /\ ~Undamaged'
    BY <1>26, DamageFacts DEF Crash
  <2> QED BY <2>1
<1>27. ASSUME NEW selected \in SUBSET SourceHosts, Begin(selected) PROVE Undone'
  BY <1>27 DEF Begin
<1>28. CASE UNCHANGED vars
  BY <1>28 DEF vars, Nothing
<1> QED
  BY <1>1, <1>2, <1>3, <1>4, <1>5, <1>6, <1>7, <1>8, <1>9, <1>10, <1>11, <1>12, <1>13, <1>14,
     <1>15, <1>16, <1>17, <1>18, <1>19, <1>20, <1>21, <1>22, <1>23, <1>24, <1>25, <1>26, <1>27,
     <1>28 DEF Next, Import, Rollback, Others

(* Whoever calls Apply, and whenever, renders rows that are guarded.       *)
LEMMA ConfGuardedStep ==
  ASSUME TypeInv, RowsGuarded, ImportedHostsAreGuarded, [Next]_vars
  PROVE  ImportedHostsAreGuarded'
<1> SUFFICES ASSUME NEW id \in RouteIds \ {Mine}, conf'[id] # None, id[2] \in SourceHosts,
                    ListOf[id[2]] # None, <<id[1], "hosts">> \notin damaged'
             PROVE  conf'[id].guarded
  BY DEF ImportedHostsAreGuarded
<1>1. <<id[1], "hosts">> \notin damaged
  BY ConfSteps
<1>2. CASE conf' = conf
  BY <1>1, <1>2 DEF ImportedHostsAreGuarded
<1>3. CASE conf' = Rendered
  <2>1. routes[id] # None /\ conf'[id].guarded = (routes[id].list # None /\ Guards(routes[id].list))
    BY <1>3, RenderedFacts
  <2>2. routes[id].list \in Of(id[1]) /\ Guards(routes[id].list)
    BY <1>1, <2>1 DEF RowsGuarded
  <2>3. routes[id].list # None
    BY <2>2, SourceAssumption DEF Of
  <2> QED BY <2>1, <2>2, <2>3
<1> QED BY <1>2, <1>3, ConfSteps

LEMMA RowsGuardedStep ==
  ASSUME TypeInv, Recorded, Written, Undone, RowsGuarded, [Next]_vars
  PROVE  RowsGuarded'
<1> USE DEF RowsGuarded, Guards, tables, world
<1>1. CASE Prepare
  BY <1>1 DEF Prepare
<1>2. CASE PrepareRefuses
  BY <1>2 DEF PrepareRefuses
<1>3. ASSUME NEW c \in SourceCerts, IssueSucceeds(c) PROVE RowsGuarded'
  BY <1>3 DEF IssueSucceeds
<1>4. ASSUME NEW c \in SourceCerts, IssueFails(c) PROVE RowsGuarded'
  BY <1>4 DEF IssueFails
<1>5. ASSUME NEW c \in SourceCerts, ImportCertFails(c) PROVE RowsGuarded'
  BY <1>5 DEF ImportCertFails
<1>6. CASE CertsDone
  BY <1>6 DEF CertsDone
<1>7. ASSUME NEW l \in SourceLists, CreateList(l) PROVE RowsGuarded'
  BY <1>7 DEF CreateList
<1>8. CASE CopyFile
  BY <1>8 DEF CopyFile
<1>9. CASE CopyFails
  BY <1>9 DEF CopyFails
<1>10. CASE FinishList
  BY <1>10 DEF FinishList
<1>11. CASE ListsDone
  BY <1>11 DEF ListsDone
<1>12. ASSUME NEW r \in SourceRoutes, CreateRoute(r) PROVE RowsGuarded'
  <2>1. stage # "idle" /\ Id(r)[2] \notin SourceHosts /\ Id(r) # Mine
    BY <1>12, IdFacts, SourceAssumption DEF CreateRoute
  <2> QED BY <1>12, <2>1 DEF CreateRoute, TypeInv, RoutesType
<1>13. CASE CreateHosts
  <2>1. CASE \A h \in batch : Insertable(h)
    <3>1. stage = "routes" /\ UNCHANGED <<lists, logins, damaged>> /\ batch \subseteq SourceHosts
      BY <1>13, <2>1 DEF CreateHosts, TypeInv, HandlerType
    <3>2. ASSUME NEW id \in RouteIds \ {Mine}, id[1] = attempt, id[2] \in batch,
                 ListOf[id[2]] # None
          PROVE  Input(id[2]).list \in Of(id[1]) /\ Guards(Input(id[2]).list)
      <4>1. id[2] \in SourceHosts /\ ListOf[id[2]] \in SourceLists
        BY <3>1, <3>2, InputFacts
      <4>2. Input(id[2]).list = Id(ListOf[id[2]]) /\ Id(ListOf[id[2]]) \in lists
        BY <2>1, <3>1, <3>2, <4>1, InputFacts DEF Insertable
      <4>3. Id(ListOf[id[2]]) \in Of(attempt) /\ Id(ListOf[id[2]])[2] = ListOf[id[2]]
        BY <3>1, <4>1, IdFacts DEF Source
      <4>4. ListOf[id[2]] \in WithLogin => Id(ListOf[id[2]]) \in logins
        BY <3>1, <4>2 DEF Written, Writing
      <4> QED BY <3>2, <4>2, <4>3, <4>4
    <3> QED BY <1>13, <2>1, <3>1, <3>2 DEF CreateHosts
  <2> QED BY <1>13, <2>1 DEF CreateHosts
<1>14. CASE Activate
  BY <1>14 DEF Activate
<1>15. CASE ActivateFails
  BY <1>15 DEF ActivateFails
<1>16. CASE UndoHosts
  BY <1>16 DEF UndoHosts, Damage
<1>17. ASSUME NEW id \in Ids, UndoRoute(id) PROVE RowsGuarded'
  BY <1>17, ConfSteps DEF UndoRoute, TypeInv, RoutesType
<1>18. ASSUME NEW id \in Ids, UndoList(id) PROVE RowsGuarded'
  <2>1. /\ stage = "undoLists" /\ damaged \subseteq damaged' /\ id \in Of(attempt)
        /\ \/ /\ lists' = lists \ {id} /\ logins' = logins \ {id}
              /\ routes' = Unreferenced({id})
           \/ UNCHANGED <<lists, logins, routes>>
    BY <1>18, ConfSteps DEF UndoList, TypeInv, HandlerType, TodoType, RecordType
  <2>2. ASSUME NEW i \in RouteIds \ {Mine}, routes[i] # None, i[2] \in SourceHosts,
               <<i[1], "hosts">> \notin damaged
        PROVE  i[1] # attempt
    <3> SUFFICES ASSUME i[1] = attempt PROVE FALSE
      OBVIOUS
    <3>1. i \in Routed(attempt)
      BY <2>2, RouteIdFacts DEF Routed, Of
    <3> QED BY <2>1, <2>2, <3>1 DEF Undone, Undoing
  <2>3. \A i : i # attempt => id \notin Of(i)
    BY <2>1 DEF Of
  <2> QED BY <2>1, <2>2, <2>3, UnreferencedFacts
<1>19. ASSUME NEW id \in Ids, UndoCert(id) PROVE RowsGuarded'
  <2>1. /\ stage = "undoCerts" /\ damaged \subseteq damaged' /\ id \in Of(attempt)
        /\ \/ routes' = Unreferenced({id})
           \/ UNCHANGED routes
        /\ UNCHANGED <<lists, logins>>
    BY <1>19, ConfSteps DEF UndoCert, TypeInv, HandlerType, TodoType, RecordType
  <2>2. ASSUME NEW i \in RouteIds \ {Mine}, routes[i] # None, i[2] \in SourceHosts,
               <<i[1], "hosts">> \notin damaged
        PROVE  i[1] # attempt
    <3> SUFFICES ASSUME i[1] = attempt PROVE FALSE
      OBVIOUS
    <3>1. i \in Routed(attempt)
      BY <2>2, RouteIdFacts DEF Routed, Of
    <3> QED BY <2>1, <2>2, <3>1 DEF Undone, Undoing
  <2>3. \A i : i # attempt => id \notin Of(i)
    BY <2>1 DEF Of
  <2> QED BY <2>1, <2>2, <2>3, UnreferencedFacts
<1>20. CASE UndoRoutesDone
  BY <1>20 DEF UndoRoutesDone
<1>21. CASE UndoListsDone
  BY <1>21 DEF UndoListsDone
<1>22. CASE UndoApply
  BY <1>22 DEF UndoApply
<1>23. CASE OtherApply
  BY <1>23 DEF OtherApply
<1>24. ASSUME NEW id \in Ids, AssignMine(id) PROVE RowsGuarded'
  BY <1>24 DEF AssignMine, TypeInv, RoutesType
<1>25. ASSUME NEW id \in Ids, DeleteList(id) PROVE RowsGuarded'
  BY <1>25 DEF DeleteList
<1>26. CASE Crash
  BY <1>26 DEF Crash, Damage
<1>27. ASSUME NEW selected \in SUBSET SourceHosts, Begin(selected) PROVE RowsGuarded'
  BY <1>27 DEF Begin
<1>28. CASE UNCHANGED vars
  BY <1>28 DEF vars
<1> QED
  BY <1>1, <1>2, <1>3, <1>4, <1>5, <1>6, <1>7, <1>8, <1>9, <1>10, <1>11, <1>12, <1>13, <1>14,
     <1>15, <1>16, <1>17, <1>18, <1>19, <1>20, <1>21, <1>22, <1>23, <1>24, <1>25, <1>26, <1>27,
     <1>28 DEF Next, Import, Rollback, Others

-----------------------------------------------------------------------------
(* The theorems. *)

LEMMA InitiallyTrue == Init => ImportInv
<1> SUFFICES ASSUME Init PROVE ImportInv
  OBVIOUS
<1> DEFINE mine == [cert |-> None, list |-> None, forced |-> FALSE]
<1>1. mine \in Route /\ mine # None
  <2>1. mine \in Route
    BY DEF Route, Refs
  <2> QED BY <2>1, SourceAssumption
<1>2. /\ routes \in [RouteIds -> Route \cup {None}]
      /\ routes[Mine] = mine /\ \A id \in RouteIds \ {Mine} : routes[id] = None
  BY <1>1, RouteIdFacts DEF Init
<1>3. stage = "idle" /\ todo = {} /\ attempt = 0 /\ made = NoRecord /\ attempt \in 0..MaxImports
  BY SourceAssumption DEF Init
<1>4. HandlerType
  BY <1>3 DEF Init, HandlerType, TodoType, RecordType, NoRecord, Stages
<1>5. TablesType
  BY DEF Init, TablesType
<1>6. conf \in [RouteIds -> Served \cup {None}] /\ \A id \in RouteIds \ {Mine} : conf[id] = None
  <2> DEFINE new(id) == [cert |-> routes[id].cert,
                         guarded |-> routes[id].list # None /\ Guards(routes[id].list)]
  <2>1. new(Mine) \in Served
    BY <1>2 DEF Served, Refs
  <2>2. conf = [id \in RouteIds |-> IF routes[id] = None THEN None ELSE new(id)]
    BY DEF Init, Rendered
  <2> HIDE DEF new
  <2> QED BY <1>1, <1>2, <2>1, <2>2
<1>7. TypeInv
  BY <1>1, <1>2, <1>4, <1>5, <1>6 DEF TypeInv, RoutesType
<1>8. ForeignKeys
  BY <1>2 DEF ForeignKeys
<1>9. \A n : Nothing(n)
  BY <1>2, <1>6, RouteIdFacts DEF Nothing, Init
<1>10. Untouched /\ Recorded /\ Written
  BY <1>3, <1>9 DEF Untouched, Recorded, Written, Writing, Undoing
<1>11. Undone
  BY <1>3, <1>9 DEF Undone, Undoing
<1>12. RowsGuarded /\ ImportedHostsAreGuarded
  BY <1>2, <1>6 DEF RowsGuarded, ImportedHostsAreGuarded
<1> QED BY <1>7, <1>8, <1>10, <1>11, <1>12 DEF ImportInv

LEMMA StepKeeps == ImportInv /\ [Next]_vars => ImportInv'
BY TypeStep, KeysStep, UntouchedStep, RecordedStep, WrittenStep, UndoneStep, RowsGuardedStep,
   ConfGuardedStep DEF ImportInv

(* For any source, failures, crashes and other handlers: what the handler  *)
(* of an import has written it has recorded, and nothing of imports to     *)
(* come exists (migrationImport).                                          *)
THEOREM Invariance == Spec => []ImportInv
<1>1. Init => ImportInv
  BY InitiallyTrue
<1>2. ImportInv /\ [Next]_vars => ImportInv'
  BY StepKeeps
<1> QED
  BY <1>1, <1>2, PTL DEF Spec

(* An import that answered with an error has left nothing, unless an error *)
(* met its rollback (the fail and rollback closures of migrationImport).   *)
THEOREM NothingLeft == Spec => []FailedImportLeavesNothing
<1>1. ImportInv => FailedImportLeavesNothing
  <2> SUFFICES ASSUME ImportInv, stage = "idle", outcome = "failed",
                      \A d \in damaged : d[1] # attempt
               PROVE  /\ Of(attempt) \cap UNION {certs, material, lists, logins, files} = {}
                      /\ \A id \in RouteIds \cap Of(attempt) : routes[id] = None /\ conf[id] = None
                      /\ \A id \in RouteIds :
                           routes[id] # None =>
                             {routes[id].cert, routes[id].list} \cap Of(attempt) = {}
    BY DEF FailedImportLeavesNothing
  <2>1. Nothing(attempt)
    BY DEF ImportInv, Undone, Undamaged
  <2>2. material \subseteq certs /\ logins \subseteq lists
    BY DEF ImportInv, TypeInv, TablesType
  <2>3. None \notin Of(attempt)
    BY SourceAssumption DEF Of
  <2> QED
    BY <2>1, <2>2, <2>3 DEF Nothing, ImportInv, ForeignKeys
<1> QED
  BY <1>1, Invariance, PTL

(* A host the other proxy protected is never served without its list, at   *)
(* whatever step of an import or its rollback somebody calls Apply, unless *)
(* deleting the hosts failed.                                              *)
THEOREM ProtectionHold == Spec => []ImportedHostsAreGuarded
<1>1. ImportInv => ImportedHostsAreGuarded
  BY DEF ImportInv
<1> QED
  BY <1>1, Invariance, PTL

(* A successful import is whole: every row exists and refers to what was   *)
(* imported with it, and nginx.conf serves all of it.                      *)
THEOREM SuccessWhole == Spec => SuccessfulImportIsWhole
<1> DEFINE Whole ==
      Activate =>
        \A x \in SourceRoutes \cup batch :
          LET row == routes'[Id(x)]
              unissued == CertOf[x] # None /\ CertOf[x] \in failed
          IN /\ row # None /\ conf'[Id(x)] # None
             /\ CertOf[x] # None /\ ~unissued =>
                  row.cert = Id(CertOf[x]) /\ row.cert \in certs \cap material
             /\ unissued => row.cert = None /\ ~row.forced
             /\ x \in SourceHosts /\ ListOf[x] # None => row.list = Id(ListOf[x])
<1>1. ImportInv => Whole
  <2> SUFFICES ASSUME ImportInv, Activate, NEW x \in SourceRoutes \cup batch
               PROVE  LET row == routes'[Id(x)]
                          unissued == CertOf[x] # None /\ CertOf[x] \in failed
                      IN /\ row # None /\ conf'[Id(x)] # None
                         /\ CertOf[x] # None /\ ~unissued =>
                              row.cert = Id(CertOf[x]) /\ row.cert \in certs \cap material
                         /\ unissued => row.cert = None /\ ~row.forced
                         /\ x \in SourceHosts /\ ListOf[x] # None => row.list = Id(ListOf[x])
    OBVIOUS
  <2>1. /\ TypeInv /\ Written /\ stage = "apply"
        /\ conf' = Rendered /\ routes' = routes
    BY DEF ImportInv, Activate, ApplyOk, tables
  <2>2. x \in SourceRoutes \cup SourceHosts
    BY <2>1 DEF TypeInv, HandlerType
  <2>3. routes'[Id(x)] = Input(x)
    BY <2>1 DEF Written
  <2>4. Input(x) # None /\ conf'[Id(x)] # None
    BY <2>1, <2>2, <2>3, InputFacts, RenderedFacts, IdFacts
  <2>5. ASSUME CertOf[x] # None, CertOf[x] \notin failed
        PROVE  Input(x).cert = Id(CertOf[x]) /\ Id(CertOf[x]) \in certs \cap material
    <3>1. CertOf[x] \in SourceCerts
      BY <2>1, <2>2, <2>5, InputFacts
    <3>2. Id(CertOf[x]) \in material
      BY <2>1, <2>5, <3>1 DEF Written, Writing
    <3> QED BY <2>1, <2>5, <3>2 DEF Input, MapCert, TypeInv, TablesType
  <2>6. CertOf[x] \in failed => Input(x).cert = None /\ ~Input(x).forced
    BY DEF Input, MapCert
  <2>7. x \in SourceHosts /\ ListOf[x] # None => Input(x).list = Id(ListOf[x])
    BY DEF Input
  <2> QED
    BY <2>3, <2>4, <2>5, <2>6, <2>7
<1>2. ImportInv /\ [Next]_vars => [Whole]_vars
  BY <1>1
<1> QED
  BY <1>2, Invariance, PTL DEF Spec, SuccessfulImportIsWhole

=============================================================================
