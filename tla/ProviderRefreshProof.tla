------------------------- MODULE ProviderRefreshProof -------------------------
(* Proofs about ProviderRefresh, for any providers, goroutines and bounds:    *)
(* RefreshInv is inductive, so stored and activated ranges are whole and only *)
(* move forward.                                                              *)
EXTENDS ProviderRefresh, TLAPS

USE ProviderConstants DEF Procs, Providers

LEMMA RefreshInit == Init => RefreshInv
<1> SUFFICES ASSUME Init PROVE RefreshInv
  OBVIOUS
<1> USE DEF Init
<1>1. Nothing \in Ranges /\ Nothing # None /\ [f \in Families |-> 1] \in Ranges
  BY DEF Nothing, Ranges, Versions
<1>2. TypeOK
  BY <1>1 DEF TypeOK, Labels, Ranges, Versions
<1>3. RangesAreWhole
  BY DEF RangesAreWhole, Whole
<1>4. \A q \in Maintained :
        /\ rows[q] # None /\ active[q] # None
        /\ \A f \in Families :
             /\ source[q][f] > 0
             /\ active[q][f] <= rows[q][f] /\ rows[q][f] <= source[q][f]
  BY <1>1 DEF Nothing
<1> QED
  BY <1>2, <1>3, <1>4 DEF RefreshInv

-----------------------------------------------------------------------------
(* A goroutine that returns disturbs nothing that is said of the others. *)
LEMMA ReleaseKeeps ==
  ASSUME RefreshInv, NEW p \in Procs, Release(p),
         source' = source, rows' = rows, active' = active, todo' = todo,
         unapplied' \in BOOLEAN, requests' \in Nat, faults' \in Nat
  PROVE  RefreshInv'
<1> USE DEF RefreshInv
<1>1. /\ holder' \in Procs \cup {None}
      /\ pc' \in [Procs -> Labels]
      /\ job' \in [Procs -> Providers \cup {None}]
      /\ seen' \in [Procs -> Ranges] /\ got' \in [Procs -> Ranges]
  BY DEF Release, TypeOK, Labels, Nothing, Ranges, Versions
<1>2. pc'[p] = "idle" /\ \A r \in Procs \ {p} :
        pc'[r] = pc[r] /\ job'[r] = job[r] /\ got'[r] = got[r]
  BY DEF Release, TypeOK
<1>3. \A r \in Procs : pc'[r] \in {"read", "v4", "v6", "store"} => holder' = r
  BY <1>2 DEF Release, TypeOK
<1>4. TypeOK'
  BY <1>1, <1>3 DEF TypeOK
<1>5. RangesAreWhole'
  BY DEF RangesAreWhole, Whole
<1> QED
  BY <1>2, <1>4, <1>5 DEF Ordered

(* One step for each action. *)
LEMMA RefreshNextInv == RefreshInv /\ [Next]_vars => RefreshInv'
<1> SUFFICES ASSUME RefreshInv, [Next]_vars PROVE RefreshInv'
  OBVIOUS
<1> USE DEF RefreshInv
<1>1. CASE Publish
  <2>1. PICK q \in Maintained, f \in Families :
          source[q][f] < MaxVersion /\ source' = [source EXCEPT ![q][f] = @ + 1]
    BY <1>1 DEF Publish
  <2>2. source' \in [Maintained -> Ranges]
    BY <2>1 DEF TypeOK, Ranges, Versions
  <2>3. \A r \in Maintained, g \in Families : source'[r][g] >= source[r][g]
    BY <2>1 DEF TypeOK, Ranges, Versions
  <2>4. TypeOK'
    BY <1>1, <2>2 DEF Publish, TypeOK, local
  <2>5. RangesAreWhole'
    BY <1>1 DEF Publish, RangesAreWhole, Whole
  <2>6. \A r \in Maintained, g \in Families :
          rows[r] \in Ranges /\ rows[r][g] \in Nat /\ source[r][g] \in Nat /\ source'[r][g] \in Nat
            /\ active[r][g] \in Nat
    BY <2>2 DEF TypeOK, Ranges, Versions
  <2>7. \A r \in Procs, g \in Families : got[r][g] \in Nat
    BY DEF TypeOK, Ranges, Versions
  <2>8. \A r \in Procs, g \in Families :
          job[r] \in Maintained /\ Ordered(r, g) => Ordered(r, g)'
    BY <1>1, <2>3, <2>6, <2>7 DEF Publish, local, Ordered
  <2> QED
    BY <1>1, <2>3, <2>4, <2>5, <2>6, <2>8 DEF Publish, local, Families
<1>2. ASSUME NEW p \in Handlers, RequestRefresh(p) PROVE RefreshInv'
  <2>1. PICK q \in Providers : Begin(p, q, "lock")
    BY <1>2 DEF RequestRefresh
  <2>2. TypeOK'
    BY <1>2, <2>1 DEF RequestRefresh, Begin, Goto, At, TypeOK, Labels
  <2>3. RangesAreWhole'
    BY <1>2 DEF RequestRefresh, RangesAreWhole, Whole
  <2>4. pc'[p] = "lock" /\ job'[p] = q
          /\ \A r \in Procs \ {p} : pc'[r] = pc[r] /\ job'[r] = job[r]
    BY <2>1 DEF Begin, Goto, TypeOK
  <2> QED
    BY <1>2, <2>2, <2>3, <2>4 DEF RequestRefresh, Ordered
<1>3. ASSUME NEW p \in Handlers, ChangeManual(p) PROVE RefreshInv'
  <2>1. PICK q \in Manual : Begin(p, q, "apply") /\ (EditRow(q) \/ DeleteManual(q))
    BY <1>3 DEF ChangeManual
  <2>2. \A r \in Maintained : rows'[r] = rows[r]
    BY <2>1 DEF EditRow, DeleteManual, TypeOK
  <2>3. rows' \in [Providers -> Ranges \cup {None}]
    <3>1. CASE DeleteManual(q)
      BY <3>1 DEF DeleteManual, TypeOK
    <3>2. CASE EditRow(q)
      <4>1. PICK v \in 1..MaxVersion : rows' = [rows EXCEPT ![q] = [f \in Families |-> v]]
        BY <3>2 DEF EditRow
      <4>2. [f \in Families |-> v] \in Ranges
        BY DEF Ranges, Versions
      <4> QED
        BY <4>1, <4>2 DEF TypeOK
    <3> QED
      BY <2>1, <3>1, <3>2
  <2>4. TypeOK'
    BY <1>3, <2>1, <2>3 DEF ChangeManual, Begin, Goto, At, TypeOK, Labels
  <2>5. RangesAreWhole'
    BY <1>3, <2>2 DEF ChangeManual, RangesAreWhole, Whole
  <2>6. pc'[p] = "apply" /\ \A r \in Procs \ {p} : pc'[r] = pc[r] /\ job'[r] = job[r]
    BY <2>1 DEF Begin, Goto, TypeOK
  <2>7. \A r \in Procs \ {p}, g \in Families :
          job[r] \in Maintained /\ Ordered(r, g) => Ordered(r, g)'
    BY <1>3, <2>2, <2>6 DEF ChangeManual, Ordered
  <2>8. \A r \in Maintained :
          /\ rows'[r] # None /\ active'[r] # None
          /\ \A f \in Families :
               /\ source'[r][f] > 0
               /\ active'[r][f] <= rows'[r][f] /\ rows'[r][f] <= source'[r][f]
    BY <1>3, <2>2 DEF ChangeManual
  <2> QED
    BY <2>1, <2>4, <2>5, <2>6, <2>7, <2>8 DEF Families
<1>4. CASE RefreshAll
  <2>1. TypeOK'
    BY <1>4 DEF RefreshAll, TypeOK
  <2>2. RangesAreWhole'
    BY <1>4 DEF RefreshAll, RangesAreWhole, Whole
  <2> QED
    BY <1>4, <2>1, <2>2 DEF RefreshAll, Ordered
<1>5. CASE RefreshNext
  <2>1. PICK q \in todo : job' = [job EXCEPT ![Refresher] = q] /\ todo' = todo \ {q}
    BY <1>5 DEF RefreshNext
  <2>2. q \in Maintained
    BY <2>1 DEF TypeOK
  <2>3. TypeOK'
    BY <1>5, <2>1, <2>2 DEF RefreshNext, Goto, At, TypeOK, Labels
  <2>4. RangesAreWhole'
    BY <1>5 DEF RefreshNext, RangesAreWhole, Whole
  <2>5. pc'[Refresher] = "lock" /\ job'[Refresher] = q
          /\ \A r \in Procs \ {Refresher} : pc'[r] = pc[r] /\ job'[r] = job[r]
    BY <1>5, <2>1 DEF RefreshNext, Goto, TypeOK
  <2> QED
    BY <1>5, <2>2, <2>3, <2>4, <2>5 DEF RefreshNext, Ordered
<1>6. ASSUME NEW p \in Procs, Lock(p) PROVE RefreshInv'
  <2>1. pc'[p] = "read" /\ pc[p] = "lock" /\ holder = None
          /\ \A r \in Procs \ {p} : pc'[r] = pc[r]
    BY <1>6 DEF Lock, Goto, At, Free, TypeOK
  <2>2. TypeOK'
    BY <1>6, <2>1 DEF Lock, Goto, TypeOK, Labels
  <2>3. RangesAreWhole'
    BY <1>6 DEF Lock, RangesAreWhole, Whole
  <2> QED
    BY <1>6, <2>1, <2>2, <2>3 DEF Lock, Ordered
<1>7. ASSUME NEW p \in Procs, Read(p) PROVE RefreshInv'
  <2>1. CASE job[p] \in Maintained /\ rows[job[p]] # None
    <3>1. /\ seen' = [seen EXCEPT ![p] = rows[job[p]]] /\ Goto(p, "v4")
          /\ UNCHANGED <<source, rows, active, holder, job, got, todo, unapplied,
                         requests, faults>>
      BY <1>7, <2>1 DEF Read
    <3>2. pc'[p] = "v4" /\ pc[p] = "read" /\ \A r \in Procs \ {p} : pc'[r] = pc[r]
      BY <1>7, <3>1 DEF Read, Goto, At, TypeOK
    <3>3. TypeOK'
      BY <2>1, <3>1, <3>2 DEF Goto, TypeOK, Labels
    <3>4. RangesAreWhole'
      BY <3>1 DEF RangesAreWhole, Whole
    <3> QED
      BY <2>1, <3>1, <3>2, <3>3, <3>4 DEF Ordered
  <2>2. CASE ~(job[p] \in Maintained /\ rows[job[p]] # None)
    BY <1>7, <2>2, ReleaseKeeps DEF Read, TypeOK
  <2> QED
    BY <2>1, <2>2
<1>8. ASSUME NEW p \in Procs, Fetch(p) PROVE RefreshInv'
  <2>1. PICK f \in Families :
          /\ At(p, f) /\ got' = [got EXCEPT ![p][f] = source[job[p]][f]]
          /\ Goto(p, IF f = "v4" THEN "v6" ELSE "store")
    BY <1>8 DEF Fetch
  <2> DEFINE q == job[p]
  <2>2. q \in Maintained /\ pc[p] = f
    BY <2>1 DEF At, Families
  <2>3. source[q][f] \in Versions /\ rows[q] \in Ranges /\ rows[q][f] \in Nat
    BY <2>2 DEF TypeOK, Ranges, Versions
  <2>4. got' \in [Procs -> Ranges]
    BY <2>1, <2>3 DEF TypeOK, Ranges
  <2>5. /\ pc'[p] = IF f = "v4" THEN "v6" ELSE "store"
        /\ \A r \in Procs \ {p} : pc'[r] = pc[r] /\ got'[r] = got[r]
    BY <2>1 DEF Goto, TypeOK
  <2>6. got'[p][f] = source[q][f] /\ \A g \in Families \ {f} : got'[p][g] = got[p][g]
    BY <2>1 DEF TypeOK, Ranges
  <2>7. TypeOK'
    BY <1>8, <2>1, <2>2, <2>4, <2>5 DEF Fetch, Goto, TypeOK, Labels, Families
  <2>8. RangesAreWhole'
    BY <1>8 DEF Fetch, RangesAreWhole, Whole
  <2>9. source[q][f] \in Nat /\ source[q][f] > 0 /\ rows[q][f] <= source[q][f]
    BY <2>2, <2>3 DEF Versions
  <2>10. Ordered(p, f)'
    BY <1>8, <2>3, <2>6, <2>9 DEF Fetch, Ordered
  <2>11. f = "v6" => Ordered(p, "v4")'
    BY <1>8, <2>2, <2>6 DEF Fetch, Ordered, Families
  <2>12. \A r \in Procs \ {p}, g \in Families : Ordered(r, g) => Ordered(r, g)'
    BY <1>8, <2>5 DEF Fetch, Ordered
  <2> QED
    BY <1>8, <2>2, <2>5, <2>7, <2>8, <2>10, <2>11, <2>12 DEF Fetch, Families
<1>9. ASSUME NEW p \in Procs, FetchFails(p) PROVE RefreshInv'
  BY <1>9, ReleaseKeeps DEF FetchFails, Fault, TypeOK
<1>10. ASSUME NEW p \in Procs, Store(p) PROVE RefreshInv'
  <2>1. CASE Changed(p) /\ rows' = (IF rows[job[p]] = None THEN rows ELSE [rows EXCEPT ![job[p]] = got[p]])
               /\ Goto(p, "apply") /\ UNCHANGED <<holder, job, seen, got, faults>>
    <3> DEFINE q == job[p]
    <3>1. q \in Maintained /\ pc[p] = "store" /\ holder = p /\ Ordered(p, "v4") /\ Ordered(p, "v6")
      BY <1>10 DEF Store, At, TypeOK
    <3>2. rows' = [rows EXCEPT ![q] = got[p]] /\ got[p] \in Ranges
      BY <2>1, <3>1 DEF TypeOK
    <3>3. /\ rows'[q] = got[p] /\ \A r \in Providers \ {q} : rows'[r] = rows[r]
          /\ rows' \in [Providers -> Ranges \cup {None}]
      BY <3>1, <3>2 DEF TypeOK
    <3>4. pc'[p] = "apply" /\ \A r \in Procs \ {p} : pc'[r] = pc[r]
      BY <2>1 DEF Goto, TypeOK
    <3>5. TypeOK'
      BY <1>10, <2>1, <3>3, <3>4 DEF Store, Goto, TypeOK, Labels
    <3>6. \A f \in Families : got[p][f] > 0 /\ rows[q][f] <= got[p][f] /\ got[p][f] <= source[q][f]
                                /\ got[p][f] \in Nat /\ rows[q][f] \in Nat /\ active[q][f] \in Nat
      <4>1. rows[q] \in Ranges /\ active[q] \in Ranges /\ source[q] \in Ranges
        BY <3>1 DEF TypeOK
      <4> QED
        BY <3>1, <3>2, <4>1 DEF Ordered, Families, Ranges, Versions
    <3>7. RangesAreWhole'
      BY <1>10, <3>3, <3>6 DEF Store, RangesAreWhole, Whole
    <3>8. \A r \in Procs : pc'[r] \notin {"v6", "store"}
      BY <3>1, <3>4 DEF TypeOK
    <3>9. rows'[q] # None
      BY <3>2, <3>3 DEF Ranges
    <3> QED
      BY <1>10, <2>1, <3>3, <3>4, <3>5, <3>6, <3>7, <3>8, <3>9 DEF Store
  <2>2. CASE Release(p) /\ rows' = rows /\ (faults' = faults \/ Fault)
    BY <1>10, <2>2, ReleaseKeeps DEF Store, Fault, TypeOK
  <2> QED
    BY <1>10, <2>1, <2>2 DEF Store
<1>11. ASSUME NEW p \in Procs, Apply(p) PROVE RefreshInv'
  <2>1. CASE active' = active /\ unapplied' = TRUE /\ Fault
    BY <1>11, <2>1, ReleaseKeeps DEF Apply, Fault, TypeOK
  <2>2. CASE /\ active' = rows /\ unapplied' \in BOOLEAN
             /\ faults' = faults \/ Fault
    <3>1. Release(p) /\ UNCHANGED <<source, rows, todo, requests>>
      BY <1>11 DEF Apply
    <3>2. /\ holder' \in Procs \cup {None}
          /\ pc' \in [Procs -> Labels]
          /\ job' \in [Procs -> Providers \cup {None}]
          /\ seen' \in [Procs -> Ranges] /\ got' \in [Procs -> Ranges]
      BY <3>1 DEF Release, TypeOK, Labels, Nothing, Ranges, Versions
    <3>3. pc'[p] = "idle" /\ \A r \in Procs \ {p} :
            pc'[r] = pc[r] /\ job'[r] = job[r] /\ got'[r] = got[r]
      BY <3>1 DEF Release, TypeOK
    <3>4. \A r \in Procs : pc'[r] \in {"read", "v4", "v6", "store"} => holder' = r
      BY <3>1, <3>3 DEF Release, TypeOK
    <3>5. TypeOK'
      BY <2>2, <3>1, <3>2, <3>4 DEF TypeOK, Fault
    <3>6. RangesAreWhole'
      BY <2>2, <3>1 DEF RangesAreWhole, Whole
    <3>7. \A q \in Maintained, f \in Families : active'[q][f] <= rows'[q][f]
      <4>1. \A q \in Maintained, f \in Families : rows[q][f] \in Nat
        BY DEF TypeOK, Ranges, Versions
      <4> QED
        BY <2>2, <3>1, <4>1
    <3> QED
      BY <2>2, <3>1, <3>3, <3>5, <3>6, <3>7 DEF Ordered
  <2> QED
    BY <1>11, <2>1, <2>2 DEF Apply
<1>12. CASE UNCHANGED vars
  <2>1. TypeOK'
    BY <1>12 DEF vars, local, TypeOK
  <2>2. RangesAreWhole'
    BY <1>12 DEF vars, RangesAreWhole, Whole
  <2> QED
    BY <1>12, <2>1, <2>2 DEF vars, local, Ordered
<1> QED
  BY <1>1, <1>2, <1>3, <1>4, <1>5, <1>6, <1>7, <1>8, <1>9, <1>10, <1>11, <1>12 DEF Next, Step

-----------------------------------------------------------------------------
(* The invariant of the refresh, for any providers and any number of faults. *)
THEOREM RefreshInvariance == Spec => []RefreshInv
  BY RefreshInit, RefreshNextInv, PTL DEF Spec

(* The types, and that whoever is between Lock and Unlock holds the mutex. *)
THEOREM TypeCorrect == Spec => []TypeOK
<1>1. RefreshInv => TypeOK
  BY DEF RefreshInv
<1> QED
  BY <1>1, RefreshInvariance, PTL

(* No fetch that fails leaves half a list, stored or in nginx.conf. *)
THEOREM RangesWhole == Spec => []RangesAreWhole
<1>1. RefreshInv => RangesAreWhole
  BY DEF RefreshInv
<1> QED
  BY <1>1, RefreshInvariance, PTL

(* Neither stored nor activated lists go back to older ones. *)
THEOREM RangesForward == Spec => RangesMoveForward
<1> DEFINE Forward == \A q \in Maintained, f \in Families :
             rows'[q][f] >= rows[q][f] /\ active'[q][f] >= active[q][f]
<1>1. ASSUME RefreshInv, [Next]_vars PROVE [Forward]_vars
  <2> SUFFICES ASSUME NEW q \in Maintained, NEW f \in Families
               PROVE  rows'[q][f] >= rows[q][f] /\ active'[q][f] >= active[q][f]
    OBVIOUS
  <2>1. /\ rows[q][f] \in Nat /\ active[q][f] \in Nat
        /\ active[q][f] <= rows[q][f]
    BY <1>1 DEF RefreshInv, TypeOK, Ranges, Versions
  <2>2. rows'[q][f] >= rows[q][f]
    <3>1. ASSUME NEW p \in Procs, Store(p) PROVE rows'[q][f] >= rows[q][f]
      <4>1. CASE rows' = [rows EXCEPT ![job[p]] = got[p]] /\ job[p] = q
        <5>1. Ordered(p, f)
          BY <1>1, <3>1 DEF RefreshInv, Store, At, Families
        <5>2. source[q][f] \in Nat
          BY <1>1 DEF RefreshInv, TypeOK, Ranges, Versions
        <5>3. rows'[q] = got[p]
          BY <1>1, <4>1 DEF RefreshInv, TypeOK
        <5> QED
          BY <2>1, <4>1, <5>1, <5>2, <5>3 DEF Ordered
      <4>2. CASE rows'[q] = rows[q]
        BY <2>1, <4>2
      <4> QED
        BY <1>1, <3>1, <4>1, <4>2 DEF Store, RefreshInv, TypeOK
    <3>2. ASSUME NEW p \in Handlers, ChangeManual(p) PROVE rows'[q] = rows[q]
      BY <1>1, <3>2 DEF ChangeManual, EditRow, DeleteManual, RefreshInv, TypeOK
    <3>3. \/ \E p \in Procs : Store(p)
          \/ \E p \in Handlers : ChangeManual(p)
          \/ rows' = rows
      BY <1>1 DEF Next, Step, Publish, RequestRefresh, RefreshAll, RefreshNext, Lock, Read, Fetch,
                  FetchFails, Apply, vars
    <3> QED
      BY <2>1, <3>1, <3>2, <3>3
  <2>3. active' = active \/ active' = rows
    BY <1>1 DEF Next, Step, Publish, RequestRefresh, ChangeManual, RefreshAll, RefreshNext, Lock,
                Read, Fetch, FetchFails, Store, Apply, vars
  <2> QED
    BY <2>1, <2>2, <2>3
<1> QED
  BY <1>1, RefreshInvariance, PTL DEF Spec, RangesMoveForward
=============================================================================
