------------------------- MODULE GraphEngineProofs -------------------------
(***************************************************************************)
(* Proofs about GraphEngine, for any number of kinds, versions, rebuilds   *)
(* and requests.                                                           *)
(***************************************************************************)
EXTENDS GraphEngine, SequenceTheorems, TLAPS

(* A rebuild's list grows by what the next informer has seen; once it has   *)
(* listed every kind it holds a whole graph.                                *)
LEMMA Listing ==
    ASSUME TypeOK, NEW r \in Slots, Collect(r)
    PROVE  TypeOK'
<1> USE SizesAssumption DEF Kinds, Versions, Contents
<1>1. /\ got[r] \in Seq(Versions)
      /\ Len(got[r]) \in Nat
      /\ Len(got[r]) < NKinds
      /\ pc \in [Slots -> {"idle", "collect", "store", "notify"}]
      /\ got \in [Slots -> Seq(Versions)]
  BY DEF TypeOK, Collect
<1> DEFINE new == Append(got[r], seen[Len(got[r]) + 1])
<1>2. seen[Len(got[r]) + 1] \in Versions
  BY <1>1 DEF TypeOK
<1>3. new \in Seq(Versions) /\ Len(new) = Len(got[r]) + 1
  BY <1>1, <1>2, AppendProperties
<1>4. /\ got' = [got EXCEPT ![r] = new]
      /\ pc' = [pc EXCEPT ![r] = IF Len(got[r]) + 1 < NKinds THEN "collect" ELSE "store"]
  BY DEF Collect
<1> HIDE DEF new
<1>5. got' \in [Slots -> Seq(Versions)] /\ \A s \in Slots : Len(got'[s]) <= NKinds
  BY <1>1, <1>3, <1>4 DEF TypeOK
<1>6. pc' \in [Slots -> {"idle", "collect", "store", "notify"}]
  BY <1>1, <1>4
<1>7. \A s \in Slots : pc'[s] = "collect" => Len(got'[s]) < NKinds
  BY <1>1, <1>3, <1>4 DEF TypeOK
<1>8. ASSUME NEW s \in Slots, pc'[s] = "store" PROVE got'[s] \in Contents
  <2>1. CASE s # r
    BY <1>1, <1>4, <1>8, <2>1 DEF TypeOK
  <2>2. CASE s = r
    <3>1. Len(new) = NKinds /\ got'[s] = new
      BY <1>1, <1>3, <1>4, <1>8, <2>2
    <3> QED  BY <1>3, <3>1, LenProperties
  <2> QED  BY <2>1, <2>2
<1> QED
  BY <1>5, <1>6, <1>7, <1>8 DEF TypeOK, Collect, engineVars, informerVars, cacheVars

(* At first nothing is listed, seen, built or cached. *)
LEMMA TypeInit == Init => TypeOK
<1> SUFFICES ASSUME Init PROVE TypeOK
  OBVIOUS
<1> USE SizesAssumption DEF Kinds, Versions, Contents, Nothing
<1>1. <<>> \in Seq(Versions) /\ Len(<<>>) <= NKinds
  BY EmptySeq
<1>2. got \in [Slots -> Seq(Versions)] /\ \A r \in Slots : Len(got[r]) <= NKinds
  BY <1>1 DEF Init
<1>3. world \in Contents /\ seen \in Contents /\ snapshot \in Contents
  BY DEF Init
<1>4. /\ pc \in [Slots -> {"idle", "collect", "store", "notify"}]
      /\ \A r \in Slots : pc[r] # "store" /\ pc[r] # "collect"
  BY DEF Init
<1> QED  BY <1>2, <1>3, <1>4 DEF Init, TypeOK

(* A rebuild begins with an empty list. *)
LEMMA Beginning ==
    ASSUME TypeOK, NEW r \in Slots, Begin(r)
    PROVE  /\ pc' \in [Slots -> {"idle", "collect", "store", "notify"}]
           /\ got' \in [Slots -> Seq(Versions)]
           /\ \A s \in Slots : Len(got'[s]) <= NKinds
           /\ \A s \in Slots : pc'[s] = "collect" => Len(got'[s]) < NKinds
           /\ \A s \in Slots : pc'[s] = "store" => got'[s] \in Contents
<1>1. <<>> \in Seq(Versions) /\ Len(<<>>) < NKinds /\ Len(<<>>) <= NKinds
  BY EmptySeq, SizesAssumption
<1> QED  BY <1>1 DEF TypeOK, Begin

(* A kind that is read late leaves the request's view whole. *)
LEMMA LateView ==
    ASSUME TypeOK, NEW q \in Requests, NEW k \in Kinds, ReadsLate(q, k)
    PROVE  /\ view' \in [Requests -> Contents \union {NoContents}]
           /\ \A p \in Requests : p # q => view'[p] = view[p]
           /\ view'[q] = [view[q] EXCEPT ![k] = view'[q][k]]
           /\ view'[q][k] \in {seen[k], overview[k], world[k]}
           /\ overview = NoContents => view'[q][k] \in {seen[k], world[k]}
<1>1. view[q] \in Contents /\ view \in [Requests -> Contents \union {NoContents}]
  BY DEF TypeOK, ReadsLate
<1>2. PICK v \in {seen[k], Listed[k]} : view' = [view EXCEPT ![q][k] = v]
  BY DEF ReadsLate
<1>3. Listed \in Contents /\ seen \in Contents
  BY DEF Listed, TypeOK
<1>4. v \in Versions
  BY <1>2, <1>3 DEF Contents
<1>5. [view[q] EXCEPT ![k] = v] \in Contents
  BY <1>1, <1>4 DEF Contents
<1>6. view'[q] = [view[q] EXCEPT ![k] = v] /\ view'[q][k] = v
  BY <1>1, <1>2 DEF Contents
<1> QED  BY <1>1, <1>2, <1>5, <1>6 DEF Listed

(* Every step keeps the types. *)
LEMMA TypeNext == TypeOK /\ [Next]_vars => TypeOK'
<1> SUFFICES ASSUME TypeOK, [Next]_vars PROVE TypeOK'
  OBVIOUS
<1> USE SizesAssumption
        DEF engineVars, informerVars, rebuildVars, cacheVars
<1>1. ASSUME NEW k \in Kinds, Change(k) PROVE TypeOK'
  <2>1. world' \in Contents
    BY <1>1 DEF TypeOK, Change, Contents, Versions
  <2> QED  BY <1>1, <2>1 DEF TypeOK, Change
<1>2. ASSUME NEW k \in Kinds, Sync(k) \/ Update(k) PROVE TypeOK'
  <2>1. seen' \in Contents /\ pending' \subseteq Kinds
    BY <1>2 DEF TypeOK, Sync, Update, Hears, Contents
  <2>2. synced' \subseteq Kinds
    BY <1>2 DEF TypeOK, Sync, Update
  <2> QED  BY <1>2, <2>1, <2>2 DEF TypeOK, Sync, Update
<1>3. ASSUME NEW k \in Kinds, Resync(k) \/ Notify(k) PROVE TypeOK'
  BY <1>3 DEF TypeOK, Resync, Notify
<1>4. ASSUME NEW r \in Slots, TimerFires(r) \/ InitialRebuild(r) PROVE TypeOK'
  <2>1. Begin(r)
    BY <1>4 DEF TimerFires, InitialRebuild
  <2> QED  BY <1>4, <2>1, Beginning DEF TypeOK, TimerFires, InitialRebuild, Begin
<1>5. ASSUME NEW r \in Slots, Store(r) PROVE TypeOK'
  <2>1. <<>> \in Seq(Versions) /\ Len(<<>>) <= NKinds
    BY EmptySeq
  <2>2. snapshot' \in Contents
    BY <1>5 DEF TypeOK, Store
  <2>3. /\ pc' \in [Slots -> {"idle", "collect", "store", "notify"}]
        /\ got' \in [Slots -> Seq(Versions)]
        /\ \A s \in Slots : Len(got'[s]) <= NKinds
        /\ \A s \in Slots : pc'[s] = "collect" => Len(got'[s]) < NKinds
        /\ \A s \in Slots : pc'[s] = "store" => got'[s] \in Contents
    BY <1>5, <2>1 DEF TypeOK, Store
  <2> QED  BY <1>5, <2>2, <2>3 DEF TypeOK, Store
<1>6. ASSUME NEW r \in Slots, OnRebuild(r) PROVE TypeOK'
  <2>1. /\ pc' \in [Slots -> {"idle", "collect", "store", "notify"}]
        /\ \A s \in Slots : pc'[s] = "collect" => Len(got'[s]) < NKinds
        /\ \A s \in Slots : pc'[s] = "store" => got'[s] \in Contents
    BY <1>6 DEF TypeOK, OnRebuild
  <2> QED  BY <1>6, <2>1 DEF TypeOK, OnRebuild
<1>7. ASSUME NEW q \in Requests, Build(q) PROVE TypeOK'
  <2>1. ASSUME NEW k \in Kinds, ReadsLate(q, k) PROVE TypeOK'
    BY <1>7, <2>1, LateView DEF TypeOK, ReadsLate
  <2>2. CASE BeginBuild(q)
    <3>1. Listed \in Contents
      BY DEF Listed, TypeOK
    <3> QED  BY <2>2, <3>1 DEF TypeOK, BeginBuild
  <2>3. CASE CacheBuild(q)
    BY <2>3 DEF TypeOK, CacheBuild
  <2> QED  BY <1>7, <2>1, <2>2, <2>3 DEF Build
<1>8. CASE Start \/ Stop \/ InitialGivesUp \/ Expire
  BY <1>8 DEF TypeOK, Start, Stop, InitialGivesUp, Expire
<1>9. CASE Overview
  <2>1. overview' \in Contents \union {NoContents}
    BY <1>9 DEF TypeOK, Overview, OverviewSyncs, OverviewHears, OverviewStops, Contents
  <2> QED
    BY <1>9, <2>1 DEF TypeOK, Overview, OverviewSyncs, OverviewHears, OverviewStops
<1>10. CASE UNCHANGED vars
  BY <1>10 DEF TypeOK, vars
<1> QED
  BY <1>1, <1>2, <1>3, <1>4, <1>5, <1>6, <1>7, <1>8, <1>9, <1>10, Listing
     DEF Next, Rebuild

(* Type correctness: in particular, what a rebuild stores is always one     *)
(* version of every kind. (collectResources, rebuild)                       *)
THEOREM TypeCorrect == Spec => []TypeOK
BY TypeInit, TypeNext, PTL DEF Spec

----------------------------------------------------------------------------
(* What is left of a stopped engine *)

(* An engine that is gone has had its context cancelled, and with it its    *)
(* informers: nothing but what was under way can start anything again.      *)
Ended == phase = "gone" => cancelled
Still == phase = "gone" /\ Quiet

(* No engine is gone at first. *)
LEMMA EndedInit == Init => Ended
BY DEF Init, Ended

(* The engine goes with its context. *)
LEMMA EndedNext == Ended /\ [Next]_vars => Ended'
BY DEF Ended, Next, vars, engineVars, informerVars, rebuildVars, cacheVars, Rebuild,
       Build, Start, Change, Sync, Update, Resync, Notify, TimerFires,
       InitialRebuild, InitialGivesUp, Collect, Store, OnRebuild, Stop, BeginBuild,
       ReadsLate, CacheBuild, Expire, Overview, OverviewSyncs, OverviewHears,
       OverviewStops

(* Nothing starts again what a stopped engine has ended. *)
LEMMA StaysStill == Ended /\ Still /\ [Next]_vars => Still'
<1> SUFFICES ASSUME Ended, Still, [Next]_vars PROVE Still'
  OBVIOUS
<1> USE DEF engineVars, informerVars, rebuildVars, cacheVars
<1>1. ASSUME UNCHANGED <<phase, timer, initial, pending, pc>> PROVE Still'
  BY <1>1, Zenon DEF Still, Quiet, Idle
<1>2. /\ phase = "gone" /\ cancelled /\ ~timer /\ ~initial /\ pending = {}
      /\ \A r \in Slots : pc[r] = "idle"
  BY Zenon DEF Still, Quiet, Ended, Idle
<1>3. ASSUME NEW k \in Kinds, Change(k) PROVE Still'
  BY <1>1, <1>3 DEF Change
<1>4. ASSUME NEW k \in Kinds, Sync(k) \/ Update(k) \/ Resync(k) \/ Notify(k)
      PROVE  FALSE
  BY <1>2, <1>4 DEF Sync, Update, Resync, Notify, Watching
<1>5. ASSUME NEW r \in Slots, TimerFires(r) \/ InitialRebuild(r) \/ Rebuild(r)
      PROVE  FALSE
  BY <1>2, <1>5 DEF TimerFires, InitialRebuild, Rebuild, Collect, Store, OnRebuild
<1>6. ASSUME NEW q \in Requests, Build(q) PROVE Still'
  BY <1>1, <1>6 DEF Build, BeginBuild, ReadsLate, CacheBuild
<1>7. CASE Start \/ Stop \/ InitialGivesUp
  BY <1>2, <1>7 DEF Start, Stop, InitialGivesUp
<1>8. CASE Expire
  BY <1>1, <1>8 DEF Expire
<1>9. CASE Overview
  BY <1>1, <1>9 DEF Overview, OverviewSyncs, OverviewHears, OverviewStops
<1>10. CASE UNCHANGED vars
  BY <1>1, <1>10 DEF vars
<1> QED
  BY <1>3, <1>4, <1>5, <1>6, <1>7, <1>8, <1>9, <1>10 DEF Next

(* The safety half of StopEndsQuiet: once neither timer nor rebuild nor     *)
(* notification of a stopped engine is left, none ever comes again, though  *)
(* markDirty would start the timer of a stopped engine, too. (Stop,         *)
(* markDirty)                                                               *)
THEOREM StoppedStaysQuiet == Spec => [](Still => []Still)
BY EndedInit, EndedNext, StaysStill, PTL DEF Spec

----------------------------------------------------------------------------
(* Nothing is shown before it is there *)

(* No informer, list, snapshot, request or cache entry holds of any kind    *)
(* what the cluster has not held yet: versions only grow.                   *)
Past(c) == \A k \in Kinds : c[k] <= world[k]
PastList(l) == \A k \in 1 .. Len(l) : l[k] <= world[k]
NothingAhead ==
    /\ Past(seen)
    /\ Past(snapshot)
    /\ overview # NoContents => Past(overview)
    /\ cached # NoContents => Past(cached)
    /\ \A r \in Slots : PastList(got[r])
    /\ \A q \in Requests : view[q] # NoContents => Past(view[q])

(* At first nothing has been read of the cluster. *)
LEMMA AheadInit == Init => NothingAhead
<1> SUFFICES ASSUME Init PROVE NothingAhead
  OBVIOUS
<1>1. \A k \in Kinds : world[k] \in Nat
  BY SizesAssumption DEF Init, Versions
<1>2. Past(seen) /\ Past(snapshot)
  BY <1>1 DEF Init, Past, Nothing
<1>3. \A r \in Slots : PastList(got[r])
  BY EmptySeq DEF Init, PastList
<1> QED  BY <1>2, <1>3 DEF Init, NothingAhead

(* While the cluster stays as it is, what is past stays past.               *)
LEMMA AheadKeeps ==
    ASSUME NothingAhead, UNCHANGED world,
           seen' = seen \/ (\A k \in Kinds : seen'[k] <= world[k]),
           snapshot' = snapshot \/ \A k \in Kinds : snapshot'[k] <= world[k],
           \/ overview' \in {overview, NoContents}
           \/ \A k \in Kinds : overview'[k] <= world[k],
           \/ cached' \in {cached, NoContents}
           \/ \A k \in Kinds : cached'[k] <= world[k],
           \A r \in Slots : \/ got'[r] = got[r]
                            \/ \A k \in 1 .. Len(got'[r]) : got'[r][k] <= world[k],
           \A q \in Requests : \/ view'[q] \in {view[q], NoContents}
                               \/ \A k \in Kinds : view'[q][k] <= world[k]
    PROVE  NothingAhead'
BY DEF NothingAhead, Past, PastList

(* Every step copies what the cluster holds or held. *)
LEMMA AheadNext == TypeOK /\ NothingAhead /\ [Next]_vars => NothingAhead'
<1> SUFFICES ASSUME TypeOK, NothingAhead, [Next]_vars PROVE NothingAhead'
  OBVIOUS
<1> USE SizesAssumption
        DEF engineVars, informerVars, rebuildVars, cacheVars
<1>1. /\ \A k \in Kinds : world[k] \in Nat /\ seen[k] <= world[k]
      /\ \A k \in Kinds : seen[k] \in Nat /\ snapshot[k] \in Nat
      /\ pc \in [Slots -> {"idle", "collect", "store", "notify"}]
      /\ got \in [Slots -> Seq(Versions)]
      /\ \A r \in Slots : Len(got[r]) \in Nat
      /\ DOMAIN world = Kinds /\ DOMAIN seen = Kinds
      /\ DOMAIN view = Requests
  BY DEF TypeOK, NothingAhead, Past, Contents, Versions
<1>2. ASSUME NEW k \in Kinds, Change(k) PROVE NothingAhead'
  <2>1. \A m \in Kinds : world'[m] \in Nat /\ world[m] <= world'[m]
    BY <1>1, <1>2 DEF Change
  <2>2. ASSUME NEW c \in Contents, Past(c) PROVE \A m \in Kinds : c[m] <= world'[m]
    BY <1>1, <2>1, <2>2 DEF Past, Contents, Versions
  <2>3. Past(seen)' /\ Past(snapshot)'
    BY <1>2, <2>2 DEF NothingAhead, Past, Change, TypeOK
  <2>4. /\ (cached # NoContents => Past(cached))'
        /\ (overview # NoContents => Past(overview))'
    BY <1>2, <2>2 DEF NothingAhead, Past, Change, TypeOK
  <2>5. (\A q \in Requests : view[q] # NoContents => Past(view[q]))'
    BY <1>2, <2>2 DEF NothingAhead, Past, Change, TypeOK
  <2>6. ASSUME NEW r \in Slots PROVE PastList(got[r])'
    <3>1. /\ got[r] \in Seq(Versions)
          /\ Len(got[r]) <= NKinds
          /\ got' = got
      BY <1>2 DEF TypeOK, Change
    <3>2. ASSUME NEW m \in 1 .. Len(got[r]) PROVE got[r][m] <= world'[m]
      <4>1. m \in Kinds
        BY <1>1, <3>1 DEF Kinds
      <4>2. got[r][m] \in Nat
        BY <3>1 DEF Versions
      <4>3. got[r][m] <= world[m]
        BY DEF NothingAhead, PastList
      <4> QED  BY <1>1, <2>1, <4>1, <4>2, <4>3
    <3> QED  BY <3>1, <3>2 DEF PastList
  <2> QED  BY <2>3, <2>4, <2>5, <2>6 DEF NothingAhead
<1>3. ASSUME NEW k \in Kinds, Sync(k) \/ Update(k) PROVE NothingAhead'
  <2>1. seen' = [seen EXCEPT ![k] = world[k]]
    BY <1>3 DEF Sync, Update, Hears
  <2>2. \A m \in Kinds : seen'[m] <= world[m]
    BY <1>1, <2>1
  <2> QED  BY <1>3, <2>2, AheadKeeps DEF Sync, Update
<1>4. ASSUME NEW k \in Kinds, Resync(k) \/ Notify(k) PROVE NothingAhead'
  BY <1>4, AheadKeeps DEF Resync, Notify
<1>5. ASSUME NEW r \in Slots, TimerFires(r) \/ InitialRebuild(r) PROVE NothingAhead'
  <2>1. \A s \in Slots : got'[s] = got[s] \/ got'[s] = <<>>
    BY <1>1, <1>5 DEF TimerFires, InitialRebuild, Begin
  <2>2. \A k \in 1 .. Len(<<>>) : <<>>[k] <= world[k]
    BY EmptySeq
  <2> QED
    BY <1>5, <2>1, <2>2, AheadKeeps DEF TimerFires, InitialRebuild, Begin
<1>6. ASSUME NEW r \in Slots, Collect(r) PROVE NothingAhead'
  <2>1. \A s \in Slots :
           \/ got'[s] = got[s]
           \/ \A k \in 1 .. Len(got'[s]) : got'[s][k] <= world[k]
    <3> DEFINE new == Append(got[r], seen[Len(got[r]) + 1])
    <3>1. Len(got[r]) < NKinds /\ got' = [got EXCEPT ![r] = new]
      BY <1>6 DEF Collect, TypeOK
    <3>2. Len(got[r]) + 1 \in Kinds
      BY <1>1, <3>1 DEF Kinds
    <3>3. /\ Len(new) = Len(got[r]) + 1
          /\ \A k \in 1 .. Len(got[r]) : new[k] = got[r][k]
          /\ new[Len(got[r]) + 1] = seen[Len(got[r]) + 1]
      <4>1. got[r] \in Seq(Versions) /\ seen[Len(got[r]) + 1] \in Versions
        BY <1>1, <3>2 DEF TypeOK, Contents
      <4> QED  BY <4>1, AppendProperties
    <3>4. ASSUME NEW k \in 1 .. Len(new) PROVE new[k] <= world[k]
      <4>1. CASE k \in 1 .. Len(got[r])
        BY <3>3, <4>1 DEF NothingAhead, PastList
      <4>2. CASE k = Len(got[r]) + 1
        BY <1>1, <3>2, <3>3, <4>2
      <4> QED  BY <1>1, <3>3, <4>1, <4>2
    <3> HIDE DEF new
    <3> QED  BY <1>1, <3>1, <3>4
  <2> QED  BY <1>6, <2>1, AheadKeeps DEF Collect
<1>7. ASSUME NEW r \in Slots, Store(r) PROVE NothingAhead'
  <2>1. snapshot' = got[r] /\ got[r] \in Contents
    BY <1>7 DEF Store, TypeOK
  <2>2. \A k \in Kinds : snapshot'[k] <= world[k]
    <3>1. Len(got[r]) = NKinds
      BY <1>1, <2>1, LenProperties DEF Contents, Kinds
    <3> QED  BY <2>1, <3>1 DEF NothingAhead, PastList, Kinds
  <2>3. \A s \in Slots : got'[s] = got[s] \/ got'[s] = <<>>
    BY <1>1, <1>7 DEF Store
  <2>4. \A k \in 1 .. Len(<<>>) : <<>>[k] <= world[k]
    BY EmptySeq
  <2> QED  BY <1>7, <2>2, <2>3, <2>4, AheadKeeps DEF Store
<1>8. ASSUME NEW r \in Slots, OnRebuild(r) PROVE NothingAhead'
  BY <1>8, AheadKeeps DEF OnRebuild
<1>9. ASSUME NEW q \in Requests, BeginBuild(q) PROVE NothingAhead'
  <2>1. \A k \in Kinds : Listed[k] <= world[k]
    BY <1>1 DEF Listed, NothingAhead, Past
  <2>2. \A p \in Requests :
           \/ view'[p] = view[p]
           \/ \A k \in Kinds : view'[p][k] <= world[k]
    BY <1>1, <1>9, <2>1 DEF BeginBuild
  <2> QED  BY <1>9, <2>2, AheadKeeps DEF BeginBuild
<1>10. ASSUME NEW q \in Requests, NEW k \in Kinds, ReadsLate(q, k)
       PROVE  NothingAhead'
  <2>1. view[q] # NoContents /\ view[q] \in Contents
    BY <1>10 DEF ReadsLate, TypeOK
  <2>2. view'[q][k] <= world[k]
    <3>1. CASE overview = NoContents
      <4>1. view'[q][k] \in {seen[k], world[k]}
        BY <1>10, <3>1, LateView
      <4> QED  BY <1>1, <4>1
    <3>2. CASE overview # NoContents
      <4>1. view'[q][k] \in {seen[k], overview[k], world[k]}
        BY <1>10, LateView
      <4>2. overview[k] <= world[k]
        BY <3>2 DEF NothingAhead, Past
      <4> QED  BY <1>1, <4>1, <4>2
    <3> QED  BY <3>1, <3>2
  <2>3. \A m \in Kinds : view'[q][m] <= world[m]
    <3>1. view'[q] = [view[q] EXCEPT ![k] = view'[q][k]]
      BY <1>10, LateView
    <3>2. ASSUME NEW m \in Kinds, m # k PROVE view'[q][m] <= world[m]
      <4>1. view'[q][m] = view[q][m]
        BY <2>1, <3>1, <3>2 DEF Contents
      <4> QED  BY <2>1, <4>1 DEF NothingAhead, Past
    <3> QED  BY <2>2, <3>2
  <2>4. \A p \in Requests :
           \/ view'[p] = view[p]
           \/ \A m \in Kinds : view'[p][m] <= world[m]
    BY <1>10, <2>3, LateView
  <2> QED  BY <1>10, <2>4, AheadKeeps DEF ReadsLate
<1>11. ASSUME NEW q \in Requests, CacheBuild(q) PROVE NothingAhead'
  <2>1. \A p \in Requests : view'[p] \in {view[p], NoContents}
    BY <1>1, <1>11 DEF CacheBuild
  <2>2. cached' = cached \/ \A k \in Kinds : cached'[k] <= world[k]
    BY <1>11 DEF CacheBuild, NothingAhead, Past
  <2> QED  BY <1>11, <2>1, <2>2, AheadKeeps DEF CacheBuild
<1>12. CASE Start \/ Stop \/ InitialGivesUp \/ Expire
  BY <1>12, AheadKeeps DEF Start, Stop, InitialGivesUp, Expire
<1>13. CASE Overview
  <2>1. \/ overview' \in {overview, NoContents}
        \/ \A k \in Kinds : overview'[k] <= world[k]
    <3>1. CASE OverviewSyncs \/ OverviewStops
      BY <1>1, <3>1 DEF OverviewSyncs, OverviewStops
    <3>2. ASSUME NEW k \in Kinds, OverviewHears(k)
          PROVE  \A m \in Kinds : overview'[m] <= world[m]
      BY <1>1, <3>2 DEF OverviewHears, NothingAhead, Past, TypeOK, Contents
    <3> QED  BY <1>13, <3>1, <3>2 DEF Overview
  <2> QED
    BY <1>13, <2>1, AheadKeeps DEF Overview, OverviewSyncs, OverviewHears, OverviewStops
<1>14. CASE UNCHANGED vars
  BY <1>14, AheadKeeps DEF vars
<1> QED
  BY <1>2, <1>3, <1>4, <1>5, <1>6, <1>7, <1>8, <1>9, <1>10, <1>11, <1>12, <1>13, <1>14
     DEF Next, Rebuild, Build

(* However rebuilds, requests and invalidations overlap: the graph and the  *)
(* cached topology may be behind the cluster, of one kind more than of      *)
(* another, but never ahead of it. (collectResources, rebuild, Set)         *)
THEOREM NeverAhead == Spec => []NothingAhead
BY AheadInit, AheadNext, TypeInit, TypeNext, PTL DEF Spec
=============================================================================
