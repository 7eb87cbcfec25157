------------------------ MODULE ClusterSessionsProofs ------------------------
(***************************************************************************)
(* Proofs about ClusterSessions, for any number of goroutines, clients and *)
(* informer managers: types, that the entry, the cache and the informers   *)
(* agree, that what is left of a deleted cluster has a cleaner and what is *)
(* gone stays gone, who buries an entry, and that the informers follow the *)
(* pool's client.                                                          *)
(***************************************************************************)
EXTENDS ClusterSessions, TLAPS

Whole == TypeOK /\ NoHalfState

(***************************************************************************)
(* The building blocks.                                                    *)
(***************************************************************************)

\* What the goroutines are.
Works ==
    /\ pc \in [Workers -> Points]
    /\ cl \in [Workers -> Clients \cup {None}]
    /\ \A w \in Workers : pc[w] \in Bearing => cl[w] # None
    /\ ended \subseteq Workers
    /\ leader \in Workers \cup {None}
    /\ failCache \in {"none", "fresh", "expired"}

\* What the entry, the cache and the informers have to agree on.
Informed ==
    /\ entry \in Entries
    /\ cache \in Managers \cup {None}
    /\ live \subseteq Managers
    /\ clientOf \in [Managers -> Clients \cup {None}]
    /\ NoHalfState

Rest == row \in {"unborn", "present", "deleted"} /\ pool \in Clients \cup {None} /\ loaded \in BOOLEAN

\* Starting the cache over leaves one manager.
LEMMA Restarts ==
    ASSUME Informed, NEW c \in Clients \cup {None}, Reconnected(c)
    PROVE  Informed'
<1>1. PICK m \in Managers :
        /\ cache' = m
        /\ live' = StoppedLive \cup {m}
        /\ clientOf' = [clientOf EXCEPT ![m] = c]
  BY DEF Reconnected, StartCache
<1>2. StoppedLive = {}
  BY DEF Informed, NoHalfState, StoppedLive
<1>3. entry' = [entry EXCEPT !.active = TRUE, !.im = m, !.idle = FALSE]
  BY <1>1 DEF Reconnected
<1>4. m # None
  BY ConstantsAssumption
<1>5. /\ entry' \in Entries
      /\ entry'.active = TRUE
      /\ entry'.im = m
  BY <1>3 DEF Informed, Entries
<1> QED  BY <1>1, <1>2, <1>4, <1>5 DEF Informed, NoHalfState

\* Activation starts at most the one manager of an inactive entry.
LEMMA Activates ==
    ASSUME Informed, NEW c \in Clients \cup {None}, EnsureActive(c)
    PROVE  Informed'
<1>1. CASE entry.removed /\ UNCHANGED entryVars
  BY <1>1 DEF Informed, NoHalfState, entryVars
<1>2. CASE /\ entry' = [entry EXCEPT !.idle = FALSE]
           /\ UNCHANGED <<cache, live, clientOf>>
  <2>1. entry' \in Entries /\ entry'.active = entry.active /\ entry'.im = entry.im
    BY <1>2 DEF Informed, Entries
  <2> QED  BY <1>2, <2>1 DEF Informed, NoHalfState
<1>3. CASE /\ ~entry.active
           /\ StartCache(c, cache, live)
           /\ entry' = [entry EXCEPT !.active = TRUE, !.im = cache', !.idle = FALSE]
  <2>1. cache = None /\ live = {}
    BY <1>3 DEF Informed, NoHalfState
  <2>2. PICK m \in Managers :
          /\ cache' = m
          /\ live' = live \cup {m}
          /\ clientOf' = [clientOf EXCEPT ![m] = c]
    BY <1>3, <2>1 DEF StartCache
  <2>3. m # None
    BY ConstantsAssumption
  <2>4. entry' \in Entries /\ entry'.active = TRUE /\ entry'.im = m
    BY <1>3, <2>2 DEF Informed, Entries
  <2> QED  BY <2>1, <2>2, <2>3, <2>4 DEF Informed, NoHalfState
<1> QED  BY <1>1, <1>2, <1>3 DEF EnsureActive

\* Stopping leaves none.
LEMMA Stops ==
    ASSUME Informed, StopCache,
           \/ entry' = [entry EXCEPT !.active = FALSE, !.im = None, !.removed = TRUE]
           \/ entry' = [entry EXCEPT !.active = FALSE, !.im = None]
    PROVE  Informed' /\ live' = {} /\ cache' = None
<1>1. live' = {} /\ cache' = None /\ UNCHANGED clientOf
  BY DEF Informed, NoHalfState, StopCache, StoppedLive
<1>2. entry' \in Entries /\ entry'.active = FALSE /\ entry'.im = None
  BY DEF Informed, Entries
<1> QED  BY <1>1, <1>2 DEF Informed, NoHalfState

\* Whoever returns is idle, and so are those who shared its call.
LEMMA Returns ==
    ASSUME Works, NEW w \in Workers, NEW ok \in BOOLEAN, Return(w, ok)
    PROVE  /\ Works'
           /\ pc'[w] = "idle"
           /\ \A v \in Workers : pc'[v] = pc[v] \/ (pc'[v] = "idle" /\ (v = w \/ pc[v] = "lWait"))
<1>1. "idle" \in Points /\ "idle" \notin Bearing
  BY DEF Points, Bearing
<1>2. /\ cl' \in [Workers -> Clients \cup {None}]
      /\ \A v \in Workers \ {w} : cl'[v] = cl[v]
  BY DEF Works, Return
<1>3. CASE leader = w
  BY <1>1, <1>2, <1>3 DEF Works, Return
<1>4. CASE leader # w
  BY <1>1, <1>2, <1>4 DEF Works, Return, Goto
<1> QED  BY <1>3, <1>4

\* Whoever goes on is where it goes, with the client it has.
LEMMA Goes ==
    ASSUME Works, NEW w \in Workers, NEW p \in Points, Goto(w, p),
           cl' \in [Workers -> Clients \cup {None}],
           \A v \in Workers \ {w} : cl'[v] = cl[v],
           p \in Bearing => cl'[w] # None,
           ended' \subseteq Workers,
           leader' \in Workers \cup {None},
           failCache' \in {"none", "fresh", "expired"}
    PROVE  /\ Works'
           /\ pc'[w] = p
           /\ \A v \in Workers : v # w => pc'[v] = pc[v]
BY DEF Works, Goto

(***************************************************************************)
(* Every step keeps the whole.                                             *)
(***************************************************************************)

\* Where the informers and their entry stay as they are, they still agree.
LEMMA Untouched == ASSUME Informed, UNCHANGED entryVars PROVE Informed'
BY DEF Informed, NoHalfState, entryVars

LEMMA WholeInit == Init => Whole
<1> SUFFICES ASSUME Init PROVE Works /\ Informed /\ Rest
  BY DEF Whole, Works, Informed, Rest, TypeOK
<1>1. Works
  BY DEF Init, Booted, Works, Points, Bearing
<1>2. Informed
  BY DEF Init, Booted, Informed, Entries, NoHalfState
<1>3. Rest
  BY DEF Init, Booted, Rest
<1> QED  BY <1>1, <1>2, <1>3

\* A tested client comes back, or an error does.
LEMMA ConnectsKeeps ==
    ASSUME Works, Informed, Rest, NEW w \in Workers, NEW from \in Points, NEW to \in Points,
           Connects(w, from, to)
    PROVE  Works' /\ Informed' /\ Rest'
<1>1. PICK c \in Clients \ InUse : cl' = [cl EXCEPT ![w] = c]
  BY DEF Connects
<1>2. c # None
  BY <1>1, ConstantsAssumption
<1>3. Works'
  BY <1>1, <1>2 DEF Connects, Step, Goto, Works
<1>4. Informed' /\ Rest'
  BY Untouched DEF Connects, Rest
<1> QED  BY <1>3, <1>4

LEMMA FailsKeeps ==
    ASSUME Works, Informed, Rest, NEW w \in Workers, NEW from \in Points, Fails(w, from)
    PROVE  Works' /\ Informed' /\ Rest'
<1>1. Works'
  BY Returns DEF Fails
<1>2. Informed' /\ Rest'
  BY Untouched DEF Fails, Rest
<1> QED  BY <1>1, <1>2

LEMMA StoreKeeps ==
    ASSUME Works, Informed, Rest, NEW w \in Workers, NEW from \in Points, NEW to \in Points,
           from \in Bearing, Store(w, from, to)
    PROVE  Works' /\ Informed' /\ Rest'
<1>1. cl[w] \in Clients
  BY DEF Works, Store, Step
<1>2. Works'
  BY <1>1 DEF Store, Step, Goto, Works
<1>3. Informed' /\ Rest'
  BY <1>1, Untouched DEF Store, Rest
<1> QED  BY <1>2, <1>3

LEMMA ReconnectKeeps ==
    ASSUME Works, Informed, Rest, NEW w \in Workers, Reconnect(w)
    PROVE  Works' /\ Informed' /\ Rest'
<1>1. CASE BeginReconnect(w)
  <2>1. Works'
    BY <1>1 DEF BeginReconnect, Begin, Goto, Works, Points, Bearing
  <2> QED  BY <1>1, <2>1, Untouched DEF BeginReconnect, Rest
<1>2. CASE ReconnectGet(w)
  <2>1. CASE Fails(w, "rGet")
    BY <2>1, FailsKeeps DEF Points
  <2>2. CASE /\ Step(w, "rGet", "rBuild")
             /\ UNCHANGED <<row, pool, entryVars, failCache, leader, loaded, cl, ended>>
    <3>1. Works'
      BY <2>2 DEF Step, Goto, Works, Points, Bearing
    <3> QED  BY <2>2, <3>1, Untouched DEF Rest
  <2> QED  BY <1>2, <2>1, <2>2 DEF ReconnectGet
<1>3. CASE ReconnectBuild(w)
  <2>1. "rBuild" \in Points /\ "rPool" \in Points
    BY DEF Points
  <2> QED  BY <1>3, <2>1, ConnectsKeeps, FailsKeeps DEF ReconnectBuild
<1>4. CASE ReconnectStore(w)
  <2>1. "rPool" \in Points /\ "rStart" \in Points /\ "rPool" \in Bearing
    BY DEF Points, Bearing
  <2> QED  BY <1>4, <2>1, StoreKeeps DEF ReconnectStore
<1>5. CASE ReconnectStart(w)
  <2>1. cl[w] \in Clients \cup {None} /\ Reconnected(cl[w])
    BY <1>5 DEF Works, ReconnectStart
  <2>2. Informed'
    BY <2>1, Restarts
  <2>3. Works'
    BY <1>5 DEF ReconnectStart, Step, Goto, Works, Points, Bearing
  <2> QED  BY <1>5, <2>2, <2>3 DEF ReconnectStart, Rest
<1>6. CASE ReconnectInfo(w)
  <2>1. Works'
    BY <1>6 DEF ReconnectInfo, Step, Goto, Works, Points, Bearing
  <2> QED  BY <1>6, <2>1, Untouched DEF ReconnectInfo, Rest
<1>7. CASE FinishReconnect(w)
  <2>1. Informed' /\ Rest'
    BY <1>7, Untouched DEF FinishReconnect, Rest
  <2>2. CASE Goto(w, "rDrop") /\ UNCHANGED <<failCache, leader, cl, ended>>
    BY <2>1, <2>2 DEF Goto, Works, Points, Bearing
  <2>3. CASE Return(w, TRUE)
    BY <2>1, <2>3, Returns
  <2> QED  BY <1>7, <2>2, <2>3 DEF FinishReconnect
<1>8. CASE RollbackInformers(w)
  <2>1. Informed'
    BY <1>8, Stops DEF RollbackInformers, Remove
  <2>2. Works'
    BY <1>8 DEF RollbackInformers, Step, Goto, Works, Points, Bearing
  <2> QED  BY <1>8, <2>1, <2>2 DEF RollbackInformers, Rest
<1>9. CASE RollbackClient(w)
  <2>1. Works'
    BY <1>9, Returns DEF RollbackClient
  <2> QED  BY <1>9, <2>1, Untouched DEF RollbackClient, Rest
<1> QED  BY <1>1, <1>2, <1>3, <1>4, <1>5, <1>6, <1>7, <1>8, <1>9 DEF Reconnect

LEMMA LazyKeeps ==
    ASSUME Works, Informed, Rest, NEW w \in Workers, LazyReconnect(w)
    PROVE  Works' /\ Informed' /\ Rest'
<1>1. CASE BeginLazy(w)
  <2>1. Works'
    BY <1>1 DEF BeginLazy, Begin, Goto, Works, Points, Bearing
  <2> QED  BY <1>1, <2>1, Untouched DEF BeginLazy, Rest
<1>2. CASE LazyNegative(w)
  <2>1. Informed' /\ Rest'
    BY <1>2, Untouched DEF LazyNegative, Rest
  <2>2. CASE Return(w, FALSE)
    BY <2>1, <2>2, Returns
  <2>3. CASE /\ Step(w, "lNegative", "lJoin")
             /\ failCache' = "none"
             /\ UNCHANGED <<row, pool, entryVars, leader, loaded, cl, ended>>
    BY <2>1, <2>3 DEF Step, Goto, Works, Points, Bearing
  <2> QED  BY <1>2, <2>2, <2>3 DEF LazyNegative
<1>3. CASE LazyJoin(w)
  <2>1. Works'
    BY <1>3 DEF LazyJoin, Step, Goto, Works, Points, Bearing
  <2> QED  BY <1>3, <2>1, Untouched DEF LazyJoin, Rest
<1>4. CASE LazyCheck(w)
  <2>1. Informed' /\ Rest'
    BY <1>4, Untouched DEF LazyCheck, Rest
  <2>2. CASE Return(w, TRUE)
    BY <2>1, <2>2, Returns
  <2>3. CASE /\ Step(w, "lCheck", "rGet")
             /\ UNCHANGED <<row, pool, entryVars, failCache, leader, loaded, cl, ended>>
    BY <2>1, <2>3 DEF Step, Goto, Works, Points, Bearing
  <2> QED  BY <1>4, <2>2, <2>3 DEF LazyCheck
<1> QED  BY <1>1, <1>2, <1>3, <1>4 DEF LazyReconnect

LEMMA TouchKeeps ==
    ASSUME Works, Informed, Rest, NEW w \in Workers, Touch(w)
    PROVE  Works' /\ Informed' /\ Rest'
<1>1. CASE BeginTouch(w)
  <2>1. Works'
    BY <1>1 DEF BeginTouch, Begin, Goto, Works, Rest, Points, Bearing
  <2> QED  BY <1>1, <2>1, Untouched DEF BeginTouch, Rest
<1>2. CASE TouchEnsure(w)
  <2>1. Works'
    BY <1>2, Returns DEF TouchEnsure
  <2>2. cl[w] \in Clients \cup {None}
    BY DEF Works
  <2>3. Informed'
    BY <1>2, <2>2, Activates DEF TouchEnsure
  <2> QED  BY <1>2, <2>1, <2>3 DEF TouchEnsure, Rest
<1> QED  BY <1>1, <1>2 DEF Touch

LEMMA ViewKeeps ==
    ASSUME Works, Informed, Rest, NEW w \in Workers, View(w)
    PROVE  Works' /\ Informed' /\ Rest'
<1>1. CASE BeginView(w)
  <2>1. Works'
    BY <1>1 DEF BeginView, Begin, Goto, Works, Points, Bearing
  <2> QED  BY <1>1, <2>1, Untouched DEF BeginView, Rest
<1>2. CASE ViewPool(w)
  <2>1. Informed' /\ Rest'
    BY <1>2, Untouched DEF ViewPool, Rest
  <2>2. CASE Return(w, TRUE)
    BY <2>1, <2>2, Returns
  <2>3. CASE /\ Step(w, "vPool", "vBuild")
             /\ UNCHANGED <<row, pool, entryVars, failCache, leader, loaded, cl, ended>>
    BY <2>1, <2>3 DEF Step, Goto, Works, Points, Bearing
  <2> QED  BY <1>2, <2>2, <2>3 DEF ViewPool
<1>3. CASE ViewBuild(w)
  <2>1. "vBuild" \in Points /\ "vStore" \in Points
    BY DEF Points
  <2> QED  BY <1>3, <2>1, ConnectsKeeps, FailsKeeps DEF ViewBuild
<1>4. CASE ViewStore(w)
  <2>1. "vStore" \in Points /\ "vStart" \in Points /\ "vStore" \in Bearing
    BY DEF Points, Bearing
  <2> QED  BY <1>4, <2>1, StoreKeeps DEF ViewStore
<1>5. CASE ViewStart(w)
  <2>1. Works'
    BY <1>5, Returns DEF ViewStart
  <2>2. cl[w] \in Clients \cup {None}
    BY DEF Works
  <2>3. Informed'
    BY <1>5, <2>2, Restarts DEF ViewStart
  <2> QED  BY <1>5, <2>1, <2>3 DEF ViewStart, Rest
<1> QED  BY <1>1, <1>2, <1>3, <1>4, <1>5 DEF View

LEMMA RemoveKeeps ==
    ASSUME Works, Informed, Rest, NEW w \in Workers, RemoveCluster(w)
    PROVE  Works' /\ Informed' /\ Rest'
<1>1. CASE BeginRemove(w)
  <2>1. Works'
    BY <1>1 DEF BeginRemove, Begin, Goto, Works, Points, Bearing
  <2> QED  BY <1>1, <2>1, Untouched DEF BeginRemove, Rest
<1>2. CASE RemoveRow(w)
  <2>1. CASE Fails(w, "dDelete")
    BY <2>1, FailsKeeps DEF Points
  <2>2. CASE /\ Step(w, "dDelete", "dPool")
             /\ row' = "deleted"
             /\ UNCHANGED <<pool, entryVars, failCache, leader, loaded, cl, ended>>
    <3>1. Works'
      BY <2>2 DEF Step, Goto, Works, Points, Bearing
    <3> QED  BY <2>2, <3>1, Untouched DEF Rest
  <2> QED  BY <1>2, <2>1, <2>2 DEF RemoveRow
<1>3. CASE RemoveClient(w)
  <2>1. Works'
    BY <1>3 DEF RemoveClient, Step, Goto, Works, Points, Bearing
  <2> QED  BY <1>3, <2>1, Untouched DEF RemoveClient, Rest
<1>4. CASE RemoveInformers(w)
  <2>1. Works'
    BY <1>4, Returns DEF RemoveInformers
  <2>2. Informed'
    BY <1>4, Stops DEF RemoveInformers, Remove
  <2> QED  BY <1>4, <2>1, <2>2 DEF RemoveInformers, Rest
<1> QED  BY <1>1, <1>2, <1>3, <1>4 DEF RemoveCluster

\* Once the row is written, the client that is stored is one that was tested.
LEMMA WrittenKeeps ==
    ASSUME Works, NEW w \in Workers, Written(w)
    PROVE  Works'
<1>1. CASE cl[w] = None
  BY <1>1, Returns DEF Written
<1>2. CASE cl[w] # None
  BY <1>2 DEF Written, Goto, Works, Points, Bearing
<1> QED  BY <1>1, <1>2

LEMMA AddKeeps ==
    ASSUME Works, Informed, Rest, NEW w \in Workers, AddCluster(w)
    PROVE  Works' /\ Informed' /\ Rest'
<1>1. CASE BeginAdd(w)
  <2>1. Works'
    BY <1>1 DEF BeginAdd, Begin, Goto, Works, Points, Bearing
  <2> QED  BY <1>1, <2>1, Untouched DEF BeginAdd, Rest
<1>2. CASE AddTest(w)
  <2> DEFINE Tested(from, to) == Connects(w, from, to) \/ Untested(w, from, to)
  <2>1. ASSUME NEW from \in Points, NEW to \in Points \ Bearing, Untested(w, from, to)
        PROVE  Works' /\ Informed' /\ Rest'
    <3>1. Works'
      BY <2>1 DEF Untested, Step, Goto, Works
    <3> QED  BY <2>1, <3>1, Untouched DEF Untested, Rest
  <2>2. /\ {"aTest", "cTest", "aUpdate", "aCreate"} \subseteq Points
        /\ "aUpdate" \notin Bearing /\ "aCreate" \notin Bearing
    BY DEF Points, Bearing
  <2>3. CASE Tested("aTest", "aUpdate")
    BY <2>1, <2>2, <2>3, ConnectsKeeps
  <2>4. CASE Tested("cTest", "aCreate")
    BY <2>1, <2>2, <2>4, ConnectsKeeps
  <2> QED  BY <1>2, <2>3, <2>4 DEF AddTest
<1>3. CASE AddUpdate(w)
  <2>1. CASE Fails(w, "aUpdate")
    BY <2>1, FailsKeeps DEF Points
  <2>2. CASE Written(w) /\ UNCHANGED <<row, pool, entryVars, loaded>>
    BY <2>2, WrittenKeeps, Untouched DEF Rest
  <2> QED  BY <1>3, <2>1, <2>2 DEF AddUpdate
<1>4. CASE AddCreate(w)
  <2>1. CASE Fails(w, "aCreate")
    BY <2>1, FailsKeeps DEF Points
  <2>2. CASE row' = "present" /\ Written(w) /\ UNCHANGED <<pool, entryVars, loaded>>
    BY <2>2, WrittenKeeps, Untouched DEF Rest
  <2> QED  BY <1>4, <2>1, <2>2 DEF AddCreate
<1>5. CASE AddStore(w)
  <2>1. Works'
    BY <1>5, Returns DEF AddStore
  <2> QED  BY <1>5, <2>1, Untouched DEF AddStore, Works, Rest
<1>6. CASE BeginLoad(w)
  <2>1. Works'
    BY <1>6 DEF BeginLoad, Begin, Goto, Works, Points, Bearing
  <2> QED  BY <1>6, <2>1, Untouched DEF BeginLoad, Rest
<1>7. CASE LoadTest(w)
  <2>1. "bTest" \in Points /\ "aStore" \in Points
    BY DEF Points
  <2> QED  BY <1>7, <2>1, ConnectsKeeps, FailsKeeps DEF LoadTest
<1> QED  BY <1>1, <1>2, <1>3, <1>4, <1>5, <1>6, <1>7 DEF AddCluster

LEMMA WholeNext == Whole /\ [Next]_vars => Whole'
<1> SUFFICES ASSUME Works, Informed, Rest, [Next]_vars PROVE Works' /\ Informed' /\ Rest'
  BY DEF Whole, Works, Informed, Rest, TypeOK
<1>1. ASSUME NEW w \in Workers, Work(w) PROVE Works' /\ Informed' /\ Rest'
  BY <1>1, ReconnectKeeps, LazyKeeps, TouchKeeps, ViewKeeps, RemoveKeeps, AddKeeps DEF Work
<1>2. ASSUME NEW w \in Workers, CtxEnds(w) PROVE Works' /\ Informed' /\ Rest'
  <2>1. Works'
    BY <1>2 DEF CtxEnds, Works
  <2> QED  BY <1>2, <2>1, Untouched DEF CtxEnds, Rest
<1>3. CASE Sweep
  <2>1. Informed'
    BY <1>3, Stops DEF Sweep
  <2> QED  BY <1>3, <2>1 DEF Sweep, Works, Rest, workVars
<1>4. CASE GoesIdle
  <2>1. Informed'
    BY <1>4 DEF GoesIdle, Informed, Entries, NoHalfState
  <2> QED  BY <1>4, <2>1 DEF GoesIdle, Works, Rest, workVars
<1>5. CASE FailureExpires
  BY <1>5, Untouched DEF FailureExpires, Works, Rest, workVars
<1>6. CASE ProcessRestart
  <2>1. Works'
    BY <1>6 DEF ProcessRestart, Works, Points, Bearing
  <2>2. Informed'
    BY <1>6 DEF ProcessRestart, Informed, Entries, NoHalfState
  <2> QED  BY <1>6, <2>1, <2>2 DEF ProcessRestart, Rest
<1>7. CASE UNCHANGED vars
  BY <1>7, Untouched DEF vars, workVars, Works, Rest
<1> QED  BY <1>1, <1>2, <1>3, <1>4, <1>5, <1>6, <1>7 DEF Next

LEMMA AlwaysWhole == Spec => []Whole
BY WholeInit, WholeNext, PTL DEF Spec

\* Every variable always holds what its code counterpart can hold, and no
\* goroutine stores or starts informers over a client that was not tested.
THEOREM TypeCorrect == Spec => []TypeOK
<1>1. Whole => TypeOK
  BY DEF Whole
<1> QED  BY <1>1, AlwaysWhole, PTL

\* Whatever reconnects, requests, sweeps, removals and restarts interleave, the
\* lifecycle entry, the OverviewCache and the running informers agree.
THEOREM EntryIsWhole == Spec => []NoHalfState
<1>1. Whole => NoHalfState
  BY DEF Whole
<1> QED  BY <1>1, AlwaysWhole, PTL

(***************************************************************************)
(* Nothing is forgotten: if clusters are only reconnected, read and        *)
(* removed, what is left of a deleted one has a cleaner.  It takes more    *)
(* than CleanupOwed to carry that over a step: which cleaner, and that a   *)
(* deleted cluster whose entry is not buried either will be, or belongs to *)
(* an earlier process and can no longer be connected.                      *)
(***************************************************************************)
Narrow == OpsOf \in [Workers -> SUBSET {"reconnect", "lazy", "touch", "remove"}]

\* Where those operations lead.
Narrowly == {"idle", "rGet", "rBuild", "rPool", "rStart", "rInfo", "rFinish", "rDrop",
             "rForget", "lNegative", "lJoin", "lWait", "lCheck", "tEnsure",
             "dDelete", "dPool", "dRemove"}

At(S) == \E w \in Workers : pc[w] \in S

\* Who will take the client away, who the informers, who buries the entry.
DropsClient == {"rStart", "rInfo", "rFinish", "rDrop", "rForget", "dPool"}
DropsInformers == {"rInfo", "rFinish", "rDrop", "dPool", "dRemove"}
Buries == {"dPool", "dRemove"}

\* Left by an earlier process: nobody gets past the missing row.
Harmless == {"idle", "rGet", "lNegative", "lJoin", "lWait", "lCheck"}
Dead == pool = None /\ live = {} /\ \A w \in Workers : pc[w] \in Harmless

Owed ==
    /\ pool # None => At(DropsClient)
    /\ live # {} => At(DropsInformers)
    /\ entry.removed \/ At(Buries) \/ Dead

Unforgotten == (\A w \in Workers : pc[w] \in Narrowly) /\ (row = "deleted" => Owed)

LEMMA UnforgottenInit == Init => Unforgotten
BY DEF Init, Booted, Unforgotten, Narrowly

\* A goroutine that was not a cleaner, or still is one, changes nothing else.
LEMMA StillOwed ==
    ASSUME Works, NEW w \in Workers, Unforgotten,
           pc'[w] \in Narrowly,
           \A v \in Workers : v # w => pc'[v] = pc[v] \/ (pc[v] = "lWait" /\ pc'[v] = "idle"),
           pc[w] \in DropsClient => pc'[w] \in DropsClient,
           pc[w] \in DropsInformers => pc'[w] \in DropsInformers,
           pc[w] \in Buries => pc'[w] \in Buries,
           row = "deleted" /\ Dead => pc'[w] \in Harmless,
           UNCHANGED <<row, pool, live>>, entry'.removed = entry.removed
    PROVE  Unforgotten'
<1>1. \A v \in Workers : pc'[v] \in Narrowly
  BY DEF Unforgotten, Narrowly
<1>2. ASSUME NEW S \in {DropsClient, DropsInformers, Buries}, At(S) PROVE At(S)'
  <2>1. PICK v \in Workers : pc[v] \in S
    BY <1>2 DEF At
  <2>2. "lWait" \notin S
    BY <1>2 DEF DropsClient, DropsInformers, Buries
  <2>3. pc'[v] \in S
    BY <2>1, <2>2
  <2> QED  BY <2>3 DEF At
<1>3. row = "deleted" /\ Dead => Dead'
  BY DEF Dead, Harmless
<1>4. row = "deleted" => Owed'
  <2> SUFFICES ASSUME Owed, row = "deleted" PROVE Owed'
    BY DEF Unforgotten
  <2>1. pool' # None => At(DropsClient)'
    BY <1>2 DEF Owed
  <2>2. live' # {} => At(DropsInformers)'
    BY <1>2 DEF Owed
  <2>3. (entry.removed \/ At(Buries) \/ Dead)'
    BY <1>2, <1>3 DEF Owed
  <2> QED  BY <2>1, <2>2, <2>3 DEF Owed
<1> QED  BY <1>1, <1>4 DEF Unforgotten

\* While the row is there, nothing is owed.
LEMMA StillThere ==
    ASSUME NEW w \in Workers, Unforgotten,
           pc'[w] \in Narrowly,
           \A v \in Workers : v # w => pc'[v] = pc[v] \/ pc'[v] = "idle",
           row' # "deleted"
    PROVE  Unforgotten'
BY DEF Unforgotten, Narrowly

\* A goroutine that goes from one point to another, and does nothing else to
\* the client and the informers.
LEMMA Walks ==
    ASSUME Works, NEW w \in Workers, Unforgotten, NEW from \in Narrowly, NEW to \in Narrowly,
           pc[w] = from, Goto(w, to),
           from \in DropsClient => to \in DropsClient,
           from \in DropsInformers => to \in DropsInformers,
           from \in Buries => to \in Buries,
           row = "deleted" /\ Dead => to \in Harmless,
           UNCHANGED <<row, pool, live>>, entry'.removed = entry.removed
    PROVE  Unforgotten'
<1>1. pc'[w] = to /\ \A v \in Workers : v # w => pc'[v] = pc[v]
  BY DEF Works, Goto
<1> QED  BY <1>1, StillOwed

\* A goroutine that gives up before it has done anything.
LEMMA GivesUp ==
    ASSUME Works, NEW w \in Workers, Unforgotten, NEW ok \in BOOLEAN, Return(w, ok),
           pc[w] \notin DropsClient \cup DropsInformers \cup Buries,
           UNCHANGED <<row, pool, live>>, entry'.removed = entry.removed
    PROVE  Unforgotten'
<1>1. /\ pc'[w] = "idle"
      /\ \A v \in Workers : v # w => pc'[v] = pc[v] \/ (pc[v] = "lWait" /\ pc'[v] = "idle")
  BY Returns
<1>2. "idle" \in Narrowly /\ "idle" \in Harmless
  BY DEF Narrowly, Harmless
<1> QED  BY <1>1, <1>2, StillOwed

LEMMA ReconnectForgetsNothing ==
    ASSUME Works, Informed, NEW w \in Workers, Unforgotten, Reconnect(w)
    PROVE  Unforgotten'
<1> USE DEF Narrowly, DropsClient, DropsInformers, Buries, Harmless
<1>1. CASE BeginReconnect(w)
  BY <1>1, Walks DEF BeginReconnect, Begin, entryVars
<1>2. CASE ReconnectGet(w)
  <2>1. CASE Fails(w, "rGet")
    BY <2>1, GivesUp DEF Fails, entryVars
  <2>2. CASE /\ row = "present"
             /\ Step(w, "rGet", "rBuild")
             /\ UNCHANGED <<row, pool, entryVars, failCache, leader, loaded, cl, ended>>
    BY <2>2, Walks DEF Step, entryVars
  <2> QED  BY <1>2, <2>1, <2>2 DEF ReconnectGet
<1>3. CASE ReconnectBuild(w)
  <2>1. ~Dead
    BY <1>3 DEF ReconnectBuild, Connects, Fails, Step, Dead
  <2>2. CASE Connects(w, "rBuild", "rPool")
    BY <2>1, <2>2, Walks DEF Connects, Step, entryVars
  <2>3. CASE Fails(w, "rBuild")
    BY <2>3, GivesUp DEF Fails, entryVars
  <2> QED  BY <1>3, <2>2, <2>3 DEF ReconnectBuild
<1>4. CASE ReconnectStore(w)
  <2>1. /\ pc[w] = "rPool" /\ pc'[w] = "rStart"
        /\ \A v \in Workers : v # w => pc'[v] = pc[v]
        /\ UNCHANGED <<row, entry, live>>
    BY <1>4 DEF ReconnectStore, Store, Step, Goto, Works, entryVars
  <2>2. At(DropsInformers) => At(DropsInformers)'
    BY <2>1 DEF At
  <2>3. At(Buries) => At(Buries)'
    BY <2>1 DEF At
  <2>4. At(DropsClient)'
    BY <2>1 DEF At
  <2>5. ~Dead
    BY <2>1 DEF Dead
  <2> QED  BY <2>1, <2>2, <2>3, <2>4, <2>5 DEF Unforgotten, Owed
<1>5. CASE ReconnectStart(w)
  <2>1. /\ pc[w] = "rStart" /\ pc'[w] \in {"rInfo", "rFinish"}
        /\ \A v \in Workers : v # w => pc'[v] = pc[v]
        /\ UNCHANGED <<row, pool>>
    BY <1>5 DEF ReconnectStart, Step, Goto, Works
  <2>2. entry'.removed = entry.removed
    BY <1>5 DEF ReconnectStart, Reconnected, Informed, Entries
  <2>3. At(DropsClient)' /\ At(DropsInformers)'
    BY <2>1 DEF At
  <2>4. At(Buries) => At(Buries)'
    BY <2>1 DEF At
  <2>5. ~Dead
    BY <2>1 DEF Dead
  <2> QED  BY <2>1, <2>2, <2>3, <2>4, <2>5 DEF Unforgotten, Owed
<1>6. CASE ReconnectInfo(w)
  <2>1. ~Dead
    BY <1>6 DEF ReconnectInfo, Step, Dead
  <2> QED  BY <1>6, <2>1, Walks DEF ReconnectInfo, Step, entryVars
<1>7. CASE FinishReconnect(w)
  <2>1. ~Dead
    BY <1>7 DEF FinishReconnect, Dead
  <2>2. CASE Goto(w, "rDrop")
    BY <1>7, <2>1, <2>2, Walks DEF FinishReconnect, entryVars
  <2>3. CASE ~LookupFails(w) /\ Return(w, TRUE)
    <3>1. row' # "deleted"
      BY <1>7, <2>3 DEF FinishReconnect, LookupFails
    <3>2. /\ pc'[w] = "idle"
          /\ \A v \in Workers : v # w => pc'[v] = pc[v] \/ pc'[v] = "idle"
      BY <2>3, Returns
    <3> QED  BY <3>1, <3>2, StillThere
  <2> QED  BY <1>7, <2>2, <2>3 DEF FinishReconnect
<1>8. CASE RollbackInformers(w)
  <2>1. /\ pc[w] = "rDrop" /\ pc'[w] = "rForget"
        /\ \A v \in Workers : v # w => pc'[v] = pc[v]
        /\ UNCHANGED <<row, pool>>
    BY <1>8 DEF RollbackInformers, Step, Goto, Works
  <2>2. live' = {} /\ entry'.removed
    BY <1>8, Stops DEF RollbackInformers, Remove, Informed, Entries
  <2>3. At(DropsClient)'
    BY <2>1 DEF At
  <2> QED  BY <2>1, <2>2, <2>3 DEF Unforgotten, Owed
<1>9. CASE RollbackClient(w)
  <2>1. /\ pc'[w] = "idle"
        /\ \A v \in Workers : v # w => pc'[v] = pc[v] \/ (pc[v] = "lWait" /\ pc'[v] = "idle")
    BY <1>9, Returns DEF RollbackClient
  <2>2. pc[w] = "rForget" /\ pool' = None /\ UNCHANGED <<row, entry, live>>
    BY <1>9 DEF RollbackClient, entryVars
  <2>3. At(DropsInformers) => At(DropsInformers)'
    BY <2>1, <2>2 DEF At
  <2>4. At(Buries) => At(Buries)'
    BY <2>1, <2>2 DEF At
  <2>5. ~Dead
    BY <2>2 DEF Dead
  <2> QED  BY <2>1, <2>2, <2>3, <2>4, <2>5 DEF Unforgotten, Owed
<1> QED  BY <1>1, <1>2, <1>3, <1>4, <1>5, <1>6, <1>7, <1>8, <1>9 DEF Reconnect

LEMMA LazyForgetsNothing ==
    ASSUME Works, NEW w \in Workers, Unforgotten, LazyReconnect(w)
    PROVE  Unforgotten'
<1> USE DEF Narrowly, DropsClient, DropsInformers, Buries, Harmless
<1>1. CASE BeginLazy(w)
  BY <1>1, Walks DEF BeginLazy, Begin, entryVars
<1>2. CASE LazyNegative(w)
  <2>1. CASE pc[w] = "lNegative" /\ Return(w, FALSE) /\ UNCHANGED <<row, pool, entryVars, loaded>>
    BY <2>1, GivesUp DEF entryVars
  <2>2. CASE Step(w, "lNegative", "lJoin") /\ UNCHANGED <<row, pool, entryVars>>
    BY <2>2, Walks DEF Step, entryVars
  <2> QED  BY <1>2, <2>1, <2>2 DEF LazyNegative
<1>3. CASE LazyJoin(w)
  BY <1>3, Walks DEF LazyJoin, Step, entryVars
<1>4. CASE LazyCheck(w)
  <2>1. CASE pc[w] = "lCheck" /\ Return(w, TRUE) /\ UNCHANGED <<row, pool, entryVars, loaded>>
    BY <2>1, GivesUp DEF entryVars
  <2>2. CASE Step(w, "lCheck", "rGet") /\ UNCHANGED <<row, pool, entryVars>>
    BY <2>2, Walks DEF Step, entryVars
  <2> QED  BY <1>4, <2>1, <2>2 DEF LazyCheck
<1> QED  BY <1>1, <1>2, <1>3, <1>4 DEF LazyReconnect

\* An activation that starts informers finds the entry unburied, so the one who
\* buries it is still on the way.
LEMMA TouchForgetsNothing ==
    ASSUME Works, Informed, NEW w \in Workers, Unforgotten, Touch(w)
    PROVE  Unforgotten'
<1> USE DEF Narrowly, DropsClient, DropsInformers, Buries, Harmless
<1>1. CASE BeginTouch(w)
  <2>1. ~Dead
    BY <1>1 DEF BeginTouch, Dead
  <2> QED  BY <1>1, <2>1, Walks DEF BeginTouch, Begin, entryVars
<1>2. CASE TouchEnsure(w)
  <2>1. pc[w] = "tEnsure" /\ Return(w, TRUE) /\ UNCHANGED <<row, pool>>
    BY <1>2 DEF TouchEnsure
  <2>2. entry'.removed = entry.removed
    BY <1>2 DEF TouchEnsure, EnsureActive, Informed, Entries, entryVars
  <2>3. CASE UNCHANGED live
    BY <2>1, <2>2, <2>3, GivesUp
  <2>4. CASE ~entry.removed
    <3>1. /\ pc'[w] = "idle"
          /\ \A v \in Workers : v # w => pc'[v] = pc[v] \/ (pc[v] = "lWait" /\ pc'[v] = "idle")
      BY <2>1, Returns
    <3>2. ~Dead
      BY <2>1 DEF Dead
    <3>3. At(DropsClient) => At(DropsClient)'
      BY <2>1, <3>1 DEF At
    <3>4. At(Buries) => At(Buries)' /\ At(DropsInformers)'
      BY <2>1, <3>1 DEF At
    <3> QED  BY <2>1, <2>4, <3>1, <3>2, <3>3, <3>4 DEF Unforgotten, Owed
  <2> QED  BY <1>2, <2>3, <2>4 DEF TouchEnsure, EnsureActive, entryVars
<1> QED  BY <1>1, <1>2 DEF Touch

LEMMA RemoveForgetsNothing ==
    ASSUME Works, Informed, NEW w \in Workers, Unforgotten, RemoveCluster(w)
    PROVE  Unforgotten'
<1> USE DEF Narrowly, DropsClient, DropsInformers, Buries, Harmless
<1>1. CASE BeginRemove(w)
  BY <1>1, Walks DEF BeginRemove, Begin, entryVars
<1>2. CASE RemoveRow(w)
  <2>1. CASE Fails(w, "dDelete")
    BY <2>1, GivesUp DEF Fails, entryVars
  <2>2. CASE Step(w, "dDelete", "dPool")
    <3>1. /\ pc'[w] = "dPool"
          /\ \A v \in Workers : v # w => pc'[v] = pc[v]
      BY <2>2 DEF Step, Goto, Works
    <3>2. At(DropsClient)' /\ At(DropsInformers)' /\ At(Buries)'
      BY <3>1 DEF At
    <3> QED  BY <3>1, <3>2 DEF Unforgotten, Owed
  <2> QED  BY <1>2, <2>1, <2>2 DEF RemoveRow
<1>3. CASE RemoveClient(w)
  <2>1. /\ pc'[w] = "dRemove"
        /\ \A v \in Workers : v # w => pc'[v] = pc[v]
        /\ pool' = None
    BY <1>3 DEF RemoveClient, Step, Goto, Works
  <2>2. At(DropsInformers)' /\ At(Buries)'
    BY <2>1 DEF At
  <2> QED  BY <2>1, <2>2 DEF Unforgotten, Owed
<1>4. CASE RemoveInformers(w)
  <2>1. /\ pc[w] = "dRemove" /\ pc'[w] = "idle"
        /\ \A v \in Workers : v # w => pc'[v] = pc[v] \/ (pc[v] = "lWait" /\ pc'[v] = "idle")
        /\ UNCHANGED <<row, pool>>
    BY <1>4, Returns DEF RemoveInformers
  <2>2. live' = {} /\ entry'.removed
    BY <1>4, Stops DEF RemoveInformers, Remove, Informed, Entries
  <2>3. At(DropsClient) => At(DropsClient)'
    BY <2>1 DEF At
  <2> QED  BY <2>1, <2>2, <2>3 DEF Unforgotten, Owed
<1> QED  BY <1>1, <1>2, <1>3, <1>4 DEF RemoveCluster

LEMMA UnforgottenNext ==
    ASSUME Narrow PROVE Whole /\ Unforgotten /\ [Next]_vars => Unforgotten'
<1> SUFFICES ASSUME Works, Informed, Rest, Unforgotten, [Next]_vars PROVE Unforgotten'
  BY DEF Whole, Works, Informed, Rest, TypeOK
<1>1. ASSUME NEW w \in Workers, Work(w) PROVE Unforgotten'
  <2>1. ~View(w)
    BY DEF Narrow, Unforgotten, Narrowly, View, BeginView, Begin, ViewPool, ViewBuild,
           Connects, Fails, ViewStore, Store, Step, ViewStart
  <2>2. ~AddCluster(w)
    BY DEF Narrow, Unforgotten, Narrowly, AddCluster, BeginAdd, BeginLoad, Begin, AddTest,
           Untested, AddUpdate, AddCreate, AddStore, LoadTest, Connects, Fails, Step
  <2> QED  BY <1>1, <2>1, <2>2, ReconnectForgetsNothing, LazyForgetsNothing,
              TouchForgetsNothing, RemoveForgetsNothing DEF Work
<1>2. ASSUME NEW w \in Workers, CtxEnds(w) PROVE Unforgotten'
  BY <1>2 DEF CtxEnds, entryVars, Unforgotten, Owed, Dead, At
<1>3. CASE Sweep
  <2>1. live' = {} /\ entry'.removed = entry.removed
    BY <1>3, Stops DEF Sweep, Informed, Entries
  <2> QED  BY <1>3, <2>1 DEF Sweep, workVars, Unforgotten, Owed, Dead, At
<1>4. CASE GoesIdle
  <2>1. entry'.removed = entry.removed
    BY <1>4 DEF GoesIdle, Informed, Entries
  <2> QED  BY <1>4, <2>1 DEF GoesIdle, workVars, Unforgotten, Owed, Dead, At
<1>5. CASE FailureExpires
  BY <1>5 DEF FailureExpires, entryVars, workVars, Unforgotten, Owed, Dead, At
<1>6. CASE ProcessRestart
  <2>1. pool' = None /\ live' = {} /\ \A w \in Workers : pc'[w] = "idle"
    BY <1>6 DEF ProcessRestart
  <2> QED  BY <2>1 DEF Unforgotten, Narrowly, Owed, Dead, Harmless
<1>7. CASE UNCHANGED vars
  BY <1>7 DEF vars, entryVars, workVars, Unforgotten, Owed, Dead, At
<1> QED  BY <1>1, <1>2, <1>3, <1>4, <1>5, <1>6, <1>7 DEF Next

\* If clusters are only reconnected, read and removed, a client or an informer
\* of a deleted cluster always has somebody about to take it away, however many
\* of these run at once and wherever their contexts end.
THEOREM NothingIsForgotten == ASSUME Narrow PROVE Spec => []CleanupOwed
<1>1. Unforgotten => CleanupOwed
  BY DEF Unforgotten, Owed, At, CleanupOwed, Cleaners, DropsClient, DropsInformers
<1> QED  BY <1>1, AlwaysWhole, UnforgottenInit, UnforgottenNext, PTL DEF Spec

(***************************************************************************)
(* What RemovedGoesQuiet asks for once it is reached is kept, whatever     *)
(* requests run and wherever their contexts and the process end.           *)
(***************************************************************************)

\* Where a goroutine is on its way to a client or to informers, and has looked
\* at the row for the last time.
Restless == {"rBuild", "rPool", "rStart", "vPool", "vBuild", "vStore", "vStart",
             "aTest", "aUpdate", "bTest", "aStore"}

\* A removed cluster that nobody is about to connect: informers are still asked
\* for with a client from before, in vain if the entry is buried.
Gone ==
    /\ row = "deleted" /\ pool = None /\ live = {}
    /\ \A w \in Workers : pc[w] \notin Restless
    /\ entry.removed \/ \A w \in Workers : pc[w] # "tEnsure"

\* A goroutine that stays away from both leaves the cluster gone.
LEMMA StaysGone ==
    ASSUME Works, NEW w \in Workers, Gone,
           pc'[w] \notin Restless, pc'[w] # "tEnsure",
           \A v \in Workers : v # w => pc'[v] = pc[v] \/ pc'[v] = "idle",
           UNCHANGED row, pool' = None, live' = {},
           entry.removed => entry'.removed
    PROVE  Gone'
<1>1. \A v \in Workers : pc'[v] \notin Restless
  BY DEF Gone, Restless
<1>2. entry'.removed \/ \A v \in Workers : pc'[v] # "tEnsure"
  BY Zenon DEF Gone
<1> QED  BY <1>1, <1>2 DEF Gone

\* So does one that returns, and one that goes on beside the informers.
LEMMA ReturnsGone ==
    ASSUME Works, NEW w \in Workers, Gone, NEW ok \in BOOLEAN, Return(w, ok),
           UNCHANGED row, pool' = None, live' = {},
           entry.removed => entry'.removed
    PROVE  Gone'
<1>1. pc'[w] = "idle" /\ \A v \in Workers : v # w => pc'[v] = pc[v] \/ pc'[v] = "idle"
  BY Returns
<1> QED  BY <1>1, StaysGone DEF Restless

LEMMA GoesGone ==
    ASSUME Works, NEW w \in Workers, Gone, NEW to \in Points \ Restless, to # "tEnsure",
           Goto(w, to),
           UNCHANGED row, pool' = None, live' = {},
           entry.removed => entry'.removed
    PROVE  Gone'
<1>1. pc'[w] = to /\ \A v \in Workers : v # w => pc'[v] = pc[v]
  BY DEF Works, Goto
<1> QED  BY <1>1, StaysGone

LEMMA FailsGone ==
    ASSUME Works, NEW w \in Workers, Gone, NEW from \in Points, Fails(w, from)
    PROVE  Gone'
<1>1. UNCHANGED <<row, pool, live, entry>>
  BY DEF Fails, entryVars
<1> QED  BY <1>1, ReturnsGone DEF Fails, Gone

LEMMA ReconnectGone ==
    ASSUME Works, Informed, NEW w \in Workers, Gone, Reconnect(w)
    PROVE  Gone'
<1> USE DEF Points, Restless, Step, entryVars
<1>1. row = "deleted" /\ pool = None /\ live = {} /\ pc[w] \notin Restless
  BY DEF Gone
<1>2. CASE BeginReconnect(w)
  BY <1>1, <1>2, GoesGone DEF BeginReconnect, Begin
<1>3. CASE ReconnectGet(w)
  BY <1>1, <1>3, FailsGone DEF ReconnectGet
<1>4. CASE ReconnectBuild(w) \/ ReconnectStore(w) \/ ReconnectStart(w)
  BY <1>1, <1>4 DEF ReconnectBuild, Connects, Fails, ReconnectStore, Store, ReconnectStart
<1>5. CASE ReconnectInfo(w)
  BY <1>1, <1>5, GoesGone DEF ReconnectInfo
<1>6. CASE FinishReconnect(w)
  <2>1. Goto(w, "rDrop") /\ UNCHANGED <<row, pool, live, entry>>
    BY <1>1, <1>6 DEF FinishReconnect, LookupFails
  <2> QED  BY <1>1, <2>1, GoesGone
<1>7. CASE RollbackInformers(w)
  <2>1. live' = {} /\ entry'.removed
    BY <1>7, Stops DEF RollbackInformers, Remove, Informed, Entries
  <2> QED  BY <1>1, <1>7, <2>1, GoesGone DEF RollbackInformers
<1>8. CASE RollbackClient(w)
  BY <1>1, <1>8, ReturnsGone DEF RollbackClient
<1> QED  BY <1>2, <1>3, <1>4, <1>5, <1>6, <1>7, <1>8 DEF Reconnect

\* Without a row a lazy reconnect comes no further than the lookup, and without
\* a client in the pool nobody new asks for informers.
LEMMA ReadsGone ==
    ASSUME Works, Informed, NEW w \in Workers, Gone, LazyReconnect(w) \/ Touch(w)
    PROVE  Gone'
<1> USE DEF Points, Restless, Step, entryVars
<1>1. row = "deleted" /\ pool = None /\ live = {} /\ pc[w] \notin Restless
  BY DEF Gone
<1>2. CASE BeginLazy(w)
  BY <1>1, <1>2, GoesGone DEF BeginLazy, Begin
<1>3. CASE LazyNegative(w)
  <2>1. CASE Return(w, FALSE) /\ UNCHANGED <<row, pool, entryVars>>
    BY <1>1, <2>1, ReturnsGone
  <2>2. CASE Goto(w, "lJoin") /\ UNCHANGED <<row, pool, entryVars>>
    BY <1>1, <2>2, GoesGone
  <2> QED  BY <1>3, <2>1, <2>2 DEF LazyNegative
<1>4. CASE LazyJoin(w)
  BY <1>1, <1>4, GoesGone DEF LazyJoin
<1>5. CASE LazyCheck(w)
  BY <1>1, <1>5, GoesGone DEF LazyCheck
<1>6. CASE BeginTouch(w)
  BY <1>1, <1>6 DEF BeginTouch
<1>7. CASE TouchEnsure(w)
  <2>1. entry.removed
    BY <1>7, Zenon DEF Gone, TouchEnsure
  <2>2. UNCHANGED <<entry, live>>
    BY <1>7, <2>1 DEF TouchEnsure, EnsureActive
  <2> QED  BY <1>1, <1>7, <2>2, ReturnsGone DEF TouchEnsure
<1> QED  BY <1>2, <1>3, <1>4, <1>5, <1>6, <1>7 DEF LazyReconnect, Touch

LEMMA RemoveGone ==
    ASSUME Works, Informed, NEW w \in Workers, Gone, RemoveCluster(w)
    PROVE  Gone'
<1> USE DEF Points, Restless, Step, entryVars
<1>1. row = "deleted" /\ pool = None /\ live = {} /\ pc[w] \notin Restless
  BY DEF Gone
<1>2. CASE BeginRemove(w)
  BY <1>1, <1>2 DEF BeginRemove
<1>3. CASE RemoveRow(w)
  <2>1. CASE Fails(w, "dDelete")
    BY <2>1, FailsGone
  <2>2. CASE Step(w, "dDelete", "dPool") /\ row' = "deleted" /\ UNCHANGED <<pool, entryVars>>
    BY <1>1, <2>2, GoesGone
  <2> QED  BY <1>3, <2>1, <2>2 DEF RemoveRow
<1>4. CASE RemoveClient(w)
  BY <1>1, <1>4, GoesGone DEF RemoveClient
<1>5. CASE RemoveInformers(w)
  <2>1. live' = {} /\ entry'.removed
    BY <1>5, Stops DEF RemoveInformers, Remove, Informed, Entries
  <2> QED  BY <1>1, <1>5, <2>1, ReturnsGone DEF RemoveInformers
<1> QED  BY <1>2, <1>3, <1>4, <1>5 DEF RemoveCluster

\* A registration that comes too late fails, and a cluster that is not there is
\* not viewed.
LEMMA AddGone ==
    ASSUME Works, NEW w \in Workers, Gone, View(w) \/ AddCluster(w)
    PROVE  Gone'
<1> USE DEF Points, Restless, Step, entryVars
<1>1. row = "deleted" /\ pool = None /\ live = {} /\ pc[w] \notin Restless
  BY DEF Gone
<1>2. ~View(w)
  BY <1>1 DEF View, BeginView, ViewPool, ViewBuild, Connects, Fails, ViewStore, Store,
              ViewStart
<1>3. ~(BeginAdd(w) \/ AddUpdate(w) \/ AddStore(w) \/ BeginLoad(w) \/ LoadTest(w))
  BY <1>1 DEF BeginAdd, AddUpdate, AddStore, BeginLoad, LoadTest, Connects, Fails
<1>4. CASE AddTest(w)
  <2>1. Goto(w, "aCreate") /\ UNCHANGED <<row, pool, live, entry>>
    BY <1>1, <1>4 DEF AddTest, Connects, Untested
  <2> QED  BY <1>1, <2>1, GoesGone
<1>5. CASE AddCreate(w)
  BY <1>1, <1>5, FailsGone DEF AddCreate
<1> QED  BY <1>2, <1>3, <1>4, <1>5 DEF AddCluster

LEMMA GoneNext == Whole /\ Gone /\ [Next]_vars => Gone'
<1> SUFFICES ASSUME Works, Informed, Rest, Gone, [Next]_vars PROVE Gone'
  BY DEF Whole, Works, Informed, Rest, TypeOK
<1>1. ASSUME NEW w \in Workers, Work(w) PROVE Gone'
  BY <1>1, ReconnectGone, ReadsGone, RemoveGone, AddGone DEF Work
<1>2. ASSUME UNCHANGED <<row, pool, pc, live>>, entry'.removed = entry.removed
      PROVE  Gone'
  BY <1>2 DEF Gone
<1>3. ASSUME NEW w \in Workers, CtxEnds(w) PROVE Gone'
  BY <1>2, <1>3 DEF CtxEnds, entryVars
<1>4. CASE Sweep
  <2>1. live' = {} /\ live = {} /\ entry'.removed = entry.removed
    BY <1>4, Stops DEF Sweep, Informed, Entries, Gone
  <2> QED  BY <1>2, <1>4, <2>1 DEF Sweep, workVars
<1>5. CASE GoesIdle
  <2>1. entry'.removed = entry.removed
    BY <1>5 DEF GoesIdle, Informed, Entries
  <2> QED  BY <1>2, <1>5, <2>1 DEF GoesIdle, workVars
<1>6. CASE FailureExpires
  BY <1>2, <1>6 DEF FailureExpires, entryVars, workVars
<1>7. CASE ProcessRestart
  <2>1. pool' = None /\ live' = {} /\ row' = row /\ \A w \in Workers : pc'[w] = "idle"
    BY <1>7 DEF ProcessRestart
  <2> QED  BY <2>1 DEF Gone, Restless
<1>8. CASE UNCHANGED vars
  BY <1>2, <1>8 DEF vars, entryVars, workVars
<1> QED  BY <1>1, <1>3, <1>4, <1>5, <1>6, <1>7, <1>8 DEF Next

\* The safety half of RemovedGoesQuiet: a cluster that is removed, without client
\* and informers and with nobody past the lookup of its row stays so, through
\* every operation, cancelled requests and restarts of the process.
\* (ReconnectCluster, EnsureActive, RemoveCluster, addClusterWithSource)
THEOREM GoneForGood == Spec => [](Gone => []Gone)
BY AlwaysWhole, GoneNext, PTL DEF Spec

(***************************************************************************)
(* Who buries an entry: a removal that has deleted the row, a reconnect    *)
(* that has found it gone, or one whose context ended before it looked.    *)
(***************************************************************************)

\* Where a goroutine has seen the row, or is one that saw it deleted.
AfterRow == {"rBuild", "rPool", "rStart", "rInfo", "rFinish", "dDelete"}
AfterDelete == {"rDrop", "dPool", "dRemove"}

Buried ==
    \A w \in Workers :
       /\ pc[w] \in AfterRow => row # "unborn"
       /\ pc[w] \in AfterDelete => row = "deleted" \/ (pc[w] = "rDrop" /\ w \in ended)

\* A row is created once and never comes back: what keeps Buried over a step.
LEMMA StillBuried ==
    ASSUME Buried, NEW w \in Workers,
           row # "unborn" => row' # "unborn",
           row = "deleted" => row' = "deleted",
           \A v \in Workers : v # w =>
              \/ pc'[v] = "idle"
              \/ pc'[v] = pc[v] /\ (v \in ended => v \in ended'),
           pc'[w] \in AfterRow => row' # "unborn",
           pc'[w] \in AfterDelete =>
              row' = "deleted" \/ (pc'[w] = "rDrop" /\ w \in ended')
    PROVE  Buried'
<1>1. "idle" \notin AfterRow /\ "idle" \notin AfterDelete
  BY DEF AfterRow, AfterDelete
<1> QED  BY <1>1 DEF Buried

\* A goroutine goes on, and sees the row or its absence before it says so.
LEMMA GoesBuried ==
    ASSUME Works, Buried, NEW w \in Workers, NEW p \in Points, Goto(w, p),
           UNCHANGED <<row, ended>>,
           p \in AfterRow => pc[w] \in AfterRow \/ row = "present",
           p \in AfterDelete =>
              \/ row = "deleted"
              \/ p = "rDrop" /\ w \in ended
              \/ p # "rDrop" /\ pc[w] \in AfterDelete \ {"rDrop"}
    PROVE  Buried'
<1>1. pc'[w] = p /\ \A v \in Workers : v # w => pc'[v] = pc[v]
  BY DEF Works, Goto
<1>2. /\ p \in AfterRow => row' # "unborn"
      /\ p \in AfterDelete => row' = "deleted" \/ (p = "rDrop" /\ w \in ended')
  BY DEF Buried
<1> QED  BY <1>1, <1>2, StillBuried

\* A goroutine is done, and so perhaps are those that waited for it.
LEMMA ReturnsBuried ==
    ASSUME Works, Buried, NEW w \in Workers, NEW ok \in BOOLEAN, Return(w, ok),
           row' = row \/ (row = "unborn" /\ row' = "present")
    PROVE  Buried'
<1>1. pc'[w] = "idle" /\ \A v \in Workers : v # w => pc'[v] = pc[v] \/ pc'[v] = "idle"
  BY Returns
<1>2. \A v \in Workers : v # w /\ v \in ended => v \in ended' \/ pc'[v] = "idle"
  BY DEF Return, Works
<1>3. "idle" \notin AfterRow /\ "idle" \notin AfterDelete
  BY DEF AfterRow, AfterDelete
<1> QED  BY <1>1, <1>2, <1>3, StillBuried

LEMMA ReconnectBuries ==
    ASSUME Works, Informed, Rest, Buried, NEW w \in Workers, Reconnect(w)
    PROVE  Buried'
<1> USE DEF Points, AfterRow, AfterDelete
<1>1. CASE BeginReconnect(w)
  BY <1>1, GoesBuried DEF BeginReconnect, Begin, entryVars
<1>2. CASE ReconnectGet(w)
  <2>1. CASE Fails(w, "rGet")
    BY <2>1, ReturnsBuried DEF Fails, entryVars
  <2>2. CASE /\ row = "present"
             /\ Step(w, "rGet", "rBuild")
             /\ UNCHANGED <<row, pool, entryVars, failCache, leader, loaded, cl, ended>>
    BY <2>2, GoesBuried DEF Step, entryVars
  <2> QED  BY <1>2, <2>1, <2>2 DEF ReconnectGet
<1>3. CASE ReconnectBuild(w)
  <2>1. CASE Connects(w, "rBuild", "rPool")
    BY <2>1, GoesBuried DEF Connects, Step, entryVars
  <2>2. CASE Fails(w, "rBuild")
    BY <2>2, ReturnsBuried DEF Fails, entryVars
  <2> QED  BY <1>3, <2>1, <2>2 DEF ReconnectBuild
<1>4. CASE ReconnectStore(w)
  BY <1>4, GoesBuried DEF ReconnectStore, Store, Step, entryVars
<1>5. CASE ReconnectStart(w)
  <2>1. PICK p \in {"rFinish", "rInfo"} : Step(w, "rStart", p)
    BY <1>5 DEF ReconnectStart
  <2> QED  BY <1>5, <2>1, GoesBuried DEF ReconnectStart, Step
<1>6. CASE ReconnectInfo(w)
  BY <1>6, GoesBuried DEF ReconnectInfo, Step, entryVars
<1>7. CASE FinishReconnect(w)
  <2>1. CASE LookupFails(w) /\ Goto(w, "rDrop") /\ UNCHANGED ended
    <3>1. row = "deleted" \/ w \in ended
      BY <1>7, <2>1 DEF FinishReconnect, LookupFails, Buried, Rest
    <3> QED  BY <1>7, <2>1, <3>1, GoesBuried DEF FinishReconnect
  <2>2. CASE Return(w, TRUE)
    BY <1>7, <2>2, ReturnsBuried DEF FinishReconnect
  <2> QED  BY <1>7, <2>1, <2>2 DEF FinishReconnect
<1>8. CASE RollbackInformers(w)
  BY <1>8, GoesBuried DEF RollbackInformers, Step
<1>9. CASE RollbackClient(w)
  BY <1>9, ReturnsBuried DEF RollbackClient, entryVars
<1> QED  BY <1>1, <1>2, <1>3, <1>4, <1>5, <1>6, <1>7, <1>8, <1>9 DEF Reconnect

LEMMA LazyBuries ==
    ASSUME Works, Buried, NEW w \in Workers, LazyReconnect(w) PROVE Buried'
<1> USE DEF Points, AfterRow, AfterDelete
<1>1. CASE BeginLazy(w)
  BY <1>1, GoesBuried DEF BeginLazy, Begin, entryVars
<1>2. CASE LazyNegative(w)
  <2>1. CASE Return(w, FALSE)
    BY <1>2, <2>1, ReturnsBuried DEF LazyNegative, entryVars
  <2>2. CASE Step(w, "lNegative", "lJoin") /\ UNCHANGED <<row, pool, entryVars, ended>>
    BY <2>2, GoesBuried DEF Step, entryVars
  <2> QED  BY <1>2, <2>1, <2>2 DEF LazyNegative
<1>3. CASE LazyJoin(w)
  <2>1. PICK p \in {"lCheck", "lWait"} : Step(w, "lJoin", p)
    BY <1>3 DEF LazyJoin
  <2> QED  BY <1>3, <2>1, GoesBuried DEF LazyJoin, Step, entryVars
<1>4. CASE LazyCheck(w)
  <2>1. CASE Return(w, TRUE)
    BY <1>4, <2>1, ReturnsBuried DEF LazyCheck, entryVars
  <2>2. CASE Step(w, "lCheck", "rGet") /\ UNCHANGED <<row, pool, entryVars, ended>>
    BY <2>2, GoesBuried DEF Step, entryVars
  <2> QED  BY <1>4, <2>1, <2>2 DEF LazyCheck
<1> QED  BY <1>1, <1>2, <1>3, <1>4 DEF LazyReconnect

LEMMA TouchBuries ==
    ASSUME Works, Informed, Buried, NEW w \in Workers, Touch(w) PROVE Buried'
<1> USE DEF Points, AfterRow, AfterDelete
<1>1. CASE BeginTouch(w)
  BY <1>1, GoesBuried DEF BeginTouch, Begin, entryVars
<1>2. CASE TouchEnsure(w)
  BY <1>2, ReturnsBuried DEF TouchEnsure
<1> QED  BY <1>1, <1>2 DEF Touch

LEMMA ViewBuries ==
    ASSUME Works, Informed, Buried, NEW w \in Workers, View(w) PROVE Buried'
<1> USE DEF Points, AfterRow, AfterDelete
<1>1. CASE BeginView(w)
  BY <1>1, GoesBuried DEF BeginView, Begin, entryVars
<1>2. CASE ViewPool(w)
  <2>1. CASE Return(w, TRUE)
    BY <1>2, <2>1, ReturnsBuried DEF ViewPool, entryVars
  <2>2. CASE Step(w, "vPool", "vBuild") /\ UNCHANGED <<row, pool, entryVars, ended>>
    BY <2>2, GoesBuried DEF Step, entryVars
  <2> QED  BY <1>2, <2>1, <2>2 DEF ViewPool
<1>3. CASE ViewBuild(w)
  <2>1. CASE Connects(w, "vBuild", "vStore")
    BY <2>1, GoesBuried DEF Connects, Step, entryVars
  <2>2. CASE Fails(w, "vBuild")
    BY <2>2, ReturnsBuried DEF Fails, entryVars
  <2> QED  BY <1>3, <2>1, <2>2 DEF ViewBuild
<1>4. CASE ViewStore(w)
  BY <1>4, GoesBuried DEF ViewStore, Store, Step, entryVars
<1>5. CASE ViewStart(w)
  BY <1>5, ReturnsBuried DEF ViewStart
<1> QED  BY <1>1, <1>2, <1>3, <1>4, <1>5 DEF View

LEMMA RemoveBuries ==
    ASSUME Works, Buried, NEW w \in Workers, RemoveCluster(w) PROVE Buried'
<1> USE DEF Points, AfterRow, AfterDelete
<1>1. CASE BeginRemove(w)
  BY <1>1, GoesBuried DEF BeginRemove, Begin, entryVars
<1>2. CASE RemoveRow(w)
  <2>1. CASE Fails(w, "dDelete")
    BY <2>1, ReturnsBuried DEF Fails, entryVars
  <2>2. CASE /\ Step(w, "dDelete", "dPool") /\ row' = "deleted"
             /\ UNCHANGED <<entryVars, ended>>
    <3>1. pc'[w] = "dPool" /\ \A v \in Workers : v # w => pc'[v] = pc[v]
      BY <2>2 DEF Step, Goto, Works
    <3> QED  BY <2>2, <3>1, StillBuried
  <2> QED  BY <1>2, <2>1, <2>2 DEF RemoveRow
<1>3. CASE RemoveClient(w)
  BY <1>3, GoesBuried DEF RemoveClient, Step, entryVars
<1>4. CASE RemoveInformers(w)
  BY <1>4, ReturnsBuried DEF RemoveInformers
<1> QED  BY <1>1, <1>2, <1>3, <1>4 DEF RemoveCluster

LEMMA AddBuries ==
    ASSUME Works, Buried, NEW w \in Workers, AddCluster(w) PROVE Buried'
<1> USE DEF Points, AfterRow, AfterDelete
<1>w. ASSUME Written(w),
             row' = row \/ (row = "unborn" /\ row' = "present")
      PROVE  Buried'
  <2>1. CASE Return(w, TRUE)
    BY <1>w, <2>1, ReturnsBuried
  <2>2. CASE Goto(w, "aStore") /\ UNCHANGED ended
    <3>1. pc'[w] = "aStore" /\ \A v \in Workers : v # w => pc'[v] = pc[v]
      BY <2>2 DEF Goto, Works
    <3> QED  BY <1>w, <2>2, <3>1, StillBuried
  <2> QED  BY <1>w, <2>1, <2>2 DEF Written
<1>1. CASE BeginAdd(w)
  <2>1. PICK p \in {"aTest", "cTest"} : Goto(w, p)
    BY <1>1 DEF BeginAdd, Begin
  <2> QED  BY <1>1, <2>1, GoesBuried DEF BeginAdd, entryVars
<1>2. CASE AddTest(w)
  <2>1. PICK p \in {"aUpdate", "aCreate"} : Goto(w, p)
    BY <1>2 DEF AddTest, Connects, Untested, Step
  <2>2. UNCHANGED <<row, ended, entryVars>>
    BY <1>2 DEF AddTest, Connects, Untested, entryVars
  <2> QED  BY <2>1, <2>2, GoesBuried DEF entryVars
<1>3. CASE AddUpdate(w)
  <2>1. CASE Fails(w, "aUpdate")
    BY <2>1, ReturnsBuried DEF Fails, entryVars
  <2> QED  BY <1>3, <1>w, <2>1 DEF AddUpdate
<1>4. CASE AddCreate(w)
  <2>1. CASE Fails(w, "aCreate")
    BY <2>1, ReturnsBuried DEF Fails, entryVars
  <2> QED  BY <1>4, <1>w, <2>1 DEF AddCreate
<1>5. CASE AddStore(w)
  BY <1>5, ReturnsBuried DEF AddStore, entryVars
<1>6. CASE BeginLoad(w)
  BY <1>6, GoesBuried DEF BeginLoad, Begin, entryVars
<1>7. CASE LoadTest(w)
  <2>1. CASE Connects(w, "bTest", "aStore")
    BY <2>1, GoesBuried DEF Connects, Step, entryVars
  <2>2. CASE Fails(w, "bTest")
    BY <2>2, ReturnsBuried DEF Fails, entryVars
  <2> QED  BY <1>7, <2>1, <2>2 DEF LoadTest
<1> QED  BY <1>1, <1>2, <1>3, <1>4, <1>5, <1>6, <1>7 DEF AddCluster

LEMMA BuriedInit == Init => Buried
BY DEF Init, Booted, Buried, AfterRow, AfterDelete

LEMMA BuriedNext == Whole /\ Buried /\ [Next]_vars => Buried'
<1> SUFFICES ASSUME Works, Informed, Rest, Buried, [Next]_vars PROVE Buried'
  BY DEF Whole, Works, Informed, Rest, TypeOK
<1>1. ASSUME NEW w \in Workers, Work(w) PROVE Buried'
  BY <1>1, ReconnectBuries, LazyBuries, TouchBuries, ViewBuries, RemoveBuries, AddBuries
     DEF Work
<1>2. ASSUME NEW w \in Workers, CtxEnds(w) PROVE Buried'
  BY <1>2 DEF CtxEnds, Buried
<1>3. CASE Sweep \/ GoesIdle \/ FailureExpires \/ UNCHANGED vars
  BY <1>3 DEF Sweep, GoesIdle, FailureExpires, vars, workVars, Buried
<1>4. CASE ProcessRestart
  BY <1>4 DEF ProcessRestart, Buried, AfterRow, AfterDelete
<1> QED  BY <1>1, <1>2, <1>3, <1>4 DEF Next

\* Only three steps write the tombstone, or none.
LEMMA BuriesWhere ==
    ASSUME Whole, [Next]_vars, ~entry.removed, entry'.removed
    PROVE  \E w \in Workers : RollbackInformers(w) \/ RemoveInformers(w)
<1>0. entry \in Entries
  BY DEF Whole, TypeOK
<1>1. ASSUME NEW c, Reconnected(c) \/ EnsureActive(c) PROVE FALSE
  BY <1>0, <1>1 DEF Reconnected, EnsureActive, Entries, entryVars
<1>2. ASSUME NEW w \in Workers, Work(w), ~RollbackInformers(w), ~RemoveInformers(w)
      PROVE  FALSE
  <2>1. entry' = entry \/ \E c : Reconnected(c) \/ EnsureActive(c)
    <3>1. Reconnect(w) => entry' = entry \/ \E c : Reconnected(c)
      BY <1>2 DEF Reconnect, BeginReconnect, ReconnectGet, ReconnectBuild,
         ReconnectStore, ReconnectStart, ReconnectInfo, FinishReconnect,
         RollbackClient, Connects, Fails, Store, entryVars
    <3>2. LazyReconnect(w) => entry' = entry
      BY DEF LazyReconnect, BeginLazy, LazyNegative, LazyJoin, LazyCheck, entryVars
    <3>3. Touch(w) => entry' = entry \/ \E c : EnsureActive(c)
      BY DEF Touch, BeginTouch, TouchEnsure, entryVars
    <3>4. View(w) => entry' = entry \/ \E c : Reconnected(c)
      BY DEF View, BeginView, ViewPool, ViewBuild, ViewStore, ViewStart,
         Connects, Fails, Store, entryVars
    <3>5. RemoveCluster(w) => entry' = entry
      BY <1>2 DEF RemoveCluster, BeginRemove, RemoveRow, RemoveClient, Fails, entryVars
    <3>6. AddCluster(w) => entry' = entry
      BY DEF AddCluster, BeginAdd, AddTest, AddUpdate, AddCreate, AddStore,
         BeginLoad, LoadTest, Connects, Untested, Fails, entryVars
    <3> QED  BY <1>2, <3>1, <3>2, <3>3, <3>4, <3>5, <3>6 DEF Work
  <2> QED  BY <1>1, <2>1
<1>3. ASSUME \/ \E w \in Workers : CtxEnds(w)
             \/ Sweep \/ GoesIdle \/ FailureExpires \/ ProcessRestart
             \/ UNCHANGED vars
      PROVE  FALSE
  <2>1. CASE (\E w \in Workers : CtxEnds(w)) \/ FailureExpires \/ UNCHANGED vars
    BY <2>1 DEF CtxEnds, FailureExpires, vars, entryVars
  <2>2. CASE Sweep
    BY <1>0, <2>2 DEF Sweep, Entries
  <2>3. CASE GoesIdle
    BY <1>0, <2>3 DEF GoesIdle, Entries
  <2>4. CASE ProcessRestart
    BY <2>4 DEF ProcessRestart
  <2> QED  BY <1>3, <2>1, <2>2, <2>3, <2>4
<1> QED  BY <1>2, <1>3 DEF Next

\* Whatever operations interleave and whichever requests are cut short, an entry
\* is buried only when its row is deleted, or by a reconnect that was cut short.
THEOREM EntriesAreBuriedForCause == Spec => BuriedForCause
<1>1. Whole /\ Buried /\ [Next]_vars =>
        [~entry.removed /\ entry'.removed =>
            row = "deleted" \/ \E w \in ended : pc[w] = "rDrop"]_vars
  <2> SUFFICES ASSUME Whole, Buried, [Next]_vars, ~entry.removed, entry'.removed
               PROVE  row = "deleted" \/ \E w \in ended : pc[w] = "rDrop"
    OBVIOUS
  <2>1. PICK w \in Workers : RollbackInformers(w) \/ RemoveInformers(w)
    BY BuriesWhere
  <2>2. pc[w] \in {"rDrop", "dRemove"}
    BY <2>1 DEF RollbackInformers, RemoveInformers, Step
  <2> QED  BY <2>2 DEF Buried, AfterDelete
<1> QED
  BY <1>1, AlwaysWhole, BuriedInit, BuriedNext, PTL DEF Spec, BuriedForCause

(***************************************************************************)
(* The informers follow the pool's client: whoever stores a client is the  *)
(* one to move the informers to it, unless another has replaced it.        *)
(***************************************************************************)

\* Between storing a client and moving the informers to it.
Handing == {"rStart", "vStart"}

\* A step that leaves the pool, the informers and those who move them alone.
LEMMA FollowsAside ==
    ASSUME Following, UNCHANGED <<pool, cache, clientOf>>,
           \A v \in Workers : pc[v] \in Handing => pc'[v] = pc[v] /\ cl'[v] = cl[v]
    PROVE  Following'
BY DEF Following, Handing

\* A goroutine goes on without moving clients or informers.
LEMMA GoesFollowing ==
    ASSUME Works, Following, NEW w \in Workers, NEW p \in Points, Goto(w, p),
           pc[w] \notin Handing, \A v \in Workers : v # w => cl'[v] = cl[v],
           UNCHANGED <<pool, cache, clientOf>>
    PROVE  Following'
<1>1. \A v \in Workers : v # w => pc'[v] = pc[v]
  BY DEF Works, Goto
<1> QED  BY <1>1, FollowsAside

\* A goroutine is done that had nothing left to move.
LEMMA ReturnsFollowing ==
    ASSUME Works, Following, NEW w \in Workers, NEW ok \in BOOLEAN, Return(w, ok),
           pc[w] \notin Handing, UNCHANGED <<pool, cache, clientOf>>
    PROVE  Following'
<1>1. \A v \in Workers : v # w /\ pc[v] \in Handing => pc'[v] = pc[v]
  BY Returns DEF Handing
<1>2. \A v \in Workers : v # w => cl'[v] = cl[v]
  BY DEF Works, Return
<1> QED  BY <1>1, <1>2, FollowsAside

\* Without a client, or without informers, there is nothing to follow.
LEMMA NothingToFollow == ASSUME pool' = None \/ cache' = None PROVE Following'
BY DEF Following

\* Who stores a client is about to move the informers to it.
LEMMA StoresFollowing ==
    ASSUME Works, NEW w \in Workers, NEW from, NEW to \in Handing, Store(w, from, to)
    PROVE  Following'
<1>1. pc'[w] = to /\ cl'[w] = pool'
  BY DEF Works, Store, Step, Goto
<1> QED  BY <1>1 DEF Following, Handing

\* Informers that are started over watch through the client they are given.
LEMMA MovesFollowing ==
    ASSUME Informed, NEW c, Reconnected(c), c = pool, UNCHANGED pool PROVE Following'
<1>1. PICK m \in Managers : cache' = m /\ clientOf' = [clientOf EXCEPT ![m] = c]
  BY DEF Reconnected, StartCache
<1> QED  BY <1>1 DEF Informed, Following

\* A step of a connection attempt moves nothing.
LEMMA ConnectsFollowing ==
    ASSUME Works, Following, NEW w \in Workers, NEW from \in Points \ Handing,
           NEW to \in Points, Connects(w, from, to) \/ Fails(w, from)
    PROVE  Following'
<1>1. CASE Connects(w, from, to)
  <2>1. \A v \in Workers : v # w => cl'[v] = cl[v]
    BY <1>1 DEF Connects, Works
  <2> QED  BY <1>1, <2>1, GoesFollowing DEF Connects, Step, entryVars
<1>2. CASE Fails(w, from)
  BY <1>2, ReturnsFollowing DEF Fails, entryVars
<1> QED  BY <1>1, <1>2

LEMMA ReconnectFollows ==
    ASSUME Works, Informed, Following, Strays = {}, NEW w \in Workers, Reconnect(w)
    PROVE  Following'
<1> USE DEF Points, Handing
<1>1. CASE BeginReconnect(w)
  BY <1>1, GoesFollowing DEF BeginReconnect, Begin, entryVars
<1>2. CASE ReconnectGet(w)
  <2>1. CASE Fails(w, "rGet")
    BY <2>1, ReturnsFollowing DEF Fails, entryVars
  <2>2. CASE /\ Step(w, "rGet", "rBuild")
             /\ UNCHANGED <<row, pool, entryVars, failCache, leader, loaded, cl, ended>>
    BY <2>2, GoesFollowing DEF Step, entryVars
  <2> QED  BY <1>2, <2>1, <2>2 DEF ReconnectGet
<1>3. CASE ReconnectBuild(w)
  BY <1>3, ConnectsFollowing DEF ReconnectBuild
<1>4. CASE ReconnectStore(w)
  BY <1>4, StoresFollowing DEF ReconnectStore
<1>5. CASE ReconnectStart(w)
  <2>1. cl[w] = pool
    BY <1>5 DEF ReconnectStart, Step, Strays
  <2> QED  BY <1>5, <2>1, MovesFollowing DEF ReconnectStart
<1>6. CASE ReconnectInfo(w)
  BY <1>6, GoesFollowing DEF ReconnectInfo, Step, entryVars
<1>7. CASE FinishReconnect(w)
  <2>1. CASE Goto(w, "rDrop") /\ UNCHANGED cl
    BY <1>7, <2>1, GoesFollowing DEF FinishReconnect, entryVars
  <2>2. CASE Return(w, TRUE)
    BY <1>7, <2>2, ReturnsFollowing DEF FinishReconnect, entryVars
  <2> QED  BY <1>7, <2>1, <2>2 DEF FinishReconnect
<1>8. CASE RollbackInformers(w)
  BY <1>8, NothingToFollow DEF RollbackInformers, Remove, StopCache
<1>9. CASE RollbackClient(w)
  BY <1>9, NothingToFollow DEF RollbackClient
<1> QED  BY <1>1, <1>2, <1>3, <1>4, <1>5, <1>6, <1>7, <1>8, <1>9 DEF Reconnect

LEMMA LazyFollows ==
    ASSUME Works, Following, NEW w \in Workers, LazyReconnect(w) PROVE Following'
<1> USE DEF Points, Handing
<1>1. CASE BeginLazy(w)
  BY <1>1, GoesFollowing DEF BeginLazy, Begin, entryVars
<1>2. CASE LazyNegative(w)
  <2>1. CASE Return(w, FALSE) /\ pc[w] = "lNegative"
    BY <1>2, <2>1, ReturnsFollowing DEF LazyNegative, Step, entryVars
  <2>2. CASE Step(w, "lNegative", "lJoin") /\ UNCHANGED <<pool, entryVars, cl>>
    BY <2>2, GoesFollowing DEF Step, entryVars
  <2> QED  BY <1>2, <2>1, <2>2 DEF LazyNegative
<1>3. CASE LazyJoin(w)
  <2>1. PICK p \in {"lCheck", "lWait"} : Step(w, "lJoin", p)
    BY <1>3 DEF LazyJoin
  <2> QED  BY <1>3, <2>1, GoesFollowing DEF LazyJoin, Step, entryVars
<1>4. CASE LazyCheck(w)
  <2>1. CASE Return(w, TRUE) /\ pc[w] = "lCheck"
    BY <1>4, <2>1, ReturnsFollowing DEF LazyCheck, Step, entryVars
  <2>2. CASE Step(w, "lCheck", "rGet") /\ UNCHANGED <<pool, entryVars, cl>>
    BY <2>2, GoesFollowing DEF Step, entryVars
  <2> QED  BY <1>4, <2>1, <2>2 DEF LazyCheck
<1> QED  BY <1>1, <1>2, <1>3, <1>4 DEF LazyReconnect

LEMMA TouchFollows ==
    ASSUME Works, Informed, Following, Strays = {}, NEW w \in Workers, Touch(w)
    PROVE  Following'
<1> USE DEF Points, Handing
<1>1. CASE BeginTouch(w)
  <2>1. \A v \in Workers : v # w => cl'[v] = cl[v]
    BY <1>1 DEF BeginTouch, Works
  <2> QED  BY <1>1, <2>1, GoesFollowing DEF BeginTouch, Begin, entryVars
<1>2. CASE TouchEnsure(w)
  <2>1. cl[w] = pool
    BY <1>2 DEF TouchEnsure, Strays
  <2>2. CASE UNCHANGED <<cache, clientOf>>
    BY <1>2, <2>2, ReturnsFollowing DEF TouchEnsure
  <2>3. CASE ~entry.active /\ StartCache(cl[w], cache, live)
    <3>1. cache = None
      BY <2>3 DEF Informed, NoHalfState
    <3>2. PICK m \in Managers : cache' = m /\ clientOf' = [clientOf EXCEPT ![m] = cl[w]]
      BY <2>3, <3>1 DEF StartCache
    <3> QED  BY <1>2, <2>1, <3>2 DEF TouchEnsure, Informed, Following
  <2> QED  BY <1>2, <2>2, <2>3 DEF TouchEnsure, EnsureActive, entryVars
<1> QED  BY <1>1, <1>2 DEF Touch

LEMMA ViewFollows ==
    ASSUME Works, Informed, Following, Strays = {}, NEW w \in Workers, View(w)
    PROVE  Following'
<1> USE DEF Points, Handing
<1>1. CASE BeginView(w)
  BY <1>1, GoesFollowing DEF BeginView, Begin, entryVars
<1>2. CASE ViewPool(w)
  <2>1. CASE Return(w, TRUE) /\ pc[w] = "vPool"
    BY <1>2, <2>1, ReturnsFollowing DEF ViewPool, Step, entryVars
  <2>2. CASE Step(w, "vPool", "vBuild") /\ UNCHANGED <<pool, entryVars, cl>>
    BY <2>2, GoesFollowing DEF Step, entryVars
  <2> QED  BY <1>2, <2>1, <2>2 DEF ViewPool
<1>3. CASE ViewBuild(w)
  BY <1>3, ConnectsFollowing DEF ViewBuild
<1>4. CASE ViewStore(w)
  BY <1>4, StoresFollowing DEF ViewStore
<1>5. CASE ViewStart(w)
  <2>1. cl[w] = pool
    BY <1>5 DEF ViewStart, Strays
  <2> QED  BY <1>5, <2>1, MovesFollowing DEF ViewStart
<1> QED  BY <1>1, <1>2, <1>3, <1>4, <1>5 DEF View

LEMMA RemoveFollows ==
    ASSUME Works, Following, NEW w \in Workers, RemoveCluster(w) PROVE Following'
<1> USE DEF Points, Handing
<1>1. CASE BeginRemove(w)
  BY <1>1, GoesFollowing DEF BeginRemove, Begin, entryVars
<1>2. CASE RemoveRow(w)
  <2>1. CASE Fails(w, "dDelete")
    BY <2>1, ReturnsFollowing DEF Fails, entryVars
  <2>2. CASE Step(w, "dDelete", "dPool") /\ UNCHANGED <<pool, entryVars, cl>>
    BY <2>2, GoesFollowing DEF Step, entryVars
  <2> QED  BY <1>2, <2>1, <2>2 DEF RemoveRow
<1>3. CASE RemoveClient(w)
  BY <1>3, NothingToFollow DEF RemoveClient
<1>4. CASE RemoveInformers(w)
  BY <1>4, NothingToFollow DEF RemoveInformers, Remove, StopCache
<1> QED  BY <1>1, <1>2, <1>3, <1>4 DEF RemoveCluster

LEMMA AddFollows ==
    ASSUME Works, Following, Strays = {}, NEW w \in Workers, AddCluster(w)
    PROVE  Following'
<1> USE DEF Points, Handing
<1>w. ASSUME Written(w), pc[w] \notin Handing, UNCHANGED <<pool, entryVars>>
      PROVE  Following'
  <2>1. CASE Return(w, TRUE)
    BY <1>w, <2>1, ReturnsFollowing DEF entryVars
  <2>2. CASE Goto(w, "aStore") /\ UNCHANGED cl
    BY <1>w, <2>2, GoesFollowing DEF entryVars
  <2> QED  BY <1>w, <2>1, <2>2 DEF Written
<1>1. CASE BeginAdd(w)
  <2>1. PICK p \in {"aTest", "cTest"} : Goto(w, p)
    BY <1>1 DEF BeginAdd, Begin
  <2> QED  BY <1>1, <2>1, GoesFollowing DEF BeginAdd, Begin, entryVars
<1>2. CASE AddTest(w)
  <2>1. CASE Connects(w, "aTest", "aUpdate") \/ Connects(w, "cTest", "aCreate")
    BY <2>1, ConnectsFollowing
  <2>2. CASE Untested(w, "aTest", "aUpdate") \/ Untested(w, "cTest", "aCreate")
    BY <2>2, GoesFollowing DEF Untested, Step, entryVars
  <2> QED  BY <1>2, <2>1, <2>2 DEF AddTest
<1>3. CASE AddUpdate(w)
  <2>1. CASE Fails(w, "aUpdate")
    BY <2>1, ReturnsFollowing DEF Fails, entryVars
  <2> QED  BY <1>3, <1>w, <2>1 DEF AddUpdate
<1>4. CASE AddCreate(w)
  <2>1. CASE Fails(w, "aCreate")
    BY <2>1, ReturnsFollowing DEF Fails, entryVars
  <2> QED  BY <1>4, <1>w, <2>1 DEF AddCreate
<1>5. CASE AddStore(w)
  BY <1>5 DEF AddStore, Strays
<1>6. CASE BeginLoad(w)
  BY <1>6, GoesFollowing DEF BeginLoad, Begin, entryVars
<1>7. CASE LoadTest(w)
  BY <1>7, ConnectsFollowing DEF LoadTest
<1> QED  BY <1>1, <1>2, <1>3, <1>4, <1>5, <1>6, <1>7 DEF AddCluster

\* No operation, request cut short, sweep or restart parts the informers from the
\* pool's client once they follow it, unless a goroutine holds a replaced client
\* or registers the cluster, for any number of goroutines.
THEOREM InformersFollow == Spec => InformersFollowPool
<1>1. Whole /\ [Next]_vars => [Following /\ Strays = {} => Following']_vars
  <2> SUFFICES ASSUME Works, Informed, [Next]_vars, Following, Strays = {}
               PROVE  Following'
    BY DEF Whole, Works, Informed, TypeOK
  <2>1. ASSUME NEW w \in Workers, Work(w) PROVE Following'
    BY <2>1, ReconnectFollows, LazyFollows, TouchFollows, ViewFollows, RemoveFollows,
       AddFollows DEF Work
  <2>2. CASE (\E w \in Workers : CtxEnds(w)) \/ GoesIdle \/ FailureExpires \/ UNCHANGED vars
    BY <2>2, FollowsAside DEF CtxEnds, GoesIdle, FailureExpires, vars, entryVars, workVars
  <2>3. CASE Sweep \/ ProcessRestart
    BY <2>3, NothingToFollow DEF Sweep, ProcessRestart, StopCache
  <2> QED  BY <2>1, <2>2, <2>3 DEF Next
<1> QED  BY <1>1, AlwaysWhole, PTL DEF Spec, InformersFollowPool
=============================================================================
