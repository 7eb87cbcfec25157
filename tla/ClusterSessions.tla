--------------------------- MODULE ClusterSessions ---------------------------
(***************************************************************************)
(* One registered cluster as the hub's ClusterService keeps it: the row in *)
(* SQL, the live client in the pool, and the informers the lifecycle       *)
(* manager runs over a client while somebody looks at the cluster.         *)
(*                                                                         *)
(* Workers are goroutines: HTTP requests, background reconnects and the    *)
(* startup load.  A step of a worker ends at a database call, a network    *)
(* call, or the release of s.mu (the pool) or entry.mu (the lifecycle      *)
(* entry); all steps of all workers interleave.  Cluster ids are UUIDs     *)
(* that are never reused, and nothing relates two of them here, so one id  *)
(* stands for all.                                                         *)
(***************************************************************************)
EXTENDS Naturals

CONSTANTS
    Workers,     \* goroutines
    Clients,     \* identities of k8s.Client objects
    Managers,    \* identities of k8s.InformerManager objects
    None,
    OpsOf,       \* the operations each worker may run
    InCluster,   \* whether the row has source = "in-cluster"
    CtxMayEnd    \* whether a request's context may end before its work does

Ops == {"reconnect", "lazy", "touch", "view", "remove", "add", "load"}

ASSUME ConstantsAssumption ==
    /\ None \notin Workers \cup Clients \cup Managers
    /\ OpsOf \in [Workers -> SUBSET Ops]
    /\ InCluster \in BOOLEAN
    /\ CtxMayEnd \in BOOLEAN

VARIABLES
    row,        \* the cluster's row: not created yet, present, deleted
    pool,       \* s.clients[id]
    entry,      \* the lifecycle manager's clusterLifecycleEntry
    cache,      \* the informer field of the OverviewCache's clusterEntry
    live,       \* informer managers started and not stopped
    clientOf,   \* the client an informer manager watches through
    failCache,  \* s.reconnectFailCache[id]
    leader,     \* who runs the reconnectSF call, if anyone
    loaded,     \* whether this process has run LoadClustersFromRepo
    pc,         \* where each worker is
    cl,         \* the client a worker has in hand
    ended       \* workers whose context is cancelled or past its deadline

entryVars == <<entry, cache, live, clientOf>>
workVars == <<pc, cl, ended>>
vars == <<row, pool, entryVars, failCache, leader, loaded, workVars>>

Points == {"idle",
           "rGet", "rBuild", "rPool", "rStart", "rInfo", "rFinish", "rDrop", "rForget",
           "lNegative", "lJoin", "lWait", "lCheck",
           "tEnsure",
           "vPool", "vBuild", "vStore", "vStart",
           "dDelete", "dPool", "dRemove",
           "aTest", "aUpdate", "cTest", "aCreate", "bTest", "aStore"}

Entries == [active : BOOLEAN, im : Managers \cup {None},
            removed : BOOLEAN, idle : BOOLEAN]

\* Where a worker is about to hand its client to the pool or to informers.
Bearing == {"rPool", "rStart", "tEnsure", "vStore", "vStart", "aStore"}

\* Every variable holds what its code counterpart can hold, and a goroutine that
\* is about to store a client or start informers has one in hand.
TypeOK ==
    /\ row \in {"unborn", "present", "deleted"}
    /\ pool \in Clients \cup {None}
    /\ entry \in Entries
    /\ cache \in Managers \cup {None}
    /\ live \subseteq Managers
    /\ clientOf \in [Managers -> Clients \cup {None}]
    /\ failCache \in {"none", "fresh", "expired"}
    /\ leader \in Workers \cup {None}
    /\ loaded \in BOOLEAN
    /\ pc \in [Workers -> Points]
    /\ cl \in [Workers -> Clients \cup {None}]
    /\ \A w \in Workers : pc[w] \in Bearing => cl[w] # None
    /\ ended \subseteq Workers

\* What a process starts with: only the row outlives it.
Booted ==
    /\ pool = None
    /\ entry = [active |-> FALSE, im |-> None, removed |-> FALSE, idle |-> FALSE]
    /\ cache = None
    /\ live = {}
    /\ clientOf = [m \in Managers |-> None]
    /\ failCache = "none"
    /\ leader = None
    /\ loaded = FALSE
    /\ pc = [w \in Workers |-> "idle"]
    /\ cl = [w \in Workers |-> None]
    /\ ended = {}

Init == row \in {"unborn", "present"} /\ Booted

-----------------------------------------------------------------------------
(* The OverviewCache, called only with entry.mu held.                       *)

\* What the cache and the managers become when it is stopped.
StoppedLive == live \ {cache}

\* StartClusterCache(c) on what StopClusterCache may just have left: a manager
\* that is already there is kept, and no error is ever returned.
StartCache(c, cache0, live0) ==
    IF cache0 # None
    THEN cache' = cache0 /\ live' = live0 /\ UNCHANGED clientOf
    ELSE \E m \in Managers \ live0 :
            /\ cache' = m
            /\ live' = live0 \cup {m}
            /\ clientOf' = [clientOf EXCEPT ![m] = c]

StopCache ==
    /\ cache' = None
    /\ live' = StoppedLive
    /\ UNCHANGED clientOf

(* The lifecycle manager, each operation under entry.mu from end to end.    *)

\* Mutant: the tombstone is not consulted.
TombstoneBlind(c) ==
    \/ /\ entry.active
       /\ entry' = [entry EXCEPT !.idle = FALSE]
       /\ UNCHANGED <<cache, live, clientOf>>
    \/ /\ ~entry.active
       /\ StartCache(c, cache, live)
       /\ entry' = [entry EXCEPT !.active = TRUE, !.im = cache', !.idle = FALSE]

EnsureActive(c) ==
    \/ entry.removed /\ UNCHANGED entryVars
    \/ /\ ~entry.removed /\ entry.active
       /\ entry' = [entry EXCEPT !.idle = FALSE]
       /\ UNCHANGED <<cache, live, clientOf>>
    \/ /\ ~entry.removed /\ ~entry.active
       /\ StartCache(c, cache, live)
       /\ entry' = [entry EXCEPT !.active = TRUE, !.im = cache', !.idle = FALSE]

\* Mutant: the informers start but the entry stays idle, so no sweep sees them.
ForgetsActive(c) ==
    /\ StartCache(c, None, StoppedLive)
    /\ entry' = [entry EXCEPT !.active = FALSE, !.im = cache', !.idle = TRUE]

\* Mutant: informers that run are kept, as EnsureActive keeps them.
KeepsInformers(c) ==
    /\ StartCache(c, cache, live)
    /\ entry' = [entry EXCEPT !.active = TRUE, !.im = cache', !.idle = FALSE]

Reconnected(c) ==
    /\ StartCache(c, None, StoppedLive)
    /\ entry' = [entry EXCEPT !.active = TRUE, !.im = cache', !.idle = FALSE]

\* Mutant: StopClusterCache called directly, past the lifecycle entry.
StopOnly == StopCache /\ UNCHANGED entry

Remove ==
    /\ StopCache
    /\ entry' = [entry EXCEPT !.active = FALSE, !.im = None, !.removed = TRUE]

\* One visit of sweepOnce to this entry.
Sweep ==
    /\ ~entry.removed /\ entry.active /\ entry.idle
    /\ StopCache
    /\ entry' = [entry EXCEPT !.active = FALSE, !.im = None]
    /\ UNCHANGED <<row, pool, failCache, leader, loaded, workVars>>

-----------------------------------------------------------------------------
(* Workers.                                                                 *)

Goto(w, p) == pc' = [pc EXCEPT ![w] = p]

Begin(w, op, p) == pc[w] = "idle" /\ op \in OpsOf[w] /\ Goto(w, p)

Step(w, from, to) == pc[w] = from /\ Goto(w, to)

\* A worker is done.  If it led the reconnectSF call, an error is remembered
\* and whoever shared the call is answered with it.
Return(w, ok) ==
    /\ cl' = [cl EXCEPT ![w] = None]
    /\ IF leader = w
       THEN /\ leader' = None
            /\ failCache' = IF ok THEN failCache ELSE "fresh"
            /\ pc' = [v \in Workers |->
                        IF v = w \/ pc[v] = "lWait" THEN "idle" ELSE pc[v]]
            /\ ended' = {v \in ended : v # w /\ pc[v] # "lWait"}
       ELSE /\ Goto(w, "idle")
            /\ ended' = ended \ {w}
            /\ UNCHANGED <<leader, failCache>>

\* A client nobody has seen: k8s.NewClient.
InUse == {pool} \cup {cl[w] : w \in Workers} \cup {clientOf[m] : m \in live}

\* k8s.NewClient and TestConnection: a tested client, or an error.
Connects(w, from, to) ==
    /\ Step(w, from, to)
    /\ w \notin ended
    /\ \E c \in Clients \ InUse : cl' = [cl EXCEPT ![w] = c]
    /\ UNCHANGED <<row, pool, entryVars, failCache, leader, loaded, ended>>

Fails(w, from) ==
    /\ pc[w] = from
    /\ Return(w, FALSE)
    /\ UNCHANGED <<row, pool, entryVars, loaded>>

Store(w, from, to) ==
    /\ Step(w, from, to)
    /\ pool' = cl[w]
    /\ UNCHANGED <<row, entryVars, failCache, leader, loaded, cl, ended>>

\* ReconnectCluster, asked for or run by the leader of a lazy reconnect.
BeginReconnect(w) ==
    /\ Begin(w, "reconnect", "rGet")
    /\ UNCHANGED <<row, pool, entryVars, failCache, leader, loaded, cl, ended>>

ReconnectGet(w) ==
    \/ row # "present" /\ Fails(w, "rGet")
    \/ w \in ended /\ Fails(w, "rGet")
    \/ /\ row = "present" /\ w \notin ended
       /\ Step(w, "rGet", "rBuild")
       /\ UNCHANGED <<row, pool, entryVars, failCache, leader, loaded, cl, ended>>

ReconnectBuild(w) == Connects(w, "rBuild", "rPool") \/ Fails(w, "rBuild")

ReconnectStore(w) == Store(w, "rPool", "rStart")

ReconnectStart(w) ==
    /\ Step(w, "rStart", IF InCluster THEN "rFinish" ELSE "rInfo")
    /\ Reconnected(cl[w])
    /\ UNCHANGED <<row, pool, failCache, leader, loaded, cl, ended>>

\* Forget the failure; then GetClusterInfo and DetectProvider, which may take
\* long and whose errors are ignored.
ReconnectInfo(w) ==
    /\ Step(w, "rInfo", "rFinish")
    /\ failCache' = "none"
    /\ UNCHANGED <<row, pool, entryVars, leader, loaded, cl, ended>>

\* Mutant: the row is written back without looking.
NeverLooks(w) == FALSE

\* finishReconnect: any error of the lookup is taken for a deleted row.
LookupFails(w) == row # "present" \/ w \in ended

FinishReconnect(w) ==
    /\ pc[w] = "rFinish"
    /\ \/ /\ LookupFails(w)
          /\ Goto(w, "rDrop")
          /\ UNCHANGED <<failCache, leader, cl, ended>>
       \/ ~LookupFails(w) /\ Return(w, TRUE)
    /\ UNCHANGED <<row, pool, entryVars, loaded>>

RollbackInformers(w) ==
    /\ Step(w, "rDrop", "rForget")
    /\ Remove
    /\ UNCHANGED <<row, pool, failCache, leader, loaded, cl, ended>>

RollbackClient(w) ==
    /\ pc[w] = "rForget"
    /\ pool' = None
    /\ Return(w, TRUE)
    /\ UNCHANGED <<row, entryVars, loaded>>

Reconnect(w) ==
    \/ BeginReconnect(w) \/ ReconnectGet(w) \/ ReconnectBuild(w)
    \/ ReconnectStore(w) \/ ReconnectStart(w) \/ ReconnectInfo(w)
    \/ FinishReconnect(w) \/ RollbackInformers(w) \/ RollbackClient(w)

\* GetOrReconnectClient, which ListClusters also runs in the background.
BeginLazy(w) ==
    /\ pool = None
    /\ Begin(w, "lazy", "lNegative")
    /\ UNCHANGED <<row, pool, entryVars, failCache, leader, loaded, cl, ended>>

LazyNegative(w) ==
    \/ /\ failCache = "fresh"
       /\ pc[w] = "lNegative"
       /\ Return(w, FALSE)
       /\ UNCHANGED <<row, pool, entryVars, loaded>>
    \/ /\ failCache # "fresh"
       /\ Step(w, "lNegative", "lJoin")
       /\ failCache' = "none"
       /\ UNCHANGED <<row, pool, entryVars, leader, loaded, cl, ended>>

LazyJoin(w) ==
    /\ Step(w, "lJoin", IF leader = None THEN "lCheck" ELSE "lWait")
    /\ leader' = IF leader = None THEN w ELSE leader
    /\ UNCHANGED <<row, pool, entryVars, failCache, loaded, cl, ended>>

LazyCheck(w) ==
    \/ /\ pool # None
       /\ pc[w] = "lCheck"
       /\ Return(w, TRUE)
       /\ UNCHANGED <<row, pool, entryVars, loaded>>
    \/ /\ pool = None
       /\ Step(w, "lCheck", "rGet")
       /\ UNCHANGED <<row, pool, entryVars, failCache, leader, loaded, cl, ended>>

LazyReconnect(w) ==
    BeginLazy(w) \/ LazyNegative(w) \/ LazyJoin(w) \/ LazyCheck(w)

\* GetInformerManager, GetOverview and Subscribe: the client is read under s.mu
\* and handed to EnsureActive afterwards.
BeginTouch(w) ==
    /\ pool # None
    /\ Begin(w, "touch", "tEnsure")
    /\ cl' = [cl EXCEPT ![w] = pool]
    /\ UNCHANGED <<row, pool, entryVars, failCache, leader, loaded, ended>>

TouchEnsure(w) ==
    /\ pc[w] = "tEnsure"
    /\ EnsureActive(cl[w])
    /\ Return(w, TRUE)
    /\ UNCHANGED <<row, pool, loaded>>

Touch(w) == BeginTouch(w) \/ TouchEnsure(w)

\* GetCluster: with no client in the pool it reconnects too, by way of
\* tryReconnectCluster and applyAndStoreClient, and does not look the row up
\* again afterwards.
BeginView(w) ==
    /\ row = "present"
    /\ Begin(w, "view", "vPool")
    /\ UNCHANGED <<row, pool, entryVars, failCache, leader, loaded, cl, ended>>

ViewPool(w) ==
    \/ /\ pool # None
       /\ pc[w] = "vPool"
       /\ Return(w, TRUE)
       /\ UNCHANGED <<row, pool, entryVars, loaded>>
    \/ /\ pool = None
       /\ Step(w, "vPool", "vBuild")
       /\ UNCHANGED <<row, pool, entryVars, failCache, leader, loaded, cl, ended>>

ViewBuild(w) == Connects(w, "vBuild", "vStore") \/ Fails(w, "vBuild")

ViewStore(w) == Store(w, "vStore", "vStart")

ViewStart(w) ==
    /\ pc[w] = "vStart"
    /\ Reconnected(cl[w])
    /\ Return(w, TRUE)
    /\ UNCHANGED <<row, pool, loaded>>

View(w) ==
    BeginView(w) \/ ViewPool(w) \/ ViewBuild(w) \/ ViewStore(w) \/ ViewStart(w)

\* Mutant: the informers are torn down before the row is deleted.
RemovesFirst(w) ==
    /\ row = "present"
    /\ Begin(w, "remove", "dDelete")
    /\ Remove
    /\ UNCHANGED <<row, pool, failCache, leader, loaded, cl, ended>>

\* RemoveCluster.
BeginRemove(w) ==
    /\ row = "present"
    /\ Begin(w, "remove", "dDelete")
    /\ UNCHANGED <<row, pool, entryVars, failCache, leader, loaded, cl, ended>>

RemoveRow(w) ==
    \/ w \in ended /\ Fails(w, "dDelete")
    \/ /\ w \notin ended
       /\ Step(w, "dDelete", "dPool")
       /\ row' = "deleted"
       /\ UNCHANGED <<pool, entryVars, failCache, leader, loaded, cl, ended>>

RemoveClient(w) ==
    /\ Step(w, "dPool", "dRemove")
    /\ pool' = None
    /\ UNCHANGED <<row, entryVars, failCache, leader, loaded, cl, ended>>

RemoveInformers(w) ==
    /\ pc[w] = "dRemove"
    /\ Remove
    /\ Return(w, TRUE)
    /\ UNCHANGED <<row, pool, loaded>>

RemoveCluster(w) ==
    BeginRemove(w) \/ RemoveRow(w) \/ RemoveClient(w) \/ RemoveInformers(w)

\* addClusterWithSource: the list of rows is read first, then the connection is
\* tested; a match updates the row, which has no effect on a deleted one, and
\* without a match a row is created.  Only a tested client is stored.
BeginAdd(w) ==
    /\ Begin(w, "add", IF row = "present" THEN "aTest" ELSE "cTest")
    /\ row # "deleted"
    /\ UNCHANGED <<row, pool, entryVars, failCache, leader, loaded, cl, ended>>

Untested(w, from, to) ==
    /\ Step(w, from, to)
    /\ UNCHANGED <<row, pool, entryVars, failCache, leader, loaded, cl, ended>>

AddTest(w) ==
    \/ Connects(w, "aTest", "aUpdate") \/ Untested(w, "aTest", "aUpdate")
    \/ Connects(w, "cTest", "aCreate") \/ Untested(w, "cTest", "aCreate")

\* Mutant: stored whatever the connection test said.
StoresUntested(w) == Goto(w, "aStore") /\ UNCHANGED <<failCache, leader, cl, ended>>

\* The row is written; then the client is stored if there is one.
Written(w) ==
    IF cl[w] = None
    THEN Return(w, TRUE)
    ELSE Goto(w, "aStore") /\ UNCHANGED <<failCache, leader, cl, ended>>

AddUpdate(w) ==
    \/ w \in ended /\ Fails(w, "aUpdate")
    \/ /\ w \notin ended
       /\ pc[w] = "aUpdate"
       /\ Written(w)
       /\ UNCHANGED <<row, pool, entryVars, loaded>>

\* A worker that comes second creates another cluster, which is not this one.
AddCreate(w) ==
    \/ w \in ended /\ Fails(w, "aCreate")
    \/ row # "unborn" /\ Fails(w, "aCreate")
    \/ /\ w \notin ended /\ row = "unborn"
       /\ pc[w] = "aCreate"
       /\ row' = "present"
       /\ Written(w)
       /\ UNCHANGED <<pool, entryVars, loaded>>

AddStore(w) ==
    /\ pc[w] = "aStore"
    /\ pool' = cl[w]
    /\ Return(w, TRUE)
    /\ UNCHANGED <<row, entryVars, loaded>>

\* loadOneClusterFromRepo, once per process, beside the HTTP server.
BeginLoad(w) ==
    /\ ~loaded
    /\ row = "present"
    /\ Begin(w, "load", "bTest")
    /\ loaded' = TRUE
    /\ UNCHANGED <<row, pool, entryVars, failCache, leader, cl, ended>>

LoadTest(w) == Connects(w, "bTest", "aStore") \/ Fails(w, "bTest")

AddCluster(w) ==
    \/ BeginAdd(w) \/ AddTest(w) \/ AddUpdate(w) \/ AddCreate(w) \/ AddStore(w)
    \/ BeginLoad(w) \/ LoadTest(w)

Work(w) ==
    \/ Reconnect(w) \/ LazyReconnect(w) \/ Touch(w)
    \/ View(w) \/ RemoveCluster(w) \/ AddCluster(w)

-----------------------------------------------------------------------------
(* Time and faults.                                                         *)

\* The client hung up, or the deadline of the call has passed.
CtxEnds(w) ==
    /\ CtxMayEnd
    /\ pc[w] # "idle" /\ w \notin ended
    /\ ended' = ended \cup {w}
    /\ UNCHANGED <<row, pool, entryVars, failCache, leader, loaded, pc, cl>>

\* lastAccess is now IdleTTL (10 minutes) ago.  A goroutine that has read the
\* pool is not kept off the processor that long.
GoesIdle ==
    /\ entry.active /\ ~entry.idle
    /\ \A w \in Workers : pc[w] # "tEnsure"
    /\ entry' = [entry EXCEPT !.idle = TRUE]
    /\ UNCHANGED <<row, pool, cache, live, clientOf, failCache, leader, loaded, workVars>>

\* reconnectNegativeCacheTTL is over.
FailureExpires ==
    /\ failCache = "fresh"
    /\ failCache' = "expired"
    /\ UNCHANGED <<row, pool, entryVars, leader, loaded, workVars>>

\* The process dies and starts again.
ProcessRestart ==
    /\ pool' = None
    /\ entry' = [active |-> FALSE, im |-> None, removed |-> FALSE, idle |-> FALSE]
    /\ cache' = None
    /\ live' = {}
    /\ clientOf' = [m \in Managers |-> None]
    /\ failCache' = "none"
    /\ leader' = None
    /\ loaded' = FALSE
    /\ pc' = [w \in Workers |-> "idle"]
    /\ cl' = [w \in Workers |-> None]
    /\ ended' = {}
    /\ UNCHANGED row

Next ==
    \/ \E w \in Workers : Work(w) \/ CtxEnds(w)
    \/ Sweep \/ GoesIdle \/ FailureExpires \/ ProcessRestart

Spec == Init /\ [][Next]_vars

\* A goroutine that has begun runs on, and the sweep's ticker keeps ticking.
Proceeds(w) == pc[w] # "idle" /\ Work(w)

FairSpec == Spec /\ (\A w \in Workers : WF_vars(Proceeds(w))) /\ WF_vars(Sweep)

-----------------------------------------------------------------------------
(* Properties.                                                              *)

\* Workers that will still take the cluster's client and informers away, or
\* that hold entry.mu next on the way there.
Cleaners == {w \in Workers :
    pc[w] \in {"rStart", "rInfo", "rFinish", "rDrop", "rForget", "dPool", "dRemove"}}

\* The informers watch through the pool's client, or whoever stored that client
\* is about to move them to it.
Following ==
    pool # None /\ cache # None =>
        \/ clientOf[cache] = pool
        \/ \E w \in Workers : pc[w] \in {"rStart", "vStart"} /\ cl[w] = pool

\* Workers that will start informers over a client the pool no longer holds, or
\* that store a client and leave the informers to the one before.
Strays == {w \in Workers :
    \/ pc[w] \in {"rStart", "vStart", "tEnsure"} /\ cl[w] # pool
    \/ pc[w] = "aStore"}

\* Never half a transition: the manager's entry, the OverviewCache and the
\* informers that actually run agree, so at most one generation runs.
\* (ClusterLifecycleManager, finishReconnect)
NoHalfState ==
    /\ entry.active <=> entry.im # None
    /\ entry.im = cache
    /\ live = IF cache = None THEN {} ELSE {cache}

\* Once the row is gone, a client or an informer that is left has somebody
\* about to take it away. (RemoveCluster, finishReconnect)
CleanupOwed ==
    row = "deleted" /\ (pool # None \/ live # {}) => Cleaners # {}

\* A cluster's lifecycle entry is buried only when its row is deleted, or by a
\* reconnect that was itself cut short before it looked the row up: whoever
\* tears the cluster down has seen the row gone before. (RemoveCluster,
\* finishReconnect)
BuriedForCause ==
    [][~entry.removed /\ entry'.removed =>
          \/ row = "deleted"
          \/ \E w \in ended : pc[w] = "rDrop"]_vars

\* The informers go where the pool's client goes, "never new client + old
\* informers": once they follow it no operation parts them, unless some worker
\* still holds a client that another has replaced. (ReconnectCluster,
\* Reconnected, EnsureActive)
InformersFollowPool == [][Following /\ Strays = {} => Following']_vars

\* A removed cluster ends up, and stays, without client and informers.
\* (RemoveCluster, EnsureActive, finishReconnect)
RemovedGoesQuiet == (row = "deleted") ~> [](pool = None /\ live = {})

\* Informers nobody asks for "stop after IdleTTL of no such calls", again if
\* requests outlive their work. (sweepOnce)
IdleStops == (live # {} /\ entry.idle) ~> (live = {} \/ ~entry.idle)

=============================================================================
