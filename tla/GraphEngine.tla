---------------------------- MODULE GraphEngine ----------------------------
(***************************************************************************)
(* The blast-radius engine of one cluster: informers that follow the API   *)
(* server, a debounce timer, rebuilds of the dependency graph that may     *)
(* overlap, and the topology cache they invalidate.  Topology requests     *)
(* read the engine's listers or the caches of the overview's informers.    *)
(*                                                                         *)
(* What a cluster holds of one kind is a version number, 0 when it holds   *)
(* nothing; a lister that has not synced returns nothing, too.  Kinds are  *)
(* numbered in the order in which a rebuild lists them.                    *)
(***************************************************************************)
EXTENDS Naturals, Sequences

CONSTANTS
    NKinds,      \* how many kinds the engine tracks
    MaxVersion,  \* bound: changes of one kind in a behaviour
    Slots,       \* bound: rebuilds under way at once
    Requests     \* topology requests under way at once

ASSUME SizesAssumption == NKinds \in Nat \ {0} /\ MaxVersion \in Nat

VARIABLES
    world,      \* what the API server holds of each kind
    phase,      \* the engine: "new", "entry" of the manager, or "gone"
    cancelled,  \* the engine's context is over
    synced,     \* kinds whose informer has its initial list
    seen,       \* what each informer's cache holds
    pending,    \* kinds with a notification on its way to the handler
    timer,      \* the debounce timer runs
    initial,    \* the goroutine that waits for the first sync still waits
    pc,         \* each rebuild: "idle", "collect", "store" or "notify"
    got,        \* what each rebuild has listed so far
    snapshot,   \* the graph the engine serves, by what it was built from
    overview,   \* what the overview's informers hold, once they have synced
    seeded,     \* topology requests that read the engine's listers
    view,       \* what each topology request builds from
    cached      \* the cached topology

engineVars == <<phase, cancelled, initial>>
informerVars == <<synced, seen, pending>>
rebuildVars == <<pc, got, snapshot>>
cacheVars == <<seeded, view, cached>>
vars == <<world, overview, engineVars, informerVars, timer, rebuildVars, cacheVars>>

Kinds == 1 .. NKinds
Versions == 0 .. MaxVersion
Contents == [Kinds -> Versions]
Nothing == [k \in Kinds |-> 0]
NoContents == <<>>

(* A graph without nodes counts as not ready, and is not cached. *)
HasNodes(c) == \E k \in Kinds : c[k] > 0
Ready == HasNodes(snapshot)

Idle(r) == pc[r] = "idle"

TypeOK ==
    /\ world \in Contents
    /\ phase \in {"new", "entry", "gone"}
    /\ cancelled \in BOOLEAN
    /\ synced \subseteq Kinds
    /\ seen \in Contents
    /\ pending \subseteq Kinds
    /\ timer \in BOOLEAN
    /\ initial \in BOOLEAN
    /\ pc \in [Slots -> {"idle", "collect", "store", "notify"}]
    /\ got \in [Slots -> Seq(Versions)]
    /\ \A r \in Slots : Len(got[r]) <= NKinds
    /\ \A r \in Slots : pc[r] = "collect" => Len(got[r]) < NKinds
    /\ \A r \in Slots : pc[r] = "store" => got[r] \in Contents
    /\ snapshot \in Contents
    /\ overview \in Contents \union {NoContents}
    /\ seeded \subseteq Requests
    /\ view \in [Requests -> Contents \union {NoContents}]
    /\ cached \in Contents \union {NoContents}

Init ==
    /\ world \in [Kinds -> Versions \intersect {0, 1}]
    /\ phase = "new"
    /\ cancelled = FALSE
    /\ synced = {}
    /\ seen = Nothing
    /\ pending = {}
    /\ timer = FALSE
    /\ initial = FALSE
    /\ pc = [r \in Slots |-> "idle"]
    /\ got = [r \in Slots |-> <<>>]
    /\ snapshot = Nothing
    /\ overview = NoContents
    /\ seeded = {}
    /\ view = [q \in Requests |-> NoContents]
    /\ cached = NoContents

----------------------------------------------------------------------------
(* The API server and the informers *)

(* Something of kind k is created or changed in the cluster. *)
Change(k) ==
    /\ world[k] < MaxVersion
    /\ world' = [world EXCEPT ![k] = @ + 1]
    /\ UNCHANGED <<overview, engineVars, informerVars, timer, rebuildVars, cacheVars>>

(* The manager's EnsureActive makes the engine and starts its factory. *)
Start ==
    /\ phase = "new"
    /\ phase' = "entry"
    /\ initial' = TRUE
    /\ UNCHANGED <<world, overview, cancelled, informerVars, timer, rebuildVars, cacheVars>>

Watching == phase # "new" /\ ~cancelled

(* The cache changes first; its handlers hear of it on another goroutine. *)
Hears(k) ==
    /\ seen' = [seen EXCEPT ![k] = world[k]]
    /\ pending' = IF world[k] > 0 THEN pending \union {k} ELSE pending

(* The initial list of kind k reaches its cache. *)
Sync(k) ==
    /\ Watching
    /\ k \notin synced
    /\ synced' = synced \union {k}
    /\ Hears(k)
    /\ UNCHANGED <<world, overview, engineVars, timer, rebuildVars, cacheVars>>

(* A watch event of kind k reaches its cache. *)
Update(k) ==
    /\ Watching
    /\ k \in synced
    /\ seen[k] # world[k]
    /\ Hears(k)
    /\ UNCHANGED <<world, overview, engineVars, synced, timer, rebuildVars, cacheVars>>

(* Mutant: the factory is made without a resync period. *)
NoResync(k) == FALSE

(* Every five minutes the factory reports each cached object once more. *)
Resync(k) ==
    /\ Watching
    /\ k \in synced
    /\ seen[k] > 0
    /\ pending' = pending \union {k}
    /\ UNCHANGED <<world, overview, engineVars, synced, seen, timer, rebuildVars, cacheVars>>

----------------------------------------------------------------------------
(* The engine *)

(* markDirty: the timer starts again; it does so even after Stop. *)
Notify(k) ==
    /\ k \in pending
    /\ pending' = pending \ {k}
    /\ timer' = TRUE
    /\ UNCHANGED <<world, overview, engineVars, synced, seen, rebuildVars, cacheVars>>

Begin(r) ==
    /\ Idle(r)
    /\ pc' = [pc EXCEPT ![r] = "collect"]
    /\ got' = [got EXCEPT ![r] = <<>>]
    /\ UNCHANGED snapshot

TimerFires(r) ==
    /\ timer
    /\ timer' = FALSE
    /\ Begin(r)
    /\ UNCHANGED <<world, overview, engineVars, informerVars, cacheVars>>

(* Every informer has synced and the engine was not stopped meanwhile. *)
InitialRebuild(r) ==
    /\ initial
    /\ ~cancelled
    /\ synced = Kinds
    /\ initial' = FALSE
    /\ Begin(r)
    /\ UNCHANGED <<world, overview, phase, cancelled, informerVars, timer, cacheVars>>

InitialGivesUp ==
    /\ initial
    /\ cancelled
    /\ initial' = FALSE
    /\ UNCHANGED <<world, overview, phase, cancelled, informerVars, timer, rebuildVars, cacheVars>>

(* collectResources reads one lister after the other. *)
Collect(r) ==
    /\ pc[r] = "collect"
    /\ got' = [got EXCEPT ![r] = Append(@, seen[Len(@) + 1])]
    /\ pc' = [pc EXCEPT ![r] = IF Len(got[r]) + 1 < NKinds THEN "collect" ELSE "store"]
    /\ UNCHANGED <<world, overview, engineVars, informerVars, timer, snapshot, cacheVars>>

(* Mutant: a collection that was given up is stored. *)
StoresPart(r) ==
    /\ pc[r] \in {"collect", "store"}
    /\ snapshot' = got[r]
    /\ pc' = [pc EXCEPT ![r] = "notify"]
    /\ got' = [got EXCEPT ![r] = <<>>]
    /\ UNCHANGED <<world, overview, engineVars, informerVars, timer, cacheVars>>

Store(r) ==
    /\ pc[r] = "store"
    /\ snapshot' = got[r]
    /\ pc' = [pc EXCEPT ![r] = "notify"]
    /\ got' = [got EXCEPT ![r] = <<>>]
    /\ UNCHANGED <<world, overview, engineVars, informerVars, timer, cacheVars>>

(* onRebuild: the cluster's cached topologies are dropped. *)
OnRebuild(r) ==
    /\ pc[r] = "notify"
    /\ cached' = NoContents
    /\ pc' = [pc EXCEPT ![r] = "idle"]
    /\ UNCHANGED <<world, overview, engineVars, informerVars, timer, got, snapshot, seeded, view>>

(* Mutant: the timer is stopped and the informers are left running. *)
StopsTimerOnly ==
    /\ phase = "entry"
    /\ phase' = "gone"
    /\ timer' = FALSE
    /\ UNCHANGED <<world, overview, cancelled, initial, informerVars, rebuildVars, cacheVars>>

(* The manager stops an idle, replaced or removed engine and forgets it. *)
Stop ==
    /\ phase = "entry"
    /\ phase' = "gone"
    /\ cancelled' = TRUE
    /\ timer' = FALSE
    /\ UNCHANGED <<world, overview, initial, informerVars, rebuildVars, cacheVars>>

----------------------------------------------------------------------------
(* Topology requests *)

(* The overview's informers have their initial lists. *)
OverviewSyncs ==
    /\ overview = NoContents
    /\ overview' = world
    /\ UNCHANGED <<world, engineVars, informerVars, timer, rebuildVars, cacheVars>>

(* A watch event of kind k reaches them. *)
OverviewHears(k) ==
    /\ overview # NoContents
    /\ overview[k] # world[k]
    /\ overview' = [overview EXCEPT ![k] = world[k]]
    /\ UNCHANGED <<world, engineVars, informerVars, timer, rebuildVars, cacheVars>>

(* StopClusterCache, by the sweep, a reconnect or a removal. *)
OverviewStops ==
    /\ overview # NoContents
    /\ overview' = NoContents
    /\ UNCHANGED <<world, engineVars, informerVars, timer, rebuildVars, cacheVars>>

(* Caches that have not synced are passed over for the API server. *)
Listed == IF overview = NoContents THEN world ELSE overview

(* A request that misses the cache builds from a ready engine's listers or  *)
(* else from the overview's informers.                                      *)
BeginBuild(q) ==
    /\ view[q] = NoContents
    /\ cached = NoContents
    /\ \/ /\ phase = "entry" /\ Ready
          /\ seeded' = seeded \union {q}
          /\ view' = [view EXCEPT ![q] = seen]
       \/ /\ ~(phase = "entry" /\ Ready)
          /\ view' = [view EXCEPT ![q] = Listed]
          /\ UNCHANGED seeded
    /\ UNCHANGED <<world, overview, engineVars, informerVars, timer, rebuildVars, cached>>

(* Kinds are read one by one, in no order, each from what its source holds  *)
(* by then.  A source that was stopped holds what it held.                  *)
ReadsLate(q, k) ==
    /\ view[q] # NoContents
    /\ view' = [view EXCEPT ![q][k] = IF q \in seeded THEN seen[k] ELSE Listed[k]]
    /\ view' # view
    /\ UNCHANGED <<world, overview, engineVars, informerVars, timer, rebuildVars,
                   seeded, cached>>

(* By now the cluster may have changed, the engine rebuilt or stopped.  A   *)
(* build that ran out of time is not cached.                                *)
CacheBuild(q) ==
    /\ view[q] # NoContents
    /\ cached' \in {cached} \union {c \in {view[q]} : HasNodes(c)}
    /\ view' = [view EXCEPT ![q] = NoContents]
    /\ seeded' = seeded \ {q}
    /\ UNCHANGED <<world, overview, engineVars, informerVars, timer, rebuildVars>>

(* Mutant: an entry lives until a rebuild drops it. *)
NeverExpires == FALSE

(* The entry is 30 seconds old. *)
Expire ==
    /\ cached # NoContents
    /\ cached' = NoContents
    /\ UNCHANGED <<world, overview, engineVars, informerVars, timer, rebuildVars, seeded, view>>

----------------------------------------------------------------------------
Rebuild(r) == Collect(r) \/ Store(r) \/ OnRebuild(r)
Build(q) == BeginBuild(q) \/ (\E k \in Kinds : ReadsLate(q, k)) \/ CacheBuild(q)
Overview == OverviewSyncs \/ OverviewStops \/ \E k \in Kinds : OverviewHears(k)

Next ==
    \/ \E k \in Kinds : Change(k) \/ Sync(k) \/ Update(k) \/ Resync(k) \/ Notify(k)
    \/ \E r \in Slots : TimerFires(r) \/ InitialRebuild(r) \/ Rebuild(r)
    \/ \E q \in Requests : Build(q)
    \/ Overview
    \/ Start \/ Stop \/ InitialGivesUp \/ Expire

Spec == Init /\ [][Next]_vars

(* Informers and goroutines proceed, the resync ticker ticks, two seconds  *)
(* without a notification pass sooner or later, and entries grow old.       *)
(* Nothing makes anybody ask, start or stop the engine or change a cluster. *)
FairSpec ==
    /\ Spec
    /\ \A k \in Kinds :
           WF_vars(Sync(k)) /\ WF_vars(Update(k)) /\ WF_vars(Resync(k)) /\ WF_vars(Notify(k))
           /\ WF_vars(OverviewHears(k))
    /\ \A r \in Slots : WF_vars(Rebuild(r))
    /\ WF_vars(\E r \in Slots : TimerFires(r))
    /\ WF_vars(\E r \in Slots : InitialRebuild(r))
    /\ WF_vars(InitialGivesUp)
    /\ \A q \in Requests : WF_vars(CacheBuild(q))
    /\ WF_vars(Expire)

----------------------------------------------------------------------------
(* Of two overlapping rebuilds the older may store its snapshot last, and  *)
(* a change may fall between two listers.  An engine that is kept shows    *)
(* the whole cluster as it is once the cluster stays as it is.             *)
SnapshotCatchesUp == <>[](phase = "entry") => <>[](snapshot = world)

(* A topology built before a change may be cached after the invalidation   *)
(* that the change caused, also from listers of an engine that has been    *)
(* stopped.  Whoever asks is served the cluster as it is in the end.       *)
CacheCatchesUp == <>[](cached \in {NoContents, world})

(* A notification that was on its way when the engine was stopped starts   *)
(* the timer again.  Nothing of a stopped engine runs for ever: no timer,  *)
(* no rebuild and no notification.                                         *)
Quiet == ~timer /\ ~initial /\ pending = {} /\ \A r \in Slots : Idle(r)
StopEndsQuiet == (phase = "gone") ~> []Quiet
=============================================================================
