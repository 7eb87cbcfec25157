---------------------------- MODULE LayoutEngine ----------------------------
(***************************************************************************)
(* The layout hook of the topology canvas (useElkLayout): every render     *)
(* with a new topology asks for a layout, which a web worker computes.     *)
(* The page's thread runs one handler at a time, with the continuations of *)
(* the promises it settles; what happens between two handlers (a reply, an *)
(* error, the hard timer, another render, the canvas taken down) may come  *)
(* in any order.  A worker whose onerror has fired is not terminated: it   *)
(* lives on, and may err again.                                            *)
(***************************************************************************)
EXTENDS Naturals, FiniteSets

CONSTANTS
    Shapes,      \* sets of node and edge ids, with the view mode
    Versions,    \* what else a topology says of its nodes: status, metrics
    Workers,     \* web workers
    MaxRenders,  \* bound on the layouts asked for by one canvas
    Nothing      \* no worker, no shape, no topology

Topologies == [shape : Shapes, version : Versions]

ASSUME LayoutAssumption ==
    /\ MaxRenders \in Nat
    /\ Nothing \notin Workers \cup Shapes \cup Topologies

VARIABLES
    topology,     \* the one rendered last; Nothing while there is no canvas
    gen,          \* layoutGenRef
    pending,      \* pendingRef: the requests that await a reply, each with its closure
    armed,        \* generations whose hard timer is running
    worker,       \* workerRef
    alive,        \* workers neither terminated nor collected with their canvas
    cachedShape,  \* lastShapeFingerprintRef, which lastPositionsRef goes with
    isLayouting,
    shown         \* the topology whose nodes are positioned

refs == <<gen, cachedShape>>
vars == <<topology, refs, pending, armed, worker, alive, isLayouting, shown>>

Requests == [gen : 1 .. MaxRenders, asked : Topologies, worker : Workers]

\* The refs, the pending requests and what is shown have their types.
TypeOK ==
    /\ topology \in Topologies \cup {Nothing}
    /\ gen \in 0 .. MaxRenders
    /\ pending \subseteq Requests
    /\ armed \subseteq 1 .. MaxRenders
    /\ worker \in Workers \cup {Nothing}
    /\ alive \subseteq Workers
    /\ cachedShape \in Shapes \cup {Nothing}
    /\ isLayouting \in BOOLEAN
    /\ shown \in Topologies \cup {Nothing}

\* The hard timers that settling these requests clears.
TimersOf(requests) == {r.gen : r \in requests}

\* There is no canvas.
Blank ==
    /\ topology = Nothing
    /\ gen = 0
    /\ pending = {}
    /\ armed = {}
    /\ worker = Nothing
    /\ alive = {}
    /\ cachedShape = Nothing
    /\ isLayouting = FALSE
    /\ shown = Nothing

Init == Blank

-----------------------------------------------------------------------------

\* Mutant: the fingerprint kept is not the shape.
FinishWhole(r) ==
    /\ cachedShape' = r.asked
    /\ shown' = r.asked
    /\ isLayouting' = FALSE

\* The request of the latest generation ends, with the worker's positions or
\* those of the category grid; both are remembered for the shape.
Finish(r) ==
    /\ cachedShape' = r.asked.shape
    /\ shown' = r.asked
    /\ isLayouting' = FALSE

\* Mutant: the stale check is gone.
SettleStale(requests) ==
    \/ \E r \in requests : Finish(r)
    \/ requests = {} /\ UNCHANGED <<cachedShape, shown, isLayouting>>

\* The rest of computeLayout for requests settled together: a request that is
\* not the latest returns at the stale check.
Settle(requests) ==
    \/ \E r \in requests : r.gen = gen /\ Finish(r)
    \/ /\ \A r \in requests : r.gen # gen
       /\ UNCHANGED <<cachedShape, shown, isLayouting>>

-----------------------------------------------------------------------------

\* Mutant: the spinner is left to the request it was started for.
RenderCachedSpinning(t) ==
    /\ t.shape = cachedShape
    /\ shown' = t
    /\ UNCHANGED <<cachedShape, isLayouting, pending, armed, worker, alive>>

\* The positions of t's shape are known: no worker is involved, and a request
\* still pending is left alone.
RenderCached(t) ==
    /\ t.shape = cachedShape
    /\ shown' = t
    /\ isLayouting' = FALSE
    /\ UNCHANGED <<cachedShape, pending, armed, worker, alive>>

\* w is the worker at hand, or a new one.
GetOrCreateWorker(current, w) ==
    \/ current # Nothing /\ w = current
    \/ current = Nothing /\ w \notin alive

\* Mutant: an older request is left running beside the new one.
RenderBeside(t) ==
    /\ t.shape # cachedShape
    /\ \E w \in Workers :
         /\ GetOrCreateWorker(worker, w)
         /\ worker' = w
         /\ alive' = alive \cup {w}
         /\ pending' = pending \cup {[gen |-> gen + 1, asked |-> t, worker |-> w]}
    /\ armed' = armed \cup {gen + 1}
    /\ isLayouting' = TRUE
    /\ UNCHANGED <<cachedShape, shown>>

\* A worker lays t out. A request still pending is superseded: its worker is
\* terminated and its timer cleared, and it ends at the stale check.
RenderAsked(t) ==
    /\ t.shape # cachedShape
    /\ LET current == IF pending = {} THEN worker ELSE Nothing
       IN  \E w \in Workers :
             /\ GetOrCreateWorker(current, w)
             /\ worker' = w
             /\ alive' = (alive \ {r.worker : r \in pending}) \cup {w}
             /\ pending' = {[gen |-> gen + 1, asked |-> t, worker |-> w]}
    /\ armed' = (armed \ TimersOf(pending)) \cup {gen + 1}
    /\ isLayouting' = TRUE
    /\ UNCHANGED <<cachedShape, shown>>

\* computeLayout, up to its await; the canvas is never given an empty topology.
Render(t) ==
    /\ gen < MaxRenders
    /\ t # topology
    /\ topology' = t
    /\ gen' = gen + 1
    /\ RenderCached(t) \/ RenderAsked(t)

\* The worker's message, with positions or with an error it caught; a reply to
\* a request no longer pending changes nothing.
Reply(r) ==
    /\ r \in pending
    /\ r.worker \in alive
    /\ pending' = pending \ {r}
    /\ armed' = armed \ {r.gen}
    /\ Settle({r})
    /\ UNCHANGED <<topology, gen, worker, alive>>

\* onerror of worker w, which the hook may have let go of before: it rejects
\* whatever is pending and lets go of the current worker.
Crash(w) ==
    /\ w \in alive
    /\ worker' = Nothing
    /\ pending' = {}
    /\ armed' = armed \ TimersOf(pending)
    /\ Settle(pending)
    /\ UNCHANGED <<topology, gen, alive>>

\* Mutant: the worker is terminated, the requests are left waiting for it.
TimeoutOnlyKills(g) ==
    /\ g \in armed
    /\ alive' = alive \ {worker}
    /\ worker' = Nothing
    /\ armed' = armed \ {g}
    /\ UNCHANGED <<topology, gen, pending, cachedShape, shown, isLayouting>>

\* LAYOUT_HARD_TIMEOUT_MS after the request of generation g was posted.
HardTimeout(g) ==
    /\ g \in armed
    /\ alive' = alive \ {worker}
    /\ worker' = Nothing
    /\ pending' = {}
    /\ armed' = (armed \ TimersOf(pending)) \ {g}
    /\ Settle(pending)
    /\ UNCHANGED <<topology, gen>>

\* The canvas is taken down: its worker is terminated, and nothing the rejected
\* requests do afterwards is seen. A worker that had erred before is left.
Unmount ==
    /\ topology # Nothing
    /\ topology' = Nothing
    /\ gen' = 0
    /\ pending' = {}
    /\ armed' = {}
    /\ worker' = Nothing
    /\ alive' = {}
    /\ cachedShape' = Nothing
    /\ isLayouting' = FALSE
    /\ shown' = Nothing

Next ==
    \/ \E t \in Topologies : Render(t)
    \/ \E r \in pending : Reply(r)
    \/ \E w \in Workers : Crash(w)
    \/ \E g \in 1 .. MaxRenders : HardTimeout(g)
    \/ Unmount

Spec == Init /\ [][Next]_vars

\* A timer fires in the end; a worker need not reply.
FairSpec == Spec /\ \A g \in 1 .. MaxRenders : WF_vars(HardTimeout(g))
-----------------------------------------------------------------------------

\* However renders, replies, errors and timers fall, at most one request waits,
\* with the worker at hand still alive to answer it and its own timer, alone,
\* to end it if the worker does not. (computeLayout, terminateWorker)
PendingIsServed ==
    /\ \A r \in pending : r.worker = worker /\ worker \in alive
    /\ \A r, s \in pending : r = s
    /\ armed = TimersOf(pending)

\* The spinner turns exactly as long as the request of the last render waits,
\* so that something will stop it. (computeLayout, its finally)
SpinnerIsBacked ==
    isLayouting <=> \E r \in pending : r.gen = gen

\* Without a spinner the canvas shows the topology of the last render and of no
\* earlier one. (computeLayout, the stale check)
SettledShowsCurrent ==
    topology # Nothing /\ ~isLayouting => shown = topology

\* A layout ends even if the worker hangs, however often it is superseded.
\* (computeLayout, its hard timer)
Settles == isLayouting ~> ~isLayouting

Picture == INSTANCE LatestPicture
    WITH Topologies <- Topologies, Nothing <- Nothing,
         asked <- topology, picture <- shown

\* The hook implements the canvas's promise: an earlier topology never replaces
\* a later one, and the last one is drawn. (useElkLayout)
DrawsTheLatest == Picture!FairSpec

=============================================================================
