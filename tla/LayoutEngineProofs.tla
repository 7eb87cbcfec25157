------------------------- MODULE LayoutEngineProofs -------------------------
(***************************************************************************)
(* Proofs about LayoutEngine, for any shapes and versions, any number of   *)
(* workers and any bound on the renders.                                   *)
(***************************************************************************)
EXTENDS LayoutEngine, TLAPS

\* The request of the latest generation is for the topology on the canvas, and
\* where there is no canvas nothing is left of one.
Current ==
    /\ \A r \in pending : r.gen <= gen /\ (r.gen = gen => r.asked = topology)
    /\ topology = Nothing => pending = {} /\ shown = Nothing

Layout ==
    /\ TypeOK
    /\ PendingIsServed
    /\ SpinnerIsBacked
    /\ SettledShowsCurrent
    /\ Current

\* Whatever is pending ends together: either the latest request is among it and
\* draws the topology on the canvas, or nothing but the refs changes.
LEMMA Settled ==
    ASSUME Layout, Settle(pending)
    PROVE  \/ /\ topology \in Topologies
              /\ shown' = topology
              /\ cachedShape' = topology.shape
              /\ isLayouting' = FALSE
           \/ /\ \A r \in pending : r.gen # gen
              /\ UNCHANGED <<cachedShape, shown, isLayouting>>
<1>1. CASE \E r \in pending : r.gen = gen /\ Finish(r)
  <2>1. PICK r \in pending : r.gen = gen /\ Finish(r)
    BY <1>1
  <2>2. r \in pending /\ r.asked = topology /\ r.asked \in Topologies
    BY <2>1 DEF Layout, Current, TypeOK, Requests
  <2> QED  BY <2>1, <2>2 DEF Finish
<1> QED  BY <1>1 DEF Settle

LEMMA LayoutInit == Init => Layout
<1> SUFFICES ASSUME Init PROVE Layout
  OBVIOUS
<1> USE DEF Init, Blank
<1>1. TypeOK
  <2>1. gen \in 0 .. MaxRenders
    BY LayoutAssumption
  <2> QED  BY <2>1 DEF TypeOK
<1>2. PendingIsServed
  <2>1. TimersOf({}) = {}
    BY DEF TimersOf
  <2> QED  BY <2>1 DEF PendingIsServed
<1>3. SpinnerIsBacked /\ SettledShowsCurrent /\ Current
  BY DEF SpinnerIsBacked, SettledShowsCurrent, Current
<1> QED  BY <1>1, <1>2, <1>3 DEF Layout

LEMMA RenderKeeps ==
    ASSUME Layout, NEW t \in Topologies, Render(t)
    PROVE  Layout'
<1>1. /\ t.shape \in Shapes
      /\ t # Nothing
      /\ gen \in Nat /\ gen + 1 \in 1 .. MaxRenders
  BY LayoutAssumption DEF Layout, TypeOK, Render, Topologies
<1>2. CASE RenderCached(t)
  <2>1. TypeOK'
    <3>1. gen' \in 0 .. MaxRenders
      BY <1>1 DEF Render, Layout, TypeOK
    <3> QED  BY <1>2, <3>1 DEF Render, RenderCached, Layout, TypeOK
  <2>2. \A r \in pending : r.gen \in Nat /\ r.gen <= gen
    BY DEF Layout, TypeOK, Requests, Current
  <2>3. PendingIsServed'
    <3>1. UNCHANGED <<pending, armed, worker, alive>>
      BY <1>2 DEF RenderCached
    <3> QED  BY <3>1 DEF Layout, PendingIsServed
  <2>4. \A r \in pending' : r.gen < gen' /\ r.gen # gen'
    BY <1>1, <1>2, <2>2 DEF Render, RenderCached
  <2>5. SpinnerIsBacked'
    BY <1>2, <2>4 DEF RenderCached, SpinnerIsBacked
  <2>6. Current'
    BY <1>1, <2>2, <2>4, <1>2 DEF Render, RenderCached, Current
  <2> QED  BY <1>2, <2>1, <2>3, <2>5, <2>6 DEF Render, RenderCached, Layout, SettledShowsCurrent
<1>3. CASE RenderAsked(t)
  <2>1. PICK w \in Workers :
          /\ worker' = w
          /\ w \in alive'
          /\ alive' \subseteq alive \cup {w}
          /\ pending' = {[gen |-> gen + 1, asked |-> t, worker |-> w]}
    BY <1>3 DEF RenderAsked
  <2>2. armed' = {gen + 1}
    BY <1>3 DEF RenderAsked, Layout, PendingIsServed, TimersOf
  <2>3. [gen |-> gen + 1, asked |-> t, worker |-> w] \in Requests
    BY <1>1 DEF Requests
  <2>4. TypeOK'
    BY <1>1, <1>3, <2>1, <2>2, <2>3 DEF Render, RenderAsked, Layout, TypeOK
  <2>5. PendingIsServed'
    BY <2>1, <2>2 DEF PendingIsServed, TimersOf
  <2>6. SpinnerIsBacked' /\ SettledShowsCurrent'
    BY <1>3, <2>1 DEF Render, RenderAsked, SpinnerIsBacked, SettledShowsCurrent
  <2>7. Current'
    BY <1>1, <2>1 DEF Render, Current
  <2> QED  BY <2>4, <2>5, <2>6, <2>7 DEF Layout
<1> QED  BY <1>2, <1>3 DEF Render

\* A handler that ends what is pending keeps the invariant, whatever it does
\* with the workers.
LEMMA EndingKeeps ==
    ASSUME Layout, Settle(pending),
           pending' = {}, armed' = {},
           alive' \subseteq alive, worker' \in Workers \cup {Nothing},
           topology' = topology, gen' = gen
    PROVE  Layout'
<1>1. TypeOK'
  <2>1. topology \in Topologies => topology.shape \in Shapes
    BY DEF Topologies
  <2> QED  BY <2>1, Settled DEF Layout, TypeOK
<1>2. PendingIsServed'
  BY DEF PendingIsServed, TimersOf
<1>3. SpinnerIsBacked' /\ SettledShowsCurrent'
  <2>1. ~isLayouting'
    BY Settled DEF Layout, SpinnerIsBacked
  <2>2. SettledShowsCurrent'
    BY Settled DEF Layout, SpinnerIsBacked, SettledShowsCurrent
  <2> QED  BY <2>1, <2>2 DEF SpinnerIsBacked
<1>4. Current'
  BY Settled DEF Layout, Current
<1> QED  BY <1>1, <1>2, <1>3, <1>4 DEF Layout

\* The reply to a request is the end of all that is pending.
LEMMA ReplyEndsAll ==
    ASSUME Layout, NEW r \in pending, Reply(r)
    PROVE  pending = {r} /\ Settle(pending) /\ pending' = {} /\ armed' = {}
<1>1. pending = {r}
  BY DEF Layout, PendingIsServed
<1>2. armed = {r.gen}
  BY <1>1 DEF Layout, PendingIsServed, TimersOf
<1> QED  BY <1>1, <1>2 DEF Reply

LEMMA LayoutNext == Layout /\ [Next]_vars => Layout'
<1> SUFFICES ASSUME Layout, [Next]_vars PROVE Layout'
  OBVIOUS
<1>1. ASSUME NEW t \in Topologies, Render(t) PROVE Layout'
  BY <1>1, RenderKeeps
<1>2. worker \in Workers \cup {Nothing} /\ armed = TimersOf(pending)
  BY DEF Layout, TypeOK, PendingIsServed
<1>3. ASSUME NEW r \in pending, Reply(r) PROVE Layout'
  BY <1>2, <1>3, ReplyEndsAll, EndingKeeps DEF Reply
<1>4. ASSUME NEW w \in Workers, Crash(w) PROVE Layout'
  BY <1>2, <1>4, EndingKeeps DEF Crash
<1>5. ASSUME NEW g \in 1 .. MaxRenders, HardTimeout(g) PROVE Layout'
  <2>1. armed' = {}
    BY <1>2, <1>5 DEF HardTimeout
  <2> QED  BY <1>5, <2>1, EndingKeeps DEF HardTimeout
<1>6. CASE Unmount
  <2>1. TypeOK'
    <3>1. gen' \in 0 .. MaxRenders
      BY <1>6, LayoutAssumption DEF Unmount
    <3> QED  BY <1>6, <3>1 DEF Unmount, TypeOK
  <2>2. PendingIsServed'
    <3>1. TimersOf({}) = {}
      BY DEF TimersOf
    <3>2. pending' = {} /\ armed' = {}
      BY <1>6 DEF Unmount
    <3> QED  BY <3>1, <3>2 DEF PendingIsServed
  <2>3. SpinnerIsBacked' /\ SettledShowsCurrent' /\ Current'
    BY <1>6 DEF Unmount, SpinnerIsBacked, SettledShowsCurrent, Current
  <2> QED  BY <2>1, <2>2, <2>3 DEF Layout
<1>7. CASE UNCHANGED vars
  BY <1>7 DEF vars, refs, Layout, TypeOK, PendingIsServed, SpinnerIsBacked,
              SettledShowsCurrent, Current
<1> QED  BY <1>1, <1>3, <1>4, <1>5, <1>6, <1>7 DEF Next

LEMMA Invariance == Spec => []Layout
BY LayoutInit, LayoutNext, PTL DEF Spec

\* Whatever order renders, replies and timers take, the refs and the state of the
\* hook keep their types. (useElkLayout)
THEOREM LayoutTypes == Spec => []TypeOK
<1>1. Layout => TypeOK
  BY DEF Layout
<1> QED  BY <1>1, Invariance, PTL

\* However renders, replies, errors and timers fall, at most one request waits,
\* with a live worker and its own timer. (computeLayout, terminateWorker)
THEOREM RequestsAreServed == Spec => []PendingIsServed
<1>1. Layout => PendingIsServed
  BY DEF Layout
<1> QED  BY <1>1, Invariance, PTL

\* The spinner turns exactly as long as something will stop it. (computeLayout)
THEOREM SpinnerStops == Spec => []SpinnerIsBacked
<1>1. Layout => SpinnerIsBacked
  BY DEF Layout
<1> QED  BY <1>1, Invariance, PTL

\* Without a spinner the canvas shows the topology of the last render.
\* (computeLayout, the stale check)
THEOREM SettledIsCurrent == Spec => []SettledShowsCurrent
<1>1. Layout => SettledShowsCurrent
  BY DEF Layout
<1> QED  BY <1>1, Invariance, PTL

\* Every step of the hook is a step of the canvas's promise, or none: an
\* earlier topology never replaces a later one. (useElkLayout)
THEOREM HookImplementsPicture == Spec => Picture!Spec
<1>1. Init => Picture!Init
  BY DEF Init, Blank, Picture!Init
<1>2. Layout /\ [Next]_vars => [Picture!Next]_Picture!vars
  <2> SUFFICES ASSUME Layout, [Next]_vars PROVE [Picture!Next]_Picture!vars
    OBVIOUS
  <2>1. ASSUME Settle(pending), UNCHANGED topology
        PROVE  [Picture!Next]_Picture!vars
    BY <2>1, Settled, LayoutAssumption
       DEF Picture!Next, Picture!Draw, Picture!vars
  <2>2. ASSUME NEW t \in Topologies, Render(t) PROVE Picture!Next
    BY <2>2 DEF Render, RenderCached, RenderAsked, Picture!Next, Picture!Ask
  <2>3. ASSUME NEW r \in pending, Reply(r) PROVE [Picture!Next]_Picture!vars
    BY <2>3, <2>1, ReplyEndsAll DEF Reply
  <2>4. ASSUME NEW w \in Workers, Crash(w) PROVE [Picture!Next]_Picture!vars
    BY <2>4, <2>1 DEF Crash
  <2>5. ASSUME NEW g \in 1 .. MaxRenders, HardTimeout(g)
        PROVE  [Picture!Next]_Picture!vars
    BY <2>5, <2>1 DEF HardTimeout
  <2>6. CASE Unmount
    BY <2>6 DEF Unmount, Picture!Next, Picture!Clear
  <2>7. CASE UNCHANGED vars
    BY <2>7 DEF vars, refs, Picture!vars
  <2> QED  BY <2>2, <2>3, <2>4, <2>5, <2>6, <2>7 DEF Next
<1> QED  BY <1>1, <1>2, Invariance, PTL DEF Spec, Picture!Spec

=============================================================================
