------------------------ MODULE CircuitBreakerProofs ------------------------
(***************************************************************************)
(* Proofs about CircuitBreaker, for any number of callers, any threshold   *)
(* and any half-open limit.                                                *)
(***************************************************************************)
EXTENDS CircuitBreaker, FiniteSetTheorems, TLAPS

\* The calls under way that the failure which opened the circuit did not meet.
Probes == inFlight \ older

\* Nobody enters an open circuit that has not cooled, and every failure makes all
\* calls under way older: an open circuit has no probes, and once it is half open
\* each of them has been counted, while calls of before come and go uncounted.
Counted ==
    /\ TypeOK
    /\ state = "open" => Probes = {}
    /\ state = "halfOpen" => Cardinality(Probes) <= halfOpenCallCount
    /\ ClosedIsHealthy

\* The probes are finitely many.
LEMMA ProbesAreFinite ==
    ASSUME TypeOK
    PROVE  IsFiniteSet(Probes) /\ Cardinality(Probes) \in Nat
<1>1. Probes \subseteq Callers
  BY DEF TypeOK, Probes
<1> QED  BY <1>1, BreakerAssumption, FS_Subset, FS_CardinalityType

\* An arrival is one more probe.
LEMMA Arrival ==
    ASSUME TypeOK, NEW c, c \notin inFlight, inFlight' = inFlight \cup {c},
           older' = older
    PROVE  Probes' = Probes \cup {c} /\ Cardinality(Probes') = Cardinality(Probes) + 1
<1>1. Probes' = Probes \cup {c} /\ c \notin Probes
  BY DEF TypeOK, Probes
<1> QED  BY <1>1, ProbesAreFinite, FS_AddElement

\* A departure that is no failure makes no probe.
LEMMA Departure ==
    ASSUME TypeOK, NEW c, inFlight' = inFlight \ {c}, older' = older \ {c}
    PROVE  Probes' \subseteq Probes /\ Cardinality(Probes') \in Nat
           /\ Cardinality(Probes') <= Cardinality(Probes)
<1>1. Probes' \subseteq Probes
  BY DEF Probes
<1> QED  BY <1>1, ProbesAreFinite, FS_Subset, FS_CardinalityType

\* The circuit starts closed, with nobody under way.
LEMMA CountedInit == Init => Counted
BY BreakerAssumption DEF Init, Counted, TypeOK, ClosedIsHealthy

\* Every step keeps the probes counted.
LEMMA CountedNext == Counted /\ [Next]_vars => Counted'
<1> SUFFICES ASSUME Counted, [Next]_vars PROVE Counted'
  OBVIOUS
<1> USE BreakerAssumption DEF Counted, TypeOK, ClosedIsHealthy
<1>0. IsFiniteSet(Probes) /\ Cardinality(Probes) \in Nat
  BY ProbesAreFinite
<1>1. ASSUME NEW c \in Callers, Enter(c) PROVE Counted'
  <2>1. Cardinality(Probes') = Cardinality(Probes) + 1
    BY <1>1, Arrival DEF Enter
  <2>2. CASE state = "closed"
    BY <1>1, <2>2 DEF Enter
  <2>3. CASE state = "open"
    <3>1. Cardinality(Probes) = 0
      BY <2>3, FS_EmptySet
    <3> QED  BY <1>1, <2>1, <2>3, <3>1 DEF Enter
  <2>4. CASE state = "halfOpen"
    BY <1>0, <1>1, <2>1, <2>4 DEF Enter
  <2> QED  BY <2>2, <2>3, <2>4
<1>2. ASSUME NEW c \in Callers, Fail(c) PROVE Counted'
  <2>1. failureCount' \in 0 .. FailureThreshold
    BY <1>2 DEF Fail
  <2>2. /\ inFlight' \subseteq Callers
        /\ older' = inFlight'
        /\ cooled' = FALSE
        /\ Probes' = {}
    BY <1>2 DEF Fail, Leave, Probes
  <2>3. /\ state' \in {"closed", "open"}
        /\ halfOpenCallCount' \in 0 .. HalfOpenMaxCalls
    BY <1>2 DEF Fail
  <2>4. state' = "closed" => failureCount' # FailureThreshold
    BY <1>2 DEF Fail
  <2>5. state' = "closed" => failureCount' < FailureThreshold
    BY <2>1, <2>4
  <2> QED  BY <2>1, <2>2, <2>3, <2>5
<1>3. ASSUME NEW c \in Callers, Refuse(c) PROVE Counted'
  <2>1. /\ Probes' \subseteq Probes
        /\ Cardinality(Probes') \in Nat
        /\ Cardinality(Probes') <= Cardinality(Probes)
    BY <1>3, Departure DEF Refuse, Leave
  <2> QED  BY <1>0, <1>3, <2>1 DEF Refuse, Leave
<1>4. ASSUME NEW c \in Callers, Succeed(c) PROVE Counted'
  BY <1>4 DEF Succeed, Leave
<1>5. CASE Reset
  BY <1>5 DEF Reset
<1>6. CASE Cool
  BY <1>6 DEF Cool, counters, Probes
<1>7. CASE UNCHANGED vars
  BY <1>7 DEF vars, counters, Probes
<1> QED  BY <1>1, <1>2, <1>3, <1>4, <1>5, <1>6, <1>7 DEF Next, Return

\* The probes are counted in every reachable state.
LEMMA Invariance == Spec => []Counted
BY CountedInit, CountedNext, PTL DEF Spec

\* The counters stay within their limits, however calls overlap, and only a
\* call under way can be older than the last failure. (Execute)
THEOREM BreakerTypes == Spec => []TypeOK
<1>1. Counted => TypeOK
  BY DEF Counted
<1> QED  BY <1>1, Invariance, PTL

\* The circuit is closed only while fewer calls than FailureThreshold have
\* failed in a row, whoever made them and however it was closed. (Execute, Reset)
THEOREM ThresholdOpens == Spec => []ClosedIsHealthy
<1>1. Counted => ClosedIsHealthy
  BY DEF Counted
<1> QED  BY <1>1, Invariance, PTL

\* While the circuit is half open, no more than HalfOpenMaxCalls of the calls under
\* way have entered since the failure that opened it, although nothing bounds how
\* long the calls of before linger or how they end. (Execute)
THEOREM ProbesAreLimited == Spec => []HalfOpenExclusive
<1>1. Counted => HalfOpenExclusive
  <2> SUFFICES ASSUME Counted, state = "halfOpen"
               PROVE  Cardinality(inFlight \ older) <= HalfOpenMaxCalls
    BY DEF HalfOpenExclusive
  <2>1. Cardinality(Probes) \in Nat
    BY ProbesAreFinite DEF Counted
  <2> QED  BY <2>1, BreakerAssumption DEF Counted, TypeOK, Probes
<1> QED  BY <1>1, Invariance, PTL

=============================================================================
