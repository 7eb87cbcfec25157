--------------------------- MODULE CircuitBreaker ---------------------------
(***************************************************************************)
(* The breaker in front of one cluster's API server (k8s.CircuitBreaker).  *)
(* A call is two critical sections around the request: the first admits or *)
(* refuses it, the second records how it ended.  Calls of many goroutines  *)
(* overlap, and nothing bounds how long one takes: GetServerVersion is     *)
(* given no context, and a client's Timeout may be 0.  One call stands for *)
(* a whole doWithRetry, whose attempts the breaker does not see.           *)
(***************************************************************************)
EXTENDS Naturals, FiniteSets

CONSTANTS
    Callers,          \* goroutines with a client in hand
    FailureThreshold,
    HalfOpenMaxCalls,
    MayRefuseProbes   \* whether a half-open call may be answered with 4xx

ASSUME BreakerAssumption ==
    /\ IsFiniteSet(Callers)
    /\ FailureThreshold \in Nat \ {0}
    /\ HalfOpenMaxCalls \in Nat \ {0}
    /\ MayRefuseProbes \in BOOLEAN

VARIABLES
    state,
    failureCount,       \* up to FailureThreshold; only reaching it is ever tested
    halfOpenCallCount,
    cooled,             \* whether openDuration has passed since lastFailureTime
    inFlight,           \* callers between the two critical sections
    older               \* (history) those of them that entered before lastFailureTime

counters == <<failureCount, halfOpenCallCount>>
vars == <<state, counters, cooled, inFlight, older>>

\* The counters stay within their limits, and a call cannot be older than the
\* last failure without being in flight.
TypeOK ==
    /\ state \in {"closed", "open", "halfOpen"}
    /\ failureCount \in 0 .. FailureThreshold
    /\ halfOpenCallCount \in 0 .. HalfOpenMaxCalls
    /\ cooled \in BOOLEAN
    /\ inFlight \subseteq Callers
    /\ older \subseteq inFlight

Init ==
    /\ state = "closed"
    /\ failureCount = 0
    /\ halfOpenCallCount = 0
    /\ cooled = TRUE
    /\ inFlight = {}
    /\ older = {}

-----------------------------------------------------------------------------

\* Mutant: the call that turns the circuit half open is not counted.
EntersOneMore(c) ==
    /\ c \notin inFlight
    /\ inFlight' = inFlight \cup {c}
    /\ \/ state = "closed" /\ UNCHANGED <<state, halfOpenCallCount>>
       \/ /\ state = "open" /\ cooled
          /\ state' = "halfOpen"
          /\ halfOpenCallCount' = 0
       \/ /\ state = "halfOpen"
          /\ halfOpenCallCount < HalfOpenMaxCalls
          /\ halfOpenCallCount' = halfOpenCallCount + 1
          /\ UNCHANGED state
    /\ UNCHANGED <<failureCount, cooled, older>>

\* The first critical section of Execute lets c through; one that refuses c
\* changes nothing.
Enter(c) ==
    /\ c \notin inFlight
    /\ inFlight' = inFlight \cup {c}
    /\ \/ state = "closed" /\ UNCHANGED <<state, halfOpenCallCount>>
       \/ /\ state = "open" /\ cooled
          /\ state' = "halfOpen"
          /\ halfOpenCallCount' = 1
       \/ /\ state = "halfOpen"
          /\ halfOpenCallCount < HalfOpenMaxCalls
          /\ halfOpenCallCount' = halfOpenCallCount + 1
          /\ UNCHANGED state
    /\ UNCHANGED <<failureCount, cooled, older>>

Leave(c) ==
    /\ c \in inFlight
    /\ inFlight' = inFlight \ {c}

\* The second critical section after a network error, a timeout, a 5xx, a 429
\* or a cancelled context, whether or not the server answers.
Fail(c) ==
    /\ Leave(c)
    /\ older' = inFlight'
    /\ cooled' = FALSE
    /\ failureCount' = IF failureCount = FailureThreshold
                       THEN failureCount ELSE failureCount + 1
    /\ \/ /\ state = "halfOpen"
          /\ state' = "open"
          /\ halfOpenCallCount' = 0
       \/ /\ state # "halfOpen"
          /\ state' = IF failureCount' = FailureThreshold THEN "open" ELSE state
          /\ UNCHANGED halfOpenCallCount

\* After an answer that does not count as a failure, such as a 403 or a 404.
Refuse(c) ==
    /\ state = "halfOpen" => MayRefuseProbes
    /\ Leave(c)
    /\ older' = older \ {c}
    /\ failureCount' = 0
    /\ UNCHANGED <<state, halfOpenCallCount, cooled>>

\* Mutant: the count is cleared, the circuit is left as it is.
StaysHalfOpen(c) ==
    /\ Leave(c)
    /\ older' = older \ {c}
    /\ failureCount' = 0
    /\ UNCHANGED <<state, halfOpenCallCount, cooled>>

Succeed(c) ==
    /\ Leave(c)
    /\ older' = older \ {c}
    /\ failureCount' = 0
    /\ state' = "closed"
    /\ halfOpenCallCount' = IF state = "closed" THEN halfOpenCallCount ELSE 0
    /\ UNCHANGED cooled

\* Mutant: the circuit is closed, the count is left as it is.
KeepsCount ==
    /\ state' = "closed"
    /\ halfOpenCallCount' = 0
    /\ UNCHANGED <<failureCount, cooled, inFlight, older>>

\* ResetCircuitBreaker, before ReconnectCluster replaces the client.
Reset ==
    /\ state' = "closed"
    /\ failureCount' = 0
    /\ halfOpenCallCount' = 0
    /\ UNCHANGED <<cooled, inFlight, older>>

Return(c) == Fail(c) \/ Refuse(c) \/ Succeed(c)

\* openDuration (30 s) has passed, whoever is still under way.
Cool ==
    /\ ~cooled
    /\ cooled' = TRUE
    /\ UNCHANGED <<state, counters, inFlight, older>>

Next ==
    \/ \E c \in Callers : Enter(c) \/ Return(c)
    \/ Reset \/ Cool

Spec == Init /\ [][Next]_vars

\* Clients keep calling, calls end, and time passes; nobody has to reconnect.
FairSpec ==
    /\ Spec
    /\ \A c \in Callers : WF_vars(Enter(c)) /\ WF_vars(Return(c))
    /\ WF_vars(Cool)

-----------------------------------------------------------------------------

\* While the circuit is half open, no more of the calls under way than allowed
\* have entered since the failure that opened it, whatever calls of before fail,
\* succeed or linger meanwhile. (Execute)
HalfOpenExclusive ==
    state = "halfOpen" => Cardinality(inFlight \ older) <= HalfOpenMaxCalls

\* The circuit is closed only while fewer calls than FailureThreshold have
\* failed in a row, whoever made them and however it was closed. (Execute, Reset)
ClosedIsHealthy == state = "closed" => failureCount < FailureThreshold

\* Once calls have stopped failing for good, the circuit closes for good, if no
\* half-open call is answered with 4xx. (Execute)
Recovers ==
    <>[][\A c \in Callers : ~Fail(c)]_vars => <>[](state = "closed")

=============================================================================
