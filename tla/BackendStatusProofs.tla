------------------------ MODULE BackendStatusProofs ------------------------
(***************************************************************************)
(* For any thresholds and bounds: the variables of BackendStatus have      *)
(* their types, an outage's traces end with it, and the alarm is never     *)
(* false.  The alarm is raised on the age of firstFailureTimeRef, which a  *)
(* retry makes younger: the invariant says it is never older than the      *)
(* streak of failures itself.                                              *)
(***************************************************************************)
EXTENDS BackendStatus, TLAPS

-----------------------------------------------------------------------------
(* The ages *)

\* Looking at an age, or letting time pass, keeps it in its range.
LEMMA AgeTypes ==
    ASSUME NEW t \in Ages
    PROVE  Since(t) \in 0 .. MinAge /\ Older(t) \in Ages
  BY StatusAssumption DEF Ages, Since, Older

\* The age of the first failure is at most the streak's.
Within(a, s) == a # Nothing => s # Nothing /\ a <= s

\* Looking at both, and letting time pass for both, keeps them in that order.
LEMMA AgeOrder ==
    ASSUME NEW a \in Ages, NEW s \in Ages, Within(a, s)
    PROVE  Within(Since(a), Since(s)) /\ Within(Older(a), Older(s))
  BY StatusAssumption DEF Ages, Since, Older, Within

-----------------------------------------------------------------------------
(* Types *)

\* The counters stay natural numbers.
Counts ==
    /\ sent \in Nat /\ good \in Nat /\ bad \in Nat /\ loose \in Nat
    /\ trouble \in 0 .. MaxTrouble
    /\ attempts \in 0 .. Escalation

\* The switches stay switches.
Switches ==
    /\ desktop \in BOOLEAN
    /\ up \in BOOLEAN
    /\ offline \in BOOLEAN
    /\ held \in BOOLEAN
    /\ reachable \in BOOLEAN
    /\ ready \in BOOLEAN
    /\ broken \in BOOLEAN
    /\ circuit \in BOOLEAN
    /\ seen \in BOOLEAN
    /\ dismissed \in BOOLEAN
    /\ restarting \in BOOLEAN

\* What the checks have found stays in its range.
Findings ==
    /\ failures \in 0 .. Threshold
    /\ age \in Ages
    /\ streak \in Ages
    /\ failures = 0 => age = Nothing

\* Restarts are the desktop application's, and circuits come after the grace period.
Order ==
    /\ restarting => desktop
    /\ circuit \/ seen => ready

\* The types fall into these four parts, each with its own prover.
LEMMA TypeParts == TypeOK <=> Counts /\ Switches /\ Findings /\ Order
  BY Zenon DEF TypeOK, Counts, Switches, Findings, Order

\* No step takes a counter out of its range.
LEMMA CountStep == Counts /\ [Next]_vars => Counts'
  <1> SUFFICES ASSUME Counts, [Next]_vars
               PROVE  Counts'
    OBVIOUS
  <1> USE DEF Counts, world, checks, timers, banner
  <1>1. CASE Interval \/ Answer \/ Succeeds
    BY <1>1, StatusAssumption DEF Interval, Answer, Succeeds
  <1>2. CASE Fails
    BY <1>2 DEF Fails, Arm
  <1>3. CASE Fire
    BY <1>3 DEF Fire
  <1>4. CASE Tick \/ Break \/ Open \/ Expire \/ Look
    BY <1>4 DEF Tick, Break, Open, Expire, Look
  <1>5. CASE Dismiss \/ Reconnect
    BY <1>5, StatusAssumption DEF Dismiss, Reconnect, Retry
  <1>6. CASE Restarted
    BY <1>6 DEF Restarted, Retry
  <1>7. CASE GoDown \/ ComeUp \/ GoOffline \/ GoOnline
    BY <1>7, StatusAssumption DEF GoDown, ComeUp, GoOffline, GoOnline
  <1>8. CASE UNCHANGED vars
    BY <1>8 DEF vars
  <1> QED
    BY <1>1, <1>2, <1>3, <1>4, <1>5, <1>6, <1>7, <1>8 DEF Next

\* No step makes anything else of a switch.
LEMMA SwitchStep == Switches /\ [Next]_vars => Switches'
  <1> SUFFICES ASSUME Switches, [Next]_vars
               PROVE  Switches'
    OBVIOUS
  <1> USE DEF Switches, world, checks, timers, verdict, calls, banner
  <1>1. CASE Interval
    BY <1>1, Zenon DEF Interval
  <1>2. CASE Answer
    BY <1>2, Zenon DEF Answer
  <1>3. CASE Succeeds
    BY <1>3, Zenon DEF Succeeds
  <1>4. CASE Fails
    <2>1. reachable' \in BOOLEAN
      BY <1>4, Zenon DEF Fails
    <2>2. held' \in BOOLEAN
      BY <1>4, Zenon DEF Fails, Arm
    <2> QED
      BY <1>4, <2>1, <2>2, Zenon DEF Fails
  <1>5. CASE Fire
    BY <1>5, Zenon DEF Fire
  <1>6. CASE Tick
    BY <1>6, Zenon DEF Tick
  <1>7. CASE Break
    BY <1>7, Zenon DEF Break
  <1>8. CASE Open
    BY <1>8, Zenon DEF Open
  <1>9. CASE Expire
    BY <1>9, Zenon DEF Expire
  <1>10. CASE Look
    BY <1>10, Zenon DEF Look
  <1>11. CASE Dismiss
    BY <1>11, Zenon DEF Dismiss
  <1>12. CASE Reconnect
    BY <1>12, Zenon DEF Reconnect, Retry
  <1>13. CASE Restarted
    <2>1. up' \in BOOLEAN
      BY <1>13, Zenon DEF Restarted
    <2> QED
      BY <1>13, <2>1, Zenon DEF Restarted, Retry
  <1>14. CASE GoDown
    BY <1>14, Zenon DEF GoDown
  <1>15. CASE ComeUp
    BY <1>15, Zenon DEF ComeUp
  <1>16. CASE GoOffline
    BY <1>16, Zenon DEF GoOffline
  <1>17. CASE GoOnline
    BY <1>17, Zenon DEF GoOnline
  <1>18. CASE UNCHANGED vars
    BY <1>18, Zenon DEF vars
  <1> QED
    BY <1>1, <1>2, <1>3, <1>4, <1>5, <1>6, <1>7, <1>8, <1>9, <1>10, <1>11,
       <1>12, <1>13, <1>14, <1>15, <1>16, <1>17, <1>18, Zenon DEF Next

\* No step restarts the backend of a page or opens a circuit too early.
LEMMA OrderStep == Order /\ [Next]_vars => Order'
  <1> SUFFICES ASSUME Order, [Next]_vars
               PROVE  Order'
    OBVIOUS
  <1> USE DEF Order, world, checks, timers, verdict, calls, banner
  <1>1. ASSUME UNCHANGED <<desktop, restarting, circuit, seen, ready>>
        PROVE  Order'
    BY <1>1, Zenon
  <1>2. CASE Interval \/ Answer \/ Fire \/ Tick \/ Break
    BY <1>1, <1>2 DEF Interval, Answer, Fire, Tick, Break
  <1>3. CASE Succeeds
    BY <1>3, Zenon DEF Succeeds
  <1>4. CASE Fails
    BY <1>1, <1>4, Zenon DEF Fails
  <1>5. CASE Open
    BY <1>5, Zenon DEF Open
  <1>6. CASE Expire
    BY <1>6, Zenon DEF Expire
  <1>7. CASE Look
    BY <1>7, Zenon DEF Look
  <1>8. CASE Dismiss
    BY <1>8, Zenon DEF Dismiss
  <1>9. CASE Reconnect
    BY <1>9, Zenon DEF Reconnect, Retry
  <1>10. CASE Restarted
    BY <1>10, Zenon DEF Restarted, Retry
  <1>11. CASE GoDown \/ ComeUp \/ GoOffline \/ GoOnline
    BY <1>1, <1>11 DEF GoDown, ComeUp, GoOffline, GoOnline
  <1>12. CASE UNCHANGED vars
    BY <1>12, Zenon DEF vars
  <1> QED
    BY <1>2, <1>3, <1>4, <1>5, <1>6, <1>7, <1>8, <1>9, <1>10, <1>11, <1>12,
       Zenon DEF Next

\* What steps do to the findings: only these four touch them.
LEMMA FindingSteps ==
    ASSUME [Next]_vars
    PROVE  \/ Succeeds
           \/ Fails
           \/ Tick
           \/ Retry
           \/ UNCHANGED verdict
  <1> USE DEF calls, banner, vars
  <1>1. CASE Interval \/ Answer \/ Fire \/ Break \/ Open \/ Expire \/ Look
    BY <1>1 DEF Interval, Answer, Fire, Break, Open, Expire, Look
  <1>2. CASE Dismiss \/ Reconnect \/ Restarted
    BY <1>2 DEF Dismiss, Reconnect, Restarted
  <1>3. CASE GoDown \/ ComeUp \/ GoOffline \/ GoOnline
    BY <1>3 DEF GoDown, ComeUp, GoOffline, GoOnline
  <1> QED
    BY <1>1, <1>2, <1>3 DEF Next

\* No step takes the findings out of their ranges.
LEMMA FindingStep == Findings /\ [Next]_vars => Findings'
  <1> SUFFICES ASSUME Findings, [Next]_vars
               PROVE  Findings'
    OBVIOUS
  <1> USE StatusAssumption DEF Findings, Ages
  <1>1. CASE Succeeds
    BY <1>1 DEF Succeeds
  <1>2. CASE Fails
    BY <1>2, AgeTypes DEF Fails
  <1>3. CASE Tick
    BY <1>3, AgeTypes DEF Tick, Older
  <1>4. CASE Retry
    BY <1>4 DEF Retry
  <1>5. CASE UNCHANGED verdict
    BY <1>5 DEF verdict
  <1> QED
    BY <1>1, <1>2, <1>3, <1>4, <1>5, FindingSteps

\* The variables of BackendStatus have their types; only the desktop application
\* restarts its backend (handleRetry), no circuit opens before the backend has been
\* ready (backendRequest), and a first failure has its time only while there are
\* failures (checkHealth).
THEOREM StatusTypes == Spec => []TypeOK
  <1>1. Init => Counts
    BY StatusAssumption DEF Init, Counts
  <1>2. Init => Switches
    BY Zenon DEF Init, Switches
  <1>3. Init => Findings
    BY StatusAssumption DEF Init, Findings, Ages
  <1>4. Init => Order
    BY Zenon DEF Init, Order
  <1>5. Counts /\ Switches /\ Findings /\ Order /\ [Next]_vars
          => (Counts /\ Switches /\ Findings /\ Order)'
    BY CountStep, SwitchStep, FindingStep, OrderStep
  <1> QED
    BY <1>1, <1>2, <1>3, <1>4, <1>5, TypeParts, PTL DEF Spec

-----------------------------------------------------------------------------

\* The inductive invariant behind NoFalseAlarm.
Honest == Within(age, streak) /\ NoFalseAlarm

\* The alarm is never raised before enough failures over enough time.
THEOREM AlarmIsHonest == Spec => []NoFalseAlarm
  <1>1. Init => Honest
    BY DEF Init, Honest, Within, NoFalseAlarm
  <1>2. ASSUME Findings, Findings', Honest, [Next]_vars
        PROVE  Honest'
    <2> USE DEF Honest
    <2>1. CASE Succeeds
      BY <2>1 DEF Succeeds, Within, NoFalseAlarm
    <2>2. CASE Fails
      <3>1. Within(age', streak')
        BY <1>2, <2>2, AgeOrder DEF Fails, Findings
      <3>2. ~reachable' => ~reachable \/ (failures' >= Threshold /\ age' >= MinAge)
        BY <2>2, Zenon DEF Fails
      <3>3. ASSUME ~reachable
            PROVE  failures' = Threshold /\ streak' = MinAge
        BY <1>2, <2>2, <3>3, StatusAssumption
        DEF Fails, NoFalseAlarm, Since, Findings
      <3>4. ASSUME failures' >= Threshold, age' >= MinAge
            PROVE  failures' = Threshold /\ streak' = MinAge
        <4>1. age' # Nothing
          BY <1>2, <2>2, AgeTypes, StatusAssumption DEF Fails, Findings
        <4> QED
          BY <1>2, <3>1, <3>4, <4>1, StatusAssumption DEF Findings, Ages, Within
      <3> QED
        BY <3>1, <3>2, <3>3, <3>4 DEF NoFalseAlarm
    <2>3. CASE Tick
      <3>1. Within(age', streak')
        BY <1>2, <2>3, AgeOrder DEF Tick, Findings
      <3>2. NoFalseAlarm'
        BY <1>2, <2>3, StatusAssumption DEF Tick, NoFalseAlarm, Older
      <3> QED
        BY <3>1, <3>2
    <2>4. CASE Retry
      BY <1>2, <2>4 DEF Retry, Within, NoFalseAlarm
    <2>5. CASE UNCHANGED verdict
      BY <1>2, <2>5 DEF verdict, Within, NoFalseAlarm
    <2> QED
      BY <1>2, <2>1, <2>2, <2>3, <2>4, <2>5, FindingSteps
  <1>3. Findings /\ [Next]_vars => Findings'
    BY FindingStep
  <1>4. Init => Findings
    BY StatusAssumption DEF Init, Findings, Ages
  <1>5. Honest => NoFalseAlarm
    BY DEF Honest
  <1> QED
    BY <1>1, <1>2, <1>3, <1>4, <1>5, PTL DEF Spec

\* What the user did about an outage ends with it.
THEOREM OutageLeavesNothing == Spec => []OutageOver
  <1>1. Init => OutageOver
    BY DEF Init, OutageOver
  <1>2. ASSUME OutageOver, [Next]_vars
        PROVE  OutageOver'
    <2> USE <1>2 DEF OutageOver, world, checks, timers, verdict, calls, banner
    <2>1. CASE Succeeds
      BY <2>1, Zenon DEF Succeeds
    <2>2. CASE Fails
      <3>1. reachable' => reachable
        BY <2>2, Zenon DEF Fails
      <3> QED
        BY <2>2, <3>1, Zenon DEF Fails
    <2>3. CASE Dismiss \/ Reconnect
      <3>1. ~reachable /\ reachable' = reachable
        BY <2>3 DEF Dismiss, Reconnect, Shown, Retry
      <3> QED
        BY <3>1
    <2>4. CASE Restarted
      BY <2>4 DEF Restarted, Retry
    <2>5. CASE Interval \/ Answer \/ Fire \/ Tick \/ Break \/ Open
      BY <2>5 DEF Interval, Answer, Fire, Tick, Break, Open
    <2>6. CASE Expire \/ Look \/ GoDown \/ ComeUp \/ GoOffline \/ GoOnline
      BY <2>6 DEF Expire, Look, GoDown, ComeUp, GoOffline, GoOnline
    <2>7. CASE UNCHANGED vars
      BY <2>7 DEF vars
    <2> QED
      BY <2>1, <2>2, <2>3, <2>4, <2>5, <2>6, <2>7 DEF Next
  <1> QED
    BY <1>1, <1>2, PTL DEF Spec

=============================================================================
