--------------------------- MODULE BackendStatus ---------------------------
(***************************************************************************)
(* What the page tells its user about the backend: the health checks of    *)
(* useOfflineMode with their interval and retry timers, the circuit that   *)
(* failed calls open, and the banner over both, which can be dismissed and *)
(* has a Reconnect button.                                                 *)
(*                                                                         *)
(* Delays are left out, a timer may fire at any time, except that of the   *)
(* alarm itself: Tick counts the time since failures began.                *)
(***************************************************************************)
EXTENDS Naturals

CONSTANTS
    Threshold,    \* failures before the alarm, FAILURE_THRESHOLD
    MinAge,       \* ticks of failure before it, MIN_FAILURE_DURATION_MS
    Escalation,   \* plain retries, RECONNECT_ESCALATION_THRESHOLD
    MaxPolls,     \* bound on checks and timers before the interval adds one
    MaxTrouble,   \* bound on outages, offline spells and the user's clicks
    Nothing       \* null

ASSUME StatusAssumption ==
    /\ Threshold \in Nat \ {0}
    /\ MinAge \in Nat \ {0}
    /\ Escalation \in Nat
    /\ MaxPolls \in Nat
    /\ MaxTrouble \in Nat
    /\ Nothing \notin Nat

VARIABLES
    desktop,     \* the page runs in the desktop application
    up,          \* the backend answers in time
    offline,     \* what the browser says of the network
    trouble,     \* what MaxTrouble bounds
    sent,        \* health checks without an answer yet
    good, bad,   \* their answers that have not been handled
    held,        \* the timer in timerRef is armed
    loose,       \* armed timers that timerRef no longer holds
    failures,    \* failureCount, up to Threshold
    age,         \* ticks since firstFailureTimeRef, up to MinAge
    reachable,   \* backendReachable
    ready,       \* backendEverReady
    broken,      \* a call to the backend has failed on the network
    circuit,     \* the circuit is open
    seen,        \* what the banners' poll saw of the circuit
    dismissed,
    attempts,    \* plainRetryFailures, up to Escalation
    restarting,  \* restart_sidecar has been called
    streak       \* ticks since the first failure after the last success

world == <<desktop, up, offline, trouble>>
checks == <<sent, good, bad>>
timers == <<held, loose>>
verdict == <<failures, age, reachable, streak>>
calls == <<ready, broken, circuit, seen>>
banner == <<dismissed, attempts, restarting>>
vars == <<world, checks, timers, verdict, calls, banner>>

Ages == 0 .. MinAge \cup {Nothing}

\* The variables have their types: only a desktop application restarts its
\* backend, no circuit opens before the backend has been ready, and a first
\* failure has its time only while there are failures.
TypeOK ==
    /\ desktop \in BOOLEAN
    /\ up \in BOOLEAN
    /\ offline \in BOOLEAN
    /\ trouble \in 0 .. MaxTrouble
    /\ sent \in Nat /\ good \in Nat /\ bad \in Nat
    /\ held \in BOOLEAN
    /\ loose \in Nat
    /\ failures \in 0 .. Threshold
    /\ age \in Ages
    /\ reachable \in BOOLEAN
    /\ ready \in BOOLEAN
    /\ broken \in BOOLEAN
    /\ circuit \in BOOLEAN
    /\ seen \in BOOLEAN
    /\ dismissed \in BOOLEAN
    /\ attempts \in 0 .. Escalation
    /\ restarting \in BOOLEAN
    /\ streak \in Ages
    /\ restarting => desktop
    /\ circuit \/ seen => ready
    /\ failures = 0 => age = Nothing

\* The effect has checked once, unless the page was opened offline; a desktop
\* application starts with its backend, which has not been ready yet.
Init ==
    /\ desktop \in BOOLEAN
    /\ up \in BOOLEAN
    /\ offline \in BOOLEAN
    /\ trouble = 0
    /\ sent = (IF offline THEN 0 ELSE 1) /\ good = 0 /\ bad = 0
    /\ held = FALSE
    /\ loose = 0
    /\ failures = 0
    /\ age = Nothing
    /\ reachable = TRUE
    /\ ready = ~desktop
    /\ broken = FALSE
    /\ circuit = FALSE
    /\ seen = FALSE
    /\ dismissed = FALSE
    /\ attempts = 0
    /\ restarting = FALSE
    /\ streak = Nothing

-----------------------------------------------------------------------------
(* The health checks *)

Chains == sent + good + bad + loose + (IF held THEN 1 ELSE 0)

\* Every thirty seconds, while the browser is online.
Interval ==
    /\ ~offline
    /\ Chains < MaxPolls
    /\ sent' = sent + 1
    /\ UNCHANGED <<world, good, bad, timers, verdict, calls, banner>>

Answer ==
    /\ sent > 0
    /\ sent' = sent - 1
    /\ IF up THEN good' = good + 1 /\ bad' = bad
             ELSE bad' = bad + 1 /\ good' = good
    /\ UNCHANGED <<world, timers, verdict, calls, banner>>

\* Mutant: a success leaves the time of the first failure.
SucceedsKeeping ==
    /\ good > 0
    /\ good' = good - 1
    /\ reachable' = TRUE
    /\ failures' = 0
    /\ age' = age
    /\ streak' = Nothing
    /\ ready' = TRUE
    /\ dismissed' = FALSE
    /\ attempts' = 0
    /\ UNCHANGED <<world, sent, bad, timers, broken, circuit, seen, restarting>>

\* Mutant: a success leaves what the user did about the failure.
SucceedsDismissed ==
    /\ good > 0
    /\ good' = good - 1
    /\ reachable' = TRUE
    /\ failures' = 0
    /\ age' = Nothing
    /\ streak' = Nothing
    /\ ready' = TRUE
    /\ UNCHANGED <<world, sent, bad, timers, broken, circuit, seen, banner>>

\* A check has succeeded, whenever it was sent: the alarm and what the user
\* did about it are over.  The timers stay.
Succeeds ==
    /\ good > 0
    /\ good' = good - 1
    /\ reachable' = TRUE
    /\ failures' = 0
    /\ age' = Nothing
    /\ streak' = Nothing
    /\ ready' = TRUE
    /\ dismissed' = FALSE
    /\ attempts' = 0
    /\ UNCHANGED <<world, sent, bad, timers, broken, circuit, seen, restarting>>

Since(t) == IF t = Nothing THEN 0 ELSE t

\* timerRef takes a new timer, and the one it held stays armed.
Arm ==
    /\ held' = TRUE
    /\ loose' = IF held THEN loose + 1 ELSE loose

\* Mutant: each failure is the first.
FailsAnew ==
    /\ bad > 0
    /\ bad' = bad - 1
    /\ age' = 0
    /\ streak' = Since(streak)
    /\ failures' = IF failures < Threshold THEN failures + 1 ELSE failures
    /\ reachable' = (reachable /\ ~(failures' >= Threshold /\ age' >= MinAge))
    /\ Arm
    /\ UNCHANGED <<world, sent, good, calls, banner>>

\* A check has failed: the alarm needs enough failures over enough time.  Each
\* failure arms a timer, also that of a check sent before the browser went
\* offline.
Fails ==
    /\ bad > 0
    /\ bad' = bad - 1
    /\ age' = Since(age)
    /\ streak' = Since(streak)
    /\ failures' = IF failures < Threshold THEN failures + 1 ELSE failures
    /\ reachable' = (reachable /\ ~(failures' >= Threshold /\ age' >= MinAge))
    /\ Arm
    /\ UNCHANGED <<world, sent, good, calls, banner>>

Fire ==
    /\ \/ held /\ held' = FALSE /\ UNCHANGED loose
       \/ loose > 0 /\ loose' = loose - 1 /\ UNCHANGED held
    /\ sent' = sent + 1
    /\ UNCHANGED <<world, good, bad, verdict, calls, banner>>

Older(t) == IF t = Nothing \/ t = MinAge THEN t ELSE t + 1

Tick ==
    /\ age' = Older(age)
    /\ streak' = Older(streak)
    /\ <<age, streak>>' # <<age, streak>>
    /\ UNCHANGED <<world, checks, timers, failures, reachable, calls, banner>>

-----------------------------------------------------------------------------
(* The circuit *)

\* A call fails on the network, and some time later its caller learns of it.
Break ==
    /\ ~up
    /\ ~broken
    /\ broken' = TRUE
    /\ UNCHANGED <<world, checks, timers, verdict, ready, circuit, seen, banner>>

\* Mutant: the circuit opens although the backend has never been ready.
OpensEarly ==
    /\ broken
    /\ broken' = FALSE
    /\ circuit' = TRUE
    /\ UNCHANGED <<world, checks, timers, verdict, ready, seen, banner>>

\* Until the backend has been ready once, the circuit stays closed.
Open ==
    /\ broken
    /\ broken' = FALSE
    /\ circuit' = (circuit \/ ready)
    /\ UNCHANGED <<world, checks, timers, verdict, ready, seen, banner>>

Expire ==
    /\ circuit
    /\ circuit' = FALSE
    /\ UNCHANGED <<world, checks, timers, verdict, ready, broken, seen, banner>>

\* Mutant: the poll notices only that the circuit opens.
LookOpen ==
    /\ circuit
    /\ ~seen
    /\ seen' = TRUE
    /\ UNCHANGED <<world, checks, timers, verdict, ready, broken, circuit, banner>>

\* useBackendCircuitOpen looks every two seconds.
Look ==
    /\ seen # circuit
    /\ seen' = circuit
    /\ UNCHANGED <<world, checks, timers, verdict, ready, broken, circuit, banner>>

-----------------------------------------------------------------------------
(* The banner *)

Shown == ~reachable /\ ~dismissed /\ ~seen

Dismiss ==
    /\ Shown
    /\ trouble < MaxTrouble
    /\ trouble' = trouble + 1
    /\ dismissed' = TRUE
    /\ UNCHANGED <<desktop, up, offline, checks, timers, verdict, calls,
                   attempts, restarting>>

\* resetBackendCircuit and retryNow: the timer that timerRef holds is cleared,
\* the time starts anew, and a check is sent.
Retry ==
    /\ circuit' = FALSE
    /\ age' = Nothing
    /\ held' = FALSE
    /\ sent' = sent + 1
    /\ UNCHANGED <<good, bad, loose, failures, reachable, streak, ready,
                   broken, seen>>

\* The Reconnect button.  In the desktop application the third click of an
\* outage restarts the backend first.
Reconnect ==
    /\ Shown
    /\ trouble < MaxTrouble
    /\ trouble' = trouble + 1
    /\ IF desktop /\ attempts = Escalation
       THEN /\ ~restarting
            /\ restarting' = TRUE
            /\ UNCHANGED <<checks, timers, verdict, calls, attempts>>
       ELSE /\ attempts' = IF attempts < Escalation THEN attempts + 1
                           ELSE attempts
            /\ Retry
            /\ UNCHANGED restarting
    /\ UNCHANGED <<desktop, up, offline, dismissed>>

\* The restart has succeeded or failed.
Restarted ==
    /\ restarting
    /\ restarting' = FALSE
    /\ up' \in {up, TRUE}
    /\ Retry
    /\ UNCHANGED <<desktop, offline, trouble, dismissed, attempts>>

-----------------------------------------------------------------------------
(* The backend and the network *)

GoDown ==
    /\ up
    /\ trouble < MaxTrouble
    /\ trouble' = trouble + 1
    /\ up' = FALSE
    /\ UNCHANGED <<desktop, offline, checks, timers, verdict, calls, banner>>

ComeUp ==
    /\ ~up
    /\ up' = TRUE
    /\ UNCHANGED <<desktop, offline, trouble, checks, timers, verdict, calls,
                   banner>>

\* The effect's cleanup stops the interval and clears the timer of timerRef.
GoOffline ==
    /\ ~offline
    /\ trouble < MaxTrouble
    /\ trouble' = trouble + 1
    /\ offline' = TRUE
    /\ held' = FALSE
    /\ UNCHANGED <<desktop, up, checks, loose, verdict, calls, banner>>

\* The effect checks at once and starts the interval.
GoOnline ==
    /\ offline
    /\ offline' = FALSE
    /\ sent' = sent + 1
    /\ UNCHANGED <<desktop, up, trouble, good, bad, timers, verdict, calls,
                   banner>>

-----------------------------------------------------------------------------

Next ==
    \/ Interval \/ Answer \/ Succeeds \/ Fails \/ Fire \/ Tick
    \/ Break \/ Open \/ Expire \/ Look
    \/ Dismiss \/ Reconnect \/ Restarted
    \/ GoDown \/ ComeUp \/ GoOffline \/ GoOnline

Spec == Init /\ [][Next]_vars

\* Timers fire, requests are answered and handled, time passes.  Neither the
\* user nor the backend owes anything.
Fairness ==
    /\ WF_vars(Interval) /\ WF_vars(Fire) /\ WF_vars(Tick)
    /\ WF_vars(Answer) /\ WF_vars(Succeeds) /\ WF_vars(Fails)
    /\ WF_vars(Open) /\ WF_vars(Expire) /\ WF_vars(Look)
    /\ WF_vars(Restarted)

FairSpec == Spec /\ Fairness

-----------------------------------------------------------------------------

\* The alarm is never raised before Threshold checks have failed, none of
\* them followed by a success, over at least MinAge ("require 6+ consecutive
\* failures over at least 90 seconds", useOfflineMode.ts:29), however answers
\* overlap and whatever the user and the browser do.
NoFalseAlarm ==
    ~reachable => /\ failures = Threshold
                  /\ streak = MinAge

\* A dismissed banner and the count of retries belong to the outage that is
\* still going on: the next one is told of again and starts with plain retries.
OutageOver == reachable => ~dismissed /\ attempts = 0

\* Once the backend stays up and the browser online, the alarm and the notice
\* of the circuit are over for good: late failures do not bring them back.
Recovers == <>[](up /\ ~offline) => <>[](reachable /\ ~seen)

\* Once the backend stays down and the browser online, the alarm is raised,
\* the user's retries notwithstanding.
Alarms == <>[](~up /\ ~offline) => <>[](~reachable)

=============================================================================
