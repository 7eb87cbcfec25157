---------------------------- MODULE LiveStreams ----------------------------
(***************************************************************************)
(* The sockets that follow the active cluster: the overview stream         *)
(* (useOverviewStream) and the two users of useBackendWebSocket, resource  *)
(* updates and notifications.  A browser reports the end of a socket in an *)
(* event of its own, also when the page has closed it: the event of an old *)
(* cluster's socket runs after the effect of the new one, or after the     *)
(* component that holds the hook is gone.                                  *)
(*                                                                         *)
(* A chain is a socket, the timer its end arms, the socket that timer      *)
(* opens, and so on.  The chains of one hook are modelled, whichever of    *)
(* the three it is.                                                        *)
(***************************************************************************)
EXTENDS Naturals, FiniteSets

CONSTANTS
    Clusters,
    Hooks,       \* the hooks considered
    MaxChains,   \* bound on effect runs and returns to the tab that connect
    MaxOutages,  \* bound on the backend's outages
    Nothing      \* no cluster, no chain

AllHooks == {"overview", "resources", "notices"}
Chains == 1 .. MaxChains

\* What a chain is at: not begun, a socket being opened, an open one, one
\* whose close event is on its way, a timer, or the end.
Phases == {"unused", "connecting", "open", "closing", "waiting", "ended"}
Socket == {"connecting", "open"}
Live == {"connecting", "open", "closing", "waiting"}

ASSUME StreamsAssumption ==
    /\ Hooks \subseteq AllHooks
    /\ Nothing \notin Clusters
    /\ MaxChains \in Nat
    /\ Nothing \notin Chains
    /\ MaxOutages \in Nat

VARIABLES
    hook,      \* which of the hooks this is
    target,    \* the active cluster of the last render
    mounted,   \* the component that holds the hook has not been taken down
    phase,     \* what each chain is at
    cluster,   \* the cluster each chain's socket is, or will be, for
    started,   \* the chains begun so far
    wsRef,     \* the chain whose socket wsRef holds
    timerRef,  \* the chain whose timer was armed last
    up,        \* the backend can be reached
    outages

page == <<hook, target, mounted>>
chains == <<phase, cluster, started>>
refs == <<wsRef, timerRef>>
backend == <<up, outages>>
vars == <<page, chains, refs, backend>>

\* The variables have their types.
TypeOK ==
    /\ hook \in Hooks
    /\ target \in Clusters \cup {Nothing}
    /\ mounted \in BOOLEAN
    /\ phase \in [Chains -> Phases]
    /\ cluster \in [Chains -> Clusters \cup {Nothing}]
    /\ started \in 0 .. MaxChains
    /\ wsRef \in Chains \cup {Nothing}
    /\ timerRef \in Chains \cup {Nothing}
    /\ up \in BOOLEAN
    /\ outages \in 0 .. MaxOutages

Init ==
    /\ hook \in Hooks
    /\ target = Nothing
    /\ mounted = TRUE
    /\ phase = [i \in Chains |-> "unused"]
    /\ cluster = [i \in Chains |-> Nothing]
    /\ started = 0
    /\ wsRef = Nothing
    /\ timerRef = Nothing
    /\ up = TRUE
    /\ outages = 0

-----------------------------------------------------------------------------

\* Whether the hook keeps a socket when c is the active cluster: the
\* notifications do without one, too.
Wants(c) == hook = "notices" \/ c # Nothing

\* The chains' phases once the hook has cleared its timer and closed its
\* socket.
Let(go) == [i \in Chains |->
              IF i = timerRef /\ phase[i] = "waiting" THEN "ended"
              ELSE IF i \in go /\ phase[i] \in Socket THEN "closing"
              ELSE phase[i]]

\* A new chain begins, with a socket for c.
Begin(c, let) ==
    /\ started < MaxChains
    /\ started' = started + 1
    /\ phase' = [let EXCEPT ![started + 1] = "connecting"]
    /\ cluster' = [cluster EXCEPT ![started + 1] = c]
    /\ wsRef' = started + 1

\* Mutant: an effect that finds a socket in wsRef does not connect.
SwitchKeeping(c) ==
    /\ mounted
    /\ c # target
    /\ target' = c
    /\ IF Wants(c) /\ wsRef = Nothing
       THEN Begin(c, Let({wsRef}))
       ELSE /\ phase' = Let({wsRef})
            /\ wsRef' = Nothing
            /\ UNCHANGED <<cluster, started>>
    /\ timerRef' = Nothing
    /\ UNCHANGED <<hook, mounted, backend>>

\* The active cluster changes: the cleanup of the old effect, then the new
\* effect, without an event in between.
Switch(c) ==
    /\ mounted
    /\ c # target
    /\ target' = c
    /\ IF Wants(c) THEN Begin(c, Let({wsRef}))
                   ELSE /\ phase' = Let({wsRef})
                        /\ wsRef' = Nothing
                        /\ UNCHANGED <<cluster, started>>
    /\ timerRef' = Nothing
    /\ UNCHANGED <<hook, mounted, backend>>

\* The notifications' first effect, before any cluster is active.
Mount ==
    /\ hook = "notices"
    /\ started = 0
    /\ Begin(target, phase)
    /\ UNCHANGED <<page, timerRef, backend>>

\* The component is taken down: the cleanup, and no effect after it.  What is
\* still to come for the old chains comes all the same.
Unmount ==
    /\ mounted
    /\ started > 0
    /\ mounted' = FALSE
    /\ phase' = Let({wsRef})
    /\ wsRef' = Nothing
    /\ timerRef' = Nothing
    /\ UNCHANGED <<hook, target, cluster, started, backend>>

Opens(i) ==
    /\ up
    /\ phase[i] = "connecting"
    /\ phase' = [phase EXCEPT ![i] = "open"]
    /\ UNCHANGED <<page, cluster, started, refs, backend>>

\* The network or the backend ends a socket.
Drops(i) ==
    /\ ~up
    /\ phase[i] \in Socket
    /\ phase' = [phase EXCEPT ![i] = "closing"]
    /\ UNCHANGED <<page, cluster, started, refs, backend>>

\* Whether the end of a socket is followed by a timer: every socket's is,
\* except that the overview stream's is not while it has no cluster or is
\* taken down (its unmountedRef).
Rearms == hook # "overview" \/ (mounted /\ Wants(target))

\* Whether a timer's connect opens a socket: the overview stream looks at
\* unmountedRef again, the others at whether the last render enabled them.
Connects == Wants(target) /\ (hook # "overview" \/ mounted)

\* Mutant: the end of a socket that wsRef does not hold is ignored, while
\* every end clears wsRef.
ClosedOwn(i) ==
    /\ phase[i] = "closing"
    /\ wsRef' = Nothing
    /\ IF Rearms /\ wsRef = i
       THEN /\ phase' = [phase EXCEPT ![i] = "waiting"]
            /\ timerRef' = i
       ELSE /\ phase' = [phase EXCEPT ![i] = "ended"]
            /\ UNCHANGED timerRef
    /\ UNCHANGED <<page, cluster, started, backend>>

\* The close event: it clears wsRef, whichever socket that holds by now, and
\* arms the timer of its own chain, whatever the reason of the end.
Closed(i) ==
    /\ phase[i] = "closing"
    /\ wsRef' = Nothing
    /\ IF Rearms
       THEN /\ phase' = [phase EXCEPT ![i] = "waiting"]
            /\ timerRef' = i
       ELSE /\ phase' = [phase EXCEPT ![i] = "ended"]
            /\ UNCHANGED timerRef
    /\ UNCHANGED <<page, cluster, started, backend>>

\* Mutant: a timer of useBackendWebSocket connects as its own render would.
FiresOwn(i) ==
    /\ phase[i] = "waiting"
    /\ IF Connects
       THEN /\ phase' = [phase EXCEPT ![i] = "connecting"]
            /\ wsRef' = i
       ELSE /\ phase' = [phase EXCEPT ![i] = "ended"]
            /\ UNCHANGED wsRef
    /\ UNCHANGED <<page, cluster, started, timerRef, backend>>

\* The timer connects: the overview stream's to the cluster of the effect it
\* comes from, the others' to the active one.
Fires(i) ==
    /\ phase[i] = "waiting"
    /\ IF Connects
       THEN /\ phase' = [phase EXCEPT ![i] = "connecting"]
            /\ wsRef' = i
       ELSE /\ phase' = [phase EXCEPT ![i] = "ended"]
            /\ UNCHANGED wsRef
    /\ cluster' = IF hook = "overview" \/ ~Connects THEN cluster
                  ELSE [cluster EXCEPT ![i] = target]
    /\ UNCHANGED <<page, started, timerRef, backend>>

\* The user comes back to the tab while wsRef is empty: the last timer is
\* cleared and a new chain begins.
Visible ==
    /\ hook # "overview"
    /\ mounted
    /\ started > 0
    /\ Wants(target)
    /\ wsRef = Nothing
    /\ Begin(target, Let({}))
    /\ timerRef' = Nothing
    /\ UNCHANGED <<page, backend>>

GoDown ==
    /\ up
    /\ outages < MaxOutages
    /\ up' = FALSE
    /\ outages' = outages + 1
    /\ UNCHANGED <<page, chains, refs>>

ComeUp ==
    /\ ~up
    /\ up' = TRUE
    /\ UNCHANGED <<page, chains, refs, outages>>

-----------------------------------------------------------------------------

Next ==
    \/ \E c \in Clusters \cup {Nothing} : Switch(c)
    \/ Mount \/ Unmount
    \/ \E i \in Chains : Opens(i) \/ Drops(i) \/ Closed(i) \/ Fires(i)
    \/ Visible
    \/ GoDown \/ ComeUp

Spec == Init /\ [][Next]_vars

\* A socket opens or fails, the browser delivers its events and its timers,
\* and outages end.  Users owe nothing.
Fairness ==
    /\ \A i \in Chains : WF_vars(Opens(i) \/ Drops(i) \/ Closed(i) \/ Fires(i))
    /\ WF_vars(Mount)
    /\ WF_vars(ComeUp)

FairSpec == Spec /\ Fairness

-----------------------------------------------------------------------------

\* Chain i is, or will be, a socket for the active cluster.
Leads(i) ==
    /\ phase[i] \in Live
    /\ \/ cluster[i] = target
       \/ hook # "overview" /\ phase[i] \in {"closing", "waiting"}

\* However old sockets' events interleave with switches, failures, timers and
\* returns to the tab: a mounted hook that wants a socket has one, or is about
\* to.
NeverDeaf ==
    mounted /\ Wants(target) /\ started > 0 => \E i \in Chains : Leads(i)

\* wsRef never holds a socket that has ended, or an old cluster's, except that
\* of a late timer of the overview stream: so the page misses no return to the
\* tab and the cleanup closes what it means to.
RefIsCurrent ==
    wsRef # Nothing =>
        /\ phase[wsRef] \in {"connecting", "open", "closing"}
        /\ hook # "overview" => cluster[wsRef] = target

\* A socket to the active cluster opens again and again, once the backend
\* stays up and the user stays with a cluster and the component.
Reconnects ==
    <>[](mounted /\ Wants(target)) =>
        []<>(\E i \in Chains : phase[i] = "open" /\ cluster[i] = target)

\* "A single persistent connection per cluster handles all overview
\* consumers" (useOverviewStream.ts:10).
OneConnectionPerCluster ==
    \A i, j \in Chains :
        phase[i] = "open" /\ phase[j] = "open" /\ cluster[i] = cluster[j]
            => i = j

=============================================================================
