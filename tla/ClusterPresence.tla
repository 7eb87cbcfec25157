-------------------------- MODULE ClusterPresence --------------------------
(***************************************************************************)
(* The clusters the page knows: the presence store, the hook that feeds it *)
(* (useClusterPresence) and the picker's page, which registers a cluster   *)
(* and shows it ahead of the next snapshot.  Which of them is the active   *)
(* one is left out.                                                        *)
(*                                                                         *)
(* Of the backend only the three endpoints are here: what they answer from, *)
(* its discovery manager, is one snapshot that changes, of which the event *)
(* stream is told unless it is about reachability; an event may be lost.   *)
(***************************************************************************)
EXTENDS Naturals, FiniteSets

CONSTANTS
    Clusters,
    MaxFetches,  \* bound on the snapshot requests in flight
    MaxTrouble,  \* bound on changes at the backend, outages, errors, picks and reloads
    Nothing      \* no request, no answer

\* Where a cluster stands in a snapshot; a connected one is registered and
\* reachable.
Standings == {"absent", "discovered", "registered", "connected"}
Registered == {"registered", "connected"}
Snapshots == [Clusters -> Standings]

Fetches == [purpose : {"first", "retry", "once"},
            answer : Snapshots \cup {Nothing}]

ASSUME PresenceAssumption ==
    /\ MaxFetches \in Nat \ {0}
    /\ MaxTrouble \in Nat
    /\ Nothing \notin Fetches

VARIABLES
    truth,        \* the snapshot the backend would serve now
    up,           \* the backend can be reached
    trouble,      \* what MaxTrouble bounds
    fetches,      \* requests for the snapshot, each with what it is for
    retrying,     \* fetchTimer is armed
    sse,          \* the event stream
    notice,       \* an event of the stream is on its way
    known,        \* the store's discovered, registered and connected lists
    isReady,
    adding        \* additions asked for on the picker's page

world == <<truth, up, trouble>>
hook == <<retrying, sse>>
store == <<known, isReady>>
vars == <<world, fetches, hook, notice, store, adding>>

\* The variables have their types.
TypeOK ==
    /\ truth \in Snapshots
    /\ up \in BOOLEAN
    /\ trouble \in 0 .. MaxTrouble
    /\ fetches \in [1 .. MaxFetches -> Fetches \cup {Nothing}]
    /\ retrying \in BOOLEAN
    /\ sse \in {"closed", "connecting", "open", "waiting"}
    /\ notice \in BOOLEAN
    /\ known \in Snapshots
    /\ isReady \in BOOLEAN
    /\ adding \in [Clusters -> {"no", "asked", "added"}]

\* A page that has just been loaded asks for its first snapshot.
FirstFetch == [i \in 1 .. MaxFetches |->
                 IF i = 1 THEN [purpose |-> "first", answer |-> Nothing]
                          ELSE Nothing]

NoneKnown == [c \in Clusters |-> "absent"]
NoneAdding == [c \in Clusters |-> "no"]

Init ==
    /\ truth \in [Clusters -> {"discovered", "connected"}]
    /\ up = TRUE
    /\ trouble = 0
    /\ fetches = FirstFetch
    /\ retrying = FALSE
    /\ sse = "closed"
    /\ notice = FALSE
    /\ known = NoneKnown
    /\ isReady = FALSE
    /\ adding = NoneAdding

-----------------------------------------------------------------------------
(* The snapshot: fetchSnapshot, its retries and the poll *)

\* Requests take the first free place.
Issue(purpose) ==
    \E i \in 1 .. MaxFetches :
        /\ fetches[i] = Nothing
        /\ \A j \in 1 .. i - 1 : fetches[j] # Nothing
        /\ fetches' = [fetches EXCEPT ![i] =
                          [purpose |-> purpose, answer |-> Nothing]]

\* The backend answers request i with the snapshot of that moment.
Serve(i) ==
    /\ up
    /\ fetches[i] # Nothing
    /\ fetches[i].answer = Nothing
    /\ fetches' = [fetches EXCEPT ![i].answer = truth]
    /\ UNCHANGED <<world, hook, notice, store, adding>>

ApplySnapshot(snapshot) ==
    /\ known' = snapshot
    /\ isReady' = TRUE

\* After the first snapshot, or its failure, the stream is opened.
OpenStream(purpose) ==
    sse' = IF purpose = "first" THEN "connecting" ELSE sse

\* The answer to request i is applied, however old it is.
Receive(i) ==
    /\ fetches[i] # Nothing
    /\ fetches[i].answer # Nothing
    /\ ApplySnapshot(fetches[i].answer)
    /\ OpenStream(fetches[i].purpose)
    /\ fetches' = [fetches EXCEPT ![i] = Nothing]
    /\ UNCHANGED <<world, retrying, notice, adding>>

\* A call fails for want of a backend, or a backend that runs answers with an
\* error or breaks off.
GoesWrong ==
    /\ \/ ~up /\ UNCHANGED trouble
       \/ up /\ trouble < MaxTrouble /\ trouble' = trouble + 1
    /\ UNCHANGED <<truth, up>>

\* Mutant: a failed first request does not lead to a stream.
FailClosed(i) ==
    /\ GoesWrong
    /\ fetches[i] # Nothing
    /\ retrying' = (retrying \/ fetches[i].purpose # "once")
    /\ fetches' = [fetches EXCEPT ![i] = Nothing]
    /\ UNCHANGED <<sse, notice, store, adding>>

\* Mutant: every failure is retried.
FailRetried(i) ==
    /\ GoesWrong
    /\ fetches[i] # Nothing
    /\ retrying' = TRUE
    /\ OpenStream(fetches[i].purpose)
    /\ fetches' = [fetches EXCEPT ![i] = Nothing]
    /\ UNCHANGED <<notice, store, adding>>

\* Request i fails: nothing is applied, and only the first request and its
\* retries are tried again; those of the poll, of an event and of the picker
\* are not.
Fail(i) ==
    /\ GoesWrong
    /\ fetches[i] # Nothing
    /\ retrying' = (retrying \/ fetches[i].purpose # "once")
    /\ OpenStream(fetches[i].purpose)
    /\ fetches' = [fetches EXCEPT ![i] = Nothing]
    /\ UNCHANGED <<notice, store, adding>>

Retry ==
    /\ retrying
    /\ Issue("retry")
    /\ retrying' = FALSE
    /\ UNCHANGED <<world, sse, notice, store, adding>>

\* Mutant: the poll of a page that has its snapshot is left to the stream.
PollUntilReady ==
    /\ ~isReady
    /\ Issue("once")
    /\ UNCHANGED <<world, hook, notice, store, adding>>

\* pollTimer, every thirty seconds.
Poll ==
    /\ Issue("once")
    /\ UNCHANGED <<world, hook, notice, store, adding>>

-----------------------------------------------------------------------------
(* The event stream *)

Connect ==
    /\ up
    /\ sse = "connecting"
    /\ sse' = "open"
    /\ UNCHANGED <<world, fetches, retrying, notice, store, adding>>

StreamError ==
    /\ GoesWrong
    /\ sse \in {"connecting", "open"}
    /\ sse' = "waiting"
    /\ notice' = FALSE
    /\ UNCHANGED <<fetches, retrying, store, adding>>

Reopen ==
    /\ sse = "waiting"
    /\ sse' = "connecting"
    /\ UNCHANGED <<world, fetches, retrying, notice, store, adding>>

\* Any event has the whole snapshot fetched again.
Message ==
    /\ notice
    /\ Issue("once")
    /\ notice' = FALSE
    /\ UNCHANGED <<world, hook, store, adding>>

-----------------------------------------------------------------------------
(* Picking a cluster that is not registered *)

\* A cluster that comes from the kubeconfig and is not connected is registered
\* first.  Asking again for one that is being added changes nothing.
PickNew(c) ==
    /\ known[c] \in {"discovered", "registered"}
    /\ adding[c] = "no"
    /\ trouble < MaxTrouble
    /\ trouble' = trouble + 1
    /\ adding' = [adding EXCEPT ![c] = "asked"]
    /\ UNCHANGED <<truth, up, fetches, hook, notice, store>>

\* An open stream may be told of a change; when the discovery sends no event for
\* it, or the channel is full, it is not.
Tell == notice' \in {notice, sse = "open"}

AddAtBackend(c) ==
    /\ up
    /\ adding[c] = "asked"
    /\ adding' = [adding EXCEPT ![c] = "added"]
    /\ \/ truth[c] \in Registered /\ UNCHANGED <<truth, notice>>
       \/ /\ truth[c] \notin Registered
          /\ \E s \in Registered : truth' = [truth EXCEPT ![c] = s]
          /\ Tell
    /\ UNCHANGED <<up, trouble, fetches, hook, store>>

\* The picker shows c as connected ahead of the next snapshot, whatever has
\* been applied or chosen since it was asked for, and asks for one.
Added(c) ==
    /\ adding[c] = "added"
    /\ adding' = [adding EXCEPT ![c] = "no"]
    /\ ApplySnapshot([known EXCEPT ![c] = "connected"])
    /\ Issue("once")
    /\ UNCHANGED <<world, hook, notice>>

AddFails(c) ==
    /\ GoesWrong
    /\ adding[c] # "no"
    /\ adding' = [adding EXCEPT ![c] = "no"]
    /\ UNCHANGED <<fetches, hook, notice, store>>

-----------------------------------------------------------------------------
(* What happens around the page *)

\* A cluster is discovered, registered or deleted elsewhere, which the stream
\* may hear of, or its reachability changes, which it does not.
Change(c, s) ==
    /\ trouble < MaxTrouble
    /\ trouble' = trouble + 1
    /\ s # truth[c]
    /\ truth' = [truth EXCEPT ![c] = s]
    /\ \/ {s, truth[c]} = Registered /\ UNCHANGED notice
       \/ {s, truth[c]} # Registered /\ Tell
    /\ UNCHANGED <<up, fetches, hook, store, adding>>

GoDown ==
    /\ up
    /\ trouble < MaxTrouble
    /\ trouble' = trouble + 1
    /\ up' = FALSE
    /\ UNCHANGED <<truth, fetches, hook, notice, store, adding>>

ComeUp ==
    /\ ~up
    /\ up' = TRUE
    /\ UNCHANGED <<truth, trouble, fetches, hook, notice, store, adding>>

\* Nothing of this outlives the page.
Reload ==
    /\ trouble < MaxTrouble
    /\ trouble' = trouble + 1
    /\ fetches' = FirstFetch
    /\ retrying' = FALSE
    /\ sse' = "closed"
    /\ notice' = FALSE
    /\ known' = NoneKnown
    /\ isReady' = FALSE
    /\ adding' = NoneAdding
    /\ UNCHANGED <<truth, up>>

-----------------------------------------------------------------------------

Next ==
    \/ \E i \in 1 .. MaxFetches : Serve(i) \/ Receive(i) \/ Fail(i)
    \/ Retry \/ Poll
    \/ Connect \/ StreamError \/ Reopen \/ Message
    \/ \E c \in Clusters :
          \/ PickNew(c) \/ AddAtBackend(c) \/ Added(c) \/ AddFails(c)
          \/ \E s \in Standings : Change(c, s)
    \/ GoDown \/ ComeUp \/ Reload

Spec == Init /\ [][Next]_vars

\* The browser's timers fire and its handlers run; a request is answered or
\* fails; an outage ends, and so do errors.  Users owe nothing.
Fairness ==
    /\ \A i \in 1 .. MaxFetches : WF_vars(Serve(i) \/ Receive(i) \/ Fail(i))
    /\ WF_vars(Retry)
    /\ WF_vars(Poll)
    /\ WF_vars(Connect \/ StreamError \/ Reopen)
    /\ \A c \in Clusters : WF_vars(AddAtBackend(c) \/ Added(c) \/ AddFails(c))
    /\ WF_vars(ComeUp)

FairSpec == Spec /\ Fairness

-----------------------------------------------------------------------------

\* A request whose failure is followed by a retry.
Chained(i) == fetches[i] # Nothing /\ fetches[i].purpose # "once"

\* However many polls, events and picks fail: the retries form one chain,
\* which waits either for an answer or for its timer.
OneRetryChain ==
    \A i \in 1 .. MaxFetches :
        Chained(i) => /\ ~retrying
                      /\ \A j \in 1 .. MaxFetches : Chained(j) => j = i

\* The stream is opened once, when the first request has been answered or has
\* failed, and never a second time beside itself.
StreamFollowsFirst ==
    sse = "closed" <=>
        \E i \in 1 .. MaxFetches : Chained(i) /\ fetches[i].purpose = "first"

\* Answers may overtake each other, events get lost and requests fail: in the
\* end the store agrees with the backend.
Converges == <>[](known = truth /\ isReady)

\* However the first request and the backend fare, the stream is open again
\* and again.
Watches == []<>(sse = "open")

=============================================================================
