----------------------- MODULE ClusterPresenceProofs -----------------------
(***************************************************************************)
(* For any clusters and any bounds: the types of ClusterPresence, and that *)
(* the first request, its retries and the stream it leads to are one chain.*)
(***************************************************************************)
EXTENDS ClusterPresence, TLAPS

Chains == OneRetryChain /\ StreamFollowsFirst

IInv == TypeOK /\ Chains

Places == 1 .. MaxFetches

\* Issuing a request changes one free place, to a request of that purpose.
LEMMA IssueTakesPlace ==
    ASSUME TypeOK, NEW purpose \in {"first", "retry", "once"}, Issue(purpose)
    PROVE  /\ fetches' \in [Places -> Fetches \cup {Nothing}]
           /\ \E i \in Places :
                /\ fetches[i] = Nothing
                /\ fetches'[i] = [purpose |-> purpose, answer |-> Nothing]
                /\ fetches'[i] # Nothing
                /\ \A j \in Places \ {i} : fetches'[j] = fetches[j]
  BY PresenceAssumption DEF TypeOK, Issue, Fetches, Places

\* The requests of polls, events and picks are outside the chain.
LEMMA OnceIsOutside ==
    ASSUME IInv, Issue("once"), UNCHANGED <<retrying, sse>>
    PROVE  Chains'
<1> USE DEF IInv
<1>1. PICK i \in Places :
          /\ fetches[i] = Nothing
          /\ fetches'[i] = [purpose |-> "once", answer |-> Nothing]
          /\ \A j \in Places \ {i} : fetches'[j] = fetches[j]
  BY IssueTakesPlace
<1>2. \A j \in Places : Chained(j)' <=> Chained(j)
  BY <1>1 DEF Chained
<1>3. \A j \in Places : Chained(j) => fetches'[j] = fetches[j]
  BY <1>1 DEF Chained
<1> QED
  BY <1>2, <1>3 DEF Chains, OneRetryChain, StreamFollowsFirst, Places

\* A request that ends leaves its place, and the chain if it was of it.
LEMMA EndLeavesPlace ==
    ASSUME TypeOK, NEW i \in Places,
           fetches' = [fetches EXCEPT ![i] = Nothing]
    PROVE  /\ fetches' \in [Places -> Fetches \cup {Nothing}]
           /\ ~Chained(i)'
           /\ \A j \in Places \ {i} : /\ Chained(j)' <=> Chained(j)
                                      /\ fetches'[j] = fetches[j]
  BY DEF TypeOK, Chained, Places

-----------------------------------------------------------------------------

\* A new page knows no cluster and adds none.
LEMMA EmptyTypes ==
    /\ NoneKnown \in Snapshots
    /\ NoneAdding \in [Clusters -> {"no", "asked", "added"}]
  BY DEF NoneKnown, NoneAdding, Snapshots, Standings

\* A page that has just been loaded has one chain, its first request.
LEMMA InitIInv == Init => IInv
<1> SUFFICES ASSUME Init PROVE IInv
  OBVIOUS
<1> USE PresenceAssumption
<1>1. [purpose |-> "first", answer |-> Nothing] \in Fetches
  BY DEF Fetches
<1>2. /\ FirstFetch \in [Places -> Fetches \cup {Nothing}]
      /\ FirstFetch[1] = [purpose |-> "first", answer |-> Nothing]
      /\ FirstFetch[1] # Nothing
      /\ \A i \in Places \ {1} : FirstFetch[i] = Nothing
      /\ 1 \in Places
  BY <1>1 DEF FirstFetch, Places
<1>3. TypeOK
  <2>1. truth \in Snapshots
    BY DEF Init, Snapshots, Standings
  <2>2. trouble \in 0 .. MaxTrouble
    BY DEF Init
  <2> QED
    BY <1>2, <2>1, <2>2, EmptyTypes DEF Init, TypeOK, Places
<1>4. Chains
  BY <1>2 DEF Init, Chains, OneRetryChain, StreamFollowsFirst, Chained, Places
<1> QED
  BY <1>3, <1>4 DEF IInv

\* A failure costs trouble, and that has a bound.
LEMMA WrongTypes ==
    ASSUME TypeOK, GoesWrong
    PROVE  truth' \in Snapshots /\ up' \in BOOLEAN /\ trouble' \in 0 .. MaxTrouble
<1>1. trouble' \in 0 .. MaxTrouble
  BY PresenceAssumption DEF GoesWrong, TypeOK
<1>2. truth' = truth /\ up' = up
  BY DEF GoesWrong
<1> QED
  BY <1>1, <1>2 DEF TypeOK

\* Every step keeps the types.
LEMMA NextTypeOK == TypeOK /\ [Next]_vars => TypeOK'
<1> SUFFICES ASSUME TypeOK, [Next]_vars PROVE TypeOK'
  OBVIOUS
<1> USE PresenceAssumption
<1>1. CASE UNCHANGED vars
  BY <1>1 DEF vars, world, hook, store, TypeOK
<1>2. ASSUME NEW i \in Places, Serve(i) PROVE TypeOK'
  <2>1. fetches[i] \in Fetches
    BY <1>2 DEF Serve, TypeOK, Places
  <2>2. [fetches[i] EXCEPT !.answer = truth] \in Fetches
    BY <2>1 DEF Fetches, TypeOK
  <2>3. fetches' = [fetches EXCEPT ![i] = [fetches[i] EXCEPT !.answer = truth]]
    BY <1>2 DEF Serve
  <2> QED
    BY <1>2, <2>2, <2>3 DEF Serve, TypeOK, world, hook, store, Places
<1>3. ASSUME NEW i \in Places, Receive(i) PROVE TypeOK'
  <2>1. fetches[i] \in Fetches
    BY <1>3 DEF Receive, TypeOK, Places
  <2>2. fetches[i].answer \in Snapshots
    BY <1>3, <2>1 DEF Receive, Fetches
  <2>3. fetches' \in [Places -> Fetches \cup {Nothing}]
    BY <1>3, EndLeavesPlace DEF Receive
  <2> QED
    BY <1>3, <2>2, <2>3
       DEF Receive, ApplySnapshot, OpenStream, TypeOK, world, Places
<1>4. ASSUME NEW i \in Places, Fail(i) PROVE TypeOK'
  <2>1. fetches' \in [Places -> Fetches \cup {Nothing}]
    BY <1>4, EndLeavesPlace DEF Fail
  <2>2. retrying' \in BOOLEAN
    BY <1>4 DEF Fail
  <2>3. sse' \in {"closed", "connecting", "open", "waiting"}
    BY <1>4 DEF Fail, OpenStream, TypeOK
  <2> QED
    BY <1>4, <2>1, <2>2, <2>3, WrongTypes DEF Fail, TypeOK, store, Places
<1>5. CASE Retry
  <2>1. fetches' \in [Places -> Fetches \cup {Nothing}]
    BY <1>5, IssueTakesPlace DEF Retry
  <2> QED
    BY <1>5, <2>1 DEF Retry, TypeOK, world, store, Places
<1>6. CASE Poll
  <2>1. fetches' \in [Places -> Fetches \cup {Nothing}]
    BY <1>6, IssueTakesPlace DEF Poll
  <2> QED
    BY <1>6, <2>1 DEF Poll, TypeOK, world, hook, store, Places
<1>7. CASE Connect \/ StreamError \/ Reopen
  <2>1. CASE Connect \/ Reopen
    BY <2>1 DEF Connect, Reopen, TypeOK, world, store
  <2>2. CASE StreamError
    BY <2>2, WrongTypes DEF StreamError, TypeOK, store
  <2> QED
    BY <1>7, <2>1, <2>2
<1>8. CASE Message
  <2>1. fetches' \in [Places -> Fetches \cup {Nothing}]
    BY <1>8, IssueTakesPlace DEF Message
  <2> QED
    BY <1>8, <2>1 DEF Message, TypeOK, world, hook, store, Places
<1>9. ASSUME NEW c \in Clusters, PickNew(c) \/ AddFails(c) PROVE TypeOK'
  <2>1. CASE PickNew(c)
    BY <2>1 DEF PickNew, TypeOK, hook, store
  <2>2. CASE AddFails(c)
    BY <2>2, WrongTypes DEF AddFails, TypeOK, hook, store
  <2> QED
    BY <1>9, <2>1, <2>2
<1>10. ASSUME NEW c \in Clusters, AddAtBackend(c) PROVE TypeOK'
  <2>1. truth' \in Snapshots
    BY <1>10 DEF AddAtBackend, TypeOK, Snapshots, Registered, Standings
  <2>2. notice' \in BOOLEAN
    BY <1>10 DEF AddAtBackend, Tell, TypeOK
  <2> QED
    BY <1>10, <2>1, <2>2 DEF AddAtBackend, TypeOK, hook, store
<1>11. ASSUME NEW c \in Clusters, Added(c) PROVE TypeOK'
  <2>1. fetches' \in [Places -> Fetches \cup {Nothing}]
    BY <1>11, IssueTakesPlace DEF Added
  <2>2. known' \in Snapshots
    BY <1>11 DEF Added, ApplySnapshot, TypeOK, Snapshots, Standings
  <2> QED
    BY <1>11, <2>1, <2>2
       DEF Added, ApplySnapshot, TypeOK, world, hook, Places
<1>12. ASSUME NEW c \in Clusters, NEW s \in Standings, Change(c, s)
       PROVE  TypeOK'
  <2>1. truth' \in Snapshots
    BY <1>12 DEF Change, TypeOK, Snapshots
  <2>2. notice' \in BOOLEAN
    BY <1>12 DEF Change, Tell, TypeOK
  <2> QED
    BY <1>12, <2>1, <2>2 DEF Change, TypeOK, hook, store
<1>13. CASE GoDown \/ ComeUp
  <2>1. trouble' \in 0 .. MaxTrouble
    BY <1>13 DEF GoDown, ComeUp, TypeOK
  <2>2. up' \in BOOLEAN
    BY <1>13 DEF GoDown, ComeUp
  <2> QED
    BY <1>13, <2>1, <2>2 DEF GoDown, ComeUp, TypeOK, hook, store
<1>14. CASE Reload
  <2>1. FirstFetch \in [Places -> Fetches \cup {Nothing}]
    BY DEF FirstFetch, Places, Fetches
  <2>2. trouble' \in 0 .. MaxTrouble
    BY <1>14 DEF Reload, TypeOK
  <2>3. truth' \in Snapshots /\ up' \in BOOLEAN
    BY <1>14 DEF Reload, TypeOK
  <2> QED
    BY <1>14, <2>1, <2>2, <2>3, EmptyTypes DEF Reload, TypeOK, Places
<1>15. CASE \E i \in Places : Serve(i) \/ Receive(i) \/ Fail(i)
  BY <1>15, <1>2, <1>3, <1>4
<1>16. CASE \E c \in Clusters :
              \/ PickNew(c) \/ AddAtBackend(c) \/ Added(c) \/ AddFails(c)
              \/ \E s \in Standings : Change(c, s)
  BY <1>16, <1>9, <1>10, <1>11, <1>12
<1> QED
  BY <1>1, <1>5, <1>6, <1>7, <1>8, <1>13, <1>14, <1>15, <1>16
     DEF Next, Places

\* No step makes a second chain or opens a stream before its time.
LEMMA NextChains == IInv /\ [Next]_vars => Chains'
<1> SUFFICES ASSUME IInv, [Next]_vars PROVE Chains'
  OBVIOUS
<1>1. ASSUME UNCHANGED <<fetches, retrying, sse>> PROVE Chains'
  BY <1>1 DEF IInv, Chains, OneRetryChain, StreamFollowsFirst, Chained
<1>2. ASSUME NEW i \in Places, Serve(i) PROVE Chains'
  <2>1. fetches[i] \in Fetches
    BY <1>2 DEF Serve, IInv, TypeOK, Places
  <2>2. /\ fetches'[i] = [fetches[i] EXCEPT !.answer = truth]
        /\ \A j \in Places \ {i} : fetches'[j] = fetches[j]
    BY <1>2 DEF Serve, IInv, TypeOK, Places
  <2>3. fetches'[i] \in Fetches /\ fetches'[i].purpose = fetches[i].purpose
    BY <2>1, <2>2 DEF Fetches, IInv, TypeOK
  <2>4. \A j \in Places : /\ Chained(j)' <=> Chained(j)
                          /\ Chained(j) => fetches'[j].purpose = fetches[j].purpose
    BY <1>2, <2>2, <2>3, PresenceAssumption DEF Serve, Chained
  <2>5. UNCHANGED <<retrying, sse>>
    BY <1>2 DEF Serve, hook
  <2>6. OneRetryChain'
    BY <2>4, <2>5 DEF IInv, Chains, OneRetryChain, Places
  <2>7. StreamFollowsFirst'
    BY <2>4, <2>5 DEF IInv, Chains, StreamFollowsFirst, Places
  <2> QED
    BY <2>6, <2>7 DEF Chains
<1>3. ASSUME NEW i \in Places, Receive(i) \/ Fail(i) PROVE Chains'
  <2>1. /\ fetches[i] # Nothing
        /\ sse' = IF fetches[i].purpose = "first" THEN "connecting" ELSE sse
    BY <1>3 DEF Receive, Fail, OpenStream
  <2>6. retrying' => retrying \/ Chained(i)
    BY <1>3, <2>1 DEF Receive, Fail, Chained
  <2>2. /\ ~Chained(i)'
        /\ \A j \in Places \ {i} : /\ Chained(j)' <=> Chained(j)
                                   /\ fetches'[j] = fetches[j]
    BY <1>3, EndLeavesPlace DEF Receive, Fail, IInv
  <2>3. OneRetryChain'
    BY <2>2, <2>6 DEF IInv, Chains, OneRetryChain, Places
  <2>4. CASE fetches[i].purpose = "first"
    <3>1. Chained(i)
      BY <2>1, <2>4 DEF Chained
    <3>2. \A j \in Places : ~Chained(j)'
      BY <3>1, <2>2 DEF IInv, Chains, OneRetryChain, Places
    <3> QED
      BY <2>1, <2>3, <2>4, <3>2 DEF Chains, StreamFollowsFirst, Places
  <2>5. CASE fetches[i].purpose # "first"
    BY <2>1, <2>2, <2>3, <2>5 DEF IInv, Chains, StreamFollowsFirst, Places
  <2> QED
    BY <2>4, <2>5
<1>4. CASE Retry
  <2>1. \A j \in Places : ~Chained(j)
    BY <1>4 DEF Retry, IInv, Chains, OneRetryChain, Places
  <2>2. PICK i \in Places :
            /\ fetches'[i] = [purpose |-> "retry", answer |-> Nothing]
            /\ \A j \in Places \ {i} : fetches'[j] = fetches[j]
    BY <1>4, IssueTakesPlace DEF Retry, IInv
  <2>3. \A j \in Places \ {i} : ~Chained(j)'
    BY <2>1, <2>2 DEF Chained
  <2>4. fetches'[i].purpose # "first"
    BY <2>2
  <2>5. ~retrying' /\ sse' = sse
    BY <1>4 DEF Retry
  <2> QED
    BY <2>1, <2>3, <2>4, <2>5
       DEF IInv, Chains, OneRetryChain, StreamFollowsFirst, Places
<1>5. CASE Poll \/ Message
  BY <1>5, OnceIsOutside DEF Poll, Message, hook
<1>6. ASSUME NEW c \in Clusters, Added(c) PROVE Chains'
  BY <1>6, OnceIsOutside DEF Added, hook
<1>7. ASSUME NEW c \in Clusters, PickNew(c) \/ AddAtBackend(c) \/ AddFails(c)
      PROVE  Chains'
  BY <1>7, <1>1 DEF PickNew, AddAtBackend, AddFails, hook
<1>8. ASSUME NEW c \in Clusters, NEW s \in Standings, Change(c, s)
      PROVE  Chains'
  BY <1>8, <1>1 DEF Change, hook
<1>9. CASE GoDown \/ ComeUp \/ UNCHANGED vars
  BY <1>9, <1>1 DEF GoDown, ComeUp, vars, hook
<1>10. CASE Connect \/ StreamError \/ Reopen
  <2>1. /\ UNCHANGED <<fetches, retrying>>
        /\ sse # "closed" /\ sse' # "closed"
    BY <1>10 DEF Connect, StreamError, Reopen
  <2> QED
    BY <2>1 DEF IInv, Chains, OneRetryChain, StreamFollowsFirst, Chained
<1>11. CASE Reload
  <2>1. /\ FirstFetch[1] = [purpose |-> "first", answer |-> Nothing]
        /\ FirstFetch[1] # Nothing
        /\ \A i \in Places \ {1} : FirstFetch[i] = Nothing
        /\ 1 \in Places
    BY PresenceAssumption DEF FirstFetch, Places, Fetches
  <2> QED
    BY <1>11, <2>1
       DEF Reload, Chains, OneRetryChain, StreamFollowsFirst, Chained, Places
<1> QED
  BY <1>2, <1>3, <1>4, <1>5, <1>6, <1>7, <1>8, <1>9, <1>10, <1>11
     DEF Next, Places

-----------------------------------------------------------------------------

\* The types and the chains hold together.
LEMMA Inductive == Spec => []IInv
<1>1. Init => IInv
  BY InitIInv
<1>2. IInv /\ [Next]_vars => IInv'
  BY NextTypeOK, NextChains DEF IInv
<1> QED
  BY <1>1, <1>2, PTL DEF Spec

\* Every variable of the presence hook and its store keeps its type.
THEOREM PresenceTypes == Spec => []TypeOK
<1>1. IInv => TypeOK
  BY DEF IInv
<1> QED
  BY <1>1, Inductive, PTL

\* scheduleFetchRetry is called only for the first request and its retries:
\* their chain never splits.
THEOREM RetriesDoNotMultiply == Spec => []OneRetryChain
<1>1. IInv => OneRetryChain
  BY DEF IInv, Chains
<1> QED
  BY <1>1, Inductive, PTL

\* openStream is first called when the first request has ended, and by its
\* own timer afterwards.
THEOREM OneStream == Spec => []StreamFollowsFirst
<1>1. IInv => StreamFollowsFirst
  BY DEF IInv, Chains
<1> QED
  BY <1>1, Inductive, PTL

=============================================================================
