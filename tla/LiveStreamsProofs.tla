------------------------- MODULE LiveStreamsProofs -------------------------
(***************************************************************************)
(* For any clusters and any number of chains: the variables of LiveStreams *)
(* have their types, wsRef holds a live socket for the active cluster, and *)
(* a mounted hook that wants a socket has one or is about to. No invariant *)
(* needs more than the types besides itself.                               *)
(***************************************************************************)
EXTENDS LiveStreams, TLAPS

\* The cleanup's effect on the phases: one timer and the sockets of go end.
LEMMA LetTypes ==
    ASSUME TypeOK, NEW go
    PROVE  /\ Let(go) \in [Chains -> Phases]
           /\ \A i \in Chains : i # timerRef /\ phase[i] \in Live
                                  => Let(go)[i] \in Live
  BY DEF TypeOK, Let, Phases, Socket, Live

\* A chain that begins is the next one, and is connecting.
LEMMA BeginTypes ==
    ASSUME TypeOK, NEW c \in Clusters \cup {Nothing},
           NEW let \in [Chains -> Phases], Begin(c, let)
    PROVE  /\ started + 1 \in Chains
           /\ started' \in 0 .. MaxChains
           /\ phase' \in [Chains -> Phases]
           /\ cluster' \in [Chains -> Clusters \cup {Nothing}]
           /\ wsRef' = started + 1
           /\ started' > 0
           /\ phase'[started + 1] = "connecting"
           /\ cluster'[started + 1] = c
  <1>1. /\ started + 1 \in Chains
        /\ started' \in 0 .. MaxChains
        /\ started' > 0
    BY StreamsAssumption DEF TypeOK, Begin, Chains
  <1>2. "connecting" \in Phases
    BY DEF Phases
  <1> QED
    BY <1>1, <1>2 DEF TypeOK, Begin

\* What each of the actions that begin a chain does.
LEMMA SwitchBegins ==
    ASSUME TypeOK, NEW c \in Clusters \cup {Nothing}, Switch(c)
    PROVE  /\ target' = c /\ hook' = hook /\ timerRef' = Nothing
           /\ mounted' = mounted
           /\ Wants(c) => \E let \in [Chains -> Phases] : Begin(c, let)
           /\ ~Wants(c) => /\ phase' \in [Chains -> Phases]
                           /\ wsRef' = Nothing
                           /\ UNCHANGED <<cluster, started>>
  BY LetTypes DEF Switch

\* Every step keeps the types.
LEMMA TypeStep == TypeOK /\ [Next]_vars => TypeOK'
  <1> SUFFICES ASSUME TypeOK, [Next]_vars
               PROVE  TypeOK'
    OBVIOUS
  <1>1. ASSUME NEW c \in Clusters \cup {Nothing}, Switch(c)
        PROVE  TypeOK'
    <2>1. /\ target' = c /\ hook' = hook /\ timerRef' = Nothing
          /\ UNCHANGED <<mounted, backend>>
      BY <1>1 DEF Switch
    <2>2. CASE Wants(c)
      <3>1. PICK let \in [Chains -> Phases] : Begin(c, let)
        BY <1>1, <2>2, SwitchBegins
      <3> QED
        BY <2>1, <3>1, BeginTypes DEF TypeOK, backend
    <2>3. CASE ~Wants(c)
      BY <1>1, <2>1, <2>3, SwitchBegins DEF TypeOK, backend
    <2> QED
      BY <2>2, <2>3
  <1>2. ASSUME Mount
        PROVE  TypeOK'
    <2>1. /\ phase \in [Chains -> Phases] /\ Begin(target, phase)
          /\ target \in Clusters \cup {Nothing}
      BY <1>2 DEF Mount, TypeOK
    <2> QED
      BY <1>2, <2>1, BeginTypes DEF Mount, TypeOK, page, backend
  <1>3. ASSUME NEW i \in Chains, Opens(i) \/ Drops(i)
        PROVE  TypeOK'
    BY <1>3 DEF Opens, Drops, TypeOK, Phases, page, refs, backend
  <1>4. ASSUME NEW i \in Chains, Closed(i) \/ Fires(i)
        PROVE  TypeOK'
    BY <1>4 DEF Closed, Fires, TypeOK, Phases, page, backend
  <1>5. ASSUME Visible
        PROVE  TypeOK'
    <2>1. /\ Let({}) \in [Chains -> Phases]
          /\ target \in Clusters \cup {Nothing}
      BY LetTypes DEF TypeOK
    <2> QED
      BY <1>5, <2>1, BeginTypes DEF Visible, TypeOK, page, backend
  <1>6. ASSUME GoDown
        PROVE  TypeOK'
    <2>1. UNCHANGED <<page, chains, refs>> /\ up' \in BOOLEAN
      BY <1>6 DEF GoDown
    <2>2. outages' \in 0 .. MaxOutages
      BY <1>6, StreamsAssumption DEF GoDown, TypeOK
    <2> QED
      BY <2>1, <2>2 DEF TypeOK, page, chains, refs
  <1>7. ASSUME ComeUp
        PROVE  TypeOK'
    BY <1>7 DEF ComeUp, TypeOK, page, chains, refs
  <1>8. ASSUME Unmount
        PROVE  TypeOK'
    BY <1>8, LetTypes DEF Unmount, TypeOK, backend
  <1>9. ASSUME UNCHANGED vars
        PROVE  TypeOK'
    BY <1>9 DEF TypeOK, vars, page, chains, refs, backend
  <1> QED
    BY <1>1, <1>2, <1>3, <1>4, <1>5, <1>6, <1>7, <1>8, <1>9 DEF Next

\* The variables of LiveStreams have their types.
THEOREM StreamTypes == Spec => []TypeOK
  <1>1. Init => TypeOK
    BY StreamsAssumption DEF Init, TypeOK, Phases, Chains
  <1> QED
    BY <1>1, TypeStep, PTL DEF Spec

-----------------------------------------------------------------------------

\* A mounted hook that wants a socket has one, or is about to.
THEOREM StaysInTouch == Spec => []NeverDeaf
  <1>1. Init => NeverDeaf
    BY StreamsAssumption DEF Init, NeverDeaf
  <1>2. ASSUME TypeOK, TypeOK', NeverDeaf, [Next]_vars
        PROVE  NeverDeaf'
    <2>1. ASSUME NEW c \in Clusters \cup {Nothing}, Switch(c)
          PROVE  NeverDeaf'
      <3>1. target' = c /\ hook' = hook
        BY <2>1, <1>2 DEF Switch
      <3>2. CASE Wants(c)
        <4>1. PICK let \in [Chains -> Phases] : Begin(c, let)
          BY <1>2, <2>1, <3>2, SwitchBegins
        <4> QED
          BY <1>2, <3>1, <4>1, BeginTypes DEF NeverDeaf, Leads, Live
      <3>3. CASE ~Wants(c)
        BY <3>1, <3>3 DEF NeverDeaf, Wants
      <3> QED
        BY <3>2, <3>3
    <2>2. ASSUME Mount
          PROVE  NeverDeaf'
      <3>1. /\ phase \in [Chains -> Phases] /\ Begin(target, phase)
            /\ target \in Clusters \cup {Nothing}
            /\ target' = target
        BY <1>2, <2>2 DEF Mount, TypeOK, page
      <3> QED
        BY <1>2, <3>1, BeginTypes DEF NeverDeaf, Leads, Live
    <2>3. ASSUME NEW i \in Chains, Opens(i) \/ Drops(i)
          PROVE  NeverDeaf'
      <3>1. UNCHANGED <<page, cluster, started>>
        BY <2>3 DEF Opens, Drops
      <3>2. ASSUME NEW j \in Chains, Leads(j)
            PROVE  Leads(j)'
        BY <1>2, <2>3, <3>1, <3>2
        DEF Opens, Drops, Leads, Live, Socket, TypeOK, page
      <3> QED
        BY <1>2, <3>1, <3>2 DEF NeverDeaf, Wants, page
    <2>4. ASSUME NEW i \in Chains, Closed(i)
          PROVE  NeverDeaf'
      <3>1. UNCHANGED <<page, cluster, started>>
        BY <2>4 DEF Closed
      <3>2. ASSUME NEW j \in Chains, Leads(j), Wants(target), mounted
            PROVE  Leads(j)'
        <4>1. Rearms
          BY <3>2 DEF Rearms
        <4>2. phase' = [phase EXCEPT ![i] = "waiting"]
          BY <2>4, <4>1 DEF Closed
        <4> QED
          BY <1>2, <2>4, <3>1, <3>2, <4>2
          DEF Closed, Leads, Live, TypeOK, page
      <3> QED
        BY <1>2, <3>1, <3>2 DEF NeverDeaf, Wants, page
    <2>5. ASSUME NEW i \in Chains, Fires(i)
          PROVE  NeverDeaf'
      <3>1. UNCHANGED <<page, started>>
        BY <2>5 DEF Fires
      <3>2. ASSUME NEW j \in Chains, Leads(j), Wants(target), mounted
            PROVE  Leads(j)'
        <4>1. /\ phase' = [phase EXCEPT ![i] = "connecting"]
              /\ cluster' = IF hook = "overview" THEN cluster
                            ELSE [cluster EXCEPT ![i] = target]
          BY <2>5, <3>2 DEF Fires, Connects
        <4> QED
          BY <1>2, <2>5, <3>1, <3>2, <4>1
          DEF Fires, Leads, Live, TypeOK, page
      <3> QED
        BY <1>2, <3>1, <3>2 DEF NeverDeaf, Wants, page
    <2>6. ASSUME Visible
          PROVE  NeverDeaf'
      <3>1. /\ Let({}) \in [Chains -> Phases] /\ Begin(target, Let({}))
            /\ target \in Clusters \cup {Nothing}
            /\ target' = target
        BY <1>2, <2>6, LetTypes DEF Visible, TypeOK, page
      <3> QED
        BY <1>2, <3>1, BeginTypes DEF NeverDeaf, Leads, Live
    <2>7. ASSUME GoDown \/ ComeUp \/ UNCHANGED vars
          PROVE  NeverDeaf'
      <3>1. UNCHANGED <<page, chains>>
        BY <2>7 DEF GoDown, ComeUp, vars
      <3> QED
        BY <1>2, <3>1 DEF NeverDeaf, Leads, Wants, page, chains
    <2>8. ASSUME Unmount
          PROVE  NeverDeaf'
      BY <2>8 DEF Unmount, NeverDeaf
    <2> QED
      BY <1>2, <2>1, <2>2, <2>3, <2>4, <2>5, <2>6, <2>7, <2>8 DEF Next
  <1> QED
    BY <1>1, <1>2, StreamTypes, PTL DEF Spec

-----------------------------------------------------------------------------

\* wsRef holds nothing, or a live socket, which is the active cluster's except
\* with the overview stream.
THEOREM RefStaysCurrent == Spec => []RefIsCurrent
  <1>1. Init => RefIsCurrent
    BY DEF Init, RefIsCurrent
  <1>2. ASSUME TypeOK, RefIsCurrent, [Next]_vars
        PROVE  RefIsCurrent'
    <2>1. ASSUME NEW c \in Clusters \cup {Nothing}, Switch(c)
          PROVE  RefIsCurrent'
      <3>1. target' = c /\ hook' = hook
        BY <2>1, <1>2 DEF Switch
      <3>2. CASE Wants(c)
        <4>1. PICK let \in [Chains -> Phases] : Begin(c, let)
          BY <1>2, <2>1, <3>2, SwitchBegins
        <4> QED
          BY <1>2, <3>1, <4>1, BeginTypes DEF RefIsCurrent
      <3>3. CASE ~Wants(c)
        BY <1>2, <2>1, <3>3, SwitchBegins DEF RefIsCurrent
      <3> QED
        BY <3>2, <3>3
    <2>2. ASSUME Mount
          PROVE  RefIsCurrent'
      <3>1. /\ phase \in [Chains -> Phases] /\ Begin(target, phase)
            /\ target \in Clusters \cup {Nothing}
            /\ UNCHANGED page
        BY <1>2, <2>2 DEF Mount, TypeOK
      <3> QED
        BY <1>2, <3>1, BeginTypes DEF RefIsCurrent, page
    <2>3. ASSUME NEW i \in Chains, Opens(i) \/ Drops(i)
          PROVE  RefIsCurrent'
      <3>1. UNCHANGED <<page, cluster, wsRef>>
        BY <2>3 DEF Opens, Drops, refs
      <3> QED
        BY <1>2, <2>3, <3>1 DEF Opens, Drops, RefIsCurrent, TypeOK, page
    <2>4. ASSUME NEW i \in Chains, Closed(i)
          PROVE  RefIsCurrent'
      BY <2>4 DEF Closed, RefIsCurrent
    <2>5. ASSUME NEW i \in Chains, Fires(i)
          PROVE  RefIsCurrent'
      BY <1>2, <2>5 DEF Fires, RefIsCurrent, TypeOK, page
    <2>6. ASSUME Visible
          PROVE  RefIsCurrent'
      <3>1. /\ Let({}) \in [Chains -> Phases] /\ Begin(target, Let({}))
            /\ target \in Clusters \cup {Nothing}
            /\ target' = target
        BY <1>2, <2>6, LetTypes DEF Visible, TypeOK, page
      <3> QED
        BY <1>2, <3>1, BeginTypes DEF RefIsCurrent
    <2>7. ASSUME GoDown \/ ComeUp \/ UNCHANGED vars
          PROVE  RefIsCurrent'
      <3>1. UNCHANGED <<page, chains, refs>>
        BY <2>7 DEF GoDown, ComeUp, vars
      <3> QED
        BY <1>2, <3>1 DEF RefIsCurrent, page, chains, refs
    <2>8. ASSUME Unmount
          PROVE  RefIsCurrent'
      BY <2>8 DEF Unmount, RefIsCurrent
    <2> QED
      BY <1>2, <2>1, <2>2, <2>3, <2>4, <2>5, <2>6, <2>7, <2>8 DEF Next
  <1> QED
    BY <1>1, <1>2, StreamTypes, PTL DEF Spec

=============================================================================
