--------------------------- MODULE AgentTrustProofs ---------------------------
(***************************************************************************)
(* Proofs about AgentTrust, for any pods, clusters, tokens, handlers and   *)
(* number of faults: its type invariant, the single use of a bootstrap     *)
(* token, that it keeps the promise of CredentialAuthority, that a         *)
(* registration revokes and what is revoked stays so, and that every       *)
(* credential anybody holds is backed by a row.                            *)
(***************************************************************************)
EXTENDS AgentTrust, TLAPS

(***************************************************************************)
(* Updates of one request.                                                 *)
(***************************************************************************)

ReqTyped == req \in [Handlers -> Requests]

\* Moving a handler to another step changes nothing else of the requests.
LEMMA ReqProceed ==
    ASSUME ReqTyped, NEW h \in Handlers, NEW s \in Steps, Proceed(h, s)
    PROVE  /\ ReqTyped'
           /\ req'[h] = [req[h] EXCEPT !.step = s]
           /\ \A g \in Handlers : g # h => req'[g] = req[g]
  BY DEF ReqTyped, Proceed, Requests

\* Answering changes a handler's step and code and nothing else.
LEMMA ReqReply ==
    ASSUME ReqTyped, NEW h \in Handlers, NEW c \in Codes, Reply(h, c)
    PROVE  /\ ReqTyped'
           /\ req'[h] = [req[h] EXCEPT !.step = "reply", !.code = c]
           /\ \A g \in Handlers : g # h => req'[g] = req[g]
  BY DEF ReqTyped, Reply, Requests, Steps

\* The idle request is a request.
LEMMA IdleTyped == IdleRequest \in Requests /\ IdleRequest.step = "idle"
  BY ConstantsAssumption DEF IdleRequest, Requests, Reviews, Steps, Jtis, Codes

(***************************************************************************)
(* The type invariant.                                                     *)
(***************************************************************************)

\* It holds before anything is minted.
LEMMA TypeInit == Init => TypeOK
  BY ConstantsAssumption, IdleTyped
     DEF Init, TypeOK, Typed, CredsInHand, Registered, HeartbeatSteps

\* A step of a handler keeps it.
LEMMA TypeHandler ==
    ASSUME TypeOK, NEW h \in Handlers, HandlerStep(h)
    PROVE  TypeOK'
  <1> USE DEF ReqTyped
  <1>0. ReqTyped /\ req[h] \in Requests
    BY DEF TypeOK, Typed
  <1>s. {"lookup", "upsert", "reread", "mark", "insert", "touch", "supersede"}
          \subseteq Steps
    BY DEF Steps, BusySteps, RegisterSteps, HeartbeatSteps
  <1>c. /\ \A jti, review, uid : ProofVerdict(jti, review, uid) \in Codes
        /\ Unauthorized \subseteq Codes
        /\ {"ok", "uid_mismatch"} \subseteq Codes
        /\ "ok" \notin Unauthorized /\ "uid_mismatch" \notin Unauthorized
    BY DEF ProofVerdict, Codes, Unauthorized
  <1>1. CASE RegisterCheck(h)
    <2>1. ReqTyped'
      BY <1>0, <1>1, <1>s, <1>c, ReqProceed, ReqReply DEF RegisterCheck
    <2>2. Typed'
      BY <1>1, <2>1 DEF TypeOK, Typed, RegisterCheck, hubVars, clockVars, podVars
    <2>3. CredsInHand'
      BY <1>1 DEF RegisterCheck, TypeOK, Typed, CredsInHand, podVars, Proceed,
                  Reply, Requests, HeartbeatSteps
    <2> QED BY <2>2, <2>3 DEF TypeOK
  <1>2. CASE RegisterLookup(h)
    <2>1. ReqTyped'
      BY <1>0, <1>2, <1>s DEF RegisterLookup, Requests, TypeOK, Typed
    <2>2. Typed'
      BY <1>2, <2>1 DEF TypeOK, Typed, RegisterLookup, hubVars, clockVars, podVars
    <2>3. CredsInHand'
      BY <1>2 DEF RegisterLookup, TypeOK, Typed, CredsInHand, podVars, Requests,
                  HeartbeatSteps
    <2> QED BY <2>2, <2>3 DEF TypeOK
  <1>3. CASE RegisterUpsert(h)
    <2>1. ReqTyped'
      BY <1>0, <1>3, <1>s, ReqProceed DEF RegisterUpsert
    <2>2. epoch' \in [UIDs -> Nat]
      BY <1>0, <1>3 DEF RegisterUpsert, UpsertedEpoch, TypeOK, Typed, Requests
    <2>3. Typed'
      BY <1>3, <2>1, <2>2 DEF TypeOK, Typed, RegisterUpsert, clockVars, podVars
    <2>4. req'[h].step = "reread" /\ \A g \in Handlers : g # h => req'[g] = req[g]
      <3>1. /\ req'[h] = [req[h] EXCEPT !.step = "reread"]
            /\ \A g \in Handlers : g # h => req'[g] = req[g]
        BY <1>0, <1>3, <1>s, ReqProceed DEF RegisterUpsert
      <3> QED BY <1>0, <3>1 DEF Requests
    <2>5. CredsInHand'
      BY <1>3, <2>4 DEF RegisterUpsert, TypeOK, CredsInHand, podVars, HeartbeatSteps
    <2> QED BY <2>3, <2>5 DEF TypeOK
  <1>4. CASE RegisterReread(h)
    <2>1. ReqTyped'
      BY <1>0, <1>4, <1>s DEF RegisterReread, Requests, TypeOK, Typed
    <2>2. Typed'
      BY <1>4, <2>1 DEF TypeOK, Typed, RegisterReread, hubVars, clockVars, podVars
    <2>3. CredsInHand'
      BY <1>4 DEF RegisterReread, TypeOK, Typed, CredsInHand, podVars, Requests,
                  HeartbeatSteps
    <2> QED BY <2>2, <2>3 DEF TypeOK
  <1>5. CASE RegisterMark(h)
    <2>1. ReqTyped'
      <3>1. "token_used" \in Codes
        BY DEF Codes, Unauthorized
      <3> QED
        BY <1>0, <1>5, <1>s, <3>1, ReqProceed, ReqReply DEF RegisterMark
    <2>2. usedBy' \in [Tokens -> UIDs \cup {None}]
      BY <1>5 DEF RegisterMark, TypeOK, Typed, Requests
    <2>3. Typed'
      BY <1>5, <2>1, <2>2 DEF TypeOK, Typed, RegisterMark, clockVars, podVars
    <2>4. CredsInHand'
      BY <1>5 DEF RegisterMark, TypeOK, Typed, CredsInHand, podVars, Proceed,
                  Reply, Requests, HeartbeatSteps
    <2> QED BY <2>3, <2>4 DEF TypeOK
  <1>6. CASE RegisterInsert(h)
    <2> DEFINE row == [serial |-> issued + 1, cluster |-> req[h].uid,
                       epoch |-> req[h].epoch, jti |-> req[h].jti]
               granted == [cluster |-> row.cluster, refresh |-> row.serial,
                           access |-> row.serial, epoch |-> row.epoch]
    <2>1. row \in CredRows /\ granted \in Creds
      BY <1>0 DEF CredRows, Creds, Requests, TypeOK, Typed
    <2>2. req' = [req EXCEPT ![h].step = "reply", ![h].code = "ok",
                             ![h].creds = granted]
      BY <1>6 DEF RegisterInsert
    <2> HIDE DEF granted
    <2>3. ReqTyped'
      BY <1>0, <1>c, <2>1, <2>2 DEF Requests, Steps
    <2>4. Typed'
      BY <1>6, <2>1, <2>3 DEF TypeOK, Typed, RegisterInsert, clockVars, podVars
    <2>5. granted # None
      BY <2>1, ConstantsAssumption
    <2>6. CredsInHand'
      BY <1>6, <2>2, <2>5 DEF RegisterInsert, TypeOK, Typed, CredsInHand,
                              podVars, Requests, HeartbeatSteps
    <2> QED BY <2>4, <2>6 DEF TypeOK
  <1>7. CASE HeartbeatVerify(h)
    <2>1. ReqTyped'
      BY <1>0, <1>7, <1>s, <1>c, ReqProceed, ReqReply DEF HeartbeatVerify
    <2>2. Typed'
      BY <1>7, <2>1 DEF TypeOK, Typed, HeartbeatVerify, hubVars, clockVars, podVars
    <2>3. /\ \A g \in Handlers : g # h => req'[g] = req[g]
          /\ req'[h].creds = req[h].creds
          /\ \/ req'[h].step \in {"touch", "supersede"}
             \/ req'[h].step = "reply" /\ req'[h].code # "ok"
      <3>1. CASE \E s \in {"touch", "supersede"} : Proceed(h, s)
        BY <1>0, <3>1 DEF Proceed, Requests
      <3>2. CASE \E c \in Unauthorized : Reply(h, c)
        BY <1>0, <1>c, <3>2 DEF Reply, Requests
      <3> QED BY <1>7, <3>1, <3>2 DEF HeartbeatVerify
    <2>4. UNCHANGED <<pc, mem>> /\ req[h].step \in HeartbeatSteps
      BY <1>7 DEF HeartbeatVerify, HeartbeatSteps, podVars
    <2>5. CredsInHand'
      BY <2>3, <2>4 DEF TypeOK, CredsInHand, HeartbeatSteps
    <2> QED BY <2>2, <2>5 DEF TypeOK
  <1>e. CASE HeartbeatExpired(h)
    <2>0. "access_expired" \in Codes
      BY DEF Codes, Unauthorized
    <2>1. ReqTyped'
      BY <1>0, <1>e, <2>0, ReqReply DEF HeartbeatExpired
    <2>2. Typed'
      BY <1>e, <2>1 DEF TypeOK, Typed, HeartbeatExpired, hubVars, clockVars, podVars
    <2>3. CredsInHand'
      BY <1>e DEF HeartbeatExpired, TypeOK, Typed, CredsInHand, podVars, Reply,
         Requests, HeartbeatSteps
    <2> QED BY <2>2, <2>3 DEF TypeOK
  <1>8. CASE HeartbeatSupersede(h)
    <2>1. ReqTyped'
      BY <1>0, <1>8, <1>c, ReqReply DEF HeartbeatSupersede
    <2>2. status' \in [UIDs -> {"none", "active", "superseded"}]
      BY <1>8 DEF HeartbeatSupersede, TypeOK, Typed
    <2>3. Typed'
      BY <1>8, <2>1, <2>2 DEF TypeOK, Typed, HeartbeatSupersede, clockVars, podVars
    <2>4. CredsInHand'
      BY <1>8 DEF HeartbeatSupersede, TypeOK, Typed, CredsInHand, podVars,
                  Reply, Requests, HeartbeatSteps
    <2> QED BY <2>3, <2>4 DEF TypeOK
  <1>9. CASE HeartbeatTouch(h)
    <2>1. ReqTyped'
      BY <1>0, <1>9, <1>c, ReqReply DEF HeartbeatTouch
    <2>2. status' \in [UIDs -> {"none", "active", "superseded"}]
      BY <1>9 DEF HeartbeatTouch, TypeOK, Typed
    <2>3. Typed'
      BY <1>9, <2>1, <2>2 DEF TypeOK, Typed, HeartbeatTouch, clockVars, podVars
    <2>4. CredsInHand'
      BY <1>9 DEF HeartbeatTouch, TypeOK, Typed, CredsInHand, podVars,
                  Reply, Requests, HeartbeatSteps
    <2> QED BY <2>3, <2>4 DEF TypeOK
  <1>10. CASE RefreshFind(h)
    <2>1. req[h].creds \in Creds
      BY <1>0, <1>10 DEF RefreshFind, TypeOK, CredsInHand, Requests
    <2>u. UNCHANGED <<epoch, status, tokenState, usedBy, credRows, clockVars,
                      podVars, faults>>
      BY <1>10 DEF RefreshFind
    <2>2. CASE UNCHANGED issued /\ \E c \in {"refresh_invalid", "epoch_mismatch"} : Reply(h, c)
      <3>1. PICK c \in {"refresh_invalid", "epoch_mismatch"} : Reply(h, c)
        BY <2>2
      <3>2. c \in Unauthorized
        BY DEF Unauthorized
      <3>3. ReqTyped'
        BY <1>0, <1>c, <3>1, <3>2, ReqReply
      <3>4. Typed'
        BY <2>u, <2>2, <3>3 DEF TypeOK, Typed, clockVars, podVars
      <3>5. /\ req'[h].step = "reply" /\ req'[h].code # "ok"
            /\ \A g \in Handlers : g # h => req'[g] = req[g]
        <4>1. c \in Codes /\ c # "ok"
          BY <1>c, <3>2
        <4>2. /\ req'[h] = [req[h] EXCEPT !.step = "reply", !.code = c]
              /\ \A g \in Handlers : g # h => req'[g] = req[g]
          BY <1>0, <3>1, <4>1, ReqReply
        <4> QED BY <1>0, <4>1, <4>2 DEF Requests
      <3>6. CredsInHand'
        BY <2>u, <3>5 DEF TypeOK, CredsInHand, podVars, HeartbeatSteps
      <3> QED BY <3>4, <3>6 DEF TypeOK
    <2>3. CASE \E e \in Nat :
                 /\ issued' = issued + 1
                 /\ req' = [req EXCEPT ![h].step = "reply", ![h].code = "ok",
                                       ![h].creds.access = issued + 1,
                                       ![h].creds.epoch = e]
      <3>1. PICK e \in Nat :
                 /\ issued' = issued + 1
                 /\ req' = [req EXCEPT ![h].step = "reply", ![h].code = "ok",
                                       ![h].creds.access = issued + 1,
                                       ![h].creds.epoch = e]
        BY <2>3
      <3> DEFINE fresh == [req[h].creds EXCEPT !.access = issued + 1, !.epoch = e]
      <3>2. fresh \in Creds
        <4>1. issued + 1 \in Nat
          BY DEF TypeOK, Typed
        <4> QED BY <2>1, <4>1 DEF Creds
      <3>3. req' = [req EXCEPT ![h] = [req[h] EXCEPT !.step = "reply",
                                          !.code = "ok", !.creds = fresh]]
        BY <1>0, <3>1, <2>1 DEF Requests, Creds
      <3> HIDE DEF fresh
      <3>4. ReqTyped'
        BY <1>0, <1>c, <3>2, <3>3 DEF Requests, Steps
      <3>5. Typed'
        BY <2>u, <3>1, <3>4 DEF TypeOK, Typed, clockVars, podVars
      <3>6. fresh # None
        BY <3>2, ConstantsAssumption
      <3>7. CredsInHand'
        BY <1>0, <2>u, <3>3, <3>6 DEF TypeOK, CredsInHand, podVars, Requests,
           HeartbeatSteps
      <3> QED BY <3>5, <3>7 DEF TypeOK
    <2> QED
      BY <1>10, <2>2, <2>3 DEF RefreshFind, RefreshVerdict, ActiveRows, TypeOK,
         Typed, CredRows
  <1> QED
    BY <1>1, <1>2, <1>3, <1>4, <1>5, <1>6, <1>7, <1>e, <1>8, <1>9, <1>10
       DEF HandlerStep

\* A call fills an idle handler with the pod's request and nothing else.
LEMMA SendTyped ==
    ASSUME TypeOK, NEW p \in Pods, NEW h \in Handlers,
           NEW at \in {"reg", "hb", "refresh"}, NEW s \in BusySteps,
           NEW c \in Creds \cup {None}, Send(p, h, at, s, c)
    PROVE  /\ ReqTyped'
           /\ call' \in [Pods -> Handlers \cup {None}]
           /\ pc' \in [Pods -> {"down", "boot", "reg"} \cup Registered]
           /\ pc'[p] = at /\ \A q \in Pods : q # p => pc'[q] = pc[q]
           /\ req'[h].step = s /\ req'[h].creds = c /\ req'[h].began = issued
           /\ \A g \in Handlers : g # h => req'[g] = req[g]
  <1> DEFINE r == [step |-> s, jti |-> TokenOf[p], review |-> Reviewed(p),
                   uid |-> HomeOf[p], creds |-> c, epoch |-> 0, code |-> "none", began |-> issued]
  <1>1. r \in Requests
    BY ConstantsAssumption DEF Requests, Reviews, Reviewed, Steps, Jtis, Codes, TypeOK,
       Typed
  <1>2. req' = [req EXCEPT ![h] = r]
    BY DEF Send
  <1>3. r.step = s /\ r.creds = c /\ r.began = issued
    OBVIOUS
  <1> HIDE DEF r
  <1>4. /\ ReqTyped'
        /\ req'[h].step = s /\ req'[h].creds = c /\ req'[h].began = issued
        /\ \A g \in Handlers : g # h => req'[g] = req[g]
    BY <1>1, <1>2, <1>3 DEF ReqTyped, TypeOK, Typed
  <1> QED
    BY <1>4 DEF Send, Registered, TypeOK, Typed

\* Taking a reply frees the handler that gave it.
LEMMA TakeTyped ==
    ASSUME TypeOK, NEW p \in Pods, TakeReply(p)
    PROVE  /\ call[p] \in Handlers /\ req[call[p]].step = "reply"
           /\ req[call[p]] \in Requests
           /\ ReqTyped'
           /\ call' \in [Pods -> Handlers \cup {None}]
           /\ req'[call[p]] = IdleRequest /\ req'[call[p]].step = "idle"
           /\ \A g \in Handlers : g # call[p] => req'[g] = req[g]
  <1>1. call[p] \in Handlers /\ req[call[p]].step = "reply"
    BY DEF TakeReply, Answered, TypeOK, Typed
  <1>2. req' = [req EXCEPT ![call[p]] = IdleRequest]
    BY DEF TakeReply
  <1>3. req \in [Handlers -> Requests] /\ req[call[p]] \in Requests
    BY <1>1 DEF TypeOK, Typed
  <1>4. /\ ReqTyped'
        /\ req'[call[p]] = IdleRequest
        /\ \A g \in Handlers : g # call[p] => req'[g] = req[g]
    BY <1>1, <1>2, <1>3, IdleTyped DEF ReqTyped
  <1> QED
    BY <1>1, <1>3, <1>4, IdleTyped DEF TakeReply, TypeOK, Typed

\* A step of a pod keeps the type invariant.
LEMMA TypePod ==
    ASSUME TypeOK, NEW p \in Pods, PodStep(p)
    PROVE  TypeOK'
  <1> USE DEF ReqTyped
  <1>h. HomeOf[p] \in UIDs
    BY ConstantsAssumption
  <1>p. "boot" \in {"down", "boot", "reg"} \cup Registered /\ "boot" \notin Registered
    BY DEF Registered
  <1>1. CASE StartPod(p)
    <2>1. Typed'
      BY <1>1 DEF StartPod, TypeOK, Typed, hubVars, clockVars
    <2>2. CredsInHand'
      BY <1>1, <1>p DEF StartPod, TypeOK, Typed, CredsInHand
    <2> QED BY <2>1, <2>2 DEF TypeOK
  <1>2. CASE LoadCreds(p)
    <2>1. Typed'
      BY <1>h, <1>2 DEF LoadCreds, Registered, TypeOK, Typed, hubVars, clockVars
    <2>2. CredsInHand'
      BY <1>2 DEF LoadCreds, TypeOK, Typed, CredsInHand
    <2> QED BY <2>1, <2>2 DEF TypeOK
  <1>3. CASE \E h \in Handlers : CallRegister(p, h)
    <2>1. PICK h \in Handlers : CallRegister(p, h)
      BY <1>3
    <2>2. Send(p, h, "reg", "check", None) /\ "check" \in BusySteps
      BY <2>1 DEF CallRegister, BusySteps, RegisterSteps
    <2>3. Typed'
      BY <2>1, <2>2, SendTyped DEF CallRegister, TypeOK, Typed, hubVars, clockVars
    <2>4. CredsInHand'
      <3>1. "reg" \notin Registered /\ "check" \notin HeartbeatSteps \cup {"find", "reply"}
        BY DEF Registered, HeartbeatSteps
      <3>2. UNCHANGED mem /\ CredsInHand
        BY <2>1 DEF CallRegister, TypeOK
      <3> QED BY <2>2, <3>1, <3>2, SendTyped DEF CredsInHand
    <2> QED BY <2>3, <2>4 DEF TypeOK
  <1>4. CASE RegisterReply(p)
    <2>1. TakeReply(p)
      BY <1>4 DEF RegisterReply
    <2>2. Typed'
      BY <1>4, <2>1, TakeTyped DEF RegisterReply, Registered, Requests, TypeOK,
         Typed, hubVars, clockVars
    <2>3. req[call[p]].code = "ok" => req[call[p]].creds # None
      BY <2>1, TakeTyped DEF TypeOK, CredsInHand
    <2>4. \A q \in Pods : pc'[q] \in Registered => mem'[q] # None
      BY <1>4, <1>p, <2>3 DEF RegisterReply, TypeOK, Typed, CredsInHand
    <2>5. CredsInHand'
      BY <2>1, <2>4, TakeTyped DEF TypeOK, CredsInHand, HeartbeatSteps
    <2> QED BY <2>2, <2>5 DEF TypeOK
  <1>5. CASE SaveCreds(p)
    <2>1. Typed'
      BY <1>h, <1>5 DEF SaveCreds, Registered, TypeOK, Typed, hubVars, clockVars
    <2>2. CredsInHand'
      BY <1>5 DEF SaveCreds, Registered, TypeOK, Typed, CredsInHand
    <2> QED BY <2>1, <2>2 DEF TypeOK
  <1>6. CASE \E h \in Handlers : CallHeartbeat(p, h)
    <2>1. PICK h \in Handlers : CallHeartbeat(p, h)
      BY <1>6
    <2>2. /\ Send(p, h, "hb", "verify", mem[p]) /\ "verify" \in BusySteps
          /\ mem[p] \in Creds \cup {None} /\ mem[p] # None
      BY <2>1 DEF CallHeartbeat, BusySteps, HeartbeatSteps, Registered, TypeOK,
                  Typed, CredsInHand
    <2>3. Typed'
      BY <2>1, <2>2, SendTyped DEF CallHeartbeat, TypeOK, Typed, hubVars, clockVars
    <2>4. CredsInHand'
      <3>1. UNCHANGED mem /\ CredsInHand
        BY <2>1 DEF CallHeartbeat, TypeOK
      <3> QED BY <2>2, <3>1, SendTyped DEF CredsInHand
    <2> QED BY <2>3, <2>4 DEF TypeOK
  <1>7. CASE HeartbeatReply(p)
    <2>1. TakeReply(p)
      BY <1>7 DEF HeartbeatReply
    <2>2. Typed'
      BY <1>7, <2>1, TakeTyped DEF HeartbeatReply, AfterHeartbeat, Registered,
         TypeOK, Typed, hubVars, clockVars
    <2>3. \A q \in Pods : pc'[q] \in Registered => mem'[q] # None
      BY <1>7 DEF HeartbeatReply, Registered, TypeOK, Typed, CredsInHand
    <2>4. CredsInHand'
      BY <2>1, <2>3, TakeTyped DEF TypeOK, CredsInHand, HeartbeatSteps
    <2> QED BY <2>2, <2>4 DEF TypeOK
  <1>8. CASE \E h \in Handlers : CallRefresh(p, h)
    <2>1. PICK h \in Handlers : CallRefresh(p, h)
      BY <1>8
    <2>2. /\ Send(p, h, "refresh", "find", mem[p]) /\ "find" \in BusySteps
          /\ mem[p] \in Creds \cup {None} /\ mem[p] # None
      BY <2>1 DEF CallRefresh, BusySteps, Registered, TypeOK, Typed, CredsInHand
    <2>3. Typed'
      BY <2>1, <2>2, SendTyped DEF CallRefresh, TypeOK, Typed, hubVars, clockVars
    <2>4. CredsInHand'
      <3>1. UNCHANGED mem /\ CredsInHand
        BY <2>1 DEF CallRefresh, TypeOK
      <3> QED BY <2>2, <3>1, SendTyped DEF CredsInHand
    <2> QED BY <2>3, <2>4 DEF TypeOK
  <1>9. CASE RefreshReply(p)
    <2>1. TakeReply(p)
      BY <1>9 DEF RefreshReply
    <2>2. mem' \in [Pods -> Creds \cup {None}]
      BY <1>9, <2>1, TakeTyped DEF RefreshReply, Requests, TypeOK, Typed
    <2>3. pc' \in [Pods -> {"down", "boot", "reg"} \cup Registered]
      BY <1>9 DEF RefreshReply, Registered, TypeOK, Typed
    <2>4. Typed'
      BY <1>9, <2>1, <2>2, <2>3, TakeTyped DEF RefreshReply, TypeOK, Typed,
         hubVars, clockVars
    <2>5. req[call[p]].code = "ok" => req[call[p]].creds # None
      BY <2>1, TakeTyped DEF TypeOK, CredsInHand
    <2>6. \A q \in Pods : pc'[q] \in Registered => mem'[q] # None
      BY <1>9, <2>5 DEF RefreshReply, Registered, TypeOK, Typed, CredsInHand
    <2>7. CredsInHand'
      BY <2>1, <2>6, TakeTyped DEF TypeOK, CredsInHand, HeartbeatSteps
    <2> QED BY <2>4, <2>7 DEF TypeOK
  <1>10. CASE ClearCreds(p)
    <2>1. Typed'
      BY <1>h, <1>10 DEF ClearCreds, TypeOK, Typed, hubVars, clockVars
    <2>2. CredsInHand'
      BY <1>10, <1>p DEF ClearCreds, TypeOK, Typed, CredsInHand
    <2> QED BY <2>1, <2>2 DEF TypeOK
  <1> QED
    BY <1>1, <1>2, <1>3, <1>4, <1>5, <1>6, <1>7, <1>8, <1>9, <1>10 DEF PodStep

\* The end of an orphan, minting and the clocks keep it.
LEMMA TypeQuiet ==
    ASSUME TypeOK,
           \/ \E h \in Handlers : OrphanEnds(h)
           \/ \E t \in Tokens : MintBootstrap(t) \/ ExpireToken(t)
           \/ \E s \in 1..issued : ExpireAccess(s) \/ LapseRefresh(s)
           \/ \E p \in Pods : ExpireProof(p)
    PROVE  TypeOK'
  <1>1. CASE \E h \in Handlers : OrphanEnds(h)
    <2>1. PICK h \in Handlers : OrphanEnds(h)
      BY <1>1
    <2>2. Typed'
      BY <2>1, IdleTyped DEF OrphanEnds, TypeOK, Typed, hubVars, clockVars, podVars
    <2>3. CredsInHand'
      BY <2>1, IdleTyped DEF OrphanEnds, TypeOK, Typed, CredsInHand, podVars,
         HeartbeatSteps
    <2> QED BY <2>2, <2>3 DEF TypeOK
  <1>2. CASE \E t \in Tokens : MintBootstrap(t) \/ ExpireToken(t)
    <2>1. Typed'
      BY <1>2 DEF MintBootstrap, ExpireToken, TypeOK, Typed, clockVars, podVars
    <2>2. CredsInHand'
      BY <1>2 DEF MintBootstrap, ExpireToken, TypeOK, CredsInHand, podVars
    <2> QED BY <2>1, <2>2 DEF TypeOK
  <1>3. CASE \/ \E s \in 1..issued : ExpireAccess(s) \/ LapseRefresh(s)
            \/ \E p \in Pods : ExpireProof(p)
    <2>1. Typed'
      <3>1. expired' \subseteq Nat /\ lapsed' \subseteq Nat /\ outdated' \subseteq Pods
        <4>1. CASE \E s \in 1..issued : ExpireAccess(s) \/ LapseRefresh(s)
          <5>1. PICK s \in 1..issued : ExpireAccess(s) \/ LapseRefresh(s)
            BY <4>1
          <5>2. /\ s \in Nat /\ expired \subseteq Nat /\ lapsed \subseteq Nat
                /\ outdated \subseteq Pods
            BY DEF TypeOK, Typed
          <5> QED BY <5>1, <5>2 DEF ExpireAccess, LapseRefresh
        <4>2. CASE \E p \in Pods : ExpireProof(p)
          BY <4>2 DEF ExpireProof, TypeOK, Typed
        <4> QED BY <1>3, <4>1, <4>2
      <3>2. UNCHANGED <<hubVars, req, podVars, faults>>
        BY <1>3 DEF ExpireAccess, LapseRefresh, ExpireProof
      <3> QED BY <3>1, <3>2 DEF TypeOK, Typed, hubVars, podVars
    <2>2. CredsInHand'
      BY <1>3 DEF ExpireAccess, LapseRefresh, ExpireProof, TypeOK, CredsInHand, podVars
    <2> QED BY <2>1, <2>2 DEF TypeOK
  <1> QED
    BY <1>1, <1>2, <1>3

Faulty == \/ \E h \in Handlers : HandlerFails(h)
          \/ \E p \in Pods : LoseCall(p) \/ CrashPod(p) \/ SaveFails(p) \/ ClearFails(p)
          \/ \E p \in Pods, h \in Handlers : LoadFails(p, h)
          \/ \E u, v \in UIDs : RestoreSecret(u, v)
          \/ HubRestart

\* So does every fault.
LEMMA TypeFault ==
    ASSUME TypeOK, Faulty
    PROVE  TypeOK'
  <1> USE DEF ReqTyped
  <1>f. Fault => faults' \in Nat
    BY DEF Fault, TypeOK, Typed
  <1>p. {"boot", "down"} \subseteq {"down", "boot", "reg"} \cup Registered
        /\ "boot" \notin Registered /\ "down" \notin Registered
    BY DEF Registered
  <1>c. {"error", "uid_mismatch"} \subseteq Codes /\ "ok" \notin {"error", "uid_mismatch"}
    BY DEF Codes
  <1>1. CASE \E h \in Handlers : HandlerFails(h)
    <2>1. PICK h \in Handlers : HandlerFails(h)
      BY <1>1
    <2>r. PICK c \in {"error", "uid_mismatch"} : Reply(h, c)
      BY <2>1 DEF HandlerFails
    <2>2. /\ ReqTyped'
          /\ req'[h] = [req[h] EXCEPT !.step = "reply", !.code = c]
          /\ \A g \in Handlers : g # h => req'[g] = req[g]
      BY <2>r, <1>c, ReqReply DEF TypeOK, Typed
    <2>3. Typed'
      BY <1>f, <2>1, <2>2 DEF HandlerFails, TypeOK, Typed, hubVars, clockVars, podVars
    <2>4. CredsInHand'
      <3>1. req'[h].step = "reply" /\ req'[h].code = c
        BY <2>2 DEF TypeOK, Typed, Requests
      <3> QED
        BY <2>1, <2>2, <3>1, <1>c DEF HandlerFails, TypeOK, CredsInHand, podVars,
           HeartbeatSteps
    <2> QED BY <2>3, <2>4 DEF TypeOK
  <1>2. CASE \E p \in Pods : LoseCall(p) \/ CrashPod(p) \/ SaveFails(p) \/ ClearFails(p)
    <2>1. PICK p \in Pods : LoseCall(p) \/ CrashPod(p) \/ SaveFails(p) \/ ClearFails(p)
      BY <1>2
    <2>2. CASE LoseCall(p)
      <3>1. Typed'
        BY <1>f, <2>2 DEF LoseCall, AfterLostCall, Registered, TypeOK, Typed,
           hubVars, clockVars
      <3>2. pc[p] \in {"reg", "hb", "refresh"} /\ (\A q \in Pods : q # p => pc'[q] = pc[q])
            /\ (pc'[p] = "boot" \/ (pc[p] # "reg" /\ pc'[p] = "run"))
        BY <2>2 DEF LoseCall, AfterLostCall, TypeOK, Typed
      <3>3. req' = req /\ mem' = mem
        BY <2>2 DEF LoseCall
      <3>4. {"hb", "refresh"} \subseteq Registered
        BY DEF Registered
      <3> QED BY <3>1, <3>2, <3>3, <3>4, <1>p DEF TypeOK, CredsInHand
    <2>3. CASE CrashPod(p)
      <3>1. Typed'
        BY <1>f, <2>3, <1>p DEF CrashPod, TypeOK, Typed, hubVars, clockVars
      <3>2. CredsInHand'
        BY <2>3, <1>p DEF CrashPod, TypeOK, Typed, CredsInHand
      <3> QED BY <3>1, <3>2 DEF TypeOK
    <2>4. CASE SaveFails(p) \/ ClearFails(p)
      <3>1. Typed'
        BY <1>f, <2>4, <1>p DEF SaveFails, ClearFails, TypeOK, Typed, hubVars, clockVars
      <3>2. CredsInHand'
        BY <2>4, <1>p DEF SaveFails, ClearFails, TypeOK, Typed, CredsInHand
      <3> QED BY <3>1, <3>2 DEF TypeOK
    <2> QED BY <2>1, <2>2, <2>3, <2>4
  <1>3. CASE \E p \in Pods, h \in Handlers : LoadFails(p, h)
    <2>1. PICK p \in Pods, h \in Handlers : LoadFails(p, h)
      BY <1>3
    <2>2. Send(p, h, "reg", "check", None) /\ "check" \in BusySteps
      BY <2>1 DEF LoadFails, BusySteps, RegisterSteps
    <2>3. Typed'
      BY <1>f, <2>1, <2>2, SendTyped DEF LoadFails, TypeOK, Typed, hubVars, clockVars
    <2>4. CredsInHand'
      <3>1. "reg" \notin Registered /\ "check" \notin HeartbeatSteps \cup {"find", "reply"}
        BY DEF Registered, HeartbeatSteps
      <3>2. UNCHANGED mem /\ CredsInHand
        BY <2>1 DEF LoadFails, TypeOK
      <3> QED BY <2>2, <3>1, <3>2, SendTyped DEF CredsInHand
    <2> QED BY <2>3, <2>4 DEF TypeOK
  <1>4. CASE \E u, v \in UIDs : RestoreSecret(u, v)
    <2>1. Typed'
      BY <1>f, <1>4 DEF RestoreSecret, TypeOK, Typed, hubVars, clockVars
    <2>2. CredsInHand'
      BY <1>4 DEF RestoreSecret, TypeOK, CredsInHand
    <2> QED BY <2>1, <2>2 DEF TypeOK
  <1>5. CASE HubRestart
    <2>1. ReqTyped'
      <3>1. \A h \in Handlers :
              [req[h] EXCEPT !.step = "reply", !.code = "error"] \in Requests
        <4>1. "reply" \in Steps /\ \A h \in Handlers : req[h] \in Requests
          BY DEF Steps, TypeOK, Typed
        <4> QED BY <1>c, <4>1 DEF Requests
      <3> QED BY <1>5, <3>1 DEF HubRestart, TypeOK, Typed
    <2>2. Typed'
      BY <1>f, <1>5, <2>1 DEF HubRestart, TypeOK, Typed, hubVars, clockVars, podVars
    <2>3. CredsInHand'
      <3>1. \A h \in Handlers :
              \/ req'[h] = req[h]
              \/ req'[h].step = "reply" /\ req'[h].code = "error"
        <4>1. \A h \in Handlers : req[h] \in Requests
          BY DEF TypeOK, Typed
        <4>2. \A h \in Handlers : req'[h] =
                IF req[h].step \in BusySteps
                THEN [req[h] EXCEPT !.step = "reply", !.code = "error"]
                ELSE req[h]
          BY <1>5 DEF HubRestart
        <4> QED BY <4>1, <4>2 DEF Requests
      <3> QED
        <4>1. UNCHANGED <<pc, mem>> /\ CredsInHand
          BY <1>5 DEF HubRestart, podVars, TypeOK
        <4> QED BY <1>c, <3>1, <4>1 DEF CredsInHand, HeartbeatSteps
    <2> QED BY <2>2, <2>3 DEF TypeOK
  <1> QED
    BY <1>1, <1>2, <1>3, <1>4, <1>5 DEF Faulty

\* Next, grouped as the lemmas are.
LEMMA NextCases ==
    ASSUME Next
    PROVE  \/ \E h \in Handlers : HandlerStep(h)
           \/ \E p \in Pods : PodStep(p)
           \/ \/ \E h \in Handlers : OrphanEnds(h)
              \/ \E t \in Tokens : MintBootstrap(t) \/ ExpireToken(t)
              \/ \E s \in 1..issued : ExpireAccess(s) \/ LapseRefresh(s)
              \/ \E p \in Pods : ExpireProof(p)
           \/ Faulty
  BY DEF Next, Faulty

\* Every step, and stuttering, keeps it.
LEMMA TypeStep ==
    ASSUME TypeOK, [Next]_vars
    PROVE  TypeOK'
  <1>1. CASE Next
    BY <1>1, NextCases, TypeHandler, TypePod, TypeQuiet, TypeFault
  <1>2. CASE UNCHANGED vars
    BY <1>2 DEF vars, hubVars, clockVars, podVars, TypeOK, Typed, CredsInHand
  <1> QED BY <1>1, <1>2

\* The type invariant, with the credentials in hand, holds of every behaviour.
THEOREM TypeCorrect == Spec => []TypeOK
  <1>1. TypeOK /\ [Next]_vars => TypeOK'
    BY TypeStep
  <1> QED BY TypeInit, <1>1, PTL DEF Spec

(***************************************************************************)
(* Single use of a bootstrap token.                                        *)
(***************************************************************************)

\* A step that moves no handler into a granting step and leaves the rows alone.
Aside == /\ UNCHANGED <<epoch, usedBy, credRows>>
         /\ \A h \in Handlers :
               req'[h] = req[h] \/ req'[h].step \notin GrantSteps

\* Such a step keeps what is known about grants.
LEMMA AsideKeeps ==
    ASSUME GrantInv, Aside
    PROVE  (SingleUse /\ SpentForGrant /\ EpochReached)'
  <1>1. SingleUse'
    BY DEF GrantInv, Aside, SingleUse
  <1>2. SpentForGrant'
    BY DEF GrantInv, Aside, SpentForGrant, GrantSteps
  <1>3. EpochReached'
    BY DEF GrantInv, Aside, EpochReached, GrantSteps
  <1> QED BY <1>1, <1>2, <1>3

\* Handler steps other than upsert, re-read, mark and insert are of that kind.
LEMMA HandlersAside ==
    ASSUME TypeOK, NEW h \in Handlers,
           \/ RegisterCheck(h) \/ RegisterLookup(h) \/ HeartbeatVerify(h)
           \/ HeartbeatExpired(h)
           \/ HeartbeatSupersede(h) \/ HeartbeatTouch(h) \/ RefreshFind(h)
    PROVE  Aside
  <1>0. /\ req \in [Handlers -> Requests] /\ req[h] \in Requests
        /\ {"lookup", "upsert", "touch", "supersede", "reply"} \cap GrantSteps = {}
    BY DEF TypeOK, Typed, GrantSteps
  <1> DEFINE Only == /\ \A g \in Handlers : g # h => req'[g] = req[g]
                     /\ req'[h].step \notin GrantSteps
  <1>1. RegisterCheck(h) => Only
    BY <1>0 DEF RegisterCheck, Proceed, Reply, Requests
  <1>2. RegisterLookup(h) => Only
    BY <1>0 DEF RegisterLookup, Requests
  <1>3. HeartbeatVerify(h) \/ HeartbeatExpired(h) => Only
    BY <1>0 DEF HeartbeatVerify, HeartbeatExpired, Proceed, Reply, Requests
  <1>4. HeartbeatSupersede(h) \/ HeartbeatTouch(h) => Only
    BY <1>0 DEF HeartbeatSupersede, HeartbeatTouch, Reply, Requests
  <1>5. RefreshFind(h) => Only
    BY <1>0 DEF RefreshFind, Reply, Requests
  <1>6. UNCHANGED <<epoch, usedBy, credRows>>
    BY DEF RegisterCheck, RegisterLookup, HeartbeatVerify, HeartbeatExpired,
           HeartbeatSupersede, HeartbeatTouch, RefreshFind, hubVars
  <1> QED BY <1>1, <1>2, <1>3, <1>4, <1>5, <1>6 DEF Aside

\* So are all steps of pods and clocks, and all faults.
LEMMA OthersAside ==
    ASSUME TypeOK,
           \/ \E p \in Pods : PodStep(p)
           \/ \/ \E h \in Handlers : OrphanEnds(h)
              \/ \E t \in Tokens : MintBootstrap(t) \/ ExpireToken(t)
              \/ \E s \in 1..issued : ExpireAccess(s) \/ LapseRefresh(s)
              \/ \E p \in Pods : ExpireProof(p)
           \/ Faulty
    PROVE  Aside
  <1>0. /\ req \in [Handlers -> Requests] /\ IdleRequest.step \notin GrantSteps
        /\ {"check", "verify", "find", "reply", "idle"} \cap GrantSteps = {}
        /\ {"check", "verify", "find"} \subseteq BusySteps
    BY IdleTyped DEF TypeOK, Typed, GrantSteps, BusySteps, RegisterSteps,
       HeartbeatSteps
  <1>1. \A p \in Pods, h \in Handlers :
            CallRegister(p, h) \/ CallHeartbeat(p, h) \/ CallRefresh(p, h)
              \/ LoadFails(p, h) => Aside
    <2> SUFFICES ASSUME NEW p \in Pods, NEW h \in Handlers,
                        CallRegister(p, h) \/ CallHeartbeat(p, h)
                          \/ CallRefresh(p, h) \/ LoadFails(p, h)
                 PROVE  Aside
      OBVIOUS
    <2>1. mem[p] \in Creds \cup {None}
      BY DEF TypeOK, Typed
    <2>2. PICK s \in {"check", "verify", "find"}, at \in {"reg", "hb", "refresh"},
               c \in Creds \cup {None} : Send(p, h, at, s, c)
      BY <2>1 DEF CallRegister, CallHeartbeat, CallRefresh, LoadFails
    <2>3. /\ req'[h].step = s /\ \A g \in Handlers : g # h => req'[g] = req[g]
      BY <1>0, <2>2, SendTyped
    <2>4. UNCHANGED <<epoch, usedBy, credRows>>
      BY DEF CallRegister, CallHeartbeat, CallRefresh, LoadFails, hubVars
    <2> QED BY <1>0, <2>3, <2>4 DEF Aside
  <1>2. \A p \in Pods : RegisterReply(p) \/ HeartbeatReply(p) \/ RefreshReply(p) => Aside
    <2> SUFFICES ASSUME NEW p \in Pods,
                        RegisterReply(p) \/ HeartbeatReply(p) \/ RefreshReply(p)
                 PROVE  Aside
      OBVIOUS
    <2>1. TakeReply(p) /\ UNCHANGED <<epoch, usedBy, credRows>>
      BY DEF RegisterReply, HeartbeatReply, RefreshReply, hubVars
    <2>2. /\ req'[call[p]].step = "idle"
          /\ \A g \in Handlers : g # call[p] => req'[g] = req[g]
      BY <2>1, TakeTyped
    <2> QED BY <1>0, <2>1, <2>2 DEF Aside
  <1>3. ASSUME NEW p \in Pods,
               \/ StartPod(p) \/ LoadCreds(p) \/ SaveCreds(p) \/ ClearCreds(p)
               \/ LoseCall(p) \/ CrashPod(p) \/ SaveFails(p) \/ ClearFails(p)
        PROVE  Aside
    BY <1>3 DEF StartPod, LoadCreds, SaveCreds, ClearCreds, LoseCall, CrashPod,
                SaveFails, ClearFails, hubVars, Aside
  <1>4. ASSUME NEW h \in Handlers, OrphanEnds(h) PROVE Aside
    BY <1>0, <1>4 DEF OrphanEnds, hubVars, Aside
  <1>5. ASSUME \/ \E t \in Tokens : MintBootstrap(t) \/ ExpireToken(t)
               \/ \E s \in 1..issued : ExpireAccess(s) \/ LapseRefresh(s)
               \/ \E p \in Pods : ExpireProof(p)
               \/ \E u, v \in UIDs : RestoreSecret(u, v)
        PROVE  Aside
    BY <1>5 DEF MintBootstrap, ExpireToken, ExpireAccess, LapseRefresh, ExpireProof,
                RestoreSecret, hubVars, Aside
  <1>6. ASSUME NEW h \in Handlers, HandlerFails(h) PROVE Aside
    BY <1>0, <1>6 DEF HandlerFails, Reply, Requests, hubVars, Aside
  <1>7. ASSUME HubRestart PROVE Aside
    <2>1. \A h \in Handlers : req[h] \in Requests
      BY <1>0
    <2>2. \A h \in Handlers : req'[h] = req[h] \/ req'[h].step = "reply"
      BY <1>7, <2>1 DEF HubRestart, Requests
    <2>3. UNCHANGED <<epoch, usedBy, credRows>>
      BY <1>7 DEF HubRestart, hubVars
    <2> QED BY <1>0, <2>2, <2>3 DEF Aside
  <1> QED
    BY <1>1, <1>2, <1>3, <1>4, <1>5, <1>6, <1>7 DEF PodStep, Faulty

\* The four granting steps keep it: the upsert only raises an epoch, the
\* re-read reads a reached one, the mark spends a token nobody had spent, and
\* the insert grants on a token spent for it.
LEMMA GrantStepsKeep ==
    ASSUME GrantInv, NEW h \in Handlers,
           \/ RegisterUpsert(h) \/ RegisterReread(h)
           \/ RegisterMark(h) \/ RegisterInsert(h)
    PROVE  (SingleUse /\ SpentForGrant /\ EpochReached)'
  <1>0. /\ req \in [Handlers -> Requests] /\ req[h] \in Requests
        /\ epoch \in [UIDs -> Nat] /\ usedBy \in [Tokens -> UIDs \cup {None}]
        /\ credRows \subseteq CredRows /\ None \notin UIDs /\ SA \notin Tokens
        /\ \A g \in Handlers : req[g].uid \in UIDs /\ req[g].jti \in Tokens \cup {SA}
                               /\ req[g].epoch \in Nat
    BY ConstantsAssumption DEF GrantInv, TypeOK, Typed, Requests, Jtis
  <1>i. SingleUse /\ SpentForGrant /\ EpochReached
    BY DEF GrantInv
  <1>1. CASE RegisterUpsert(h)
    <2>1. /\ UNCHANGED <<usedBy, credRows>>
          /\ req' = [req EXCEPT ![h].step = "reread"]
          /\ epoch' = [epoch EXCEPT ![req[h].uid] = epoch[req[h].uid] + 1]
      <3>1. /\ UNCHANGED <<usedBy, credRows>> /\ Proceed(h, "reread")
            /\ epoch' = [epoch EXCEPT ![req[h].uid] =
                            UpsertedEpoch(epoch[req[h].uid], req[h].epoch)]
        BY <1>1 DEF RegisterUpsert
      <3>2. UpsertedEpoch(epoch[req[h].uid], req[h].epoch) = epoch[req[h].uid] + 1
        BY <1>0 DEF UpsertedEpoch
      <3> QED BY <3>1, <3>2 DEF Proceed
    <2>2. \A g \in Handlers : /\ g # h => req'[g] = req[g]
                              /\ req'[h].step = "reread" /\ req'[h].uid = req[h].uid
      BY <1>0, <2>1 DEF Requests
    <2>3. \A u \in UIDs : epoch'[u] \in Nat /\ epoch'[u] >= epoch[u]
      BY <1>0, <2>1
    <2>4. epoch'[req[h].uid] >= 1
      BY <1>0, <2>1
    <2>5. EpochReached'
      <3>1. ASSUME NEW g \in Handlers, g # h, req'[g].step \in GrantSteps
            PROVE  /\ epoch'[req'[g].uid] >= 1
                   /\ req'[g].step # "reread" => req'[g].epoch \in 1..epoch'[req'[g].uid]
        BY <1>0, <1>i, <2>2, <2>3, <3>1 DEF EpochReached
      <3> QED BY <2>2, <2>4, <3>1 DEF EpochReached
    <2> QED BY <1>i, <2>1, <2>2, <2>5 DEF SingleUse, SpentForGrant
  <1>2. CASE RegisterReread(h)
    <2>1. /\ UNCHANGED <<epoch, usedBy, credRows>>
          /\ req' = [req EXCEPT ![h].step = "mark", ![h].epoch = epoch[req[h].uid]]
      BY <1>2 DEF RegisterReread, hubVars
    <2>2. /\ \A g \in Handlers : g # h => req'[g] = req[g]
          /\ req'[h].step = "mark" /\ req'[h].uid = req[h].uid
          /\ req'[h].epoch = epoch[req[h].uid]
      BY <1>0, <2>1 DEF Requests
    <2>3. epoch[req[h].uid] >= 1
      BY <1>2, <1>i DEF RegisterReread, EpochReached, GrantSteps
    <2> QED BY <1>0, <1>i, <2>1, <2>2, <2>3 DEF SingleUse, SpentForGrant, EpochReached
  <1>3. CASE RegisterMark(h)
    <2>0. UNCHANGED <<epoch, credRows>> /\ req[h].step = "mark"
      BY <1>3 DEF RegisterMark
    <2>1. CASE Reply(h, "token_used") /\ UNCHANGED usedBy
      <3>1. Aside
        BY <1>0, <2>0, <2>1 DEF Reply, Requests, Aside, GrantSteps
      <3> QED BY <3>1, AsideKeeps
    <2>2. CASE Proceed(h, "insert") /\
               \/ req[h].jti = SA /\ UNCHANGED usedBy
               \/ /\ req[h].jti # SA /\ usedBy[req[h].jti] = None
                  /\ usedBy' = [usedBy EXCEPT ![req[h].jti] = req[h].uid]
      <3>1. /\ \A g \in Handlers : g # h => req'[g] = req[g]
            /\ req'[h].step = "insert" /\ req'[h].uid = req[h].uid
            /\ req'[h].jti = req[h].jti /\ req'[h].epoch = req[h].epoch
        BY <1>0, <2>2 DEF Proceed, Requests
      <3>2. EpochReached'
        <4>1. \A g \in Handlers : /\ req'[g].uid = req[g].uid
                                  /\ req'[g].epoch = req[g].epoch
                                  /\ req'[g].step \in GrantSteps => req[g].step \in GrantSteps
                                  /\ req'[g].step # "reread" => req[g].step # "reread"
          BY <2>0, <3>1 DEF GrantSteps
        <4> QED BY <1>i, <2>0, <4>1 DEF EpochReached
      <3>3. CASE req[h].jti = SA /\ UNCHANGED usedBy
        BY <1>i, <2>0, <3>1, <3>2, <3>3 DEF SingleUse, SpentForGrant
      <3>4. CASE /\ req[h].jti # SA /\ usedBy[req[h].jti] = None
                 /\ usedBy' = [usedBy EXCEPT ![req[h].jti] = req[h].uid]
        <4>1. \A r \in credRows : r.jti # req[h].jti
          BY <1>0, <1>i, <3>4 DEF SingleUse, CredRows
        <4>2. \A g \in Handlers : req[g].step = "insert" => req[g].jti # req[h].jti
          BY <1>0, <1>i, <3>4 DEF SpentForGrant
        <4>3. SingleUse'
          BY <1>0, <1>i, <2>0, <3>4, <4>1 DEF SingleUse, CredRows, Jtis
        <4>4. SpentForGrant'
          BY <1>0, <1>i, <2>0, <3>1, <3>4, <4>1, <4>2 DEF SpentForGrant
        <4> QED BY <3>2, <4>3, <4>4
      <3> QED BY <2>2, <3>3, <3>4
    <2> QED BY <1>3, <2>1, <2>2 DEF RegisterMark, Markable
  <1>4. CASE RegisterInsert(h)
    <2> DEFINE row == [serial |-> issued + 1, cluster |-> req[h].uid,
                       epoch |-> req[h].epoch, jti |-> req[h].jti]
    <2>1. /\ UNCHANGED <<epoch, usedBy>> /\ credRows' = credRows \cup {row}
          /\ req[h].step = "insert"
      BY <1>4 DEF RegisterInsert
    <2>2. /\ \A g \in Handlers : g # h => req'[g] = req[g]
          /\ req'[h].step = "reply"
      BY <1>0, <1>4 DEF RegisterInsert, Requests
    <2>3. row.cluster = req[h].uid /\ row.jti = req[h].jti
      OBVIOUS
    <2> HIDE DEF row
    <2>4. SingleUse'
      BY <1>i, <2>1, <2>3 DEF SingleUse, SpentForGrant
    <2>5. SpentForGrant'
      BY <1>i, <2>1, <2>2, <2>3 DEF SpentForGrant
    <2>6. EpochReached'
      BY <1>i, <2>1, <2>2 DEF EpochReached, GrantSteps
    <2> QED BY <2>4, <2>5, <2>6
  <1> QED BY <1>1, <1>2, <1>3, <1>4

\* The inductive invariant.
LEMMA GrantStep == GrantInv /\ [Next]_vars => GrantInv'
  <1> SUFFICES ASSUME GrantInv, [Next]_vars PROVE GrantInv'
    OBVIOUS
  <1>0. TypeOK
    BY DEF GrantInv
  <1>1. TypeOK'
    BY <1>0, TypeStep
  <1>2. CASE UNCHANGED vars
    <2>1. Aside
      BY <1>2 DEF vars, hubVars, Aside
    <2> QED BY <1>1, <2>1, AsideKeeps DEF GrantInv
  <1>3. CASE Next
    <2>1. CASE \E h \in Handlers : HandlerStep(h)
      <3>1. PICK h \in Handlers : HandlerStep(h)
        BY <2>1
      <3>2. CASE \/ RegisterUpsert(h) \/ RegisterReread(h)
                 \/ RegisterMark(h) \/ RegisterInsert(h)
        BY <1>1, <3>2, GrantStepsKeep DEF GrantInv
      <3>3. CASE \/ RegisterCheck(h) \/ RegisterLookup(h) \/ HeartbeatVerify(h)
                 \/ HeartbeatExpired(h)
                 \/ HeartbeatSupersede(h) \/ HeartbeatTouch(h) \/ RefreshFind(h)
        BY <1>0, <1>1, <3>3, HandlersAside, AsideKeeps DEF GrantInv
      <3> QED BY <3>1, <3>2, <3>3 DEF HandlerStep
    <2>2. CASE ~ \E h \in Handlers : HandlerStep(h)
      BY <1>0, <1>1, <1>3, <2>2, NextCases, OthersAside, AsideKeeps DEF GrantInv
    <2> QED BY <2>1, <2>2
  <1> QED BY <1>2, <1>3

\* It holds at the start.
LEMMA GrantInit == Init => GrantInv
  BY TypeInit, IdleTyped
     DEF Init, GrantInv, SingleUse, SpentForGrant, EpochReached, GrantSteps

\* However many registrations present a bootstrap token at once, and whatever
\* crashes or is lost, it buys at most one credential.
THEOREM TokensAreSingleUse == Spec => []SingleUse
  <1>1. GrantInv => SingleUse
    BY DEF GrantInv
  <1> QED BY GrantInit, GrantStep, <1>1, PTL DEF Spec

(***************************************************************************)
(* Epochs.                                                                 *)
(***************************************************************************)

\* No step of the hub, of a pod or of the environment lowers an epoch or drops
\* a row: only the upsert writes an epoch, and it adds one.
LEMMA EpochsOnlyGrow ==
    ASSUME TypeOK, [Next]_vars
    PROVE  /\ \A u \in UIDs : epoch'[u] >= epoch[u]
           /\ credRows \subseteq credRows'
  <1>0. epoch \in [UIDs -> Nat] /\ \A h \in Handlers : req[h].uid \in UIDs
    BY DEF TypeOK, Typed, Requests
  <1>1. CASE \E h \in Handlers : HandlerStep(h)
    <2>1. PICK h \in Handlers : HandlerStep(h)
      BY <1>1
    <2>2. CASE RegisterUpsert(h)
      <3>1. /\ UNCHANGED credRows
            /\ epoch' = [epoch EXCEPT ![req[h].uid] =
                            UpsertedEpoch(epoch[req[h].uid], req[h].epoch)]
        BY <2>2 DEF RegisterUpsert
      <3>2. UpsertedEpoch(epoch[req[h].uid], req[h].epoch) = epoch[req[h].uid] + 1
        BY <1>0 DEF UpsertedEpoch
      <3> QED BY <1>0, <3>1, <3>2
    <2>3. CASE RegisterReread(h) \/ RegisterMark(h) \/ RegisterInsert(h)
      <3>1. UNCHANGED epoch /\ credRows \subseteq credRows'
        BY <2>3 DEF RegisterReread, RegisterMark, RegisterInsert, hubVars
      <3> QED BY <1>0, <3>1
    <2>4. CASE \/ RegisterCheck(h) \/ RegisterLookup(h) \/ HeartbeatVerify(h)
               \/ HeartbeatExpired(h)
               \/ HeartbeatSupersede(h) \/ HeartbeatTouch(h) \/ RefreshFind(h)
      BY <1>0, <2>4, HandlersAside DEF Aside
    <2> QED BY <2>1, <2>2, <2>3, <2>4 DEF HandlerStep
  <1>2. CASE Next /\ ~ \E h \in Handlers : HandlerStep(h)
    BY <1>0, <1>2, NextCases, OthersAside DEF Aside
  <1>3. CASE UNCHANGED vars
    BY <1>0, <1>3 DEF vars, hubVars
  <1> QED BY <1>1, <1>2, <1>3

\* A credential that has been rotated out never becomes current again.
THEOREM RotationIsFinal == Spec => NoRevival
  <1>1. TypeOK /\ [Next]_vars => [\A r \in credRows : Rotated(r) => Rotated(r)']_vars
    <2> SUFFICES ASSUME TypeOK, [Next]_vars, NEW r \in credRows, Rotated(r)
                 PROVE  Rotated(r)'
      OBVIOUS
    <2>1. epoch'[r.cluster] >= epoch[r.cluster]
      BY EpochsOnlyGrow DEF TypeOK, Typed, CredRows
    <2>2. /\ r.epoch \in Nat /\ epoch[r.cluster] \in Nat
          /\ epoch'[r.cluster] \in Nat
      <3>1. TypeOK'
        BY TypeStep
      <3> QED BY <3>1 DEF TypeOK, Typed, CredRows
    <2> QED BY <2>1, <2>2 DEF Rotated
  <1> QED BY TypeCorrect, <1>1, PTL DEF Spec, NoRevival

(***************************************************************************)
(* A registration outranks what was granted before it was sent, and a      *)
(* rotated-out credential is not acknowledged.                             *)
(***************************************************************************)

\* Rows are numbered in the order of issue, each with a serial of its own, and
\* none is granted at an epoch its cluster has not reached.
RowsKnown ==
    \A r \in credRows :
        /\ r.serial <= issued
        /\ r.epoch <= epoch[r.cluster]
        /\ \A s \in credRows : s.serial = r.serial => s = r

\* What a handler remembers of the serial counter is no more than its value.
SentEarlier == \A h \in Handlers : req[h].began <= issued

\* The rows of cluster u that existed when the request of handler h was sent.
Older(h, u) == {r \in credRows : r.cluster = u /\ r.serial <= req[h].began}

\* RegistrationRevokes at each step of a registration: the upsert outranks the
\* older rows, and the epoch that is read again after it still does.
Outranks ==
    \A h \in Handlers :
        /\ req[h].step = "reread" =>
              \A r \in Older(h, req[h].uid) : r.epoch < epoch[req[h].uid]
        /\ req[h].step \in {"mark", "insert"} =>
              \A r \in Older(h, req[h].uid) : r.epoch < req[h].epoch

RankInv == GrantInv /\ RowsKnown /\ SentEarlier /\ Outranks /\ RotatedOutNotAcked

\* A step that grants nothing: what it changes of a handler neither brings it
\* into a granting step nor, unless the epochs agree, to an acknowledgement.
Calm == /\ UNCHANGED <<epoch, credRows>>
        /\ issued' >= issued
        /\ \A h \in Handlers :
              \/ req'[h] = req[h]
              \/ /\ req'[h].step \notin GrantSteps
                 /\ req'[h].began <= issued'
                 /\ req'[h].step = "touch" =>
                       req'[h].creds.epoch = epoch[req'[h].creds.cluster]

\* Such a step keeps the ranks: the epoch of a credential about to be
\* acknowledged is its cluster's, which no row is beyond.
LEMMA CalmKeeps ==
    ASSUME RankInv, TypeOK', Calm
    PROVE  (RowsKnown /\ SentEarlier /\ Outranks /\ RotatedOutNotAcked)'
  <1>0. /\ RowsKnown /\ SentEarlier /\ Outranks /\ RotatedOutNotAcked
        /\ issued \in Nat /\ issued' \in Nat /\ credRows \subseteq CredRows
        /\ \A h \in Handlers : req[h].began \in Nat
        /\ UNCHANGED <<epoch, credRows>> /\ issued' >= issued
    BY DEF RankInv, GrantInv, TypeOK, Typed, Requests, Calm
  <1>1. RowsKnown'
    BY <1>0 DEF RowsKnown, CredRows
  <1>2. SentEarlier'
    BY <1>0 DEF Calm, SentEarlier
  <1>3. Outranks'
    BY <1>0 DEF Calm, Outranks, Older, GrantSteps
  <1>4. RotatedOutNotAcked'
    <2> SUFFICES ASSUME NEW h \in Handlers, req'[h].step = "touch",
                        NEW r \in credRows, r.cluster = req'[h].creds.cluster,
                        r.serial <= req'[h].began
                 PROVE  r.epoch <= req'[h].creds.epoch
      BY <1>0 DEF RotatedOutNotAcked
    <2>1. CASE req'[h] = req[h]
      BY <1>0, <2>1 DEF RotatedOutNotAcked
    <2>2. CASE req'[h] # req[h]
      <3>1. req'[h].creds.epoch = epoch[r.cluster]
        BY <2>2 DEF Calm
      <3>2. r.epoch <= epoch[r.cluster]
        BY <1>0 DEF RowsKnown
      <3> QED BY <3>1, <3>2
    <2> QED BY <2>1, <2>2
  <1> QED BY <1>1, <1>2, <1>3, <1>4

\* Handler steps other than the four granting ones are calm.
LEMMA HandlersCalm ==
    ASSUME TypeOK, SentEarlier, NEW h \in Handlers,
           \/ RegisterCheck(h) \/ RegisterLookup(h) \/ HeartbeatVerify(h)
           \/ HeartbeatExpired(h)
           \/ HeartbeatSupersede(h) \/ HeartbeatTouch(h) \/ RefreshFind(h)
    PROVE  Calm
  <1>0. /\ req \in [Handlers -> Requests] /\ req[h] \in Requests
        /\ issued \in Nat /\ req[h].began \in Nat /\ req[h].began <= issued
    BY DEF TypeOK, Typed, SentEarlier, Requests
  <1>a. UNCHANGED <<epoch, credRows>>
    BY HandlersAside DEF Aside
  <1> DEFINE Only == /\ issued' \in {issued, issued + 1}
                     /\ \A g \in Handlers : g # h => req'[g] = req[g]
                     /\ req'[h].step \notin GrantSteps
                     /\ req'[h].began = req[h].began
                     /\ req'[h].step = "touch" =>
                          req'[h].creds.epoch = epoch[req'[h].creds.cluster]
  <1>1. RegisterCheck(h) => Only
    BY <1>0 DEF RegisterCheck, Proceed, Reply, Requests, GrantSteps, hubVars
  <1>2. RegisterLookup(h) => Only
    BY <1>0 DEF RegisterLookup, Requests, GrantSteps, hubVars
  <1>3. HeartbeatVerify(h) => Only
    <2> SUFFICES ASSUME HeartbeatVerify(h) PROVE Only
      OBVIOUS
    <2>1. UNCHANGED issued
      BY DEF HeartbeatVerify, hubVars
    <2>2. CASE Proceed(h, "touch") /\ HeartbeatVerdict(req[h].creds, req[h].uid) = "ok"
      <3>1. req[h].creds.epoch = epoch[req[h].creds.cluster]
        BY <2>2, ConstantsAssumption DEF HeartbeatVerdict
      <3>2. /\ \A g \in Handlers : g # h => req'[g] = req[g]
            /\ req'[h].step = "touch" /\ req'[h].began = req[h].began
            /\ req'[h].creds = req[h].creds
        BY <1>0, <2>2 DEF Proceed, Requests
      <3> QED BY <1>a, <2>1, <3>1, <3>2 DEF GrantSteps
    <2>3. CASE Proceed(h, "supersede") \/ \E c \in Unauthorized : Reply(h, c)
      BY <1>0, <2>1, <2>3 DEF Proceed, Reply, Requests, GrantSteps
    <2> QED BY <2>2, <2>3 DEF HeartbeatVerify
  <1>4. HeartbeatExpired(h) \/ HeartbeatSupersede(h) \/ HeartbeatTouch(h) => Only
    BY <1>0 DEF HeartbeatExpired, HeartbeatSupersede, HeartbeatTouch, Reply, Requests,
       GrantSteps, hubVars
  <1>5. RefreshFind(h) => Only
    BY <1>0 DEF RefreshFind, Reply, Requests, GrantSteps
  <1>6. Only
    BY <1>1, <1>2, <1>3, <1>4, <1>5
  <1>7. issued' >= issued /\ req'[h].began <= issued'
    BY <1>0, <1>6
  <1> QED BY <1>a, <1>6, <1>7 DEF Calm

\* So are all steps of pods and clocks, and all faults: the calls they make
\* start with a check, a verification or a search.
LEMMA OthersCalm ==
    ASSUME TypeOK, SentEarlier,
           \/ \E p \in Pods : PodStep(p)
           \/ \/ \E h \in Handlers : OrphanEnds(h)
              \/ \E t \in Tokens : MintBootstrap(t) \/ ExpireToken(t)
              \/ \E s \in 1..issued : ExpireAccess(s) \/ LapseRefresh(s)
              \/ \E p \in Pods : ExpireProof(p)
           \/ Faulty
    PROVE  Calm
  <1> DEFINE Only == \A g \in Handlers :
                        \/ req'[g] = req[g]
                        \/ /\ req'[g].step \notin GrantSteps \cup {"touch"}
                           /\ req'[g].began <= issued
  <1>0. /\ req \in [Handlers -> Requests] /\ issued \in Nat
        /\ IdleRequest.step \notin GrantSteps \cup {"touch"}
        /\ IdleRequest.began <= issued
        /\ {"check", "verify", "find", "reply", "idle"}
              \cap (GrantSteps \cup {"touch"}) = {}
        /\ {"check", "verify", "find"} \subseteq BusySteps
        /\ \A g \in Handlers : req[g] \in Requests /\ req[g].began <= issued
    <2>1. issued \in Nat /\ IdleRequest.step = "idle" /\ IdleRequest.began = 0
      BY DEF TypeOK, Typed, IdleRequest
    <2> QED
      BY <2>1 DEF TypeOK, Typed, GrantSteps, BusySteps, RegisterSteps,
         HeartbeatSteps, SentEarlier
  <1>a. UNCHANGED <<epoch, credRows>>
    BY OthersAside DEF Aside
  <1>b. UNCHANGED issued
    BY DEF PodStep, StartPod, LoadCreds, CallRegister, RegisterReply, SaveCreds,
       CallHeartbeat, HeartbeatReply, CallRefresh, RefreshReply, ClearCreds,
       OrphanEnds, MintBootstrap, ExpireToken, ExpireAccess, LapseRefresh, ExpireProof,
       Faulty, HandlerFails, LoseCall, CrashPod, SaveFails, ClearFails, LoadFails,
       RestoreSecret, HubRestart, hubVars
  <1>1. \A p \in Pods, h \in Handlers :
            CallRegister(p, h) \/ CallHeartbeat(p, h) \/ CallRefresh(p, h)
              \/ LoadFails(p, h) => Only
    <2> SUFFICES ASSUME NEW p \in Pods, NEW h \in Handlers,
                        CallRegister(p, h) \/ CallHeartbeat(p, h)
                          \/ CallRefresh(p, h) \/ LoadFails(p, h)
                 PROVE  Only
      OBVIOUS
    <2>1. mem[p] \in Creds \cup {None}
      BY DEF TypeOK, Typed
    <2>2. PICK s \in {"check", "verify", "find"}, at \in {"reg", "hb", "refresh"},
               c \in Creds \cup {None} : Send(p, h, at, s, c)
      BY <2>1 DEF CallRegister, CallHeartbeat, CallRefresh, LoadFails
    <2>3. /\ req'[h].step = s /\ req'[h].began = issued
          /\ \A g \in Handlers : g # h => req'[g] = req[g]
      BY <1>0, <2>2, SendTyped
    <2> QED BY <1>0, <2>3
  <1>2. \A p \in Pods : RegisterReply(p) \/ HeartbeatReply(p) \/ RefreshReply(p) => Only
    <2> SUFFICES ASSUME NEW p \in Pods,
                        RegisterReply(p) \/ HeartbeatReply(p) \/ RefreshReply(p)
                 PROVE  Only
      OBVIOUS
    <2>1. TakeReply(p)
      BY DEF RegisterReply, HeartbeatReply, RefreshReply
    <2> QED BY <1>0, <2>1, TakeTyped
  <1>3. ASSUME NEW p \in Pods,
               \/ StartPod(p) \/ LoadCreds(p) \/ SaveCreds(p) \/ ClearCreds(p)
               \/ LoseCall(p) \/ CrashPod(p) \/ SaveFails(p) \/ ClearFails(p)
        PROVE  Only
    BY <1>3 DEF StartPod, LoadCreds, SaveCreds, ClearCreds, LoseCall, CrashPod,
                SaveFails, ClearFails
  <1>4. ASSUME NEW h \in Handlers, OrphanEnds(h) PROVE Only
    BY <1>0, <1>4 DEF OrphanEnds
  <1>5. ASSUME \/ \E t \in Tokens : MintBootstrap(t) \/ ExpireToken(t)
               \/ \E s \in 1..issued : ExpireAccess(s) \/ LapseRefresh(s)
               \/ \E p \in Pods : ExpireProof(p)
               \/ \E u, v \in UIDs : RestoreSecret(u, v)
        PROVE  Only
    BY <1>5 DEF MintBootstrap, ExpireToken, ExpireAccess, LapseRefresh, ExpireProof,
                RestoreSecret
  <1>6. ASSUME NEW h \in Handlers, HandlerFails(h) PROVE Only
    BY <1>0, <1>6 DEF HandlerFails, Reply, Requests
  <1>7. ASSUME HubRestart PROVE Only
    <2>1. \A h \in Handlers :
             \/ req'[h] = req[h]
             \/ req'[h].step = "reply" /\ req'[h].began = req[h].began
      BY <1>0, <1>7 DEF HubRestart, Requests
    <2> QED BY <1>0, <2>1
  <1>8. Only
    BY <1>1, <1>2, <1>3, <1>4, <1>5, <1>6, <1>7 DEF PodStep, Faulty
  <1> QED BY <1>0, <1>a, <1>b, <1>8 DEF Calm

\* The four granting steps keep it too.  The upsert puts its cluster above every
\* row there is; re-reading and marking change nothing a row is compared with; a
\* new row is younger than every request under way.
LEMMA RankStepsKeep ==
    ASSUME RankInv, NEW h \in Handlers,
           \/ RegisterUpsert(h) \/ RegisterReread(h)
           \/ RegisterMark(h) \/ RegisterInsert(h)
    PROVE  (RowsKnown /\ SentEarlier /\ Outranks /\ RotatedOutNotAcked)'
  <1>0. /\ RowsKnown /\ SentEarlier /\ Outranks /\ RotatedOutNotAcked
        /\ TypeOK /\ EpochReached
        /\ req \in [Handlers -> Requests] /\ req[h] \in Requests
        /\ epoch \in [UIDs -> Nat] /\ issued \in Nat /\ credRows \subseteq CredRows
        /\ \A g \in Handlers : /\ req[g].uid \in UIDs /\ req[g].epoch \in Nat
                               /\ req[g].began \in Nat
    BY DEF RankInv, GrantInv, TypeOK, Typed, Requests
  <1>r. \A r \in credRows : r.epoch \in Nat /\ r.serial \in Nat /\ r.cluster \in UIDs
    BY <1>0 DEF CredRows
  <1>1. CASE RegisterUpsert(h)
    <2>1. /\ UNCHANGED <<credRows, issued>> /\ Proceed(h, "reread")
          /\ epoch' = [epoch EXCEPT ![req[h].uid] =
                          UpsertedEpoch(epoch[req[h].uid], req[h].epoch)]
      BY <1>1 DEF RegisterUpsert
    <2>2. UpsertedEpoch(epoch[req[h].uid], req[h].epoch) = epoch[req[h].uid] + 1
      BY <1>0 DEF UpsertedEpoch
    <2>3. /\ epoch'[req[h].uid] = epoch[req[h].uid] + 1
          /\ \A u \in UIDs : epoch'[u] \in Nat /\ epoch[u] \in Nat /\ epoch'[u] >= epoch[u]
      BY <1>0, <2>1, <2>2
    <2>4. /\ \A g \in Handlers : g # h => req'[g] = req[g]
          /\ req'[h].step = "reread" /\ req'[h].uid = req[h].uid
          /\ req'[h].began = req[h].began
      BY <1>0, <2>1 DEF Proceed, Requests
    <2>5. RowsKnown'
      BY <1>0, <1>r, <2>1, <2>3 DEF RowsKnown
    <2>6. SentEarlier'
      BY <1>0, <2>1, <2>4 DEF SentEarlier
    <2>7. Outranks'
      <3>1. ASSUME NEW r \in Older(h, req[h].uid)
            PROVE  r.epoch < epoch'[req[h].uid]
        <4>1. /\ r.epoch <= epoch[req[h].uid] /\ r.epoch \in Nat
              /\ epoch[req[h].uid] \in Nat
          BY <1>0, <1>r DEF RowsKnown, Older
        <4> QED BY <2>3, <4>1
      <3>2. ASSUME NEW g \in Handlers, g # h
            PROVE  /\ req'[g].step = "reread" =>
                        \A r \in Older(g, req[g].uid) : r.epoch < epoch'[req[g].uid]
                   /\ req'[g].step \in {"mark", "insert"} =>
                        \A r \in Older(g, req[g].uid) : r.epoch < req'[g].epoch
        BY <1>0, <1>r, <2>3, <2>4, <3>2 DEF Outranks, Older
      <3>3. \A g \in Handlers : \A u : Older(g, u)' = Older(g, u)
        BY <2>1, <2>4 DEF Older
      <3> QED BY <2>4, <3>1, <3>2, <3>3 DEF Outranks
    <2>8. RotatedOutNotAcked'
      BY <1>0, <2>1, <2>4 DEF RotatedOutNotAcked
    <2> QED BY <2>5, <2>6, <2>7, <2>8
  <1>2. CASE RegisterReread(h) \/ RegisterMark(h)
    <2>1. /\ UNCHANGED <<epoch, credRows, issued>>
          /\ \A g \in Handlers : g # h => req'[g] = req[g]
          /\ req'[h].uid = req[h].uid /\ req'[h].began = req[h].began
          /\ req'[h].step \in {"mark", "insert", "reply"}
          /\ \/ req[h].step = "reread" /\ req'[h].epoch = epoch[req[h].uid]
             \/ req[h].step = "mark" /\ req'[h].epoch = req[h].epoch
      <3>1. CASE RegisterReread(h)
        BY <1>0, <3>1 DEF RegisterReread, Requests, hubVars
      <3>2. CASE RegisterMark(h)
        BY <1>0, <3>2 DEF RegisterMark, Proceed, Reply, Requests
      <3> QED BY <1>2, <3>1, <3>2
    <2>2. RowsKnown' /\ SentEarlier'
      BY <1>0, <2>1 DEF RowsKnown, SentEarlier
    <2>3. Outranks'
      <3>1. \A g \in Handlers : \A u : Older(g, u)' = Older(g, u)
        BY <2>1 DEF Older
      <3>2. \A r \in Older(h, req[h].uid) : r.epoch < req'[h].epoch
        BY <1>0, <2>1 DEF Outranks
      <3> QED BY <1>0, <2>1, <3>1, <3>2 DEF Outranks
    <2>4. RotatedOutNotAcked'
      BY <1>0, <2>1 DEF RotatedOutNotAcked
    <2> QED BY <2>2, <2>3, <2>4
  <1>3. CASE RegisterInsert(h)
    <2> DEFINE row == [serial |-> issued + 1, cluster |-> req[h].uid,
                       epoch |-> req[h].epoch, jti |-> req[h].jti]
    <2>1. /\ UNCHANGED epoch /\ credRows' = credRows \cup {row}
          /\ issued' = issued + 1 /\ req[h].step = "insert"
      BY <1>3 DEF RegisterInsert
    <2>2. /\ \A g \in Handlers : g # h => req'[g] = req[g]
          /\ req'[h].step = "reply" /\ req'[h].began = req[h].began
      BY <1>0, <1>3 DEF RegisterInsert, Requests
    <2>3. /\ row.serial = issued + 1 /\ row.cluster = req[h].uid
          /\ row.epoch = req[h].epoch /\ row.epoch <= epoch[row.cluster]
      <3>1. req[h].epoch \in 1..epoch[req[h].uid]
        BY <1>0, <2>1 DEF EpochReached, GrantSteps
      <3> QED BY <1>0, <3>1
    <2> HIDE DEF row
    <2>4. RowsKnown'
      BY <1>0, <1>r, <2>1, <2>3 DEF RowsKnown
    <2>5. SentEarlier'
      BY <1>0, <2>1, <2>2 DEF SentEarlier
    <2>6. \A g \in Handlers : ~(row.serial <= req[g].began)
      BY <1>0, <2>3 DEF SentEarlier
    <2>7. Outranks'
      <3>1. \A g \in Handlers : \A u : Older(g, u)' = Older(g, u)
        BY <2>1, <2>2, <2>6 DEF Older
      <3> QED BY <1>0, <2>1, <2>2, <3>1 DEF Outranks
    <2>8. RotatedOutNotAcked'
      BY <1>0, <2>1, <2>2, <2>6 DEF RotatedOutNotAcked
    <2> QED BY <2>4, <2>5, <2>7, <2>8
  <1> QED BY <1>1, <1>2, <1>3

\* The inductive invariant.
LEMMA RankStep == RankInv /\ [Next]_vars => RankInv'
  <1> SUFFICES ASSUME RankInv, [Next]_vars PROVE RankInv'
    OBVIOUS
  <1>0. GrantInv /\ TypeOK /\ SentEarlier
    BY DEF RankInv, GrantInv
  <1>1. GrantInv' /\ TypeOK'
    BY <1>0, GrantStep DEF GrantInv
  <1>2. CASE UNCHANGED vars
    <2>1. Calm
      BY <1>0, <1>2 DEF vars, hubVars, Calm, TypeOK, Typed
    <2> QED BY <1>1, <2>1, CalmKeeps DEF RankInv
  <1>3. CASE \E h \in Handlers : HandlerStep(h)
    <2>1. PICK h \in Handlers : HandlerStep(h)
      BY <1>3
    <2>2. CASE \/ RegisterUpsert(h) \/ RegisterReread(h)
               \/ RegisterMark(h) \/ RegisterInsert(h)
      BY <1>1, <2>2, RankStepsKeep DEF RankInv
    <2>3. CASE \/ RegisterCheck(h) \/ RegisterLookup(h) \/ HeartbeatVerify(h)
               \/ HeartbeatExpired(h)
               \/ HeartbeatSupersede(h) \/ HeartbeatTouch(h) \/ RefreshFind(h)
      BY <1>0, <1>1, <2>3, HandlersCalm, CalmKeeps DEF RankInv
    <2> QED BY <2>1, <2>2, <2>3 DEF HandlerStep
  <1>4. CASE Next /\ ~ \E h \in Handlers : HandlerStep(h)
    BY <1>0, <1>1, <1>4, NextCases, OthersCalm, CalmKeeps DEF RankInv
  <1> QED BY <1>2, <1>3, <1>4

\* It holds at the start.
LEMMA RankInit == Init => RankInv
  BY GrantInit, IdleTyped
     DEF Init, RankInv, RowsKnown, SentEarlier, Outranks, RotatedOutNotAcked,
         IdleRequest

\* Whatever interleaves between its four statements, a registration is granted
\* an epoch above every credential its cluster had when it was sent.
THEOREM RegistrationsRevoke == Spec => []RegistrationRevokes
  <1>1. RankInv => RegistrationRevokes
    BY DEF RankInv, Outranks, Older, RegistrationRevokes
  <1> QED BY RankInit, RankStep, <1>1, PTL DEF Spec

\* A heartbeat sent after a newer credential was granted is not acknowledged,
\* although the epoch is checked one statement before the row is written.
THEOREM RotatedOutIsRefused == Spec => []RotatedOutNotAcked
  <1>1. RankInv => RotatedOutNotAcked
    BY DEF RankInv
  <1> QED BY RankInit, RankStep, <1>1, PTL DEF Spec

(***************************************************************************)
(* What an agent holds is backed by a row.                                 *)
(***************************************************************************)

\* The credentials there are outside the hub's tables: in a pod's memory, in a
\* Secret, in a request or its answer.
Held == {mem[p] : p \in Pods} \cup {secret[u] : u \in UIDs}
          \cup {req[h].creds : h \in Handlers}

\* HeldCredentialsBacked speaks of exactly these.
LEMMA HeldBacked ==
    HeldCredentialsBacked <=> \A c \in Held : c # None => Backed(c)
  BY DEF HeldCredentialsBacked, Held

\* No step but the answer of a registration or of a refresh makes a credential:
\* whatever is held afterwards was held before.
LEMMA OnlyHandedOn ==
    ASSUME TypeOK, [Next]_vars,
           \A h \in Handlers : ~RegisterInsert(h) /\ ~RefreshFind(h)
    PROVE  Held' \subseteq Held \cup {None}
  <1> DEFINE Known == Held \cup {None}
  <1>0. /\ req \in [Handlers -> Requests] /\ IdleRequest.creds = None
        /\ mem \in [Pods -> Creds \cup {None}] /\ secret \in [UIDs -> Creds \cup {None}]
        /\ HomeOf \in [Pods -> UIDs]
        /\ \A p \in Pods : mem[p] \in Known
        /\ \A u \in UIDs : secret[u] \in Known
        /\ \A h \in Handlers : req[h].creds \in Known /\ req[h] \in Requests
        /\ None \in Known
    BY ConstantsAssumption DEF TypeOK, Typed, Held, IdleRequest
  <1>k. ASSUME \A p \in Pods : mem'[p] \in Known,
               \A u \in UIDs : secret'[u] \in Known,
               \A h \in Handlers : req'[h].creds \in Known
        PROVE  Held' \subseteq Held \cup {None}
    BY <1>k DEF Held
  <1> HIDE DEF Known
  <1>1. CASE \E h \in Handlers : HandlerStep(h)
    <2>1. PICK h \in Handlers : HandlerStep(h)
      BY <1>1
    <2>2. UNCHANGED <<mem, secret>>
      BY <2>1 DEF HandlerStep, RegisterCheck, RegisterLookup, RegisterUpsert,
         RegisterReread, RegisterMark, RegisterInsert, HeartbeatVerify,
         HeartbeatExpired, HeartbeatSupersede, HeartbeatTouch, RefreshFind, podVars
    <2>3. ASSUME \/ \E s \in Steps : Proceed(h, s)
                 \/ \E c : Reply(h, c)
          PROVE  \A g \in Handlers : req'[g].creds = req[g].creds
      BY <1>0, <2>3 DEF Proceed, Reply, Requests
    <2>4. {"lookup", "reread", "insert", "touch", "supersede"} \subseteq Steps
      BY DEF Steps, BusySteps, RegisterSteps, HeartbeatSteps
    <2>5. CASE \/ RegisterCheck(h) \/ RegisterUpsert(h) \/ RegisterMark(h)
               \/ HeartbeatVerify(h) \/ HeartbeatExpired(h)
               \/ HeartbeatSupersede(h) \/ HeartbeatTouch(h)
      <3>1. \/ \E s \in Steps : Proceed(h, s)
            \/ \E c : Reply(h, c)
        BY <2>4, <2>5 DEF RegisterCheck, RegisterUpsert, RegisterMark,
           HeartbeatVerify, HeartbeatExpired, HeartbeatSupersede, HeartbeatTouch
      <3> QED BY <1>0, <1>k, <2>2, <2>3, <3>1
    <2>6. CASE RegisterLookup(h) \/ RegisterReread(h)
      <3>1. \A g \in Handlers : req'[g].creds = req[g].creds
        BY <1>0, <2>6 DEF RegisterLookup, RegisterReread, Requests
      <3> QED BY <1>0, <1>k, <2>2, <3>1
    <2> QED BY <2>1, <2>5, <2>6 DEF HandlerStep
  <1>2. ASSUME NEW p \in Pods, NEW h \in Handlers,
               CallRegister(p, h) \/ CallHeartbeat(p, h)
                 \/ CallRefresh(p, h) \/ LoadFails(p, h)
        PROVE  Held' \subseteq Held \cup {None}
    <2>1. mem[p] \in Creds \cup {None} /\ UNCHANGED <<mem, secret>>
      BY <1>2 DEF TypeOK, Typed, CallRegister, CallHeartbeat, CallRefresh, LoadFails
    <2>2. PICK s \in {"check", "verify", "find"}, at \in {"reg", "hb", "refresh"},
               c \in {mem[p], None} : Send(p, h, at, s, c)
      BY <1>2 DEF CallRegister, CallHeartbeat, CallRefresh, LoadFails
    <2>3. s \in BusySteps /\ c \in Creds \cup {None} /\ c \in Known
      BY <1>0, <2>1 DEF BusySteps, RegisterSteps, HeartbeatSteps
    <2>4. /\ req'[h].creds = c /\ \A g \in Handlers : g # h => req'[g] = req[g]
      BY <2>2, <2>3, SendTyped
    <2> QED BY <1>0, <1>k, <2>1, <2>3, <2>4
  <1>3. ASSUME NEW p \in Pods, RegisterReply(p) \/ HeartbeatReply(p) \/ RefreshReply(p)
        PROVE  Held' \subseteq Held \cup {None}
    <2>1. TakeReply(p) /\ UNCHANGED secret
      BY <1>3 DEF RegisterReply, HeartbeatReply, RefreshReply
    <2>2. /\ call[p] \in Handlers
          /\ \A g \in Handlers : req'[g] \in {req[g], IdleRequest}
      BY <2>1, TakeTyped
    <2>3. \A q \in Pods : mem'[q] \in {mem[q], req[call[p]].creds}
      BY <1>0, <1>3 DEF RegisterReply, HeartbeatReply, RefreshReply
    <2> QED BY <1>0, <1>k, <2>1, <2>2, <2>3
  <1>4. ASSUME NEW p \in Pods,
               \/ StartPod(p) \/ LoadCreds(p) \/ SaveCreds(p) \/ ClearCreds(p)
               \/ LoseCall(p) \/ CrashPod(p) \/ SaveFails(p) \/ ClearFails(p)
        PROVE  Held' \subseteq Held \cup {None}
    <2>1. /\ UNCHANGED req
          /\ \A q \in Pods : mem'[q] \in {mem[q], secret[HomeOf[p]], None}
          /\ \A u \in UIDs : secret'[u] \in {secret[u], mem[p], None}
      BY <1>0, <1>4 DEF StartPod, LoadCreds, SaveCreds, ClearCreds, LoseCall,
         CrashPod, SaveFails, ClearFails
    <2> QED BY <1>0, <1>k, <2>1
  <1>5. ASSUME NEW h \in Handlers, OrphanEnds(h) \/ HandlerFails(h)
        PROVE  Held' \subseteq Held \cup {None}
    <2>1. /\ UNCHANGED <<mem, secret>>
          /\ \A g \in Handlers : req'[g].creds \in {req[g].creds, None}
      BY <1>0, <1>5 DEF OrphanEnds, HandlerFails, Reply, Requests, podVars
    <2> QED BY <1>0, <1>k, <2>1
  <1>6. ASSUME \/ \E t \in Tokens : MintBootstrap(t) \/ ExpireToken(t)
               \/ \E s \in 1..issued : ExpireAccess(s) \/ LapseRefresh(s)
               \/ \E p \in Pods : ExpireProof(p)
               \/ UNCHANGED vars
        PROVE  Held' \subseteq Held \cup {None}
    BY <1>0, <1>6 DEF MintBootstrap, ExpireToken, ExpireAccess, LapseRefresh, ExpireProof,
                podVars, vars, Held
  <1>7. ASSUME \E u, v \in UIDs : RestoreSecret(u, v)
        PROVE  Held' \subseteq Held \cup {None}
    <2>1. PICK u, v \in UIDs : RestoreSecret(u, v)
      BY <1>7
    <2>2. /\ UNCHANGED <<mem, req>>
          /\ \A w \in UIDs : secret'[w] \in {secret[w], secret[u]}
      BY <1>0, <2>1 DEF RestoreSecret
    <2> QED BY <1>0, <1>k, <2>2
  <1>8. ASSUME HubRestart PROVE Held' \subseteq Held \cup {None}
    <2>1. /\ UNCHANGED <<mem, secret>>
          /\ \A g \in Handlers : req'[g].creds = req[g].creds
      BY <1>0, <1>8 DEF HubRestart, Requests, podVars
    <2> QED BY <1>0, <1>k, <2>1
  <1> QED
    BY <1>1, <1>2, <1>3, <1>4, <1>5, <1>6, <1>7, <1>8, NextCases DEF PodStep, Faulty

\* A registration is answered with the row it has just written.
LEMMA InsertBacks ==
    ASSUME TypeOK, HeldCredentialsBacked, NEW h \in Handlers, RegisterInsert(h)
    PROVE  HeldCredentialsBacked'
  <1> DEFINE row == [serial |-> issued + 1, cluster |-> req[h].uid,
                     epoch |-> req[h].epoch, jti |-> req[h].jti]
             granted == [cluster |-> row.cluster, refresh |-> row.serial,
                         access |-> row.serial, epoch |-> row.epoch]
  <1>0. req \in [Handlers -> Requests]
    BY DEF TypeOK, Typed
  <1>1. /\ UNCHANGED <<mem, secret>> /\ credRows' = credRows \cup {row}
        /\ req' = [req EXCEPT ![h].step = "reply", ![h].code = "ok",
                              ![h].creds = granted]
    BY DEF RegisterInsert, podVars
  <1>2. /\ granted.refresh = row.serial /\ granted.cluster = row.cluster
        /\ granted.epoch = row.epoch
    OBVIOUS
  <1> HIDE DEF granted, row
  <1>3. /\ \A g \in Handlers : g # h => req'[g] = req[g]
        /\ req'[h].creds = granted
    BY <1>0, <1>1 DEF Requests
  <1> DEFINE BackedNow(c) == \E r \in credRows' :
                               /\ r.serial = c.refresh
                               /\ r.cluster = c.cluster /\ r.epoch = c.epoch
  <1>4. \A c : Backed(c) => BackedNow(c)
    BY <1>1 DEF Backed
  <1>5. BackedNow(granted)
    BY <1>1, <1>2
  <1>6. /\ \A p \in Pods : mem'[p] # None => BackedNow(mem'[p])
        /\ \A u \in UIDs : secret'[u] # None => BackedNow(secret'[u])
        /\ \A g \in Handlers : req'[g].creds # None => BackedNow(req'[g].creds)
    <2> HIDE DEF BackedNow
    <2> QED BY <1>1, <1>3, <1>4, <1>5 DEF HeldCredentialsBacked
  <1> QED BY <1>6 DEF HeldCredentialsBacked, Backed

\* A refresh signs the epoch of the cluster, and only if the row has it too: the
\* row the agent's refresh token names is the only one of its serial, so it is
\* the one that backed the agent's credential, and it backs the new one.
LEMMA RefreshBacks ==
    ASSUME TypeOK, RowsKnown, HeldCredentialsBacked, NEW h \in Handlers, RefreshFind(h)
    PROVE  HeldCredentialsBacked'
  <1>0. /\ req \in [Handlers -> Requests] /\ req[h] \in Requests
        /\ req[h].creds \in Creds /\ req[h].creds # None
    <2>1. req[h].creds # None
      BY DEF RefreshFind, TypeOK, CredsInHand
    <2> QED BY <2>1 DEF TypeOK, Typed, Requests
  <1>1. UNCHANGED <<mem, secret, credRows>>
    BY DEF RefreshFind, podVars
  <1>2. \A c : Backed(c)' <=> Backed(c)
    BY <1>1 DEF Backed
  <1>3. CASE \E c : Reply(h, c)
    <2>1. \A g \in Handlers : req'[g].creds = req[g].creds
      BY <1>0, <1>3 DEF Reply, Requests
    <2> QED BY <1>1, <1>2, <2>1 DEF HeldCredentialsBacked
  <1>4. CASE \E r \in ActiveRows(req[h].creds.refresh) :
                /\ r.epoch = epoch[r.cluster]
                /\ req' = [req EXCEPT ![h].step = "reply", ![h].code = "ok",
                                      ![h].creds.access = issued + 1,
                                      ![h].creds.epoch = epoch[r.cluster]]
    <2>1. PICK r \in credRows :
                /\ r.serial = req[h].creds.refresh
                /\ r.epoch = epoch[r.cluster]
                /\ req' = [req EXCEPT ![h].step = "reply", ![h].code = "ok",
                                      ![h].creds.access = issued + 1,
                                      ![h].creds.epoch = epoch[r.cluster]]
      BY <1>4 DEF ActiveRows
    <2>2. PICK s \in credRows : /\ s.serial = req[h].creds.refresh
                                /\ s.cluster = req[h].creds.cluster
      BY <1>0 DEF HeldCredentialsBacked, Backed
    <2>3. r.cluster = req[h].creds.cluster
      BY <2>1, <2>2 DEF RowsKnown
    <2>4. /\ \A g \in Handlers : g # h => req'[g] = req[g]
          /\ req'[h].creds.refresh = req[h].creds.refresh
          /\ req'[h].creds.cluster = req[h].creds.cluster
          /\ req'[h].creds.epoch = r.epoch
      BY <1>0, <2>1 DEF Requests, Creds
    <2>5. Backed(req'[h].creds)
      BY <2>1, <2>3, <2>4 DEF Backed
    <2> QED BY <1>1, <1>2, <2>4, <2>5 DEF HeldCredentialsBacked
  <1> QED BY <1>3, <1>4 DEF RefreshFind, RefreshVerdict

\* Whatever an agent holds, wherever it keeps it, is backed by a row of that
\* serial, cluster and epoch: an access token never outranks the refresh token
\* it came with.
THEOREM CredentialsAreBacked == Spec => []HeldCredentialsBacked
  <1>1. Init => HeldCredentialsBacked
    BY DEF Init, HeldCredentialsBacked, IdleRequest
  <1>2. RankInv /\ HeldCredentialsBacked /\ [Next]_vars => HeldCredentialsBacked'
    <2> SUFFICES ASSUME RankInv, HeldCredentialsBacked, [Next]_vars
                 PROVE  HeldCredentialsBacked'
      OBVIOUS
    <2>1. TypeOK /\ RowsKnown
      BY DEF RankInv, GrantInv
    <2>2. CASE \E h \in Handlers : RegisterInsert(h) \/ RefreshFind(h)
      BY <2>1, <2>2, InsertBacks, RefreshBacks
    <2>3. CASE \A h \in Handlers : ~RegisterInsert(h) /\ ~RefreshFind(h)
      <3>1. Held' \subseteq Held \cup {None}
        BY <2>1, <2>3, OnlyHandedOn
      <3>2. credRows \subseteq credRows'
        BY <2>1, EpochsOnlyGrow
      <3>3. \A c \in Held' : c # None => c \in Held /\ Backed(c)
        BY <3>1, HeldBacked
      <3> QED BY <3>2, <3>3 DEF HeldCredentialsBacked, Held, Backed
    <2> QED BY <2>2, <2>3
  <1> QED BY RankInit, RankStep, <1>1, <1>2, PTL DEF Spec

(***************************************************************************)
(* Refinement of the hub's promise.                                        *)
(***************************************************************************)

\* The tables of the hub, updated statement by statement by interleaving
\* handlers, behave as CredentialAuthority.
THEOREM HubKeepsPromise == Spec => KeepsPromise
  <1>1. Init => Authority!Init
    BY DEF Init, Authority!Init
  <1>2. GrantInv /\ [Next]_vars => [Authority!Next]_(Authority!authVars)
    <2> SUFFICES ASSUME GrantInv, [Next]_vars
                 PROVE  \/ Authority!Next
                        \/ UNCHANGED <<epoch, usedBy, credRows, issued>>
      BY DEF Authority!authVars
    <2>0. /\ TypeOK /\ SpentForGrant /\ EpochReached
          /\ epoch \in [UIDs -> Nat] /\ issued \in Nat
          /\ \A h \in Handlers : /\ req[h].uid \in UIDs /\ req[h].jti \in Tokens \cup {SA}
                                 /\ req[h].epoch \in Nat
      BY DEF GrantInv, TypeOK, Typed, Requests, Jtis
    <2>1. CASE \E h \in Handlers : HandlerStep(h)
      <3>1. PICK h \in Handlers : HandlerStep(h)
        BY <2>1
      <3>2. CASE RegisterUpsert(h)
        <4>1. epoch' = [epoch EXCEPT ![req[h].uid] = @ + 1]
          <5>1. epoch' = [epoch EXCEPT ![req[h].uid] =
                            UpsertedEpoch(epoch[req[h].uid], req[h].epoch)]
            BY <3>2 DEF RegisterUpsert
          <5>2. UpsertedEpoch(epoch[req[h].uid], req[h].epoch) = epoch[req[h].uid] + 1
            BY <2>0 DEF UpsertedEpoch
          <5> QED BY <5>1, <5>2
        <4>2. Authority!Rotate(req[h].uid)
          BY <3>2, <4>1 DEF RegisterUpsert, Authority!Rotate
        <4> QED BY <2>0, <4>2 DEF Authority!Next
      <3>3. CASE RegisterMark(h)
        BY <2>0, <3>3 DEF RegisterMark, Markable, Authority!Next, Authority!Spend
      <3>4. CASE RegisterInsert(h)
        <4>1. /\ req[h].step = "insert" /\ issued' = issued + 1
              /\ UNCHANGED <<epoch, usedBy>>
              /\ credRows' = credRows \cup
                   {[serial |-> issued', cluster |-> req[h].uid,
                     epoch |-> req[h].epoch, jti |-> req[h].jti]}
          BY <3>4 DEF RegisterInsert
        <4>2. Authority!Pays(req[h].jti, req[h].uid)
          BY <2>0, <4>1 DEF SpentForGrant, Authority!Pays
        <4>3. req[h].epoch \in 1..epoch[req[h].uid]
          BY <2>0, <4>1 DEF EpochReached, GrantSteps
        <4>4. Authority!Grant(req[h].uid, req[h].jti)
          BY <4>1, <4>2, <4>3 DEF Authority!Grant
        <4> QED BY <2>0, <4>4 DEF Authority!Next
      <3>5. CASE RefreshFind(h)
        <4>1. UNCHANGED <<epoch, usedBy, credRows>>
          BY <3>5 DEF RefreshFind
        <4>2. CASE UNCHANGED issued
          BY <4>1, <4>2
        <4>3. CASE \E r \in credRows : r.epoch = epoch[r.cluster] /\ issued' = issued + 1
          BY <4>1, <4>3 DEF Authority!Next, Authority!Reissue
        <4> QED
          BY <3>5, <4>2, <4>3 DEF RefreshFind, RefreshVerdict, ActiveRows
      <3>6. CASE \/ RegisterCheck(h) \/ RegisterLookup(h) \/ RegisterReread(h)
                 \/ HeartbeatVerify(h) \/ HeartbeatExpired(h)
                 \/ HeartbeatSupersede(h) \/ HeartbeatTouch(h)
        BY <3>6 DEF RegisterCheck, RegisterLookup, RegisterReread, HeartbeatVerify,
                    HeartbeatExpired, HeartbeatSupersede, HeartbeatTouch, hubVars
      <3> QED BY <3>1, <3>2, <3>3, <3>4, <3>5, <3>6 DEF HandlerStep
    <2>2. CASE \E p \in Pods : PodStep(p)
      BY <2>2 DEF PodStep, StartPod, LoadCreds, CallRegister, RegisterReply,
         SaveCreds, CallHeartbeat, HeartbeatReply, CallRefresh, RefreshReply,
         ClearCreds, hubVars
    <2>3. CASE \/ \E h \in Handlers : OrphanEnds(h)
               \/ \E t \in Tokens : MintBootstrap(t) \/ ExpireToken(t)
               \/ \E s \in 1..issued : ExpireAccess(s) \/ LapseRefresh(s)
               \/ \E p \in Pods : ExpireProof(p)
      BY <2>3 DEF OrphanEnds, MintBootstrap, ExpireToken, ExpireAccess,
         LapseRefresh, ExpireProof, hubVars
    <2>4. CASE Faulty
      BY <2>4 DEF Faulty, HandlerFails, LoseCall, CrashPod, SaveFails, ClearFails,
         LoadFails, RestoreSecret, HubRestart, hubVars
    <2>5. CASE UNCHANGED vars
      BY <2>5 DEF vars, hubVars
    <2> QED BY <2>1, <2>2, <2>3, <2>4, <2>5, NextCases
  <1> QED
    BY <1>1, <1>2, GrantInit, GrantStep, PTL DEF Spec, KeepsPromise, Authority!Spec
=============================================================================
