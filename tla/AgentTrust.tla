------------------------------ MODULE AgentTrust ------------------------------
(***************************************************************************)
(* The agent trust protocol: agent pods (kubilitics-agent) register with   *)
(* the hub (kubilitics-backend), keep the credential they are granted in a *)
(* Secret of their own cluster, heartbeat with a short-lived access token, *)
(* refresh it, and register again when the hub tells them to.              *)
(*                                                                         *)
(* The hub's handlers are goroutines that talk to SQL one statement at a   *)
(* time and hold no transaction: every statement is an action here, and    *)
(* any number of handlers interleave.  A pod is one process with at most   *)
(* one outstanding HTTP call; a call it gives up on keeps running on the   *)
(* hub as an orphan.  Pods with the same home share one Secret, as the two *)
(* pods of a rolling update do.                                            *)
(*                                                                         *)
(* Cluster rows are named by their kube-system UID: the row id is chosen   *)
(* once, on first insert, and no code deletes a row.                       *)
(***************************************************************************)
EXTENDS Naturals

CONSTANTS
    Pods,               \* agent processes
    UIDs,               \* physical clusters, by kube-system namespace UID
    Tokens,             \* bootstrap tokens, by jti
    Handlers,           \* slots for the hub's handler goroutines
    HomeOf,             \* the cluster a pod runs in
    TokenOf,            \* the bootstrap token in a pod's environment, or SA
    HubUID,             \* the cluster the hub itself runs in
    SA,                 \* registration by service-account token: no jti
    None,               \* absent credential, call or user
    NamesExpiry,        \* whether the hub may be one that names expiry: this one is not
    MaxSerial,          \* bound: clocks stop once this many tokens are issued
    MaxFaults           \* bound: crashes, losses and failed calls in a behaviour

\* What an agent keeps: its cluster, the serials of its refresh and access
\* tokens, and the epoch claim of the access token.
Creds == [cluster : UIDs, refresh : Nat, access : Nat, epoch : Nat]

ASSUME ConstantsAssumption ==
    /\ HomeOf \in [Pods -> UIDs]
    /\ TokenOf \in [Pods -> Tokens \cup {SA}]
    /\ HubUID \in UIDs
    /\ SA \notin Tokens
    /\ None \notin UIDs \cup Handlers \cup Creds
    /\ NamesExpiry \in BOOLEAN
    /\ MaxSerial \in Nat
    /\ MaxFaults \in Nat

VARIABLES
    epoch,       \* agent_clusters.credential_epoch; 0 when there is no row
    status,      \* agent_clusters.status
    tokenState,  \* whether a bootstrap token is minted and unexpired
    usedBy,      \* bootstrap_tokens.used_by_cluster
    credRows,    \* agent_credentials
    issued,      \* serial of the last refresh or access token handed out
    expired,     \* serials of access tokens past their exp claim
    lapsed,      \* serials of refresh tokens past expires_at
    outdated,    \* pods whose service-account token, read once, is past its term
    req,         \* the hub's handlers
    pc,          \* where each pod's main loop is
    mem,         \* the credential a pod holds in memory
    call,        \* the handler a pod is waiting for
    secret,      \* the kubilitics-agent-creds Secret of each cluster
    faults       \* faults so far

hubVars == <<epoch, status, tokenState, usedBy, credRows, issued>>
clockVars == <<expired, lapsed, outdated>>
podVars == <<pc, mem, call, secret>>
vars == <<hubVars, clockVars, req, podVars, faults>>

\* Program points of a pod that has its credential in hand.
Registered == {"save", "run", "hb", "stale", "refresh", "clear"}

Jtis == Tokens \cup {SA}

CredRows == [serial : Nat, cluster : UIDs, epoch : Nat, jti : Jtis]

Unauthorized == {"token_invalid", "token_used", "sa_invalid",
                 "access_invalid", "access_expired", "cluster_unknown",
                 "epoch_mismatch", "refresh_invalid"}

Codes == Unauthorized \cup {"ok", "forbidden", "uid_mismatch", "error", "none"}

RegisterSteps == {"check", "lookup", "upsert", "reread", "mark", "insert"}
HeartbeatSteps == {"verify", "supersede", "touch"}
BusySteps == RegisterSteps \cup HeartbeatSteps \cup {"find"}
Steps == BusySteps \cup {"idle", "reply"}

\* What TokenReview says of a service-account token.
Reviews == {"accepted", "refused"}

\* A handler's goroutine: where it is, what it was sent, the epoch it has read,
\* its answer, and (history only) how many tokens existed when it was sent.
Requests == [step : Steps, jti : Jtis, review : Reviews, uid : UIDs,
             creds : Creds \cup {None}, epoch : Nat, code : Codes, began : Nat]

IdleRequest == [step |-> "idle", jti |-> SA, review |-> "refused",
                uid |-> HubUID, creds |-> None, epoch |-> 0,
                code |-> "none", began |-> 0]

Typed ==
    /\ epoch \in [UIDs -> Nat]
    /\ status \in [UIDs -> {"none", "active", "superseded"}]
    /\ tokenState \in [Tokens -> {"unminted", "live", "expired"}]
    /\ usedBy \in [Tokens -> UIDs \cup {None}]
    /\ credRows \subseteq CredRows
    /\ issued \in Nat
    /\ expired \subseteq Nat
    /\ lapsed \subseteq Nat
    /\ outdated \subseteq Pods
    /\ req \in [Handlers -> Requests]
    /\ pc \in [Pods -> {"down", "boot", "reg"} \cup Registered]
    /\ mem \in [Pods -> Creds \cup {None}]
    /\ call \in [Pods -> Handlers \cup {None}]
    /\ secret \in [UIDs -> Creds \cup {None}]
    /\ faults \in Nat

\* A pod past bootstrap has its credential in hand, and so has a handler that
\* needs one or has granted one.
CredsInHand ==
    /\ \A p \in Pods : pc[p] \in Registered => mem[p] # None
    /\ \A h \in Handlers :
          \/ req[h].step \in HeartbeatSteps \cup {"find"}
          \/ req[h].step = "reply" /\ req[h].code = "ok"
          => req[h].creds # None

TypeOK == Typed /\ CredsInHand

Init ==
    /\ epoch = [u \in UIDs |-> 0]
    /\ status = [u \in UIDs |-> "none"]
    /\ tokenState = [t \in Tokens |-> "unminted"]
    /\ usedBy = [t \in Tokens |-> None]
    /\ credRows = {}
    /\ issued = 0
    /\ expired = {}
    /\ lapsed = {}
    /\ outdated = {}
    /\ req = [h \in Handlers |-> IdleRequest]
    /\ pc = [p \in Pods |-> "down"]
    /\ mem = [p \in Pods |-> None]
    /\ call = [p \in Pods |-> None]
    /\ secret = [u \in UIDs |-> None]
    /\ faults = 0

-----------------------------------------------------------------------------
(* The hub: MintBootstrap and the register handler.                         *)

MintBootstrap(t) ==
    /\ tokenState[t] = "unminted"
    /\ tokenState' = [tokenState EXCEPT ![t] = "live"]
    /\ UNCHANGED <<epoch, status, usedBy, credRows, issued, clockVars, req,
                   podVars, faults>>

Proceed(h, s) == req' = [req EXCEPT ![h].step = s]

Reply(h, c) == req' = [req EXCEPT ![h].step = "reply", ![h].code = c]

\* The refusals of the token and service-account branches; "ok" lets the
\* registration through.
ProofVerdict(jti, review, uid) ==
    IF jti = SA
    THEN IF review = "refused" THEN "sa_invalid"
         ELSE IF uid = HubUID THEN "ok" ELSE "forbidden"
    ELSE IF tokenState[jti] # "live" THEN "token_invalid"
    ELSE IF usedBy[jti] # None THEN "token_used" ELSE "ok"

RegisterCheck(h) ==
    /\ req[h].step = "check"
    /\ LET verdict == ProofVerdict(req[h].jti, req[h].review, req[h].uid)
       IN IF verdict = "ok" THEN Proceed(h, "lookup") ELSE Reply(h, verdict)
    /\ UNCHANGED <<hubVars, clockVars, podVars, faults>>

\* GetClusterByUID: the epoch of the row as the handler first sees it.
RegisterLookup(h) ==
    /\ req[h].step = "lookup"
    /\ req' = [req EXCEPT ![h].step = "upsert", ![h].epoch = epoch[req[h].uid]]
    /\ UNCHANGED <<hubVars, clockVars, podVars, faults>>

\* The epoch UpsertCluster stores over a row at epoch old, when the handler
\* had read seen: SQL increments the row's own value, whatever Go passes.
LostIncrement(old, seen) == seen + 1

NoIncrement(old, seen) == IF old = 0 THEN 1 ELSE old

UpsertedEpoch(old, seen) == IF old = 0 THEN 1 ELSE old + 1

RegisterUpsert(h) ==
    /\ req[h].step = "upsert"
    /\ LET u == req[h].uid
       IN /\ epoch' = [epoch EXCEPT ![u] = UpsertedEpoch(@, req[h].epoch)]
          /\ status' = [status EXCEPT ![u] = "active"]
    /\ Proceed(h, "reread")
    /\ UNCHANGED <<tokenState, usedBy, credRows, issued, clockVars, podVars,
                   faults>>

\* The second GetClusterByUID, which may see a later registration's epoch.
RegisterReread(h) ==
    /\ req[h].step = "reread"
    /\ req' = [req EXCEPT ![h].step = "mark", ![h].epoch = epoch[req[h].uid]]
    /\ UNCHANGED <<hubVars, clockVars, podVars, faults>>

\* The WHERE clause of MarkBootstrapTokenUsed.
UnguardedMark(jti) == TRUE

Markable(jti) == usedBy[jti] = None

RegisterMark(h) ==
    /\ req[h].step = "mark"
    /\ LET jti == req[h].jti
       IN \/ /\ jti = SA
             /\ Proceed(h, "insert")
             /\ UNCHANGED usedBy
          \/ /\ jti # SA
             /\ Markable(jti)
             /\ usedBy' = [usedBy EXCEPT ![jti] = req[h].uid]
             /\ Proceed(h, "insert")
          \/ /\ jti # SA
             /\ ~Markable(jti)
             /\ Reply(h, "token_used")
             /\ UNCHANGED usedBy
    /\ UNCHANGED <<epoch, status, tokenState, credRows, issued, clockVars,
                   podVars, faults>>

\* InsertAgentCredential, then IssueAccess with the same epoch.
RegisterInsert(h) ==
    /\ req[h].step = "insert"
    /\ issued' = issued + 1
    /\ LET row == [serial |-> issued + 1, cluster |-> req[h].uid,
                   epoch |-> req[h].epoch, jti |-> req[h].jti]
       IN /\ credRows' = credRows \cup {row}
          /\ req' = [req EXCEPT
                       ![h].step = "reply", ![h].code = "ok",
                       ![h].creds = [cluster |-> row.cluster,
                                     refresh |-> row.serial,
                                     access |-> row.serial,
                                     epoch |-> row.epoch]]
    /\ UNCHANGED <<epoch, status, tokenState, usedBy, clockVars, podVars, faults>>

-----------------------------------------------------------------------------
(* The hub: the heartbeat and refresh handlers.                             *)

EpochBlindVerdict(c, uid) ==
    IF c.access \in expired THEN "access_invalid"
    ELSE IF epoch[c.cluster] = 0 THEN "cluster_unknown"
    ELSE IF uid # c.cluster THEN "uid_mismatch" ELSE "ok"

\* The checks of the heartbeat handler, in their order.
HeartbeatVerdict(c, uid) ==
    IF c.access \in expired THEN "access_invalid"
    ELSE IF epoch[c.cluster] = 0 THEN "cluster_unknown"
    ELSE IF c.epoch # epoch[c.cluster] THEN "epoch_mismatch"
    ELSE IF uid # c.cluster THEN "uid_mismatch" ELSE "ok"

HeartbeatVerify(h) ==
    /\ req[h].step = "verify"
    /\ LET verdict == HeartbeatVerdict(req[h].creds, req[h].uid)
       IN \/ /\ verdict = "ok"
             /\ Proceed(h, "touch")
          \/ /\ verdict = "uid_mismatch"
             /\ Proceed(h, "supersede")
          \/ /\ verdict \in Unauthorized
             /\ Reply(h, verdict)
    /\ UNCHANGED <<hubVars, clockVars, podVars, faults>>

\* A hub as the agent's tests play it tells an expired access token from others.
HeartbeatExpired(h) ==
    /\ NamesExpiry
    /\ req[h].step = "verify"
    /\ req[h].creds.access \in expired
    /\ Reply(h, "access_expired")
    /\ UNCHANGED <<hubVars, clockVars, podVars, faults>>

\* MarkClusterSuperseded on the row the token names, then 410.
HeartbeatSupersede(h) ==
    /\ req[h].step = "supersede"
    /\ status' = [status EXCEPT ![req[h].creds.cluster] = "superseded"]
    /\ Reply(h, "uid_mismatch")
    /\ UNCHANGED <<epoch, tokenState, usedBy, credRows, issued, clockVars,
                   podVars, faults>>

\* UpdateClusterHeartbeat, then the acknowledgement.
HeartbeatTouch(h) ==
    /\ req[h].step = "touch"
    /\ status' = [status EXCEPT ![req[h].creds.cluster] = "active"]
    /\ Reply(h, "ok")
    /\ UNCHANGED <<epoch, tokenState, usedBy, credRows, issued, clockVars,
                   podVars, faults>>

\* The rows FindActiveCredentialByToken can match with refresh token s.
ActiveRows(s) == {r \in credRows : r.serial = s /\ s \notin lapsed}

EpochBlindRefresh(r) == "ok"

RefreshVerdict(r) ==
    IF r.epoch # epoch[r.cluster] THEN "epoch_mismatch" ELSE "ok"

\* The access token carries the cluster's epoch, not the row's.
RefreshFind(h) ==
    /\ req[h].step = "find"
    /\ LET s == req[h].creds.refresh
       IN \/ /\ ActiveRows(s) = {}
             /\ Reply(h, "refresh_invalid")
             /\ UNCHANGED issued
          \/ \E r \in ActiveRows(s) :
                IF RefreshVerdict(r) # "ok"
                THEN Reply(h, RefreshVerdict(r)) /\ UNCHANGED issued
                ELSE /\ issued' = issued + 1
                     /\ req' = [req EXCEPT
                                  ![h].step = "reply", ![h].code = "ok",
                                  ![h].creds.access = issued + 1,
                                  ![h].creds.epoch = epoch[r.cluster]]
    /\ UNCHANGED <<epoch, status, tokenState, usedBy, credRows, clockVars,
                   podVars, faults>>

HandlerStep(h) ==
    \/ RegisterCheck(h)
    \/ RegisterLookup(h)
    \/ RegisterUpsert(h)
    \/ RegisterReread(h)
    \/ RegisterMark(h)
    \/ RegisterInsert(h)
    \/ HeartbeatVerify(h)
    \/ HeartbeatExpired(h)
    \/ HeartbeatSupersede(h)
    \/ HeartbeatTouch(h)
    \/ RefreshFind(h)

\* A handler nobody waits for ends.
OrphanEnds(h) ==
    /\ req[h].step = "reply"
    /\ \A p \in Pods : call[p] # h
    /\ req' = [req EXCEPT ![h] = IdleRequest]
    /\ UNCHANGED <<hubVars, clockVars, podVars, faults>>

-----------------------------------------------------------------------------
(* The agent: main loop, bootstrap.Run and heartbeat.Loop.                  *)

\* The process reads the service-account token here, and never again.
StartPod(p) ==
    /\ pc[p] = "down"
    /\ TokenOf[p] # SA => tokenState[TokenOf[p]] # "unminted"
    /\ pc' = [pc EXCEPT ![p] = "boot"]
    /\ outdated' = outdated \ {p}
    /\ UNCHANGED <<hubVars, expired, lapsed, req, mem, call, secret, faults>>

LoadCreds(p) ==
    /\ pc[p] = "boot"
    /\ secret[HomeOf[p]] # None
    /\ mem' = [mem EXCEPT ![p] = secret[HomeOf[p]]]
    /\ pc' = [pc EXCEPT ![p] = "run"]
    /\ UNCHANGED <<hubVars, clockVars, req, call, secret, faults>>

\* The hub's API server accepts the unexpired tokens of its own cluster.
Reviewed(p) ==
    IF HomeOf[p] = HubUID /\ p \notin outdated THEN "accepted" ELSE "refused"

\* Pod p sends a request to handler h and waits for it at program point at.
Send(p, h, at, s, c) ==
    /\ req[h].step = "idle"
    /\ req' = [req EXCEPT ![h] = [step |-> s, jti |-> TokenOf[p],
                                  review |-> Reviewed(p), uid |-> HomeOf[p],
                                  creds |-> c, epoch |-> 0, code |-> "none",
                                  began |-> issued]]
    /\ call' = [call EXCEPT ![p] = h]
    /\ pc' = [pc EXCEPT ![p] = at]

CallRegister(p, h) ==
    /\ pc[p] = "boot"
    /\ secret[HomeOf[p]] = None
    /\ Send(p, h, "reg", "check", None)
    /\ UNCHANGED <<hubVars, clockVars, mem, secret, faults>>

\* The reply to p's call has come.
Answered(p) == call[p] # None /\ req[call[p]].step = "reply"

TakeReply(p) ==
    /\ Answered(p)
    /\ req' = [req EXCEPT ![call[p]] = IdleRequest]
    /\ call' = [call EXCEPT ![p] = None]

RegisterReply(p) ==
    /\ pc[p] = "reg"
    /\ TakeReply(p)
    /\ IF req[call[p]].code = "ok"
       THEN /\ mem' = [mem EXCEPT ![p] = req[call[p]].creds]
            /\ pc' = [pc EXCEPT ![p] = "save"]
       ELSE /\ pc' = [pc EXCEPT ![p] = "boot"]
            /\ UNCHANGED mem
    /\ UNCHANGED <<hubVars, clockVars, secret, faults>>

SaveCreds(p) ==
    /\ pc[p] = "save"
    /\ secret' = [secret EXCEPT ![HomeOf[p]] = mem[p]]
    /\ pc' = [pc EXCEPT ![p] = "run"]
    /\ UNCHANGED <<hubVars, clockVars, req, mem, call, faults>>

CallHeartbeat(p, h) ==
    /\ pc[p] = "run"
    /\ Send(p, h, "hb", "verify", mem[p])
    /\ UNCHANGED <<hubVars, clockVars, mem, secret, faults>>

\* Where the loop goes on each heartbeat answer.
AfterHeartbeat(code) ==
    CASE code = "access_expired" -> "stale"
      [] code = "uid_mismatch"   -> "clear"
      [] OTHER                   -> "run"

HeartbeatReply(p) ==
    /\ pc[p] = "hb"
    /\ TakeReply(p)
    /\ pc' = [pc EXCEPT ![p] = AfterHeartbeat(req[call[p]].code)]
    /\ UNCHANGED <<hubVars, clockVars, mem, secret, faults>>

CallRefresh(p, h) ==
    /\ pc[p] = "stale"
    /\ Send(p, h, "refresh", "find", mem[p])
    /\ UNCHANGED <<hubVars, clockVars, mem, secret, faults>>

\* A new access token lives in memory only; a 401 asks for re-registration.
RefreshReply(p) ==
    /\ pc[p] = "refresh"
    /\ TakeReply(p)
    /\ LET code == req[call[p]].code
       IN /\ mem' = IF code = "ok"
                    THEN [mem EXCEPT ![p] = req[call[p]].creds] ELSE mem
          /\ pc' = [pc EXCEPT ![p] =
                      IF code \in Unauthorized THEN "clear" ELSE "run"]
    /\ UNCHANGED <<hubVars, clockVars, secret, faults>>

\* Mutant: only what is in memory is dropped.
ClearsMemory(p) ==
    /\ pc[p] = "clear"
    /\ mem' = [mem EXCEPT ![p] = None]
    /\ pc' = [pc EXCEPT ![p] = "boot"]
    /\ UNCHANGED <<hubVars, clockVars, req, call, secret, faults>>

\* store.Delete, whatever the Secret now holds; then bootstrap.Run again.
ClearCreds(p) ==
    /\ pc[p] = "clear"
    /\ secret' = [secret EXCEPT ![HomeOf[p]] = None]
    /\ mem' = [mem EXCEPT ![p] = None]
    /\ pc' = [pc EXCEPT ![p] = "boot"]
    /\ UNCHANGED <<hubVars, clockVars, req, call, faults>>

PodStep(p) ==
    \/ StartPod(p)
    \/ LoadCreds(p)
    \/ \E h \in Handlers : CallRegister(p, h)
    \/ RegisterReply(p)
    \/ SaveCreds(p)
    \/ \E h \in Handlers : CallHeartbeat(p, h)
    \/ HeartbeatReply(p)
    \/ \E h \in Handlers : CallRefresh(p, h)
    \/ RefreshReply(p)
    \/ ClearCreds(p)

-----------------------------------------------------------------------------
(* Clocks.                                                                  *)

\* Terms end one at a time, and only while the run may still issue tokens.
ClocksRun == issued < MaxSerial

ExpireAccess(s) ==
    /\ ClocksRun
    /\ s \in 1..issued \ expired
    /\ expired' = expired \cup {s}
    /\ UNCHANGED <<hubVars, lapsed, outdated, req, podVars, faults>>

LapseRefresh(s) ==
    /\ ClocksRun
    /\ s \in {r.serial : r \in credRows} \ lapsed
    /\ lapsed' = lapsed \cup {s}
    /\ UNCHANGED <<hubVars, expired, outdated, req, podVars, faults>>

\* The kubelet's token has a term, and main's copy outlives it.
ExpireProof(p) ==
    /\ ClocksRun
    /\ TokenOf[p] = SA
    /\ pc[p] # "down" /\ p \notin outdated
    /\ outdated' = outdated \cup {p}
    /\ UNCHANGED <<hubVars, expired, lapsed, req, podVars, faults>>

ExpireToken(t) ==
    /\ tokenState[t] = "live"
    /\ tokenState' = [tokenState EXCEPT ![t] = "expired"]
    /\ UNCHANGED <<epoch, status, usedBy, credRows, issued, clockVars, req,
                   podVars, faults>>

-----------------------------------------------------------------------------
(* Faults, at most MaxFaults of them.                                       *)

Fault == faults < MaxFaults /\ faults' = faults + 1

\* A statement fails, the request's context is cancelled, or the rate limiter
\* refuses: the handler returns early, keeping what it has done. The error of
\* MarkClusterSuperseded is ignored and the 410 sent all the same.
HandlerFails(h) ==
    /\ Fault
    /\ req[h].step \in BusySteps
    /\ Reply(h, IF req[h].step = "supersede" THEN "uid_mismatch" ELSE "error")
    /\ UNCHANGED <<hubVars, clockVars, podVars>>

\* The hub process restarts: every handler in flight is cut off.
HubRestart ==
    /\ Fault
    /\ \E h \in Handlers : req[h].step \in BusySteps
    /\ req' = [h \in Handlers |->
                 IF req[h].step \in BusySteps
                 THEN [req[h] EXCEPT !.step = "reply", !.code = "error"]
                 ELSE req[h]]
    /\ UNCHANGED <<hubVars, clockVars, podVars>>

RunAnyway(at) == "run"

\* bootstrap.Run fails and is retried; the heartbeat loop backs off and goes on.
AfterLostCall(at) == IF at = "reg" THEN "boot" ELSE "run"

\* The client's 30 s timeout or a lost connection: the pod sees an error,
\* the handler goes on by itself.
LoseCall(p) ==
    /\ Fault
    /\ pc[p] \in {"reg", "hb", "refresh"}
    /\ call' = [call EXCEPT ![p] = None]
    /\ pc' = [pc EXCEPT ![p] = AfterLostCall(@)]
    /\ UNCHANGED <<hubVars, clockVars, req, mem, secret>>

CrashPod(p) ==
    /\ Fault
    /\ pc[p] # "down"
    /\ pc' = [pc EXCEPT ![p] = "down"]
    /\ mem' = [mem EXCEPT ![p] = None]
    /\ call' = [call EXCEPT ![p] = None]
    /\ UNCHANGED <<hubVars, clockVars, req, secret>>

\* Reading the Secret fails although it is there: bootstrap.Run registers.
LoadFails(p, h) ==
    /\ Fault
    /\ pc[p] = "boot"
    /\ secret[HomeOf[p]] # None
    /\ Send(p, h, "reg", "check", None)
    /\ UNCHANGED <<hubVars, clockVars, mem, secret>>

\* Writing the Secret fails: bootstrap.Run drops the granted credential.
SaveFails(p) ==
    /\ Fault
    /\ pc[p] = "save"
    /\ mem' = [mem EXCEPT ![p] = None]
    /\ pc' = [pc EXCEPT ![p] = "boot"]
    /\ UNCHANGED <<hubVars, clockVars, req, call, secret>>

\* Deleting the Secret fails: main logs and goes on with the Secret in place.
ClearFails(p) ==
    /\ Fault
    /\ pc[p] = "clear"
    /\ mem' = [mem EXCEPT ![p] = None]
    /\ pc' = [pc EXCEPT ![p] = "boot"]
    /\ UNCHANGED <<hubVars, clockVars, req, call, secret>>

\* An administrator restores the Secret of cluster u into cluster v.
RestoreSecret(u, v) ==
    /\ Fault
    /\ u # v
    /\ secret[u] # None
    /\ secret' = [secret EXCEPT ![v] = secret[u]]
    /\ UNCHANGED <<hubVars, clockVars, req, pc, mem, call>>

-----------------------------------------------------------------------------

Next ==
    \/ \E t \in Tokens : MintBootstrap(t) \/ ExpireToken(t)
    \/ \E h \in Handlers : HandlerStep(h) \/ OrphanEnds(h) \/ HandlerFails(h)
    \/ \E p \in Pods : PodStep(p) \/ LoseCall(p) \/ CrashPod(p)
                       \/ SaveFails(p) \/ ClearFails(p) \/ ExpireProof(p)
    \/ \E p \in Pods, h \in Handlers : LoadFails(p, h)
    \/ \E s \in 1..issued : ExpireAccess(s) \/ LapseRefresh(s)
    \/ \E u, v \in UIDs : RestoreSecret(u, v)
    \/ HubRestart

Spec == Init /\ [][Next]_vars

\* A started handler runs to its end, the scheduler serves every pod, a pod
\* that went down is started again by its Deployment.
Fairness ==
    /\ \A h \in Handlers : WF_vars(HandlerStep(h) \/ OrphanEnds(h))
    /\ \A p \in Pods : WF_vars(PodStep(p))
    /\ \A t \in Tokens : WF_vars(MintBootstrap(t))

FairSpec == Spec /\ Fairness

-----------------------------------------------------------------------------
(* Safety.                                                                  *)

\* A bootstrap token buys at most one credential, however many registrations
\* present it at once, and the row names the cluster the token was spent on
\* (MarkBootstrapTokenUsed's guard against concurrent replays).
SingleUse ==
    \A r1 \in credRows : r1.jti # SA =>
        /\ usedBy[r1.jti] = r1.cluster
        /\ \A r2 \in credRows : r2.jti = r1.jti => r2 = r1

\* The steps of a registration that has bumped its cluster's epoch.
GrantSteps == {"reread", "mark", "insert"}

\* What makes SingleUse inductive: a handler about to grant on a token has
\* spent it, alone, and nothing has been granted on it; and the epoch a
\* registration has read is one its cluster has reached.
SpentForGrant ==
    \A h \in Handlers : req[h].step = "insert" /\ req[h].jti # SA =>
        /\ usedBy[req[h].jti] = req[h].uid
        /\ \A r \in credRows : r.jti # req[h].jti
        /\ \A g \in Handlers :
              req[g].step = "insert" /\ req[g].jti = req[h].jti => g = h

EpochReached ==
    \A h \in Handlers : req[h].step \in GrantSteps =>
        /\ epoch[req[h].uid] >= 1
        /\ req[h].step # "reread" => req[h].epoch \in 1..epoch[req[h].uid]

GrantInv == TypeOK /\ SingleUse /\ SpentForGrant /\ EpochReached

\* A registration outranks every credential its cluster had been granted when
\* it was sent: those are older than the epoch it is about to grant.
RegistrationRevokes ==
    \A h \in Handlers : req[h].step = "insert" =>
        \A r \in credRows :
            r.cluster = req[h].uid /\ r.serial <= req[h].began
                => r.epoch < req[h].epoch

\* The hub never acknowledges a heartbeat that was sent after a newer
\* credential of the same cluster had been granted. One sent before may be: the
\* epoch is checked one statement before the row is written.
RotatedOutNotAcked ==
    \A h \in Handlers : req[h].step = "touch" =>
        \A r \in credRows :
            r.cluster = req[h].creds.cluster /\ r.serial <= req[h].began
                => r.epoch <= req[h].creds.epoch

\* An access token never outranks the refresh token it came with: whatever an
\* agent holds, in memory, in its Secret or in a call, is backed by a row of
\* that serial, cluster and epoch.
Backed(c) == \E r \in credRows :
                 r.serial = c.refresh /\ r.cluster = c.cluster /\ r.epoch = c.epoch

HeldCredentialsBacked ==
    /\ \A p \in Pods : mem[p] # None => Backed(mem[p])
    /\ \A u \in UIDs : secret[u] # None => Backed(secret[u])
    /\ \A h \in Handlers : req[h].creds # None => Backed(req[h].creds)

\* A credential that has been rotated out never becomes current again.
Rotated(r) == r.epoch < epoch[r.cluster]

NoRevival == [][\A r \in credRows : Rotated(r) => Rotated(r)']_vars

\* The handlers, statement by statement, keep the hub's promise.
Authority == INSTANCE CredentialAuthority
    WITH UIDs <- UIDs, Tokens <- Tokens, SA <- SA, None <- None,
         epoch <- epoch, usedBy <- usedBy, credRows <- credRows, issued <- issued

KeepsPromise == Authority!Spec

-----------------------------------------------------------------------------
(* Liveness.                                                                *)

BackHome(p) == pc[p] = "run" /\ mem[p].cluster = HomeOf[p]

\* A pod without a bootstrap token, in the hub's own cluster.
Local(p) == TokenOf[p] = SA /\ HomeOf[p] = HubUID

\* A pod of the hub's own cluster that is told to re-register comes to hold a
\* credential of that cluster again, if it does so before the service-account
\* token its process has read at the start is out of date (main.go's recovery
\* loop).
LocalPodsRecover ==
    \A p \in Pods : Local(p) =>
        (pc[p] = "clear" ~> BackHome(p) \/ p \in outdated)

\* The agent "rotates short-lived access JWTs every hour": a pod of the hub's
\* cluster whose access token has expired comes by an unexpired one.
AccessRotates ==
    \A p \in Pods : Local(p) =>
        ((pc[p] = "run" /\ mem[p].access \in expired)
            ~> (mem[p] # None /\ mem[p].access \notin expired))

=============================================================================
