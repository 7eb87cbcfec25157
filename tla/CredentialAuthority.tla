-------------------------- MODULE CredentialAuthority --------------------------
(***************************************************************************)
(* What the hub promises about agent credentials, whatever agents, the     *)
(* network and the interleaving of handlers do: a bootstrap token is spent *)
(* on one cluster and buys one grant there, a grant is made under an epoch *)
(* its cluster has reached, an access token is reissued under the current  *)
(* epoch only, and epochs move forward one by one.                         *)
(***************************************************************************)
EXTENDS Naturals

CONSTANTS UIDs, Tokens, SA, None

VARIABLES
    epoch,     \* the current epoch of each cluster; 0 before it registers
    usedBy,    \* the cluster a token was spent on
    credRows,  \* the refresh tokens granted
    issued     \* how many tokens of either kind have been handed out

authVars == <<epoch, usedBy, credRows, issued>>

Init ==
    /\ epoch = [u \in UIDs |-> 0]
    /\ usedBy = [t \in Tokens |-> None]
    /\ credRows = {}
    /\ issued = 0

\* A registration starts a new epoch; it may yet be refused.
Rotate(u) ==
    /\ epoch' = [epoch EXCEPT ![u] = @ + 1]
    /\ UNCHANGED <<usedBy, credRows, issued>>

Spend(t, u) ==
    /\ usedBy[t] = None
    /\ usedBy' = [usedBy EXCEPT ![t] = u]
    /\ UNCHANGED <<epoch, credRows, issued>>

\* A token pays for one grant, on the cluster it was spent on.
Pays(jti, u) ==
    jti # SA => usedBy[jti] = u /\ \A r \in credRows : r.jti # jti

Grant(u, jti) ==
    /\ Pays(jti, u)
    /\ issued' = issued + 1
    /\ \E e \in 1..epoch[u] :
          credRows' = credRows \cup {[serial |-> issued', cluster |-> u,
                                      epoch |-> e, jti |-> jti]}
    /\ UNCHANGED <<epoch, usedBy>>

\* An access token is reissued only on a refresh token of the current epoch.
Reissue ==
    /\ \E r \in credRows : r.epoch = epoch[r.cluster]
    /\ issued' = issued + 1
    /\ UNCHANGED <<epoch, usedBy, credRows>>

Next ==
    \/ \E u \in UIDs :
          \/ Rotate(u)
          \/ \E t \in Tokens : Spend(t, u)
          \/ \E jti \in Tokens \cup {SA} : Grant(u, jti)
    \/ Reissue

Spec == Init /\ [][Next]_authVars
=============================================================================
