--------------------------- MODULE SidecarRecovery ---------------------------
(***************************************************************************)
(* How soon a sidecar recovers once Vault answers, and why.  This needs    *)
(* leases that are long enough for the waits and the delays.               *)
(***************************************************************************)
EXTENDS Sidecar

(* Before a lease ends there is time to notice that the login token has    *)
(* ended, and to get another one: seven twelfths of it, the least that a   *)
(* sleep leaves, are more than the waits and delays that may come before.  *)
ASSUME RatioAssumption ==
    /\ 12 * MaxDelay + 11 < 7 * LoginTTL
    /\ MaxWait + 2 * MaxDelay < TokenMaxTTL
    /\ IF IsKey THEN 36 * MaxDelay + 11 < 7 * CredentialTTL
       ELSE 12 * (2 * MaxWait + AnswerLag + MaxDelay) <= 7 * CredentialTTL
-----------------------------------------------------------------------------
(* However long Vault was away, and whatever expired meanwhile: once it    *)
(* has answered for the recovery time, the sidecar has credentials that    *)
(* are valid, whenever login tokens reach their maximum age, and they stay *)
(* valid for as long as Vault answers and ends no key (README.md, Renewal; *)
(* login.go:27-52 and 64-76, sidecar.go:91-112, provider_gcp.go:149-167).  *)
(* A login token that is revoked early is noticed no sooner than it would  *)
(* have expired, and a key that Vault ends, with its login token or at the *)
(* maximum age of its lease, no sooner than its lease would have: there is *)
(* another key at the latest the recovery time after the end of that one.  *)
RecoversInTime ==
    main # "down" /\ ~cancelled /\ calm = Recovery => Fresh

(* Once Vault has answered for long enough, a login token only ends under  *)
(* the sidecar when it reaches the age beyond which Vault does not renew   *)
(* it: the tokens that can be renewed are, in time, and the others are     *)
(* replaced before they end (login.go:27-76).  A key ends with the token   *)
(* it was created with, so this also says when keys are lost.              *)
TokenEndsOfAge ==
    main # "down" /\ ~cancelled /\ calm = Recovery =>
        token.left > 0 \/ token.max <= MaxDelay

(* Once Vault has answered for long enough the key file is not replaced,   *)
(* unless Vault ended the key, with the login token that it was created    *)
(* with or at the maximum age of its lease: neither late answers nor a     *)
(* lease that was not renewed in time cost a key.  That "only 1 key will be *)
(* used for the lifecycle of the pod" (provider_gcp.go:145-152) is true of *)
(* a pod whose process runs on, up to these two ends; a process that is    *)
(* started again takes a new key at once, which is before it is calm.      *)
KeyKeptWhileCalm ==
    [][ IsKey /\ calm = Recovery => ~ \E delay \in 0 .. MaxDelay : Confirm(delay) ]_vars

-----------------------------------------------------------------------------
(* Why they hold.                                                          *)

Working == main # "down" /\ ~cancelled

(* A process that is down holds nothing.                                   *)
DownInv ==
    main = "down" =>
        /\ token = NoToken /\ login = NoLogin /\ renewal = NoRenewal
        /\ keyLease = 0 /\ calm = 0

(* What being calm means, and what an attempt under way does.              *)
AttemptsInv ==
    /\ calm > 0 => up /\ present
    /\ main = "closing" => cancelled
    /\ keyLease > 0 => IsKey
    /\ renewal.step = 1 => renewal.parent = None
    /\ renewal.step # 1 =>
          /\ renewal.left = 0 /\ keyLease = 0
          /\ main \in {"serving", "closing"}
    /\ IsKey /\ renewal.step = 2 => calm < Recovery

(* The login goroutine acts before the token seems to end, or soon; and    *)
(* the token does not end before it seems to, unless it was revoked.       *)
TokenInv ==
    /\ token.left <= token.max
    /\ token.left <= login.lease
    /\ login.lease = LoginTTL \/ login.ttl = token.max \/ token.max = 0
    /\ login.left <= MaxWait \/ login.left <= login.ttl
    /\ \/ login.ttl <= token.left + MaxDelay
       \/ login.ttl + calm <= RevocationLag

(* The token is renewed in time, or is in its last lease.                  *)
Sound ==
    /\ login.ttl <= token.left + MaxDelay
    /\ login.ttl > login.left + MaxDelay \/ login.ttl = token.max

(* Vault has not answered for long: the next attempts may come too late.   *)
Shaky ==
    /\ calm + login.left < 2 * MaxWait + MaxDelay + RevocationLag
    /\ \/ login.ttl = 0
       \/ calm + login.ttl <= MaxWait + MaxDelay + RevocationLag
       \/ calm + login.left <= MaxWait

(* Before the first login there is nothing else to wait for.               *)
FirstLoginInv ==
    main = "login" =>
        /\ calm <= MaxWait /\ renewal.left = 0 /\ keyLease = 0
        /\ login.lease = 0 => calm + login.left <= MaxWait

(* When, at the latest, there is a new token in place of one that ended.   *)
Awaits == IF login.ttl > login.left THEN login.ttl - 1 + MaxWait ELSE login.left

(* The credentials last until the next renewal and, if that one fails,     *)
(* until there is a new token and a renewal with it.                       *)
Outlast ==
    /\ creds # None
    /\ \/ creds.left >= renewal.left + 2 * MaxWait + AnswerLag
       \/ token.left = 0 /\ renewal.left <= MaxWait /\ creds.left > Awaits + MaxWait
       \/ token.max > renewal.left + MaxDelay /\ creds.left > renewal.left

(* The token that a key was created with is the client's, or lasts no      *)
(* longer than that one, or no longer than that one can be renewed.        *)
Known(itsParent) ==
    \/ itsParent = None
    \/ itsParent <= token.left + MaxDelay
    \/ /\ login.ttl = token.max
       /\ login.ttl <= token.left + MaxDelay
       /\ itsParent <= token.max + MaxDelay

(* The key lasts until its lease is renewed, or until its token ends, or   *)
(* its lease cannot be extended any more.                                  *)
OutlastKey ==
    /\ creds # None /\ Valid
    /\ Known(parent)
    /\ \/ /\ creds.left > renewal.left + 2 * MaxDelay
          /\ keyLease > renewal.left + 2 * MaxDelay
       \/ parent # None /\ creds.left >= parent /\ keyLease >= parent
       \/ creds.final /\ keyLease >= creds.left

(* There may be no credentials, but there will be in time.                 *)
Soon ==
    \/ /\ keyLease > 0 /\ calm + keyLease <= KeyLag
       /\ renewal.left <= MaxWait \/ renewal.left <= keyLease
    \/ /\ keyLease = 0
       /\ \/ /\ token.left = 0 /\ renewal.left <= MaxWait
             /\ calm + Awaits + MaxWait < Recovery
          \/ /\ token.max > renewal.left + MaxDelay /\ renewal.left <= MaxWait
             /\ calm + renewal.left < Recovery
          \/ calm + renewal.left <= KeyLag + MaxWait

(* A renewal is never far off.                                             *)
RenewalSoon ==
    \/ renewal.left <= MaxWait
    \/ IF IsKey THEN renewal.left <= keyLease
       ELSE creds # None /\ creds.left >= renewal.left + 2 * MaxWait + AnswerLag

(* The token of a key that is being created does not end unnoticed.        *)
ParentInv ==
    /\ token.left > 0 => Known(parent) /\ Known(renewal.parent)
    /\ IsKey /\ renewal.step = 2 => calm = 0 \/ Known(renewal.parent)
    /\ IsKey /\ renewal.step = 3 =>
          /\ creds.left >= CredentialTTL - MaxDelay
          /\ calm = 0 \/ (ParentLeft > 0 /\ Known(parent))

Provided == Soon \/ (IF IsKey THEN OutlastKey ELSE Outlast)

(* What every reachable state satisfies: RecoversInTime and the other two  *)
(* follow from it, and every step preserves it.                            *)
RInv ==
    /\ DownInv
    /\ AttemptsInv
    /\ Working =>
          /\ TokenInv
          /\ Sound \/ Shaky
          /\ FirstLoginInv
          /\ RenewalSoon
          /\ ParentInv
          /\ Provided
=============================================================================
