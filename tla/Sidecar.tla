------------------------------- MODULE Sidecar -------------------------------
(***************************************************************************)
(* One sidecar process: the goroutine that keeps the client's login token  *)
(* alive, the goroutine that keeps the cloud credentials alive with that   *)
(* token, and Run, which waits for the first, starts the second, serves    *)
(* what it retrieved and shuts down.  The goroutines share nothing but the *)
(* client's token and the expiry gauge.                                    *)
(* Time is a number of ticks; everything that lasts is a count of the      *)
(* ticks that are left of it.  A goroutine that has no ticks left to sleep *)
(* acts before the next tick.  What Vault does with tokens and leases is   *)
(* external.                                                               *)
(***************************************************************************)
EXTENDS Backoff

CONSTANTS
    SecretType,     \* "sts" (AWS), "access_token" or "service_account_key"
    LoginTTL,       \* lease of a login token,
    TokenMaxTTL,    \*   and the age beyond which it is not renewed
    CredentialTTL,  \* lease of the credentials
    MaxWait,        \* longest time from an attempt that fails to the next one
    MaxDelay,       \* longest time Vault's answer is under way
    Revocable,      \* a login token may be revoked before it expires
    MaxRebinds,     \* bound: how often the operator writes a new identity
    None

ASSUME SidecarAssumption ==
    /\ SecretType \in {"sts", "access_token", "service_account_key"}
    /\ {LoginTTL, TokenMaxTTL, CredentialTTL, MaxWait} \subseteq Nat \ {0}
    /\ LoginTTL <= TokenMaxTTL
    /\ MaxDelay \in Nat /\ MaxDelay < LoginTTL /\ MaxDelay < CredentialTTL
    /\ Revocable \in BOOLEAN
    /\ MaxRebinds \in Nat
    /\ None \notin Nat \cup {"token", "credentials"}
                   \cup [version : Nat, left : Nat, final : BOOLEAN]

VARIABLES
    up,         \* Vault answers; the CA, the JWT and the key file are accessible
    calm,       \* history: ticks it has been so since the process started,
                \*   the account's objects were there and no key ended
    binding,    \* number of the identity the Vault object has, or had last
    present,    \* the Vault objects of the account are there
    token,      \* the client's login token at Vault: ticks [left, max]
    main,       \* Run: "down", "login", "serving" or "closing"
    cancelled,  \* Run's context
    server,     \* the provider's endpoints: "off", "listening" or "closed"
    login,      \* manageLoginToken: sleep left, last lease, ticks until
                \*   expiresAt, and whether the token can be renewed
    renewal,    \* the loop of Run: sleep left, step of the attempt, number of
                \*   the identity that was read, with which login token (as
                \*   parent), first credentials retrieved
    keyLease,   \* ticks until leaseExpiresAt (service account key)
    creds,      \* credentials in memory, or the key file: [version, left, final],
                \*   the last whether their lease ends at its maximum age
    parent,     \* ticks left of the login token the key was created with, once
                \*   it is not the client's any more
    metadata,   \* number of the identity that the metadata is of
    gauge       \* what promExpiry tells the expiry of

environment == <<up, calm, binding, present>>
process == <<main, cancelled, server, login, renewal, keyLease, metadata, gauge>>
vars == <<environment, token, process, creds, parent>>

IsKey == SecretType = "service_account_key"

NoToken   == [left |-> 0, max |-> 0]
NoLogin   == [left |-> 0, lease |-> 0, ttl |-> 0, renewable |-> FALSE]
Attempt(left, step, version, done) ==
    [left |-> left, step |-> step, version |-> version, parent |-> None, done |-> done]
NoRenewal == Attempt(0, 1, None, FALSE)

(* Mistake: the whole lease is slept.                                      *)
SleepsWholeLease(leaseDuration) == {leaseDuration}

(* From a quarter to five twelfths of the lease, and then to the next tick. *)
sleepDuration(leaseDuration) ==
    {d \in 1 .. leaseDuration : /\ 4 * d >= leaseDuration
                                /\ 12 * (d - 1) < 5 * leaseDuration}

(* Mistake: the longest wait is not looked at.                             *)
DurationUncapped == UNION {ForAttemptUncapped(1, MaxWait, attempt) : attempt \in 0 .. MaxWait}

(* Mistake: after an error it waits as long as after a success.            *)
DurationOfLease == {CredentialTTL}

(* The waits of both backoffs, with the time the failed attempt took, for   *)
(* any number of attempts since the last one that did not fail.            *)
Duration == UNION {ForAttempt(1, MaxWait, attempt) : attempt \in 0 .. MaxWait}

(* The context of every request is the one of Run.                         *)
Answers == up /\ ~cancelled

Init ==
    /\ up \in BOOLEAN
    /\ calm = 0
    /\ binding = 0
    /\ present = TRUE
    /\ token = NoToken
    /\ main = "down"
    /\ cancelled = FALSE
    /\ server = "off"
    /\ login = NoLogin
    /\ renewal = NoRenewal
    /\ keyLease = 0
    /\ creds = None
    /\ parent = None
    /\ metadata = None
    /\ gauge = None
-----------------------------------------------------------------------------
(* The login token.                                                        *)

LoginDue == main # "down" /\ login.left = 0

CanRenew == login.renewable /\ login.ttl > 0

LoggedIn(granted, renewable) ==
    /\ \E sleep \in sleepDuration(granted) :
          login' = [left |-> sleep, lease |-> granted, ttl |-> granted,
                    renewable |-> renewable]
    /\ gauge' = "token"
    /\ UNCHANGED <<up, binding, present, main, cancelled, server, keyLease, metadata,
                   creds>>

(* Vault ends the lease of a key with the login token that created it, and *)
(* a token that the client has replaced lives on until its time is over.   *)
Left(itsParent) == IF itsParent = None THEN token.left ELSE itsParent
ParentLeft == Left(parent)

Valid == creds.left > 0 /\ (IsKey => ParentLeft > 0)

(* A valid key loses the login token it depends on, or its lease reaches   *)
(* its maximum age with the next tick.                                     *)
Ends(left) == IsKey /\ creds # None /\ Valid /\ left = 0
EndsOfAge  == IsKey /\ creds # None /\ Valid /\ creds.final /\ creds.left = 1

Parted == IF IsKey /\ creds # None THEN ParentLeft ELSE None

Login(delay) ==
    /\ LoginDue
    /\ ~CanRenew
    /\ Answers
    /\ parent' = Parted
    /\ renewal' = IF IsKey /\ renewal.step = 2
                  THEN [renewal EXCEPT !.parent = Left(@)] ELSE renewal
    /\ UNCHANGED calm
    /\ token' = [left |-> LoginTTL - delay, max |-> TokenMaxTTL - delay]
    /\ \E renewable \in BOOLEAN : LoggedIn(LoginTTL, renewable)

(* The lease asked for is the last one; its end is not beyond the maximum. *)
Granted == Min({login.lease, token.max})

RenewToken(delay) ==
    /\ LoginDue
    /\ CanRenew
    /\ Answers
    /\ token.left > 0
    /\ token' = [token EXCEPT !.left = Granted - Min({delay, Granted})]
    /\ LoggedIn(Granted, TRUE)
    /\ calm' = IF parent = None /\ Ends(token'.left) THEN 0 ELSE calm
    /\ UNCHANGED <<renewal, parent>>

(* An error (nobody logs in to a role that is gone), or an answer that is  *)
(* lost.                                                                   *)
LoginFails ==
    /\ LoginDue
    /\ \/ ~Answers
       \/ CanRenew /\ token.left = 0
       \/ ~CanRenew /\ ~present
    /\ \E wait \in Duration : login' = [login EXCEPT !.left = wait]
    /\ \/ UNCHANGED token
       \/ /\ CanRenew /\ token.left > 0
          /\ token' = [token EXCEPT !.left = Granted]
    /\ UNCHANGED <<environment, main, cancelled, server, renewal, keyLease,
                   metadata, creds, parent, gauge>>
-----------------------------------------------------------------------------
(* The credentials.                                                        *)

RenewalDue == main \in {"serving", "closing"} /\ renewal.left = 0

Permitted == Answers /\ token.left > 0

(* Mistake: a new key each time, as for the other credentials.             *)
RenewsNoLease == FALSE

RenewsLease == IsKey /\ keyLease > 0

Renewed(leaseDuration) ==
    /\ \E sleep \in sleepDuration(leaseDuration) :
          renewal' = Attempt(sleep, 1, None, TRUE)
    /\ gauge' = "credentials"
    /\ keyLease' = IF IsKey THEN leaseDuration ELSE keyLease
    /\ UNCHANGED <<up, binding, present, token, main, cancelled, server, login, metadata>>

(* What Vault may grant to a lease of a key that asks for a whole one, and *)
(* what becomes of the key: less than a whole lease is what was left until *)
(* the maximum age of the lease, and no renewal will extend it any more.   *)
(* (No assumption is made of when that age is reached.)                    *)
KeyGrants == IF creds.final THEN {creds.left} ELSE creds.left .. CredentialTTL

Extended(granted, delay) ==
    [creds EXCEPT !.left  = granted - Min({delay, granted}),
                  !.final = @ \/ granted < CredentialTTL]

(* renewKey, while the lease of the key has not expired.                   *)
RenewLease(delay) ==
    /\ RenewalDue
    /\ renewal.step = 1
    /\ RenewsLease
    /\ Permitted
    /\ Valid
    /\ \E granted \in KeyGrants : creds' = Extended(granted, delay) /\ Renewed(granted)
    /\ calm' = IF creds'.left = 0 THEN 0 ELSE calm
    /\ UNCHANGED parent

(* Mistake: what was read before is used again.                            *)
ReadSecretOnce ==
    /\ RenewalDue
    /\ renewal.step = 1
    /\ ~RenewsLease
    /\ Permitted
    /\ present
    /\ renewal' = [renewal EXCEPT !.step = 2,
                                  !.version = IF creds = None THEN binding ELSE creds.version]
    /\ UNCHANGED <<environment, token, main, cancelled, server, login, keyLease,
                   creds, parent, metadata, gauge>>

(* The first request of the other cases: the STS credentials, the access   *)
(* token, or a new key.                                                    *)
ReadSecret ==
    /\ RenewalDue
    /\ renewal.step = 1
    /\ ~RenewsLease
    /\ Permitted
    /\ present
    /\ renewal' = Attempt(0, 2, binding, renewal.done)
    /\ UNCHANGED <<environment, token, main, cancelled, server, login, keyLease,
                   creds, parent, metadata, gauge>>

(* Then the lease of the STS credentials is looked up, the metadata of the *)
(* access token is read and published, or the key file is written.         *)
Confirmed ==
    /\ IF IsKey THEN up ELSE Permitted
    /\ SecretType = "access_token" => present

Retrieved(delay) ==
    [version |-> renewal.version, left |-> CredentialTTL - delay, final |-> FALSE]

(* Mistake: the metadata is read only once.                                *)
ConfirmMetadataOnce(delay) ==
    /\ RenewalDue
    /\ renewal.step = 2
    /\ Confirmed
    /\ renewal' = [renewal EXCEPT !.step = 3]
    /\ metadata' = IF metadata = None THEN binding ELSE metadata
    /\ UNCHANGED <<environment, token, main, cancelled, server, login, keyLease,
                   creds, parent, gauge>>

Confirm(delay) ==
    /\ RenewalDue
    /\ renewal.step = 2
    /\ Confirmed
    /\ renewal' = [renewal EXCEPT !.step = 3]
    /\ metadata' = IF SecretType = "access_token" THEN binding ELSE metadata
    /\ IF IsKey THEN creds' = Retrieved(delay) /\ parent' = renewal.parent
                ELSE UNCHANGED <<creds, parent>>
    /\ calm' = IF IsKey /\ Left(renewal.parent) = 0 THEN 0 ELSE calm
    /\ UNCHANGED <<up, binding, present, token, main, cancelled, server, login,
                   keyLease, gauge>>

(* What is in memory is set last: the credentials, or the lease of the key. *)
Publish(delay) ==
    /\ RenewalDue
    /\ renewal.step = 3
    /\ creds' = IF IsKey THEN creds ELSE Retrieved(delay)
    /\ Renewed(CredentialTTL)
    /\ UNCHANGED <<calm, parent>>

(* A write of the key file that fails has emptied the file before.         *)
Emptied == IF creds = None THEN None ELSE [creds EXCEPT !.left = 0]

RenewalFails ==
    /\ RenewalDue
    /\ \/ renewal.step = 1 /\ (~Permitted \/ ~present \/ (RenewsLease /\ ~Valid))
       \/ renewal.step = 2 /\ ~Confirmed
    /\ \E wait \in Duration :
          renewal' = Attempt(wait, 1, None, renewal.done)
    /\ \/ UNCHANGED creds
       \/ /\ renewal.step = 1 /\ RenewsLease /\ Valid /\ token.left > 0
          /\ \E granted \in KeyGrants : creds' = Extended(granted, 0)
       \/ /\ renewal.step = 2 /\ IsKey
          /\ creds' = Emptied
    /\ UNCHANGED <<environment, token, main, cancelled, server, login, keyLease,
                   parent, metadata, gauge>>
-----------------------------------------------------------------------------
(* Run.                                                                    *)

Elsewhere == UNCHANGED <<environment, token, login, renewal, keyLease, metadata,
                         creds, parent, gauge>>

Start ==
    /\ main = "down"
    /\ main' = "login"
    /\ UNCHANGED <<cancelled, server>> /\ Elsewhere

(* <-loggedIn                                                              *)
FirstLogin ==
    /\ main = "login"
    /\ login.lease > 0
    /\ main' = "serving"
    /\ UNCHANGED <<cancelled, server>> /\ Elsewhere

(* Mistake: ready is not waited for.                                       *)
ListenAtOnce ==
    /\ main = "serving"
    /\ server = "off"
    /\ server' = "listening"
    /\ UNCHANGED <<main, cancelled>> /\ Elsewhere

(* <-ready                                                                 *)
Listen ==
    /\ main = "serving"
    /\ renewal.done
    /\ server = "off"
    /\ server' = "listening"
    /\ UNCHANGED <<main, cancelled>> /\ Elsewhere

Cancel ==
    /\ main # "down"
    /\ ~cancelled
    /\ cancelled' = TRUE
    /\ UNCHANGED <<main, server>> /\ Elsewhere

(* Only the select at the end of Run looks at the context.                 *)
Shutdown ==
    /\ main = "serving"
    /\ cancelled
    /\ main' = "closing"
    /\ server' = "closed"
    /\ UNCHANGED cancelled /\ Elsewhere

(* The process is gone, and what it had in memory.                         *)
Exit ==
    /\ main' = "down"
    /\ cancelled' = FALSE
    /\ server' = "off"
    /\ login' = NoLogin
    /\ renewal' = NoRenewal
    /\ token' = NoToken
    /\ parent' = Parted
    /\ keyLease' = 0
    /\ metadata' = None
    /\ gauge' = None
    /\ creds' = IF IsKey THEN creds ELSE None
    /\ calm' = 0
    /\ UNCHANGED <<up, binding, present>>

(* The second server is shut down too, or a deadline has passed.           *)
Return == main = "closing" /\ Exit

(* A server that cannot listen, a second signal, a kill.                   *)
Crash == main # "down" /\ Exit

(* An object that is gone is read as nil.  The AWS provider returns an     *)
(* error, the GCP provider dereferences it.  (When the policy is gone too, *)
(* the answer is an error for both.)                                       *)
Panic ==
    /\ RenewalDue
    /\ Permitted
    /\ ~present
    /\ \/ renewal.step = 1 /\ ~RenewsLease /\ SecretType # "sts"
       \/ renewal.step = 2 /\ SecretType = "access_token"
    /\ Exit
-----------------------------------------------------------------------------
(* Vault and the clock.                                                    *)

(* How long the sidecar takes to recover: a wait that began before Vault   *)
(* answered, a renewal of the login token that comes too late because the  *)
(* token ends sooner than it seems, and the wait of the other goroutine;   *)
(* a token that is revoked is not noticed before it would have expired,    *)
(* and a key that ended with its login token is renewed in vain until its  *)
(* lease is over.                                                          *)
AnswerLag     == IF MaxDelay = 0 THEN 1 ELSE MaxDelay
RevocationLag == IF Revocable THEN LoginTTL ELSE 0
KeyLag        == IF IsKey THEN CredentialTTL ELSE 0

Recovery == 3 * MaxWait + AnswerLag + RevocationLag + KeyLag

Others == UNCHANGED <<token, process, creds, parent>>

Outage == up /\ up' = FALSE /\ calm' = 0 /\ UNCHANGED <<binding, present>> /\ Others
Recover == ~up /\ up' = TRUE /\ UNCHANGED <<calm, binding, present>> /\ Others

(* The operator removes the account's objects, or writes them.             *)
Unbind ==
    /\ binding < MaxRebinds
    /\ present
    /\ present' = FALSE
    /\ calm' = 0
    /\ UNCHANGED <<up, binding>> /\ Others

Rebind ==
    /\ binding < MaxRebinds
    /\ binding' = binding + 1
    /\ present' = TRUE
    /\ UNCHANGED <<up, calm>> /\ Others

Revoke ==
    /\ Revocable
    /\ token.left > 0
    /\ token' = NoToken
    /\ calm' = 0
    /\ UNCHANGED <<up, binding, present, process, creds, parent>>

Less(ticks) == IF ticks = 0 THEN 0 ELSE ticks - 1

Tick ==
    /\ ~LoginDue /\ ~RenewalDue
    /\ ~(main = "login" /\ login.lease > 0)
    /\ token' = [left |-> Less(token.left), max |-> Less(token.max)]
    /\ login' = [login EXCEPT !.left = Less(@), !.ttl = Less(@)]
    /\ renewal' = [renewal EXCEPT !.left = Less(@)]
    /\ keyLease' = Less(keyLease)
    /\ creds' = IF creds = None THEN None ELSE [creds EXCEPT !.left = Less(@)]
    /\ parent' = IF parent = None THEN None ELSE Less(parent)
    /\ calm' = IF up /\ present /\ main # "down" /\ ~Ends(Less(ParentLeft)) /\ ~EndsOfAge
               THEN Min({calm + 1, Recovery}) ELSE 0
    /\ UNCHANGED <<up, binding, present, main, cancelled, server, metadata, gauge>>
-----------------------------------------------------------------------------
LoginStep == LoginFails \/ \E delay \in 0 .. MaxDelay : Login(delay) \/ RenewToken(delay)

RenewalStep ==
    \/ ReadSecret \/ RenewalFails \/ Panic
    \/ \E delay \in 0 .. MaxDelay : RenewLease(delay) \/ Confirm(delay) \/ Publish(delay)

Next ==
    \/ LoginStep \/ RenewalStep
    \/ Start \/ FirstLogin \/ Listen \/ Cancel \/ Shutdown \/ Return \/ Crash
    \/ Outage \/ Recover \/ Unbind \/ Rebind \/ Revoke \/ Tick

Spec == Init /\ [][Next]_vars

(* The kubelet restarts the container, goroutines are scheduled, and time  *)
(* goes on.                                                                *)
Fairness ==
    /\ WF_vars(Start) /\ WF_vars(LoginStep) /\ WF_vars(RenewalStep)
    /\ WF_vars(FirstLogin) /\ WF_vars(Listen) /\ WF_vars(Shutdown)
    /\ WF_vars(Return) /\ WF_vars(Tick)
-----------------------------------------------------------------------------
Fresh == creds # None /\ Valid

(* Every variable has its type, and nothing lasts longer than what it is a *)
(* count of: no lease exceeds what Vault grants, and neither goroutine     *)
(* ever sleeps past the wait after a failure or the end of its lease       *)
(* (backoff.go:42-80, sidecar.go:87-112 and 270-274, login.go:18-52).      *)
TypeOK ==
    /\ up \in BOOLEAN
    /\ calm \in 0 .. Recovery
    /\ binding \in 0 .. MaxRebinds
    /\ present \in BOOLEAN
    /\ token \in [left : 0 .. LoginTTL, max : 0 .. TokenMaxTTL]
    /\ main \in {"down", "login", "serving", "closing"}
    /\ cancelled \in BOOLEAN
    /\ server \in {"off", "listening", "closed"}
    /\ login \in [left : Nat, lease : 0 .. LoginTTL, ttl : 0 .. LoginTTL, renewable : BOOLEAN]
    /\ login.ttl <= login.lease
    /\ login.left <= MaxWait \/ login.left <= login.ttl
    /\ renewal \in [left : Nat, step : 1 .. 3, version : 0 .. binding \cup {None},
                    parent : 0 .. LoginTTL \cup {None}, done : BOOLEAN]
    /\ renewal.left <= MaxWait \/ renewal.left <= CredentialTTL
    /\ keyLease \in 0 .. CredentialTTL
    /\ creds \in [version : 0 .. binding, left : 0 .. CredentialTTL, final : BOOLEAN]
                  \cup {None}
    /\ parent \in 0 .. LoginTTL \cup {None}
    /\ metadata \in 0 .. binding \cup {None}
    /\ gauge \in {None, "token", "credentials"}

(* The Help text of promExpiry (metrics.go:18-21).                         *)
GaugeTellsCredentials ==
    creds # None /\ main # "down" => gauge = "credentials"
-----------------------------------------------------------------------------
(* Why the invariants hold.                                                *)

(* An attempt past its first request knows what it has read, and past its  *)
(* second one has metadata that is no older, or has written the key file.  *)
AttemptInv ==
    /\ renewal.step # 1 => renewal.version # None
    /\ SecretType = "access_token" /\ renewal.step = 3 =>
          metadata # None /\ renewal.version <= metadata
    /\ IsKey /\ renewal.step = 3 => creds # None

(* What is published is never older than the metadata: the token is read   *)
(* first and set last.                                                     *)
MetadataNotOlder ==
    SecretType = "access_token" /\ creds # None =>
        metadata # None /\ creds.version <= metadata

(* The channels tell the truth.                                            *)
RetrievedInv ==
    /\ server = "listening" => renewal.done
    /\ renewal.done => /\ creds # None
                       /\ SecretType = "access_token" => metadata # None
    /\ keyLease > 0 => creds # None

SInv == TypeOK /\ AttemptInv /\ RetrievedInv /\ MetadataNotOlder
=============================================================================
