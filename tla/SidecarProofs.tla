---------------------------- MODULE SidecarProofs ----------------------------
(***************************************************************************)
(* What the sidecar serves, for every lease, wait and delay: proofs about  *)
(* the module Sidecar.                                                     *)
(***************************************************************************)
EXTENDS Sidecar, TLAPS

(* The smaller of two numbers is one of them and not above either.         *)
LEMMA MinOfTwo ==
    ASSUME NEW a \in Nat, NEW b \in Nat
    PROVE  /\ Min({a, b}) \in {a, b}
           /\ Min({a, b}) \in Nat /\ Min({a, b}) <= a /\ Min({a, b}) <= b
<1> DEFINE least(x) == x \in {a, b} /\ \A y \in {a, b} : x <= y
<1>1. \E x : least(x)
  <2>1. CASE a <= b
    <3>1. least(a) BY <2>1
    <3> QED BY <3>1
  <2>2. CASE ~(a <= b)
    <3>1. least(b) BY <2>2
    <3> QED BY <3>1
  <2> QED BY <2>1, <2>2
<1>2. Min({a, b}) = CHOOSE x : least(x)
  BY DEF Min
<1>3. least(CHOOSE x : least(x))
  BY <1>1
<1> QED BY <1>2, <1>3

(* A wait is between the least and the longest one, after however many     *)
(* attempts (backoff.go:50-80).                                            *)
THEOREM WaitInRange ==
    ASSUME NEW min \in Nat, NEW max \in Nat, min <= max, NEW attempt \in Nat,
           NEW wait \in ForAttempt(min, max, attempt)
    PROVE  wait \in min .. max
<1> DEFINE top == min * 2 ^ attempt
<1>1. CASE min >= max
  BY <1>1 DEF ForAttempt
<1>2. CASE ~(min >= max)
  <2>1. PICK d \in min .. top : wait = Min({d, max})
    BY <1>2 DEF ForAttempt
  <2> HIDE DEF top
  <2>2. d \in Int /\ min <= d
    BY <2>1
  <2>3. d \in Nat
    BY <2>2
  <2>4. Min({d, max}) \in Nat /\ Min({d, max}) <= max
    BY <2>3, MinOfTwo
  <2>5. Min({d, max}) \in {d, max}
    BY <2>3, MinOfTwo
  <2> QED BY <1>2, <2>1, <2>2, <2>4, <2>5
<1> QED BY <1>1, <1>2

(* So the waits of the sidecar are numbers of ticks up to MaxWait.         *)
LEMMA WaitType == Duration \subseteq 1 .. MaxWait
<1> SUFFICES ASSUME NEW attempt \in 0 .. MaxWait,
                    NEW wait \in ForAttempt(1, MaxWait, attempt)
             PROVE  wait \in 1 .. MaxWait
  BY DEF Duration
<1>1. MaxWait \in Nat \ {0}
  BY SidecarAssumption
<1>2. 1 <= MaxWait /\ attempt \in Nat
  BY <1>1
<1> QED BY <1>1, <1>2, WaitInRange

(* A sleep is a number of ticks, and is over before the lease is.          *)
LEMMA SleepType ==
    ASSUME NEW d \in Nat, NEW sleep \in sleepDuration(d)
    PROVE  sleep \in Nat /\ sleep <= d
BY DEF sleepDuration

(* The token of a key is one that has a lease, as long as it is known.     *)
LEMMA PartedType == TypeOK => Parted \in 0 .. LoginTTL \cup {None}
BY DEF TypeOK, Parted, ParentLeft, Left

(* Credentials are not nothing.                                            *)
LEMMA CredentialsAreThere ==
    ASSUME TypeOK,
           NEW c \in [version : 0 .. binding, left : 0 .. CredentialTTL, final : BOOLEAN]
    PROVE  c # None
<1>1. binding \in Nat /\ CredentialTTL \in Nat
  BY SidecarAssumption DEF TypeOK
<1>2. c \in [version : Nat, left : Nat, final : BOOLEAN]
  BY <1>1
<1> QED BY <1>2, SidecarAssumption

(* What Vault grants is part of a lease, and does not shorten a key's.     *)
LEMMA KeyGrantType ==
    ASSUME TypeOK, creds # None, NEW granted \in KeyGrants, NEW delay \in Nat
    PROVE  /\ granted \in Nat /\ creds.left <= granted /\ granted <= CredentialTTL
           /\ Min({delay, granted}) \in 0 .. granted
           /\ Extended(granted, delay).version = creds.version
           /\ Extended(granted, delay).left = granted - Min({delay, granted})
           /\ Extended(granted, delay).final <=> creds.final \/ granted < CredentialTTL
           /\ Extended(granted, delay) \in
                 [version : 0 .. binding, left : 0 .. CredentialTTL, final : BOOLEAN]
<1>1. creds \in [version : 0 .. binding, left : 0 .. CredentialTTL, final : BOOLEAN]
  BY DEF TypeOK
<1>2. CredentialTTL \in Nat
  BY SidecarAssumption
<1>3. granted \in Nat /\ creds.left <= granted /\ granted <= CredentialTTL
  BY <1>1, <1>2 DEF KeyGrants
<1>4. Min({delay, granted}) \in 0 .. granted
  BY <1>3, MinOfTwo
<1> DEFINE left == granted - Min({delay, granted})
           final == creds.final \/ granted < CredentialTTL
           with(l, f) == [creds EXCEPT !.left = l, !.final = f]
<1>5. left \in 0 .. CredentialTTL
  BY <1>2, <1>3, <1>4
<1>6. final \in BOOLEAN
  OBVIOUS
<1>7. \A l \in 0 .. CredentialTTL, f \in BOOLEAN :
         /\ with(l, f).version = creds.version
         /\ with(l, f).left = l
         /\ with(l, f).final = f
         /\ with(l, f) \in [version : 0 .. binding, left : 0 .. CredentialTTL, final : BOOLEAN]
  BY <1>1
<1>8. Extended(granted, delay) = with(left, final)
  BY DEF Extended
<1> HIDE DEF left, final, with
<1>9. /\ Extended(granted, delay).version = creds.version
      /\ Extended(granted, delay).left = left
      /\ Extended(granted, delay).final = final
      /\ Extended(granted, delay) \in
            [version : 0 .. binding, left : 0 .. CredentialTTL, final : BOOLEAN]
  <2>1. /\ with(left, final).version = creds.version
        /\ with(left, final).left = left
        /\ with(left, final).final = final
        /\ with(left, final) \in
              [version : 0 .. binding, left : 0 .. CredentialTTL, final : BOOLEAN]
    BY <1>5, <1>6, <1>7, Zenon
  <2> QED BY <1>8, <2>1, Zenon
<1>10. Extended(granted, delay).final <=> final
  BY <1>9, Zenon
<1> QED BY <1>3, <1>4, <1>9, <1>10 DEF left, final
-----------------------------------------------------------------------------
(* The invariant holds at the start.                                       *)
LEMMA InvInit == Init => SInv
<1> SUFFICES ASSUME Init PROVE SInv
  OBVIOUS
<1> USE DEF Init, NoToken, NoLogin, NoRenewal, Attempt
<1>1. /\ Recovery \in Nat
      /\ LoginTTL \in Nat /\ TokenMaxTTL \in Nat /\ CredentialTTL \in Nat
      /\ MaxRebinds \in Nat
  BY SidecarAssumption DEF Recovery, AnswerLag, RevocationLag, KeyLag
<1>2. TypeOK
  <2>1. token \in [left : 0 .. LoginTTL, max : 0 .. TokenMaxTTL]
    BY <1>1
  <2>2. login \in [left : Nat, lease : 0 .. LoginTTL, ttl : 0 .. LoginTTL, renewable : BOOLEAN]
    BY <1>1
  <2>3. renewal \in [left : Nat, step : 1 .. 3, version : 0 .. binding \cup {None},
                     parent : 0 .. LoginTTL \cup {None}, done : BOOLEAN]
    OBVIOUS
  <2>4. calm \in 0 .. Recovery /\ binding \in 0 .. MaxRebinds /\ keyLease \in 0 .. CredentialTTL
    BY <1>1
  <2>5. login.ttl <= login.lease /\ login.left <= MaxWait /\ renewal.left <= MaxWait
    BY SidecarAssumption
  <2> QED BY <2>1, <2>2, <2>3, <2>4, <2>5 DEF TypeOK
<1>3. AttemptInv /\ RetrievedInv /\ MetadataNotOlder
  BY DEF AttemptInv, RetrievedInv, MetadataNotOlder
<1> QED BY <1>2, <1>3 DEF SInv

(* A step of the login goroutine changes nothing the other parts rely on.  *)
LEMMA LoginInv == SInv /\ LoginStep => SInv'
<1> SUFFICES ASSUME SInv, LoginStep PROVE SInv'
  OBVIOUS
<1> USE SidecarAssumption DEF environment
<1>1. UNCHANGED <<up, binding, present, main, cancelled, server, keyLease, metadata, creds>>
  BY DEF LoginStep, LoginFails, Login, RenewToken, LoggedIn
<1>2. /\ renewal' \in [left : Nat, step : 1 .. 3, version : 0 .. binding \cup {None},
                        parent : 0 .. LoginTTL \cup {None}, done : BOOLEAN]
      /\ renewal'.step = renewal.step
      /\ renewal'.version = renewal.version
      /\ renewal'.done = renewal.done
  <2>1. \/ renewal' = renewal
        \/ \E itsParent \in {token.left, renewal.parent} :
               renewal' = [renewal EXCEPT !.parent = itsParent]
    BY DEF LoginStep, LoginFails, Login, RenewToken, Left
  <2>2. token.left \in 0 .. LoginTTL
    BY DEF SInv, TypeOK
  <2>3. renewal \in [left : Nat, step : 1 .. 3, version : 0 .. binding \cup {None},
                     parent : 0 .. LoginTTL \cup {None}, done : BOOLEAN]
    BY DEF SInv, TypeOK
  <2> QED BY <1>1, <2>1, <2>2, <2>3
<1>10. renewal'.left = renewal.left
  BY DEF LoginStep, LoginFails, Login, RenewToken, SInv, TypeOK
<1>8. parent' \in 0 .. LoginTTL \cup {None} /\ calm' \in 0 .. Recovery
  <2>1. parent' = parent \/ parent' = Parted
    BY DEF LoginStep, LoginFails, Login, RenewToken
  <2>2. Recovery \in Nat
    BY DEF Recovery, AnswerLag, RevocationLag, KeyLag
  <2>3. calm' = calm \/ calm' = 0
    BY DEF LoginStep, LoginFails, Login, RenewToken
  <2> QED BY <2>1, <2>2, <2>3, PartedType DEF SInv, TypeOK
<1>9. (AttemptInv /\ RetrievedInv /\ MetadataNotOlder)'
  BY <1>1, <1>2 DEF SInv, AttemptInv, RetrievedInv, MetadataNotOlder
<1>3. /\ Granted \in Nat
      /\ Granted <= login.lease
      /\ Granted <= token.max
      /\ Granted <= LoginTTL
  <2>1. login.lease \in Nat /\ login.lease <= LoginTTL /\ token.max \in Nat
    BY DEF SInv, TypeOK
  <2> QED BY <2>1, MinOfTwo DEF Granted
<1>4. ASSUME NEW granted \in 0 .. LoginTTL, NEW renewable \in BOOLEAN,
             LoggedIn(granted, renewable), token' \in [left : 0 .. LoginTTL, max : 0 .. TokenMaxTTL]
      PROVE  TypeOK'
  <2>1. PICK sleep \in sleepDuration(granted) :
            login' = [left |-> sleep, lease |-> granted, ttl |-> granted,
                      renewable |-> renewable]
    BY <1>4 DEF LoggedIn
  <2>2. sleep \in Nat /\ sleep <= granted
    BY <2>1, SleepType
  <2>3. gauge' = "token"
    BY <1>4 DEF LoggedIn
  <2>4. login' \in [left : Nat, lease : 0 .. LoginTTL, ttl : 0 .. LoginTTL, renewable : BOOLEAN]
    BY <2>1, <2>2
  <2>5. login'.ttl <= login'.lease /\ login'.left <= login'.ttl
    BY <2>1, <2>2
  <2> QED BY <1>1, <1>2, <1>4, <1>8, <1>10, <2>3, <2>4, <2>5 DEF SInv, TypeOK, Recovery
<1>5. ASSUME NEW delay \in 0 .. MaxDelay, Login(delay) PROVE TypeOK'
  <2>1. token' \in [left : 0 .. LoginTTL, max : 0 .. TokenMaxTTL]
    BY <1>5 DEF Login
  <2>2. PICK renewable \in BOOLEAN : LoggedIn(LoginTTL, renewable)
    BY <1>5 DEF Login
  <2> QED BY <1>4, <2>1, <2>2
<1>6. ASSUME NEW delay \in 0 .. MaxDelay, RenewToken(delay) PROVE TypeOK'
  <2>1. Min({delay, Granted}) \in Nat /\ Min({delay, Granted}) <= Granted
    BY <1>3, MinOfTwo
  <2>2. token' = [token EXCEPT !.left = Granted - Min({delay, Granted})]
    BY <1>6 DEF RenewToken
  <2>3. token' \in [left : 0 .. LoginTTL, max : 0 .. TokenMaxTTL]
    BY <1>3, <2>1, <2>2 DEF SInv, TypeOK
  <2>4. LoggedIn(Granted, TRUE)
    BY <1>6 DEF RenewToken
  <2>5. Granted \in 0 .. LoginTTL
    BY <1>3
  <2> QED BY <1>4, <2>3, <2>4, <2>5
<1>7. ASSUME LoginFails PROVE TypeOK'
  <2>1. token' \in [left : 0 .. LoginTTL, max : 0 .. TokenMaxTTL]
    BY <1>3, <1>7 DEF SInv, TypeOK, LoginFails
  <2>2. PICK wait \in Duration : login' = [login EXCEPT !.left = wait]
    BY <1>7 DEF LoginFails
  <2>3. gauge' = gauge
    BY <1>7 DEF LoginFails
  <2>4. wait \in Nat /\ wait <= MaxWait
    BY WaitType, SidecarAssumption
  <2>5. /\ login' \in [left : Nat, lease : 0 .. LoginTTL, ttl : 0 .. LoginTTL,
                       renewable : BOOLEAN]
        /\ login'.ttl <= login'.lease /\ login'.left <= MaxWait
    BY <2>2, <2>4 DEF SInv, TypeOK
  <2> QED BY <1>1, <1>2, <1>8, <1>10, <2>1, <2>3, <2>5 DEF SInv, TypeOK, Recovery
<1> QED BY <1>9, <1>5, <1>6, <1>7 DEF LoginStep, SInv

(* A step of the other goroutine publishes only what it has read, and      *)
(* never metadata that is older than what it has read.                     *)
LEMMA RenewalInv == SInv /\ RenewalStep => SInv' \/ Panic
<1> SUFFICES ASSUME SInv, RenewalStep, ~Panic PROVE SInv'
  OBVIOUS
<1> USE SidecarAssumption DEF environment, SInv
<1>1. ASSUME ReadSecret PROVE SInv'
  <2>1. TypeOK'
    <3>1. UNCHANGED <<environment, token, main, cancelled, server, login, keyLease,
                      creds, parent, metadata, gauge>>
      BY <1>1 DEF ReadSecret
    <3>2. /\ renewal \in [left : Nat, step : 1 .. 3, version : 0 .. binding \cup {None},
                     parent : 0 .. LoginTTL \cup {None}, done : BOOLEAN]
          /\ binding \in 0 .. binding
      BY DEF TypeOK
    <3>3. renewal' = [left |-> 0, step |-> 2, version |-> binding, parent |-> None,
                      done |-> renewal.done]
      BY <1>1 DEF ReadSecret, Attempt
    <3>4. /\ renewal' \in [left : Nat, step : 1 .. 3, version : 0 .. binding \cup {None},
                           parent : 0 .. LoginTTL \cup {None}, done : BOOLEAN]
          /\ renewal'.left = renewal.left
      BY <1>1, <3>2, <3>3 DEF ReadSecret, RenewalDue
    <3> QED BY <3>1, <3>4 DEF TypeOK, Recovery
  <2>2. (AttemptInv /\ RetrievedInv /\ MetadataNotOlder)'
    BY <1>1 DEF TypeOK, ReadSecret, Attempt, AttemptInv, RetrievedInv, MetadataNotOlder
  <2> QED BY <2>1, <2>2
<1>2. ASSUME NEW delay \in 0 .. MaxDelay, Confirm(delay) PROVE SInv'
  <2>1. renewal.version \in 0 .. binding
    BY <1>2 DEF Confirm, TypeOK, AttemptInv
  <2>2. Retrieved(delay) \in [version : 0 .. binding, left : 0 .. CredentialTTL, final : BOOLEAN]
    BY <2>1 DEF Retrieved
  <2>3. Retrieved(delay) # None
    BY <2>2
  <2>4. TypeOK'
    <3>1. parent' \in 0 .. LoginTTL \cup {None}
      BY <1>2 DEF TypeOK, Confirm
    <3>2. calm' \in 0 .. Recovery
      <4>1. Recovery \in Nat /\ (calm' = calm \/ calm' = 0)
        BY <1>2 DEF Confirm, Recovery, AnswerLag, RevocationLag, KeyLag
      <4> QED BY <4>1 DEF TypeOK
    <3>3. UNCHANGED <<up, binding, present, token, main, cancelled, server, login,
                      keyLease, gauge>>
      BY <1>2 DEF Confirm
    <3>4. /\ renewal' \in [left : Nat, step : 1 .. 3, version : 0 .. binding \cup {None},
                           parent : 0 .. LoginTTL \cup {None}, done : BOOLEAN]
          /\ renewal'.left = renewal.left
      BY <1>2 DEF TypeOK, Confirm
    <3>5. /\ creds' \in [version : 0 .. binding, left : 0 .. CredentialTTL, final : BOOLEAN] \cup {None}
          /\ metadata' \in 0 .. binding \cup {None}
      BY <1>2, <2>2 DEF TypeOK, Confirm
    <3> QED BY <3>1, <3>2, <3>3, <3>4, <3>5 DEF TypeOK, Recovery
  <2>5. (AttemptInv /\ RetrievedInv /\ MetadataNotOlder)'
    BY <1>2, <2>1, <2>3
    DEF TypeOK, Confirm, AttemptInv, RetrievedInv, MetadataNotOlder, IsKey
  <2> QED BY <2>4, <2>5
<1>3. ASSUME RenewalFails PROVE SInv'
  <2>1. PICK wait \in Duration :
            renewal' = [left |-> wait, step |-> 1, version |-> None, parent |-> None,
                        done |-> renewal.done]
    BY <1>3 DEF RenewalFails, Attempt
  <2>2. /\ creds = None <=> creds' = None
        /\ creds # None => creds'.version = creds.version
        /\ creds' \in [version : 0 .. binding, left : 0 .. CredentialTTL, final : BOOLEAN] \cup {None}
    <3>1. CASE creds' = creds
      BY <3>1 DEF TypeOK
    <3>2. CASE RenewsLease /\ \E granted \in KeyGrants : creds' = Extended(granted, 0)
      <4>1. creds # None
        BY <3>2 DEF RenewsLease, RetrievedInv
      <4>2. PICK granted \in KeyGrants : creds' = Extended(granted, 0)
        BY <3>2
      <4>3. /\ creds'.version = creds.version
            /\ creds' \in [version : 0 .. binding, left : 0 .. CredentialTTL, final : BOOLEAN]
        BY <4>1, <4>2, KeyGrantType
      <4>4. creds' # None
        BY <4>3, CredentialsAreThere
      <4> QED BY <4>1, <4>3, <4>4
    <3>3. CASE creds' = Emptied
      BY <3>3 DEF TypeOK, Emptied
    <3> QED BY <1>3, <3>1, <3>2, <3>3 DEF RenewalFails
  <2>3. UNCHANGED <<environment, token, main, cancelled, server, login, keyLease, parent,
                  metadata, gauge>>
    BY <1>3 DEF RenewalFails
  <2> wait \in Nat /\ wait <= MaxWait
    BY WaitType, SidecarAssumption
  <2>4. TypeOK'
    BY <2>1, <2>2, <2>3 DEF TypeOK, Recovery
  <2>5. (AttemptInv /\ RetrievedInv /\ MetadataNotOlder)'
    BY <2>1, <2>2, <2>3 DEF TypeOK, AttemptInv, RetrievedInv, MetadataNotOlder
  <2> QED BY <2>4, <2>5
<1>4. ASSUME NEW granted \in 0 .. CredentialTTL, Renewed(granted), UNCHANGED parent,
             calm' = calm \/ calm' = 0,
             creds' \in [version : 0 .. binding, left : 0 .. CredentialTTL, final : BOOLEAN],
             SecretType = "access_token" =>
                metadata # None /\ creds'.version <= metadata
      PROVE  SInv'
  <2>1. PICK sleep \in sleepDuration(granted) :
            renewal' = [left |-> sleep, step |-> 1, version |-> None, parent |-> None,
                        done |-> TRUE]
    BY <1>4 DEF Renewed, Attempt
  <2>2. sleep \in Nat /\ sleep <= CredentialTTL
    BY <2>1, SleepType
  <2>3. creds' # None
    BY <1>4, SidecarAssumption
  <2>6. UNCHANGED <<up, binding, present, token, main, cancelled, server, login, parent,
                    metadata>>
    BY <1>4 DEF Renewed
  <2>9. calm' \in 0 .. Recovery
    <3>1. Recovery \in Nat
      BY DEF Recovery, AnswerLag, RevocationLag, KeyLag
    <3> QED BY <1>4, <3>1 DEF TypeOK
  <2>7. gauge' = "credentials" /\ keyLease' \in 0 .. CredentialTTL
    BY <1>4 DEF Renewed, TypeOK
  <2>8. /\ renewal' \in [left : Nat, step : 1 .. 3, version : 0 .. binding \cup {None},
                          parent : 0 .. LoginTTL \cup {None}, done : BOOLEAN]
        /\ renewal'.step = 1 /\ renewal'.version = None /\ renewal'.done
        /\ renewal'.left <= CredentialTTL
    BY <2>1, <2>2
  <2>4. TypeOK'
    BY <1>4, <2>6, <2>7, <2>8, <2>9 DEF TypeOK, Recovery
  <2>5. (AttemptInv /\ RetrievedInv /\ MetadataNotOlder)'
    BY <1>4, <2>3, <2>6, <2>8 DEF TypeOK, AttemptInv, RetrievedInv, MetadataNotOlder
  <2> QED BY <2>4, <2>5
<1>5. ASSUME NEW delay \in 0 .. MaxDelay, RenewLease(delay) PROVE SInv'
  <2>1. creds # None /\ IsKey
    BY <1>5 DEF RenewLease, RenewsLease, RetrievedInv
  <2>2. PICK granted \in KeyGrants : creds' = Extended(granted, delay) /\ Renewed(granted)
    BY <1>5 DEF RenewLease
  <2>3. /\ granted \in 0 .. CredentialTTL
        /\ creds' \in [version : 0 .. binding, left : 0 .. CredentialTTL, final : BOOLEAN]
    <3>1. delay \in Nat /\ TypeOK
      BY SidecarAssumption
    <3>2. /\ granted \in Nat /\ granted <= CredentialTTL
          /\ Extended(granted, delay) \in
                [version : 0 .. binding, left : 0 .. CredentialTTL, final : BOOLEAN]
      BY <2>1, <2>2, <3>1, KeyGrantType
    <3> QED BY <2>2, <3>2
  <2>4. UNCHANGED parent /\ (calm' = calm \/ calm' = 0)
    BY <1>5 DEF RenewLease
  <2>5. SecretType # "access_token"
    BY <2>1 DEF IsKey
  <2> QED BY <1>4, <2>2, <2>3, <2>4, <2>5
<1>6. ASSUME NEW delay \in 0 .. MaxDelay, Publish(delay) PROVE SInv'
  <2>1. renewal.version \in 0 .. binding
    BY <1>6 DEF Publish, TypeOK, AttemptInv
  <2>2. creds' \in [version : 0 .. binding, left : 0 .. CredentialTTL, final : BOOLEAN]
    <3>1. CASE IsKey
      BY <1>6, <3>1 DEF Publish, AttemptInv, TypeOK
    <3>2. CASE ~IsKey
      BY <1>6, <2>1, <3>2 DEF Publish, Retrieved
    <3> QED BY <3>1, <3>2
  <2>3. SecretType = "access_token" => creds'.version = renewal.version
    BY <1>6 DEF Publish, Retrieved, IsKey
  <2>4. Renewed(CredentialTTL) /\ UNCHANGED <<calm, parent>> /\ CredentialTTL \in 0 .. CredentialTTL
    BY <1>6 DEF Publish
  <2> QED BY <1>4, <1>6, <2>2, <2>3, <2>4 DEF Publish, AttemptInv
<1> QED BY <1>1, <1>2, <1>3, <1>5, <1>6 DEF RenewalStep

(* Run, its end and its next start: a process that is gone has published   *)
(* nothing, and its key file is nobody's lease.                            *)
LEMMA RunInv ==
    SInv /\ (\/ Start \/ FirstLogin \/ Listen \/ Cancel \/ Shutdown
             \/ Return \/ Crash \/ Panic) => SInv'
<1> USE SidecarAssumption DEF environment, SInv
<1>1. ASSUME SInv, Start \/ FirstLogin \/ Listen \/ Cancel \/ Shutdown PROVE SInv'
  <2>1. UNCHANGED <<environment, token, login, renewal, keyLease, metadata, creds,
                   parent, gauge>>
    BY <1>1 DEF Start, FirstLogin, Listen, Cancel, Shutdown, Elsewhere
  <2>2. /\ main' \in {"down", "login", "serving", "closing"}
        /\ cancelled' \in BOOLEAN
        /\ server' \in {"off", "listening", "closed"}
    BY <1>1 DEF Start, FirstLogin, Listen, Cancel, Shutdown, TypeOK
  <2>3. server' = "listening" => renewal.done
    BY <1>1 DEF Start, FirstLogin, Listen, Cancel, Shutdown, RetrievedInv
  <2>4. TypeOK'
    BY <1>1, <2>1, <2>2 DEF TypeOK, Recovery
  <2>5. (AttemptInv /\ RetrievedInv /\ MetadataNotOlder)'
    BY <1>1, <2>1, <2>3 DEF AttemptInv, RetrievedInv, MetadataNotOlder
  <2> QED BY <2>4, <2>5
<1>2. ASSUME SInv, Exit PROVE SInv'
  <2>1. /\ Recovery \in Nat /\ LoginTTL \in Nat
        /\ TokenMaxTTL \in Nat /\ CredentialTTL \in Nat
    BY DEF Recovery, AnswerLag, RevocationLag, KeyLag
  <2>2. /\ NoToken \in [left : 0 .. LoginTTL, max : 0 .. TokenMaxTTL]
        /\ NoLogin \in [left : Nat, lease : 0 .. LoginTTL, ttl : 0 .. LoginTTL,
                        renewable : BOOLEAN]
        /\ NoLogin.ttl <= NoLogin.lease /\ NoLogin.left <= MaxWait
    BY <2>1 DEF NoToken, NoLogin
  <2>3. /\ NoRenewal \in [left : Nat, step : 1 .. 3, version : 0 .. binding \cup {None},
                     parent : 0 .. LoginTTL \cup {None}, done : BOOLEAN]
        /\ NoRenewal.left <= MaxWait
    BY DEF NoRenewal, Attempt
  <2>4. TypeOK'
    <3>1. UNCHANGED <<up, binding, present>> /\ parent' \in 0 .. LoginTTL \cup {None}
      BY <1>2, PartedType DEF Exit
    <3>2. /\ main' \in {"down", "login", "serving", "closing"}
          /\ cancelled' \in BOOLEAN
          /\ server' \in {"off", "listening", "closed"}
          /\ metadata' = None /\ gauge' = None
      BY <1>2 DEF Exit
    <3>3. token' = NoToken /\ login' = NoLogin /\ renewal' = NoRenewal
      BY <1>2 DEF Exit
    <3>4. /\ calm' \in 0 .. Recovery
          /\ keyLease' \in 0 .. CredentialTTL
      BY <1>2, <2>1 DEF Exit
    <3>5. creds' \in [version : 0 .. binding, left : 0 .. CredentialTTL, final : BOOLEAN] \cup {None}
      BY <1>2 DEF Exit, TypeOK
    <3> QED BY <1>2, <2>2, <2>3, <3>1, <3>2, <3>3, <3>4, <3>5 DEF TypeOK, Recovery
  <2>5. (AttemptInv /\ RetrievedInv /\ MetadataNotOlder)'
    BY <1>2 DEF Exit, NoRenewal, Attempt, IsKey, AttemptInv, RetrievedInv, MetadataNotOlder
  <2> QED BY <2>4, <2>5
<1> QED BY <1>1, <1>2 DEF Return, Crash, Panic

(* What Vault and the clock do.                                            *)
LEMMA EnvironmentInv ==
    SInv /\ (Outage \/ Recover \/ Unbind \/ Rebind \/ Revoke \/ Tick) => SInv'
<1> SUFFICES ASSUME SInv, Outage \/ Recover \/ Unbind \/ Rebind \/ Revoke \/ Tick PROVE SInv'
  OBVIOUS
<1> USE SidecarAssumption DEF SInv
<1>1. /\ Recovery \in Nat /\ LoginTTL \in Nat
      /\ TokenMaxTTL \in Nat /\ CredentialTTL \in Nat
  BY DEF Recovery, AnswerLag, RevocationLag, KeyLag
<1>2. CASE Outage \/ Recover \/ Unbind
  <2>1. UNCHANGED <<binding, token, process, creds, parent>>
    BY <1>2 DEF Outage, Recover, Unbind, Others
  <2>2. up' \in BOOLEAN /\ present' \in BOOLEAN /\ calm' \in 0 .. Recovery
    <3>1. up' \in BOOLEAN /\ present' \in BOOLEAN
      BY <1>2 DEF Outage, Recover, Unbind, TypeOK
    <3>2. calm' = 0 \/ calm' = calm
      BY <1>2 DEF Outage, Recover, Unbind
    <3>3. calm' \in 0 .. Recovery
      BY <1>1, <3>2 DEF TypeOK
    <3> QED BY <3>1, <3>3
  <2>3. TypeOK'
    BY <2>1, <2>2 DEF TypeOK, process, Recovery
  <2> QED BY <2>1, <2>3 DEF process, AttemptInv, RetrievedInv, MetadataNotOlder
<1>3. CASE Rebind
  <2>1. UNCHANGED <<up, calm, token, process, creds, parent>> /\ present' = TRUE
    BY <1>3 DEF Rebind, Others
  <2>2. binding' = binding + 1 /\ binding' \in 0 .. MaxRebinds
    BY <1>3 DEF Rebind, TypeOK
  <2>3. 0 .. binding \subseteq 0 .. binding'
    BY <2>2 DEF TypeOK
  <2>4. renewal \in [left : Nat, step : 1 .. 3, version : 0 .. binding' \cup {None},
                     parent : 0 .. LoginTTL \cup {None}, done : BOOLEAN]
    BY <2>3 DEF TypeOK
  <2>5. creds \in [version : 0 .. binding', left : 0 .. CredentialTTL, final : BOOLEAN] \cup {None}
    BY <2>3 DEF TypeOK
  <2>6. TypeOK'
    BY <2>1, <2>2, <2>3, <2>4, <2>5 DEF TypeOK, process, Recovery
  <2> QED BY <2>1, <2>6 DEF process, AttemptInv, RetrievedInv, MetadataNotOlder
<1>4. CASE Revoke
  <2>1. UNCHANGED <<up, binding, present, process, creds, parent>> /\ calm' = 0
    BY <1>4 DEF Revoke
  <2>2. token' \in [left : 0 .. LoginTTL, max : 0 .. TokenMaxTTL]
    BY <1>1, <1>4 DEF Revoke, NoToken
  <2>3. TypeOK'
    BY <1>1, <2>1, <2>2 DEF TypeOK, process, Recovery
  <2> QED BY <2>1, <2>3 DEF process, AttemptInv, RetrievedInv, MetadataNotOlder
<1>5. CASE Tick
  <2>1. UNCHANGED <<up, binding, present, main, cancelled, server, metadata, gauge>>
    BY <1>5 DEF Tick
  <2>2. ASSUME NEW bound \in Nat, NEW ticks \in 0 .. bound
        PROVE  Less(ticks) \in 0 .. bound /\ Less(ticks) <= ticks
    BY DEF Less
  <2>3. ASSUME NEW ticks \in Nat PROVE Less(ticks) \in Nat /\ Less(ticks) <= ticks
    BY DEF Less
  <2>4. token' \in [left : 0 .. LoginTTL, max : 0 .. TokenMaxTTL]
    BY <1>1, <1>5, <2>2 DEF Tick, TypeOK
  <2>5. /\ login' \in [left : Nat, lease : 0 .. LoginTTL, ttl : 0 .. LoginTTL,
                       renewable : BOOLEAN]
        /\ login'.ttl <= login'.lease
        /\ login'.left <= MaxWait \/ login'.left <= login'.ttl
    <3>1. /\ login \in [left : Nat, lease : 0 .. LoginTTL, ttl : 0 .. LoginTTL,
                        renewable : BOOLEAN]
          /\ login.ttl <= login.lease
          /\ login.left <= MaxWait \/ login.left <= login.ttl
      BY DEF TypeOK
    <3>2. login' = [left |-> Less(login.left), lease |-> login.lease,
                    ttl |-> Less(login.ttl), renewable |-> login.renewable]
      BY <1>5, <3>1 DEF Tick
    <3>3. Less(login.left) \in Nat /\ Less(login.left) <= login.left
      BY <2>3, <3>1
    <3>5. login.left <= login.ttl => Less(login.left) <= Less(login.ttl)
      BY <3>1 DEF Less
    <3>4. Less(login.ttl) \in 0 .. LoginTTL /\ Less(login.ttl) <= login.ttl
      BY <1>1, <2>2, <3>1
    <3>6. /\ login'.left = Less(login.left) /\ login'.ttl = Less(login.ttl)
          /\ login'.lease = login.lease
          /\ login' \in [left : Nat, lease : 0 .. LoginTTL, ttl : 0 .. LoginTTL,
                         renewable : BOOLEAN]
      BY <1>1, <3>1, <3>2, <3>3, <3>4
    <3> QED BY <1>1, <3>1, <3>3, <3>4, <3>5, <3>6
  <2>6. /\ renewal' \in [left : Nat, step : 1 .. 3, version : 0 .. binding \cup {None},
                     parent : 0 .. LoginTTL \cup {None}, done : BOOLEAN]
        /\ renewal'.step = renewal.step
        /\ renewal'.version = renewal.version
        /\ renewal'.done = renewal.done
        /\ renewal'.left <= MaxWait \/ renewal'.left <= CredentialTTL
    <3>1. Less(renewal.left) \in Nat /\ Less(renewal.left) <= renewal.left
      BY <2>3 DEF TypeOK
    <3> QED BY <1>1, <1>5, <3>1 DEF Tick, TypeOK
  <2>7. keyLease' \in 0 .. CredentialTTL /\ (keyLease' > 0 => keyLease > 0)
    BY <1>1, <1>5, <2>2 DEF Tick, TypeOK
  <2>8. /\ creds' \in [version : 0 .. binding, left : 0 .. CredentialTTL, final : BOOLEAN] \cup {None}
        /\ creds' = None <=> creds = None
        /\ creds # None => creds'.version = creds.version
    <3>1. CASE creds = None
      BY <1>5, <3>1 DEF Tick
    <3>2. CASE creds # None
      <4>1. creds \in [version : 0 .. binding, left : 0 .. CredentialTTL, final : BOOLEAN]
        BY <3>2 DEF TypeOK
      <4>2. creds' = [version |-> creds.version, left |-> Less(creds.left),
                      final |-> creds.final]
        BY <1>5, <3>2, <4>1 DEF Tick
      <4>3. Less(creds.left) \in 0 .. CredentialTTL
        BY <1>1, <2>2, <4>1
      <4>4. creds' \in [version : 0 .. binding, left : 0 .. CredentialTTL, final : BOOLEAN]
        BY <4>1, <4>2, <4>3
      <4>5. creds' # None
        BY <4>4 DEF TypeOK
      <4> QED BY <3>2, <4>2, <4>4, <4>5
    <3> QED BY <3>1, <3>2
  <2>9. calm' \in 0 .. Recovery
    <3>1. calm + 1 \in Nat
      BY <1>1 DEF TypeOK
    <3>2. Min({calm + 1, Recovery}) \in 0 .. Recovery
      BY <1>1, <3>1, MinOfTwo
    <3> QED BY <1>1, <1>5, <3>2 DEF Tick
  <2>12. parent' \in 0 .. LoginTTL \cup {None}
    BY <1>1, <1>5, <2>2 DEF Tick, TypeOK
  <2>10. TypeOK'
    BY <2>1, <2>4, <2>5, <2>6, <2>7, <2>8, <2>9, <2>12 DEF TypeOK, Recovery
  <2>11. (AttemptInv /\ RetrievedInv /\ MetadataNotOlder)'
    BY <2>1, <2>6, <2>7, <2>8 DEF AttemptInv, RetrievedInv, MetadataNotOlder
  <2> QED BY <2>10, <2>11
<1> QED BY <1>2, <1>3, <1>4, <1>5

(* Every step keeps the invariant.                                         *)
LEMMA InvStep == SInv /\ [Next]_vars => SInv'
<1>1. SInv /\ Next => SInv'
  BY LoginInv, RenewalInv, RunInv, EnvironmentInv DEF Next
<1>2. SInv /\ UNCHANGED vars => SInv'
  BY DEF vars, environment, process, SInv, TypeOK, Recovery, AttemptInv, RetrievedInv,
         MetadataNotOlder
<1> QED BY <1>1, <1>2

(* The invariant holds for all leases, waits and delays.                   *)
THEOREM Invariance == Spec => []SInv
BY InvInit, InvStep, PTL DEF Spec

(* No variable leaves its type, and no count of ticks its lease            *)
(* (all of login.go and sidecar.go).                                       *)
THEOREM TypeCorrect == Spec => []TypeOK
<1>1. SInv => TypeOK
  BY DEF SInv
<1> QED BY <1>1, Invariance, PTL
=============================================================================
