------------------------ MODULE SidecarRecoveryProofs ------------------------
(***************************************************************************)
(* That a sidecar recovers in time, for all leases, waits and delays of    *)
(* the ratios of SidecarRecovery.                                          *)
(***************************************************************************)
EXTENDS SidecarRecovery, SidecarProofs

(* What the arithmetic below needs to know of the types.                   *)
Numbers ==
    /\ calm \in Nat /\ calm <= Recovery
    /\ token.left \in Nat /\ token.max \in Nat
    /\ token.left <= LoginTTL /\ token.max <= TokenMaxTTL
    /\ login.left \in Nat /\ login.lease \in Nat /\ login.ttl \in Nat
    /\ login.ttl <= login.lease /\ login.lease <= LoginTTL
    /\ renewal.left \in Nat /\ renewal.step \in 1 .. 3
    /\ renewal.parent # None => renewal.parent \in Nat /\ renewal.parent <= LoginTTL
    /\ keyLease \in Nat /\ keyLease <= CredentialTTL
    /\ creds # None => creds.left \in Nat /\ creds.left <= CredentialTTL
    /\ parent # None => parent \in Nat /\ parent <= LoginTTL

(* The constants are numbers, and Recovery is the sum of its parts.        *)
LEMMA Constants ==
    /\ LoginTTL \in Nat \ {0} /\ TokenMaxTTL \in Nat \ {0} /\ CredentialTTL \in Nat \ {0}
    /\ MaxWait \in Nat \ {0} /\ MaxDelay \in Nat
    /\ LoginTTL <= TokenMaxTTL /\ MaxDelay < LoginTTL /\ MaxDelay < CredentialTTL
    /\ MaxWait + 2 * MaxDelay < TokenMaxTTL
    /\ AnswerLag \in Nat /\ AnswerLag >= 1 /\ AnswerLag >= MaxDelay
    /\ MaxDelay > 0 => AnswerLag = MaxDelay
    /\ RevocationLag \in {0, LoginTTL} /\ (Revocable => RevocationLag = LoginTTL)
    /\ KeyLag \in Nat /\ (IsKey => KeyLag = CredentialTTL) /\ (~IsKey => KeyLag = 0)
    /\ Recovery \in Nat
    /\ Recovery = 3 * MaxWait + AnswerLag + RevocationLag + KeyLag
BY SidecarAssumption, RatioAssumption DEF Recovery, AnswerLag, RevocationLag, KeyLag

(* Every state of the right types has them.                                *)
LEMMA TypedNumbers == SInv => Numbers
<1> SUFFICES ASSUME TypeOK PROVE Numbers
  BY DEF SInv
<1> USE Constants DEF TypeOK
<1>1. token.left \in 0 .. LoginTTL /\ token.max \in 0 .. TokenMaxTTL
  OBVIOUS
<1>2. login.left \in Nat /\ login.lease \in 0 .. LoginTTL /\ login.ttl \in 0 .. LoginTTL
  OBVIOUS
<1>3. /\ renewal.left \in Nat /\ renewal.step \in 1 .. 3
      /\ renewal.parent \in 0 .. LoginTTL \cup {None}
  OBVIOUS
<1>4. creds # None => creds.left \in 0 .. CredentialTTL
  OBVIOUS
<1> HIDE DEF TypeOK
<1>5. /\ calm \in 0 .. Recovery /\ keyLease \in 0 .. CredentialTTL
      /\ parent \in 0 .. LoginTTL \cup {None} /\ login.ttl <= login.lease
  BY DEF TypeOK
<1> QED BY <1>1, <1>2, <1>3, <1>4, <1>5 DEF Numbers

(* A sleep is at least a tick and at most a lease.                         *)
LEMMA AnySleep ==
    ASSUME NEW d \in Nat, NEW sleep \in sleepDuration(d)
    PROVE  sleep \in Nat /\ 1 <= sleep /\ sleep <= d
BY DEF sleepDuration

(* The sleeps of the two goroutines leave the time RatioAssumption says.   *)
LEMMA LoginSleep ==
    ASSUME NEW sleep \in sleepDuration(LoginTTL)
    PROVE  sleep \in Nat /\ 1 <= sleep /\ sleep <= LoginTTL /\ sleep + MaxDelay < LoginTTL
BY Constants, SidecarAssumption, RatioAssumption DEF sleepDuration, AnswerLag

(* The same for the credentials.                                           *)
LEMMA CredentialSleep ==
    ASSUME NEW sleep \in sleepDuration(CredentialTTL)
    PROVE  /\ sleep \in Nat /\ 1 <= sleep /\ sleep <= CredentialTTL
           /\ IsKey => sleep + 3 * MaxDelay < CredentialTTL
           /\ ~IsKey => sleep + 2 * MaxWait + AnswerLag + MaxDelay <= CredentialTTL
BY Constants, SidecarAssumption, RatioAssumption DEF sleepDuration, AnswerLag
-----------------------------------------------------------------------------
(* When a period of calm begins, what is to happen soon is far enough off. *)
LEMMA CalmBegins ==
    Numbers /\ AttemptsInv /\ RenewalSoon /\ calm = 0 => Provided
<1> SUFFICES ASSUME Numbers, AttemptsInv, RenewalSoon, calm = 0 PROVE Provided
  OBVIOUS
<1>1. CASE IsKey
  BY <1>1, Constants DEF Numbers, AttemptsInv, RenewalSoon, Provided, Soon
<1>2. CASE ~IsKey
  BY <1>2, Constants DEF Numbers, AttemptsInv, RenewalSoon, Provided, Soon, Outlast
<1> QED BY <1>1, <1>2

(* When it begins with the wait of an attempt that failed, or with a token *)
(* that was revoked, the login goroutine is as far behind as it can be.    *)
LEMMA CalmBeginsShaky ==
    Numbers /\ calm = 0 /\ (login.left <= MaxWait \/ (Revocable /\ login.left <= login.ttl))
        => Shaky
BY Constants DEF Numbers, Shaky

(* A token that ended while the login goroutine was as it should be is     *)
(* replaced within a wait, and did not end before its maximum age.         *)
LEMMA EndedSound ==
    ASSUME Numbers, TokenInv, Sound, token.left = 0
    PROVE  /\ Awaits \in Nat /\ Awaits < MaxWait + AnswerLag
           /\ token.max <= MaxDelay
BY Constants DEF Numbers, TokenInv, Sound, Awaits

(* One that ended before is replaced before the recovery time is over.     *)
LEMMA EndedShaky ==
    ASSUME Numbers, TokenInv, Shaky, token.left = 0
    PROVE  /\ Awaits \in Nat
           /\ calm + Awaits + MaxWait < 3 * MaxWait + AnswerLag + RevocationLag
BY Constants DEF Numbers, TokenInv, Shaky, Awaits

(* While nothing is as it should be yet the calm has not lasted for long.  *)
LEMMA NotLongCalm ==
    ASSUME Numbers
    PROVE  /\ Shaky => calm < Recovery
           /\ Soon => calm < Recovery
<1> USE Constants DEF Numbers
<1>1. Shaky => calm < Recovery
  BY DEF Shaky
<1>2. Awaits \in Nat
  BY DEF Awaits
<1>3. Soon => calm < Recovery
  BY <1>2 DEF Soon
<1> QED BY <1>1, <1>3

(* What is awaited no later is awaited soon enough.                        *)
LEMMA Sooner ==
    ASSUME NEW q \in Nat, NEW n \in Nat, NEW p \in Nat, NEW m \in Nat, p + m <= q + n
    PROVE  q + n + MaxWait < Recovery => p + m + MaxWait < Recovery
BY Constants

(* What is left of something stays ahead of what it has to wait for.       *)
LEMMA StillLeft ==
    ASSUME NEW a \in Nat, NEW b \in Nat, b + 1 <= a,
           NEW c \in Nat, NEW d \in Nat, d >= c - 1, NEW wait \in Nat, c > a + wait
    PROVE  d > b + wait
OBVIOUS

(* A timer that runs has a tick less.                                      *)
LEMMA LessOne ==
    ASSUME NEW t \in Nat, t > 0
    PROVE  Less(t) \in Nat /\ t = Less(t) + 1 /\ (t > 1 => Less(t) > 0)
BY DEF Less

(* Time that passes shortens what lasts by as much as it lengthens the     *)
(* calm.                                                                   *)
LEMMA Together ==
    ASSUME NEW q \in Nat, NEW t \in Nat, NEW p \in Nat, NEW u \in Nat,
           p <= q + 1, t = u + 1, NEW bound \in Nat
    PROVE  q + t <= bound => p + u <= bound
OBVIOUS

(* A key that lasts has a lease that lasts.                                *)
LEMMA KeyLeased ==
    ASSUME Numbers, IsKey, OutlastKey
    PROVE  keyLease > 0
BY Constants DEF Numbers, OutlastKey, Valid, ParentLeft, Left

(* The same of the state that a step leads to.                             *)
LEMMA NextState ==
    /\ SInv' => Numbers'
    /\ Numbers' /\ AttemptsInv' /\ RenewalSoon' /\ calm' = 0 => Provided'
    /\ Numbers' /\ calm' = 0 /\ (login'.left <= MaxWait \/ (Revocable /\ login'.left <= login'.ttl))
        => Shaky'
<1>1. SInv' => Numbers'
  BY TypedNumbers, PTL
<1>2. (Numbers /\ AttemptsInv /\ RenewalSoon /\ calm = 0 => Provided)'
  BY CalmBegins, PTL
<1>3. (Numbers /\ calm = 0 /\ (login.left <= MaxWait \/ (Revocable /\ login.left <= login.ttl))
         => Shaky)'
  BY CalmBeginsShaky, PTL
<1> QED BY <1>1, <1>2, <1>3

(* All that the invariant says of a sidecar that works.                    *)
WorkingInv ==
    /\ TokenInv
    /\ Sound \/ Shaky
    /\ FirstLoginInv
    /\ RenewalSoon
    /\ ParentInv
    /\ Provided

timers == <<calm, token, login, renewal, keyLease, creds, parent>>

(* Nothing it says changes as long as nothing that counts changes.         *)
LEMMA SameTimers ==
    ASSUME UNCHANGED timers, main' = main \/ main' # "login", WorkingInv
    PROVE  WorkingInv'
<1> USE DEF timers
<1>1. TokenInv' /\ (Sound \/ Shaky)'
  BY DEF WorkingInv, TokenInv, Sound, Shaky
<1>2. FirstLoginInv' /\ RenewalSoon'
  BY DEF WorkingInv, FirstLoginInv, RenewalSoon
<1>3. (Known(parent)' <=> Known(parent)) /\ (Known(renewal.parent)' <=> Known(renewal.parent))
  BY DEF Known
<1>4. ParentLeft' = ParentLeft /\ (Valid' <=> Valid) /\ Awaits' = Awaits
  BY DEF ParentLeft, Left, Valid, Awaits
<1>5. ParentInv'
  BY <1>3, <1>4 DEF WorkingInv, ParentInv
<1>6. Provided'
  BY <1>3, <1>4 DEF WorkingInv, Provided, Soon, OutlastKey, Outlast
<1> QED BY <1>1, <1>2, <1>5, <1>6 DEF WorkingInv

(* It holds at the start, when there is nothing.                           *)
LEMMA RecoveryInit == Init => RInv
BY Constants DEF Init, RInv, DownInv, AttemptsInv, Working, NoRenewal, Attempt

(* A process that has ended holds nothing.                                 *)
LEMMA ExitRecovers == SInv' /\ Exit => RInv'
BY Constants DEF Exit, RInv, DownInv, AttemptsInv, Working, NoRenewal, Attempt

(* One that starts has nothing yet, and has not waited for anything.       *)
LEMMA StartRecovers ==
    ASSUME SInv, SInv', RInv, Start
    PROVE  RInv'
<1>1. UNCHANGED <<environment, token, login, renewal, keyLease, creds, parent, cancelled>>
  BY DEF Start, Elsewhere
<1>2. /\ main' = "login" /\ calm' = 0 /\ token' = NoToken /\ login' = NoLogin
      /\ renewal' = NoRenewal /\ keyLease' = 0
  BY <1>1 DEF Start, RInv, DownInv, environment
<1>3. DownInv' /\ AttemptsInv'
  BY <1>1, <1>2, Constants DEF DownInv, AttemptsInv, NoRenewal, Attempt, environment
<1>4. TokenInv' /\ Shaky' /\ FirstLoginInv' /\ RenewalSoon' /\ ParentInv'
  BY <1>2, Constants DEF TokenInv, Shaky, FirstLoginInv, RenewalSoon, ParentInv,
     NoToken, NoLogin, NoRenewal, Attempt
<1>5. Provided'
  BY <1>2, <1>3, <1>4, NextState
<1> QED BY <1>3, <1>4, <1>5 DEF RInv

(* The other steps of Run change nothing that counts.                      *)
LEMMA RunRecovers ==
    ASSUME SInv, RInv, FirstLogin \/ Listen \/ Cancel \/ Shutdown
    PROVE  RInv'
<1>1. UNCHANGED timers /\ UNCHANGED environment
  BY DEF FirstLogin, Listen, Cancel, Shutdown, Elsewhere, timers, environment
<1>2. /\ main # "down" /\ main' # "down"
      /\ main' = main \/ main' # "login"
      /\ main' = "closing" => cancelled'
      /\ main \in {"serving", "closing"} => main' \in {"serving", "closing"}
      /\ Working' => Working
  BY DEF FirstLogin, Listen, Cancel, Shutdown, Working, RInv, AttemptsInv
<1>3. DownInv' /\ AttemptsInv'
  BY <1>1, <1>2 DEF RInv, DownInv, AttemptsInv, timers, environment, Recovery
<1>4. ASSUME Working' PROVE WorkingInv'
  <2>1. WorkingInv
    BY <1>2, <1>4 DEF RInv, WorkingInv
  <2> QED BY <1>1, <1>2, <2>1, SameTimers
<1> QED BY <1>3, <1>4 DEF RInv, WorkingInv

(* An outage or a removal of the account begins the calm anew.             *)
LEMMA CalmEnds ==
    ASSUME SInv, SInv', RInv, calm' = 0, main' = main, cancelled' = cancelled,
           UNCHANGED <<token, login, renewal, keyLease, creds, parent>>
    PROVE  RInv'
<1>1. Numbers /\ Numbers'
  BY TypedNumbers, NextState
<1>2. DownInv' /\ AttemptsInv'
  BY <1>1, Constants DEF RInv, DownInv, AttemptsInv, Numbers
<1>3. ASSUME Working' PROVE WorkingInv'
  <2>1. WorkingInv
    BY <1>3 DEF RInv, WorkingInv, Working
  <2>2. TokenInv'
    BY <1>1, <2>1, Constants DEF WorkingInv, TokenInv, Numbers
  <2>3. (Sound \/ Shaky)'
    BY <1>1, <2>1, Constants DEF WorkingInv, Sound, Shaky, Numbers
  <2>4. FirstLoginInv' /\ RenewalSoon'
    BY <1>1, <2>1, Constants DEF WorkingInv, FirstLoginInv, RenewalSoon, Numbers
  <2>5. (Known(parent)' <=> Known(parent)) /\ (Known(renewal.parent)' <=> Known(renewal.parent))
    BY DEF Known
  <2>6. ParentInv'
    BY <1>1, <2>1, <2>5 DEF WorkingInv, ParentInv
  <2>7. Provided'
    BY <1>1, <1>2, <2>4, NextState
  <2> QED BY <2>2, <2>3, <2>4, <2>6, <2>7 DEF WorkingInv
<1> QED BY <1>2, <1>3 DEF RInv, WorkingInv

(* A token that is revoked is believed in until it would have expired.     *)
LEMMA RevokeRecovers ==
    ASSUME SInv, SInv', RInv, Revoke
    PROVE  RInv'
<1>1. Numbers /\ Numbers'
  BY TypedNumbers, NextState
<1>2. /\ UNCHANGED <<main, cancelled, login, renewal, keyLease, creds, parent>>
      /\ calm' = 0 /\ token' = NoToken /\ token.left > 0 /\ Revocable
  BY DEF Revoke, process
<1>3. DownInv' /\ AttemptsInv'
  BY <1>1, <1>2, Constants DEF RInv, DownInv, AttemptsInv, Numbers
<1>4. ASSUME Working' PROVE WorkingInv'
  <2>1. WorkingInv
    BY <1>2, <1>4 DEF RInv, WorkingInv, Working
  <2>2. TokenInv'
    BY <1>1, <1>2, <2>1, Constants DEF WorkingInv, TokenInv, Numbers, NoToken
  <2>3. Shaky'
    BY <1>1, <1>2, <2>1, NextState DEF WorkingInv, TokenInv
  <2>4. FirstLoginInv' /\ RenewalSoon'
    BY <1>1, <1>2, <2>1, Constants DEF WorkingInv, FirstLoginInv, RenewalSoon, Numbers
  <2>5. ParentInv'
    BY <1>1, <1>2, <2>1 DEF WorkingInv, ParentInv, NoToken, Numbers
  <2>6. Provided'
    BY <1>1, <1>2, <1>3, <2>4, NextState
  <2> QED BY <2>2, <2>3, <2>4, <2>5, <2>6 DEF WorkingInv
<1> QED BY <1>3, <1>4 DEF RInv, WorkingInv

(* What else Vault and the operator do is not noticed at once.             *)
LEMMA EnvironmentRecovers ==
    ASSUME SInv, SInv', RInv, Outage \/ Recover \/ Unbind \/ Rebind \/ Revoke
    PROVE  RInv'
<1>1. CASE Outage \/ Unbind
  BY <1>1, CalmEnds DEF Outage, Unbind, Others, process
<1>2. CASE Recover \/ Rebind
  <2>1. /\ UNCHANGED timers /\ UNCHANGED <<main, cancelled>>
        /\ (up => up') /\ (present => present')
    BY <1>2 DEF Recover, Rebind, Others, process, timers
  <2>2. DownInv' /\ AttemptsInv'
    BY <1>2, <2>1 DEF Recover, Rebind, RInv, DownInv, AttemptsInv, timers, Recovery
  <2>3. ASSUME Working' PROVE WorkingInv'
    BY <2>1, <2>3, SameTimers DEF RInv, WorkingInv, Working
  <2> QED BY <2>2, <2>3 DEF RInv, WorkingInv
<1>3. CASE Revoke
  BY <1>3, RevokeRecovers
<1> QED BY <1>1, <1>2, <1>3
-----------------------------------------------------------------------------
(* The login goroutine leaves the attempt of the other one alone.          *)
LEMMA LoginAttempts ==
    ASSUME SInv, SInv', RInv, LoginStep
    PROVE  DownInv' /\ AttemptsInv'
<1>1. /\ UNCHANGED <<up, present, main, cancelled, keyLease, creds>>
      /\ main # "down" /\ calm' \in {calm, 0}
  BY DEF LoginStep, LoginFails, Login, RenewToken, LoginDue, LoggedIn, environment
<1>2. /\ renewal'.left = renewal.left /\ renewal'.step = renewal.step
      /\ renewal'.step = 1 => renewal'.parent = renewal.parent
  <2>1. \/ renewal' = renewal
        \/ renewal.step = 2 /\ renewal' = [renewal EXCEPT !.parent = Left(@)]
    BY DEF LoginStep, LoginFails, Login, RenewToken
  <2>2. renewal \in [left : Nat, step : 1 .. 3, version : 0 .. binding \cup {None},
                     parent : 0 .. LoginTTL \cup {None}, done : BOOLEAN]
    BY DEF SInv, TypeOK
  <2> QED BY <2>1, <2>2
<1>3. DownInv'
  BY <1>1 DEF DownInv
<1>4. calm' > 0 => calm > 0
  BY <1>1, TypedNumbers, Constants DEF Numbers
<1>5. calm < Recovery => calm' < Recovery
  BY <1>1, TypedNumbers, Constants DEF Numbers
<1>6. AttemptsInv'
  BY <1>1, <1>2, <1>4, <1>5 DEF RInv, AttemptsInv, Recovery, IsKey
<1> QED BY <1>3, <1>6
(* A new login token makes good whatever was wrong with the old one, and   *)
(* outlasts the token that a key was created with.                         *)
LEMMA LoginRecovers ==
    ASSUME SInv, SInv', RInv, NEW delay \in 0 .. MaxDelay, Login(delay)
    PROVE  RInv'
<1> USE Constants
<1>1. Numbers /\ Numbers' /\ DownInv' /\ AttemptsInv'
  BY TypedNumbers, NextState, LoginAttempts DEF LoginStep
<1>2. WorkingInv /\ main # "down"
  BY DEF RInv, WorkingInv, Working, Login, LoginDue, Answers
<1>3. /\ UNCHANGED <<calm, main, keyLease, creds>>
      /\ token'.left = LoginTTL - delay /\ token'.max = TokenMaxTTL - delay
      /\ token'.left + MaxDelay >= LoginTTL
  BY DEF Login, LoggedIn
<1>4. PICK sleep \in sleepDuration(LoginTTL) :
         login'.left = sleep /\ login'.ttl = LoginTTL /\ login'.lease = LoginTTL
  BY DEF Login, LoggedIn
<1>5. sleep \in Nat /\ sleep <= LoginTTL /\ sleep + MaxDelay < LoginTTL
  BY LoginSleep
<1>6. renewal'.left = renewal.left /\ renewal'.step = renewal.step
  BY DEF Login, SInv, TypeOK
<1>7. TokenInv' /\ Sound'
  BY <1>1, <1>3, <1>4, <1>5 DEF TokenInv, Sound, Numbers
<1>8. FirstLoginInv' /\ RenewalSoon'
  BY <1>1, <1>2, <1>3, <1>4, <1>6 DEF WorkingInv, FirstLoginInv, RenewalSoon, Numbers
<1>9. Known(parent)' /\ Known(renewal.parent)'
  BY <1>1, <1>3 DEF Known, Numbers
<1>10. IsKey /\ creds # None => ParentLeft' = ParentLeft
  BY SidecarAssumption, <1>1 DEF Login, Parted, ParentLeft, Left, Numbers
<1>11. ParentInv'
  <2>1. IsKey /\ renewal.step = 3 => creds # None
    BY DEF SInv, AttemptInv
  <2> QED BY <1>2, <1>3, <1>6, <1>9, <1>10, <2>1 DEF WorkingInv, ParentInv
<1>12. Provided'
  <2>1. Awaits \in Nat
    BY <1>1 DEF Awaits, Numbers
  <2>2. Soon => Soon'
    BY <1>1, <1>3, <1>6, <2>1 DEF Soon, Numbers
  <2>3. ~IsKey /\ Outlast => Outlast'
    BY <1>1, <1>2, <1>3, <1>6, <2>1 DEF Outlast, WorkingInv, RenewalSoon, Numbers
  <2>4. IsKey /\ OutlastKey => OutlastKey'
    <3> SUFFICES ASSUME IsKey, OutlastKey PROVE OutlastKey'
      OBVIOUS
    <3>1. Valid'
      BY <1>3, <1>10 DEF OutlastKey, Valid
    <3>2. parent # None => parent' = parent
      BY DEF Login, Parted, ParentLeft, Left, OutlastKey
    <3> QED BY <1>3, <1>6, <1>9, <3>1, <3>2 DEF OutlastKey
  <2> QED BY <1>2, <2>2, <2>3, <2>4 DEF WorkingInv, Provided
<1> QED BY <1>1, <1>7, <1>8, <1>11, <1>12 DEF RInv
(* A renewed token has a whole lease, or the rest of its time.             *)
LEMMA RenewTokenRecovers ==
    ASSUME SInv, SInv', RInv, NEW delay \in 0 .. MaxDelay, RenewToken(delay)
    PROVE  RInv'
<1> USE Constants
<1>1. Numbers /\ Numbers' /\ DownInv' /\ AttemptsInv'
  BY TypedNumbers, NextState, LoginAttempts DEF LoginStep
<1>2. WorkingInv /\ main # "down" /\ token.left > 0
  BY DEF RInv, WorkingInv, Working, RenewToken, LoginDue, Answers
<1>3. /\ Granted \in Nat /\ Granted \in {login.lease, token.max}
      /\ Granted <= login.lease /\ Granted <= token.max
  BY <1>1, MinOfTwo DEF Granted, Numbers
<1>4. /\ UNCHANGED <<main, keyLease, creds, renewal, parent>>
      /\ token'.max = token.max
      /\ token'.left <= Granted /\ token'.left + MaxDelay >= Granted
  <2>1. Min({delay, Granted}) \in Nat /\ Min({delay, Granted}) <= delay
    BY <1>3, MinOfTwo
  <2>2. token' = [token EXCEPT !.left = Granted - Min({delay, Granted})]
    BY DEF RenewToken
  <2>3. token'.left = Granted - Min({delay, Granted}) /\ token'.max = token.max
    BY <2>2 DEF SInv, TypeOK
  <2>4. UNCHANGED <<main, keyLease, creds, renewal, parent>>
    BY DEF RenewToken, LoggedIn
  <2> QED BY <1>3, <2>1, <2>3, <2>4
<1>5. PICK sleep \in sleepDuration(Granted) :
         login'.left = sleep /\ login'.ttl = Granted /\ login'.lease = Granted
  BY DEF RenewToken, LoggedIn
<1>6. /\ sleep \in Nat /\ 1 <= sleep /\ sleep <= Granted
      /\ Granted = LoginTTL => sleep + MaxDelay < LoginTTL
  BY <1>3, LoginSleep, AnySleep
<1>7. Granted = LoginTTL \/ Granted = token.max
  BY <1>1, <1>2, <1>3 DEF WorkingInv, TokenInv, Numbers
<1>8. TokenInv' /\ Sound'
  <2>1. login'.ttl <= token'.left + MaxDelay
    BY <1>4, <1>5
  <2>2. login'.ttl > login'.left + MaxDelay \/ login'.ttl = token'.max
    BY <1>4, <1>5, <1>6, <1>7
  <2>3. token'.left <= token'.max /\ token'.left <= login'.lease
    BY <1>1, <1>3, <1>4, <1>5 DEF Numbers
  <2>4. login'.lease = LoginTTL \/ login'.ttl = token'.max
    BY <1>4, <1>5, <1>7
  <2> QED BY <1>5, <1>6, <2>1, <2>2, <2>3, <2>4 DEF TokenInv, Sound
<1>9. calm' = calm \/ (IsKey /\ creds # None /\ Valid /\ parent = None /\ calm' = 0)
  BY DEF RenewToken, Ends
<1>10. FirstLoginInv' /\ RenewalSoon'
  BY <1>1, <1>2, <1>4, <1>5, <1>6, <1>9 DEF WorkingInv, FirstLoginInv, RenewalSoon, Numbers
<1>11. ASSUME NEW itsParent \in 0 .. LoginTTL \cup {None}, Known(itsParent)
       PROVE  \/ itsParent = None
              \/ itsParent <= token'.left + MaxDelay
              \/ /\ login'.ttl = token'.max /\ login'.ttl <= token'.left + MaxDelay
                 /\ itsParent <= token'.max + MaxDelay
  <2>1. CASE Granted = LoginTTL
    BY <1>1, <1>4, <2>1 DEF Numbers
  <2>2. CASE Granted = token.max
    <3>1. itsParent # None => itsParent <= token.max + MaxDelay
      BY <1>1, <1>2, <1>11 DEF Known, WorkingInv, TokenInv, Numbers
    <3> QED BY <1>1, <1>4, <1>5, <2>2, <3>1 DEF Numbers
  <2> QED BY <1>7, <2>1, <2>2
<1>12. (Known(parent) => Known(parent)') /\ (Known(renewal.parent) => Known(renewal.parent)')
  BY <1>1, <1>4, <1>11 DEF Known, Numbers
<1>13. CASE calm' = 0
  <2>1. ParentInv'
    <3>1. IsKey /\ renewal.step = 3 => creds' = creds
      BY <1>4
    <3> QED BY <1>2, <1>4, <1>12, <1>13 DEF WorkingInv, ParentInv
  <2>2. Provided'
    BY <1>1, <1>10, <1>13, NextState
  <2> QED BY <1>1, <1>8, <1>10, <2>1, <2>2 DEF RInv
<1>14. CASE calm' # 0
  <2>1. calm' = calm
    BY <1>9, <1>14
  <2>2. IsKey /\ creds # None /\ Valid => ParentLeft' > 0
    BY <1>1, <1>4, <1>14 DEF RenewToken, Ends, Valid, ParentLeft, Left, Numbers
  <2>3. ParentInv'
    <3>1. IsKey /\ renewal.step = 3 => creds # None /\ creds.left > 0
      BY <1>1, <1>2 DEF SInv, AttemptInv, WorkingInv, ParentInv, Numbers
    <3>2. IsKey /\ renewal.step = 3 => ParentLeft' > 0
      BY <1>2, <2>1, <2>2, <3>1, <1>14 DEF WorkingInv, ParentInv, Valid
    <3> QED BY <1>2, <1>4, <1>12, <2>1, <3>2 DEF WorkingInv, ParentInv
  <2>4. Soon => Soon'
    BY <1>1, <1>2, <1>4, <2>1 DEF Soon, Numbers
  <2>5. Outlast => Outlast'
    BY <1>1, <1>2, <1>4 DEF Outlast, Numbers
  <2>6. IsKey /\ OutlastKey => OutlastKey'
    BY <1>4, <1>12, <2>2 DEF OutlastKey, Valid
  <2>7. Provided'
    BY <1>2, <2>4, <2>5, <2>6 DEF WorkingInv, Provided
  <2> QED BY <1>1, <1>8, <1>10, <2>3, <2>7 DEF RInv
<1> QED BY <1>13, <1>14
(* A login or a renewal that fails either begins before the calm or meets  *)
(* a token that has ended, and then the next attempt logs in.              *)
LEMMA LoginFailsRecovers ==
    ASSUME SInv, SInv', RInv, LoginFails
    PROVE  RInv'
<1> USE Constants
<1>1. Numbers /\ Numbers' /\ DownInv' /\ AttemptsInv'
  BY TypedNumbers, NextState, LoginAttempts DEF LoginStep
<1>2. UNCHANGED <<calm, up, present, main, cancelled, renewal, keyLease, creds, parent>>
  BY DEF LoginFails, environment
<1> SUFFICES ASSUME Working PROVE WorkingInv'
  BY <1>1, <1>2 DEF RInv, WorkingInv, Working
<1>3. WorkingInv /\ AttemptsInv
  BY DEF RInv, WorkingInv
<1>4. PICK wait \in Duration : login' = [login EXCEPT !.left = wait]
  BY DEF LoginFails
<1>5. wait \in Nat /\ 1 <= wait /\ wait <= MaxWait
  BY WaitType
<1>6. /\ login.left = 0 /\ login'.left = wait
      /\ login'.lease = login.lease /\ login'.ttl = login.ttl
  BY <1>4 DEF LoginFails, LoginDue, SInv, TypeOK
<1>7. /\ Granted \in Nat /\ Granted \in {login.lease, token.max}
      /\ Granted <= login.lease /\ Granted <= token.max
  BY <1>1, MinOfTwo DEF Granted, Numbers
<1>8. /\ token'.max = token.max /\ token'.left >= token.left
      /\ token'.left <= login.lease /\ token'.left <= token.max
      /\ token.left = 0 => token'.left = 0
  <2>1. CASE UNCHANGED token
    BY <1>1, <1>3, <2>1 DEF WorkingInv, TokenInv, Numbers
  <2>2. CASE token.left > 0 /\ token' = [token EXCEPT !.left = Granted]
    <3>1. token'.left = Granted /\ token'.max = token.max
      BY <2>2 DEF SInv, TypeOK
    <3> QED BY <1>1, <1>3, <1>7, <2>2, <3>1 DEF WorkingInv, TokenInv, Numbers
  <2> QED BY <2>1, <2>2 DEF LoginFails
<1>9. TokenInv'
  BY <1>1, <1>2, <1>3, <1>5, <1>6, <1>8 DEF WorkingInv, TokenInv, Numbers
<1>10. RenewalSoon'
  BY <1>2, <1>3 DEF WorkingInv, RenewalSoon
<1>11. (Known(parent) => Known(parent)') /\ (Known(renewal.parent) => Known(renewal.parent)')
  BY <1>1, <1>2, <1>6, <1>8 DEF Known, Numbers
<1>12. ParentLeft > 0 => ParentLeft' > 0
  BY <1>1, <1>2, <1>8 DEF ParentLeft, Left, Numbers
<1>13. ParentInv'
  BY <1>1, <1>2, <1>3, <1>8, <1>11, <1>12 DEF WorkingInv, ParentInv, Numbers
<1>14. CASE calm = 0
  <2>1. Shaky'
    BY <1>1, <1>2, <1>5, <1>6, <1>14, NextState
  <2>2. FirstLoginInv'
    BY <1>1, <1>2, <1>3, <1>5, <1>6, <1>14 DEF WorkingInv, FirstLoginInv, Numbers
  <2>3. Provided'
    BY <1>1, <1>2, <1>10, <1>14, NextState
  <2> QED BY <1>9, <1>10, <1>13, <2>1, <2>2, <2>3 DEF WorkingInv
<1>15. CASE calm # 0
  <2>1. CanRenew /\ token.left = 0 /\ login.ttl > 0
    BY <1>1, <1>3, <1>15 DEF LoginFails, Answers, Working, AttemptsInv, CanRenew, Numbers
  <2>2. UNCHANGED token
    BY <2>1, <1>1 DEF LoginFails, Numbers
  <2>3. Sound => Sound'
    BY <1>1, <1>6, <2>1, <2>2 DEF Sound, Numbers
  <2>4. Shaky => Shaky'
    BY <1>1, <1>2, <1>3, <1>5, <1>6, <2>1 DEF WorkingInv, TokenInv, Shaky, Numbers
  <2>5. FirstLoginInv'
    BY <1>1, <1>2, <1>3, <1>6, <2>1 DEF WorkingInv, FirstLoginInv, Numbers
  <2>6. /\ Awaits \in Nat /\ Awaits' \in Nat /\ Awaits' <= Awaits
        /\ calm' + Awaits' <= calm + Awaits
    BY <1>1, <1>2, <1>5, <1>6, <2>1 DEF Awaits, Numbers
  <2>7. Soon => Soon'
    <3>1. calm' = calm /\ calm \in Nat
      BY <1>1, <1>2 DEF Numbers
    <3>2. calm + Awaits + MaxWait < Recovery => calm' + Awaits' + MaxWait < Recovery
      BY <2>6, <3>1, Sooner
    <3> QED BY <1>2, <2>2, <3>2 DEF Soon
  <2>8. Outlast => Outlast'
    BY <1>1, <1>2, <1>8, <2>1, <2>6 DEF Outlast, Numbers
  <2>9. IsKey /\ OutlastKey => OutlastKey'
    BY <1>2, <1>11, <1>12 DEF OutlastKey, Valid
  <2>10. Provided'
    BY <1>3, <2>7, <2>8, <2>9 DEF WorkingInv, Provided
  <2> QED BY <1>3, <1>9, <1>10, <1>13, <2>3, <2>4, <2>5, <2>10 DEF WorkingInv
<1> QED BY <1>14, <1>15
-----------------------------------------------------------------------------
(* The renewal goroutine leaves the login token alone.                     *)
LEMMA RenewalLogin ==
    ASSUME SInv, SInv', WorkingInv, UNCHANGED <<token, login>>, main' = main,
           main \in {"serving", "closing"}, calm' \in {0, calm}
    PROVE  TokenInv' /\ (Sound \/ Shaky)' /\ FirstLoginInv'
<1>1. Numbers /\ Numbers'
  BY TypedNumbers, NextState
<1>2. TokenInv'
  BY <1>1, Constants DEF WorkingInv, TokenInv, Numbers
<1>3. (Sound \/ Shaky)'
  BY <1>1, Constants DEF WorkingInv, Sound, Shaky, Numbers
<1>4. FirstLoginInv'
  BY DEF FirstLoginInv
<1> QED BY <1>2, <1>3, <1>4

(* While it is calm, what lasts needs no new key.                          *)
LEMMA ReadSecretRecovers ==
    ASSUME SInv, SInv', RInv, ReadSecret
    PROVE  RInv'
<1>1. Numbers /\ Numbers'
  BY TypedNumbers, NextState
<1>2. WorkingInv /\ main # "down" /\ AttemptsInv
  BY DEF RInv, WorkingInv, Working, ReadSecret, RenewalDue, Permitted, Answers
<1>3. /\ UNCHANGED <<calm, up, present, main, cancelled, token, login, keyLease, creds, parent>>
      /\ main \in {"serving", "closing"} /\ renewal.left = 0 /\ ~RenewsLease
      /\ renewal'.left = 0 /\ renewal'.step = 2 /\ renewal'.parent = None
  BY DEF ReadSecret, RenewalDue, Attempt, environment
<1>4. keyLease = 0
  BY <1>1, <1>2, <1>3 DEF AttemptsInv, RenewsLease, Numbers
<1>5. IsKey => calm < Recovery
  BY <1>1, <1>2, <1>4, NotLongCalm, KeyLeased DEF WorkingInv, Provided, Numbers
<1>6. DownInv' /\ AttemptsInv'
  BY <1>2, <1>3, <1>4, <1>5, Constants DEF DownInv, AttemptsInv, Recovery, IsKey
<1>7. TokenInv' /\ (Sound \/ Shaky)' /\ FirstLoginInv'
  BY <1>2, <1>3, RenewalLogin
<1>8. RenewalSoon'
  BY <1>3, Constants DEF RenewalSoon
<1>9. (Known(parent)' <=> Known(parent)) /\ Known(renewal.parent)'
  BY <1>3 DEF Known
<1>10. ParentInv'
  BY <1>2, <1>3, <1>9 DEF WorkingInv, ParentInv
<1>11. Provided'
  <2>1. Awaits' = Awaits /\ (Valid' <=> Valid)
    BY <1>3 DEF Awaits, Valid, ParentLeft, Left
  <2>2. (Soon => Soon') /\ (Outlast => Outlast') /\ (OutlastKey => OutlastKey')
    BY <1>3, <1>9, <2>1 DEF Soon, Outlast, OutlastKey
  <2> QED BY <1>2, <2>2 DEF WorkingInv, Provided
<1> QED BY <1>6, <1>7, <1>8, <1>10, <1>11 DEF RInv
(* A key whose lease is renewed lasts until the next renewal, as long as   *)
(* its token, or until its lease has its maximum age.                      *)
LEMMA RenewLeaseRecovers ==
    ASSUME SInv, SInv', RInv, NEW delay \in 0 .. MaxDelay, RenewLease(delay)
    PROVE  RInv'
<1> USE Constants
<1>1. Numbers /\ Numbers'
  BY TypedNumbers, NextState
<1>2. /\ WorkingInv /\ main # "down" /\ AttemptsInv /\ IsKey /\ Valid /\ token.left > 0
      /\ TypeOK /\ creds # None
  BY DEF RInv, WorkingInv, Working, RenewLease, RenewalDue, RenewsLease, Permitted, Answers,
         SInv, RetrievedInv
<1>3. PICK granted \in KeyGrants : creds' = Extended(granted, delay) /\ Renewed(granted)
  BY DEF RenewLease
<1>4. /\ UNCHANGED <<up, present, main, cancelled, token, login, parent>>
      /\ main \in {"serving", "closing"} /\ keyLease' = granted
      /\ calm' = IF creds'.left = 0 THEN 0 ELSE calm
  BY <1>2, <1>3 DEF RenewLease, Renewed, RenewalDue
<1>5. /\ granted \in Nat /\ 1 <= granted /\ granted <= CredentialTTL
      /\ creds' # None
      /\ creds'.left <= granted /\ creds'.left >= granted - delay /\ creds'.left \in Nat
      /\ granted < CredentialTTL => creds'.final
  <2>1. delay \in Nat
    OBVIOUS
  <2>2. /\ granted \in Nat /\ creds.left <= granted /\ granted <= CredentialTTL
        /\ Min({delay, granted}) \in 0 .. granted
        /\ Extended(granted, delay).left = granted - Min({delay, granted})
        /\ Extended(granted, delay).final <=> creds.final \/ granted < CredentialTTL
        /\ Extended(granted, delay) \in
              [version : 0 .. binding, left : 0 .. CredentialTTL, final : BOOLEAN]
    BY <1>2, <2>1, KeyGrantType
  <2>3. 1 <= granted
    BY <1>1, <1>2, <2>2 DEF Valid, Numbers
  <2>4. Min({delay, granted}) <= delay
    BY <2>1, <2>2, MinOfTwo
  <2>5. creds' # None
    BY <1>2, <1>3, <2>2, CredentialsAreThere
  <2> QED BY <1>3, <2>1, <2>2, <2>3, <2>4, <2>5
<1>6. PICK sleep \in sleepDuration(granted) :
         renewal'.left = sleep /\ renewal'.step = 1 /\ renewal'.parent = None
  BY <1>3 DEF Renewed, Attempt
<1>7. sleep \in Nat /\ sleep <= granted
  BY <1>5, AnySleep
<1>8. DownInv' /\ AttemptsInv'
  BY <1>1, <1>2, <1>4, <1>6 DEF DownInv, AttemptsInv, IsKey, Numbers
<1>9. TokenInv' /\ (Sound \/ Shaky)' /\ FirstLoginInv'
  BY <1>2, <1>4, RenewalLogin
<1>10. RenewalSoon'
  BY <1>2, <1>4, <1>6, <1>7 DEF RenewalSoon, IsKey
<1>11. Known(parent) /\ Known(parent)' /\ Known(renewal.parent)'
  BY <1>2, <1>4, <1>6 DEF WorkingInv, ParentInv, Known
<1>12. ParentInv'
  BY <1>6, <1>11 DEF ParentInv
<1>13. Provided'
  <2>1. CASE creds'.left = 0
    BY <1>1, <1>4, <1>8, <1>10, <2>1, NextState
  <2>2. CASE creds'.left # 0
    <3>1. Valid'
      BY <1>2, <1>4, <1>5, <2>2 DEF Valid, ParentLeft, Left
    <3>2. CASE granted < CredentialTTL
      BY <1>2, <1>4, <1>5, <1>11, <3>1, <3>2 DEF Provided, OutlastKey, IsKey
    <3>3. CASE granted = CredentialTTL
      <4>1. sleep + 3 * MaxDelay < CredentialTTL
        BY <1>2, <3>3, CredentialSleep
      <4>2. creds'.left > renewal'.left + 2 * MaxDelay /\ keyLease' > renewal'.left + 2 * MaxDelay
        BY <1>4, <1>5, <1>6, <1>7, <3>3, <4>1
      <4> QED BY <1>2, <1>5, <1>11, <3>1, <4>2 DEF Provided, OutlastKey, IsKey
    <3> QED BY <1>5, <3>2, <3>3
  <2> QED BY <2>1, <2>2
<1> QED BY <1>8, <1>9, <1>10, <1>12, <1>13 DEF RInv, WorkingInv

(* A key file that is written is that of a key whose token has not ended,  *)
(* or the calm begins anew.                                                *)
LEMMA ConfirmRecovers ==
    ASSUME SInv, SInv', RInv, NEW delay \in 0 .. MaxDelay, Confirm(delay)
    PROVE  RInv'
<1> USE Constants
<1>1. Numbers /\ Numbers'
  BY TypedNumbers, NextState
<1>2. AttemptsInv /\ renewal.step = 2 /\ renewal.left = 0 /\ keyLease = 0
  BY DEF RInv, AttemptsInv, Confirm
<1>3. /\ UNCHANGED <<up, present, main, cancelled, token, login, keyLease>>
      /\ main \in {"serving", "closing"}
      /\ calm' = IF IsKey /\ Left(renewal.parent) = 0 THEN 0 ELSE calm
      /\ IF IsKey THEN creds' = Retrieved(delay) /\ parent' = renewal.parent
                  ELSE UNCHANGED <<creds, parent>>
  BY DEF Confirm, RenewalDue
<1>4. renewal'.left = 0 /\ renewal'.step = 3 /\ renewal'.parent = renewal.parent
  BY <1>2 DEF Confirm, SInv, TypeOK
<1>5. DownInv' /\ AttemptsInv'
  BY <1>1, <1>2, <1>3, <1>4 DEF DownInv, AttemptsInv, Numbers
<1> SUFFICES ASSUME Working PROVE WorkingInv'
  BY <1>3, <1>5 DEF RInv, WorkingInv, Working
<1>6. WorkingInv
  BY DEF RInv, WorkingInv
<1>7. TokenInv' /\ (Sound \/ Shaky)' /\ FirstLoginInv'
  BY <1>3, <1>6, RenewalLogin
<1>8. RenewalSoon'
  BY <1>4 DEF RenewalSoon
<1>9. (Known(parent) => (~IsKey => Known(parent)')) /\ (Known(renewal.parent) <=> Known(renewal.parent)')
  BY <1>3, <1>4 DEF Known
<1>10. IsKey => (Known(parent)' <=> Known(renewal.parent)')
  BY <1>3, <1>4
<1>11. IsKey => ParentLeft' = Left(renewal.parent) /\ creds'.left = CredentialTTL - delay
  BY <1>3 DEF ParentLeft, Left, Retrieved
<1>12. ParentInv'
  <2>1. token'.left > 0 => Known(parent)' /\ Known(renewal.parent)'
    BY <1>3, <1>6, <1>9, <1>10 DEF WorkingInv, ParentInv
  <2>2. ASSUME IsKey
        PROVE  /\ creds'.left >= CredentialTTL - MaxDelay
               /\ calm' = 0 \/ (ParentLeft' > 0 /\ Known(parent)')
    <3>1. creds'.left >= CredentialTTL - MaxDelay
      BY <1>11, <2>2
    <3>2. calm = 0 \/ Known(parent)'
      BY <1>2, <1>6, <1>9, <1>10, <2>2 DEF WorkingInv, ParentInv
    <3>3. Left(renewal.parent) \in Nat
      BY <1>1 DEF Left, Numbers
    <3>4. calm' = 0 \/ (ParentLeft' > 0 /\ calm' = calm)
      BY <1>3, <1>11, <2>2, <3>3
    <3> QED BY <3>1, <3>2, <3>4
  <2> QED BY <1>4, <2>1, <2>2 DEF ParentInv, IsKey
<1>13. CASE calm' = 0
  <2>1. Provided'
    BY <1>1, <1>5, <1>8, <1>13, NextState
  <2> QED BY <1>7, <1>8, <1>12, <2>1 DEF WorkingInv
<1>14. CASE calm' # 0
  <2>1. calm' = calm /\ Awaits' = Awaits
    BY <1>3, <1>14 DEF Awaits
  <2>2. Soon => Soon'
    BY <1>2, <1>3, <1>4, <2>1 DEF Soon
  <2>3. ~IsKey /\ Outlast => Outlast'
    BY <1>2, <1>3, <1>4, <2>1 DEF Outlast
  <2>4. ~(IsKey /\ OutlastKey)
    BY <1>1, <1>2, KeyLeased
  <2>5. Provided'
    BY <1>6, <2>2, <2>3, <2>4 DEF WorkingInv, Provided, IsKey
  <2> QED BY <1>7, <1>8, <1>12, <2>5 DEF WorkingInv
<1> QED BY <1>13, <1>14
(* What is published lasts until the next renewal.                         *)
LEMMA PublishRecovers ==
    ASSUME SInv, SInv', RInv, NEW delay \in 0 .. MaxDelay, Publish(delay)
    PROVE  RInv'
<1> USE Constants
<1>1. Numbers /\ Numbers'
  BY TypedNumbers, NextState
<1>2. AttemptsInv /\ renewal.step = 3
  BY DEF RInv, Publish
<1>3. /\ UNCHANGED <<calm, up, present, main, cancelled, token, login, parent>>
      /\ main \in {"serving", "closing"}
      /\ keyLease' = IF IsKey THEN CredentialTTL ELSE keyLease
      /\ creds' = IF IsKey THEN creds ELSE Retrieved(delay)
  BY DEF Publish, Renewed, RenewalDue, environment
<1>4. PICK sleep \in sleepDuration(CredentialTTL) :
         renewal'.left = sleep /\ renewal'.step = 1 /\ renewal'.parent = None
  BY DEF Publish, Renewed, Attempt
<1>5. /\ sleep \in Nat /\ sleep <= CredentialTTL
      /\ IsKey => sleep + 3 * MaxDelay < CredentialTTL
      /\ ~IsKey => sleep + 2 * MaxWait + AnswerLag + MaxDelay <= CredentialTTL
  BY CredentialSleep
<1>6. DownInv' /\ AttemptsInv'
  BY <1>1, <1>2, <1>3, <1>4 DEF DownInv, AttemptsInv, IsKey, Numbers
<1> SUFFICES ASSUME Working PROVE WorkingInv'
  BY <1>3, <1>6 DEF RInv, WorkingInv, Working
<1>7. WorkingInv
  BY DEF RInv, WorkingInv
<1>8. TokenInv' /\ (Sound \/ Shaky)' /\ FirstLoginInv'
  BY <1>3, <1>7, RenewalLogin
<1>9. (Known(parent) <=> Known(parent)') /\ Known(renewal.parent)'
  BY <1>3, <1>4 DEF Known
<1>10. ParentInv'
  BY <1>3, <1>4, <1>7, <1>9 DEF WorkingInv, ParentInv
<1>11. CASE ~IsKey
  <2>1. creds' # None /\ creds'.left = CredentialTTL - delay
    <3>1. CredentialTTL - delay \in Nat /\ renewal.version \in Nat
      BY <1>2 DEF SInv, TypeOK, AttemptInv
    <3>2. Retrieved(delay) \in [version : Nat, left : Nat, final : BOOLEAN]
      BY <3>1 DEF Retrieved
    <3> QED BY <1>3, <1>11, <3>2, SidecarAssumption DEF Retrieved
  <2>2. creds'.left >= renewal'.left + 2 * MaxWait + AnswerLag
    BY <1>4, <1>5, <1>11, <2>1
  <2> QED BY <1>8, <1>10, <1>11, <2>1, <2>2
      DEF WorkingInv, RenewalSoon, Provided, Outlast, IsKey
<1>12. CASE IsKey
  <2>1. RenewalSoon'
    BY <1>3, <1>4, <1>5, <1>12 DEF RenewalSoon, IsKey
  <2>2. creds # None /\ creds.left >= CredentialTTL - MaxDelay
    BY <1>2, <1>7, <1>12 DEF SInv, AttemptInv, WorkingInv, ParentInv
  <2>3. CASE calm = 0
    BY <1>1, <1>3, <1>6, <1>8, <1>10, <2>1, <2>3, NextState DEF WorkingInv
  <2>4. CASE calm # 0
    <3>1. ParentLeft > 0 /\ Known(parent)
      BY <1>2, <1>7, <1>12, <2>4 DEF WorkingInv, ParentInv
    <3>2. creds'.left > renewal'.left + 2 * MaxDelay /\ keyLease' > renewal'.left + 2 * MaxDelay
      BY <1>1, <1>3, <1>4, <1>5, <1>12, <2>2 DEF Numbers
    <3>3. Valid'
      BY <1>1, <1>3, <1>12, <2>2, <3>1 DEF Valid, ParentLeft, Left, Numbers
    <3>4. OutlastKey'
      BY <1>3, <1>9, <1>12, <2>2, <3>1, <3>2, <3>3 DEF OutlastKey
    <3> QED BY <1>8, <1>10, <1>12, <2>1, <3>4 DEF WorkingInv, Provided, IsKey
  <2> QED BY <2>3, <2>4
<1> QED BY <1>11, <1>12

(* A renewal that fails while it is calm has met a token that ended; what  *)
(* there is lasts until there is a new one, or all is still new.           *)
LEMMA RenewalFailsRecovers ==
    ASSUME SInv, SInv', RInv, RenewalFails
    PROVE  RInv'
<1> USE Constants
<1>1. Numbers /\ Numbers'
  BY TypedNumbers, NextState
<1>2. AttemptsInv
  BY DEF RInv
<1>3. /\ UNCHANGED <<calm, up, present, main, cancelled, token, login, keyLease, parent>>
      /\ main \in {"serving", "closing"} /\ renewal.left = 0
  BY DEF RenewalFails, RenewalDue, environment
<1>4. PICK wait \in Duration :
         renewal'.left = wait /\ renewal'.step = 1 /\ renewal'.parent = None
  BY DEF RenewalFails, Attempt
<1>5. wait \in Nat /\ 1 <= wait /\ wait <= MaxWait
  BY WaitType
<1>6. DownInv' /\ AttemptsInv'
  BY <1>2, <1>3, <1>4 DEF DownInv, AttemptsInv, IsKey
<1> SUFFICES ASSUME Working PROVE WorkingInv'
  BY <1>3, <1>6 DEF RInv, WorkingInv, Working
<1>7. WorkingInv
  BY DEF RInv, WorkingInv
<1>8. TokenInv' /\ (Sound \/ Shaky)' /\ FirstLoginInv'
  BY <1>3, <1>7, RenewalLogin
<1>9. (Known(parent) <=> Known(parent)') /\ Known(renewal.parent)'
  BY <1>3, <1>4 DEF Known
<1>10. RenewalSoon' /\ ParentInv'
  BY <1>3, <1>4, <1>5, <1>7, <1>9 DEF RenewalSoon, WorkingInv, ParentInv
<1>11. CASE calm = 0
  BY <1>1, <1>3, <1>6, <1>8, <1>10, <1>11, NextState DEF WorkingInv
<1>12. CASE calm # 0
  <2>1. up /\ present /\ Answers
    BY <1>1, <1>2, <1>12 DEF AttemptsInv, Numbers, Answers, Working
  <2>2. token.left = 0 \/ (keyLease > 0 /\ ~Valid)
    BY <1>1, <2>1 DEF RenewalFails, Permitted, Confirmed, RenewsLease, Numbers
  <2>3. creds' = creds
    BY <1>1, <2>1 DEF RenewalFails, Permitted, Confirmed, Numbers
  <2>4. Awaits' = Awaits /\ (Valid' <=> Valid)
    BY <1>3, <2>3 DEF Awaits, Valid, ParentLeft, Left
  <2>5. CASE keyLease > 0
    <3>1. IsKey
      BY <1>2, <2>5 DEF AttemptsInv
    <3>2. Soon => Soon'
      BY <1>1, <1>3, <1>4, <1>5, <2>5 DEF Soon, Numbers
    <3>3. ASSUME OutlastKey PROVE OutlastKey'
      <4>1. token.left = 0 /\ parent # None
        BY <1>1, <2>2, <3>1, <3>3 DEF OutlastKey, Valid, ParentLeft, Left, Numbers
      <4>2. parent <= 2 * MaxDelay
        BY <1>1, <3>3, <4>1 DEF OutlastKey, Known, Numbers
      <4>3. CASE creds.final /\ keyLease >= creds.left
        BY <1>3, <1>9, <2>3, <2>4, <3>3, <4>3 DEF OutlastKey
      <4>4. CASE ~(creds.final /\ keyLease >= creds.left)
        <5>1. creds.left >= parent /\ keyLease >= parent
          BY <1>1, <1>3, <3>3, <4>1, <4>2, <4>4 DEF OutlastKey, Numbers
        <5> QED BY <1>3, <1>9, <2>3, <2>4, <3>3, <4>1, <5>1 DEF OutlastKey
      <4> QED BY <4>3, <4>4
    <3> QED BY <1>7, <1>8, <1>10, <3>1, <3>2, <3>3 DEF WorkingInv, Provided, IsKey
  <2>6. CASE keyLease = 0
    <3>1. token.left = 0 /\ token'.left = 0 /\ keyLease' = 0
      BY <1>3, <2>2, <2>6
    <3>2. ASSUME calm + Awaits + MaxWait < Recovery PROVE Soon'
      BY <1>3, <1>4, <1>5, <2>4, <3>1, <3>2 DEF Soon
    <3>3. CASE Shaky
      <4>1. calm + Awaits + MaxWait < Recovery
        BY <1>1, <1>7, <3>1, <3>3, EndedShaky DEF WorkingInv, Numbers
      <4> QED BY <1>8, <1>10, <3>2, <4>1 DEF WorkingInv, Provided
    <3>4. CASE Sound
      <4>1. /\ Awaits \in Nat /\ Awaits < MaxWait + AnswerLag
            /\ token.max <= MaxDelay
        BY <1>1, <1>7, <3>1, <3>4, EndedSound DEF WorkingInv
      <4>2. Soon => Soon'
        <5>1. Soon => calm + Awaits + MaxWait < Recovery
          BY <1>1, <1>3, <2>6, <4>1 DEF Soon, Numbers
        <5> QED BY <3>2, <5>1
      <4>3. ~IsKey /\ Outlast => Outlast'
        BY <1>1, <1>3, <1>4, <1>5, <2>3, <2>4, <3>1, <4>1 DEF Outlast, Numbers
      <4>4. ~(IsKey /\ OutlastKey)
        BY <1>1, <2>6, KeyLeased
      <4> QED BY <1>7, <1>8, <1>10, <4>2, <4>3, <4>4 DEF WorkingInv, Provided, IsKey
    <3> QED BY <1>7, <3>3, <3>4 DEF WorkingInv
  <2> QED BY <1>1, <2>5, <2>6 DEF Numbers
<1> QED BY <1>11, <1>12
-----------------------------------------------------------------------------
(* What a tick does to the timers.                                         *)
LEMMA TickEffect ==
    ASSUME SInv, RInv, Tick
    PROVE  /\ UNCHANGED <<up, present, main, cancelled>>
           /\ token'.left = Less(token.left) /\ token'.max = Less(token.max)
           /\ login'.left = Less(login.left) /\ login'.ttl = Less(login.ttl)
           /\ login'.lease = login.lease
           /\ renewal'.left = Less(renewal.left)
           /\ renewal.step = 1 /\ renewal'.step = 1
           /\ renewal'.parent = None /\ renewal.parent = None
           /\ keyLease' = Less(keyLease)
           /\ creds = None <=> creds' = None
           /\ creds # None => creds'.left = Less(creds.left) /\ creds'.final = creds.final
           /\ parent' = IF parent = None THEN None ELSE Less(parent)
           /\ ParentLeft' = Less(ParentLeft)
           /\ \/ calm' = 0
              \/ /\ calm' <= calm + 1 /\ up /\ present
                 /\ ~Ends(Less(ParentLeft)) /\ ~EndsOfAge
<1> USE Constants
<1>1. Numbers
  BY TypedNumbers
<1>2. UNCHANGED <<up, present, main, cancelled>>
  BY DEF Tick
<1>3. token'.left = Less(token.left) /\ token'.max = Less(token.max)
  BY DEF Tick
<1>4. /\ login'.left = Less(login.left) /\ login'.ttl = Less(login.ttl)
      /\ login'.lease = login.lease
  BY DEF Tick, SInv, TypeOK
<1>5. renewal.step = 1 /\ renewal.parent = None
  <2>1. ~RenewalDue /\ AttemptsInv
    BY DEF Tick, RInv
  <2> QED BY <2>1 DEF AttemptsInv, RenewalDue
<1>6. renewal'.left = Less(renewal.left) /\ renewal'.step = 1 /\ renewal'.parent = None
  <2>1. renewal' = [renewal EXCEPT !.left = Less(@)]
    BY DEF Tick
  <2> QED BY <1>5, <2>1 DEF SInv, TypeOK
<1>7. keyLease' = Less(keyLease) /\ parent' = IF parent = None THEN None ELSE Less(parent)
  BY DEF Tick
<1>8. /\ creds = None <=> creds' = None
      /\ creds # None => creds'.left = Less(creds.left) /\ creds'.final = creds.final
  <2>1. CASE creds = None
    BY <2>1 DEF Tick
  <2>2. CASE creds # None
    <3>1. creds \in [version : 0 .. binding, left : 0 .. CredentialTTL, final : BOOLEAN]
      BY <2>2 DEF SInv, TypeOK
    <3>2. creds' = [version |-> creds.version, left |-> Less(creds.left),
                    final |-> creds.final]
      BY <2>2, <3>1 DEF Tick
    <3>3. Less(creds.left) \in 0 .. CredentialTTL
      BY <3>1 DEF Less
    <3>4. creds' \in [version : 0 .. binding, left : 0 .. CredentialTTL, final : BOOLEAN]
      BY <3>1, <3>2, <3>3
    <3>5. creds' # None
      BY <3>4, CredentialsAreThere DEF SInv
    <3> QED BY <2>2, <3>2, <3>5
  <2> QED BY <2>1, <2>2
<1>9. ParentLeft' = Less(ParentLeft)
  <2>1. parent # None => Less(parent) # None
    BY <1>1, SidecarAssumption DEF Less, Numbers
  <2> QED BY <1>3, <1>7, <2>1 DEF ParentLeft, Left
<1>10. \/ calm' = 0
       \/ /\ calm' <= calm + 1 /\ up /\ present
          /\ ~Ends(Less(ParentLeft)) /\ ~EndsOfAge
  <2>1. calm + 1 \in Nat
    BY <1>1 DEF Numbers
  <2>2. Min({calm + 1, Recovery}) <= calm + 1
    BY <2>1, MinOfTwo
  <2> QED BY <2>2 DEF Tick
<1> QED BY <1>2, <1>3, <1>4, <1>5, <1>6, <1>7, <1>8, <1>9, <1>10

(* All timers run down together, and what they promise comes a tick        *)
(* nearer with every tick that it is calm for longer.                      *)
LEMMA TickRecovers ==
    ASSUME SInv, SInv', RInv, Tick
    PROVE  RInv'
<1> USE Constants
<1>1. Numbers /\ Numbers'
  BY TypedNumbers, NextState
<1>2. AttemptsInv /\ DownInv
  BY DEF RInv
<1>3. DownInv'
  <2> SUFFICES ASSUME main = "down"
               PROVE  /\ token' = NoToken /\ login' = NoLogin /\ renewal' = NoRenewal
                      /\ keyLease' = 0 /\ calm' = 0
    BY DEF Tick, DownInv
  <2>1. Less(0) = 0
    BY DEF Less
  <2>2. token' = NoToken /\ keyLease' = 0 /\ calm' = 0
    BY <1>2, <2>1 DEF Tick, DownInv, NoToken
  <2>3. login' = NoLogin
    <3>1. login \in [left : Nat, lease : 0 .. LoginTTL, ttl : 0 .. LoginTTL, renewable : BOOLEAN]
      BY DEF SInv, TypeOK
    <3>2. login' = [left |-> Less(login.left), lease |-> login.lease,
                    ttl |-> Less(login.ttl), renewable |-> login.renewable]
      BY <3>1 DEF Tick
    <3>3. login.left = 0 /\ login.lease = 0 /\ login.ttl = 0 /\ login.renewable = FALSE
      BY <1>2 DEF DownInv, NoLogin
    <3> QED BY <2>1, <3>2, <3>3 DEF NoLogin
  <2>4. renewal' = NoRenewal
    <3>1. renewal \in [left : Nat, step : 1 .. 3, version : 0 .. binding \cup {None},
                       parent : 0 .. LoginTTL \cup {None}, done : BOOLEAN]
      BY DEF SInv, TypeOK
    <3>2. renewal' = [left |-> Less(renewal.left), step |-> renewal.step,
                      version |-> renewal.version, parent |-> renewal.parent,
                      done |-> renewal.done]
      BY <3>1 DEF Tick
    <3>3. /\ renewal.left = 0 /\ renewal.step = 1 /\ renewal.version = None
          /\ renewal.parent = None /\ renewal.done = FALSE
      BY <1>2 DEF DownInv, NoRenewal, Attempt
    <3> QED BY <2>1, <3>2, <3>3 DEF NoRenewal, Attempt
  <2> QED BY <2>2, <2>3, <2>4
<1>4. AttemptsInv'
  <2>1. keyLease' > 0 => keyLease > 0
    BY <1>1, TickEffect DEF Less, Numbers
  <2> QED BY <1>1, <1>2, <2>1, TickEffect DEF AttemptsInv, IsKey, Numbers
<1> SUFFICES ASSUME Working PROVE WorkingInv'
  BY <1>3, <1>4, TickEffect DEF RInv, WorkingInv, Working
<1>5. WorkingInv
  BY DEF RInv, WorkingInv
<1>6. /\ login.left > 0 /\ main \in {"login", "serving"}
      /\ main = "serving" => renewal.left > 0
      /\ main = "login" => login.lease = 0
  BY <1>1, <1>2 DEF Tick, Working, LoginDue, RenewalDue, AttemptsInv, Numbers, SInv, TypeOK
<1>7. calm' \in Nat /\ calm' <= calm + 1
  BY <1>1, TickEffect DEF Numbers
<1>8. TokenInv'
  BY <1>1, <1>5, <1>6, <1>7, TickEffect DEF WorkingInv, TokenInv, Less, Numbers
<1>9. (Sound \/ Shaky)'
  <2>1. Sound => Sound'
    BY <1>1, <1>6, TickEffect DEF Sound, Less, Numbers
  <2>2. Shaky => Shaky'
    BY <1>1, <1>6, <1>7, TickEffect DEF Shaky, Less, Numbers
  <2> QED BY <1>5, <2>1, <2>2 DEF WorkingInv
<1>10. FirstLoginInv'
  BY <1>1, <1>5, <1>6, <1>7, TickEffect DEF WorkingInv, FirstLoginInv, Less, Numbers
<1>11. RenewalSoon'
  BY <1>1, <1>5, TickEffect DEF WorkingInv, RenewalSoon, Less, Numbers
<1>12. Known(parent) => Known(parent)'
  BY <1>1, TickEffect DEF Known, Less, Numbers
<1>13. ParentInv'
  <2>1. token'.left > 0 => token.left > 0
    BY <1>1, TickEffect DEF Less, Numbers
  <2>2. Known(renewal.parent)'
    BY TickEffect DEF Known
  <2> QED BY <1>5, <1>12, <2>1, <2>2, TickEffect DEF WorkingInv, ParentInv
<1>14. CASE calm' = 0
  BY <1>1, <1>4, <1>8, <1>9, <1>10, <1>11, <1>13, <1>14, NextState DEF WorkingInv
<1>15. CASE main = "login"
  <2>1. Soon'
    BY <1>1, <1>5, <1>6, <1>7, <1>10, <1>15, TickEffect
    DEF WorkingInv, FirstLoginInv, Soon, Less, Numbers
  <2> QED BY <1>8, <1>9, <1>10, <1>11, <1>13, <2>1 DEF WorkingInv, Provided
<1>16. CASE calm' # 0 /\ main = "serving"
  <2>1. renewal.left > 0 /\ ~Ends(Less(ParentLeft))
    BY <1>6, <1>16, TickEffect
  <2>2. /\ Awaits \in Nat /\ Awaits' \in Nat
        /\ Awaits' + 1 <= Awaits
        /\ calm' + Awaits' <= calm + Awaits
    BY <1>1, <1>6, <1>7, TickEffect DEF Awaits, Less, Numbers
  <2>3. /\ renewal'.left = renewal.left - 1
        /\ token.left = 0 => token'.left = 0
        /\ token'.max >= token.max - 1
        /\ keyLease = 0 => keyLease' = 0
        /\ keyLease > 0 => keyLease' = keyLease - 1
        /\ creds # None => creds' # None /\ creds'.left >= creds.left - 1
        /\ parent # None => parent' # None /\ (parent' = parent - 1 \/ parent' = 0)
    <3>1. /\ renewal'.left = renewal.left - 1
          /\ token.left = 0 => token'.left = 0
          /\ token'.max >= token.max - 1
      BY <1>1, <2>1, TickEffect DEF Less, Numbers
    <3>2. /\ keyLease = 0 => keyLease' = 0
          /\ keyLease > 0 => keyLease' = keyLease - 1
      BY <1>1, TickEffect DEF Less, Numbers
    <3>3. creds # None => creds' # None /\ creds'.left >= creds.left - 1
      BY <1>1, TickEffect DEF Less, Numbers
    <3>4. parent # None => parent' # None /\ (parent' = parent - 1 \/ parent' = 0)
      BY <1>1, TickEffect, SidecarAssumption DEF Less, Numbers
    <3> QED BY <3>1, <3>2, <3>3, <3>4
  <2>4. Soon => Soon'
    <3>1. calm + Awaits + MaxWait < Recovery => calm' + Awaits' + MaxWait < Recovery
      BY <1>1, <1>7, <2>2, Sooner DEF Numbers
    <3>2. CASE keyLease > 1
      <4>1. keyLease \in Nat /\ keyLease > 0 /\ calm \in Nat
        BY <1>1, <3>2 DEF Numbers
      <4>2. calm + keyLease <= KeyLag => calm' + Less(keyLease) <= KeyLag
        BY <1>7, <4>1, LessOne, Together
      <4>5. keyLease' > 0 /\ keyLease' = Less(keyLease)
        BY <3>2, <4>1, LessOne, TickEffect
      <4>3. renewal.left <= MaxWait => renewal'.left <= MaxWait
        BY <1>1, <2>3 DEF Numbers
      <4>4. renewal.left <= keyLease => renewal'.left <= keyLease'
        BY <1>1, <2>3, <3>2 DEF Numbers
      <4> QED BY <3>2, <4>2, <4>3, <4>4, <4>5 DEF Soon
    <3>3. CASE keyLease = 1
      BY <1>1, <1>7, <2>3, <3>3 DEF Soon, Numbers
    <3>4. CASE keyLease = 0
      <4>1. token.max > renewal.left + MaxDelay => token'.max > renewal'.left + MaxDelay
        BY <1>1, <2>3 DEF Numbers
      <4>2. calm' + renewal'.left <= calm + renewal.left /\ renewal'.left <= renewal.left
        BY <1>1, <1>7, <2>3 DEF Numbers
      <4>3. /\ renewal.left <= MaxWait => renewal'.left <= MaxWait
            /\ calm + renewal.left < Recovery => calm' + renewal'.left < Recovery
            /\ calm + renewal.left <= KeyLag + MaxWait
                 => calm' + renewal'.left <= KeyLag + MaxWait
        BY <1>1, <1>7, <4>2 DEF Numbers
      <4> QED BY <2>3, <3>1, <3>4, <4>1, <4>3 DEF Soon
    <3> QED BY <1>1, <3>2, <3>3, <3>4 DEF Numbers
  <2>7. Outlast => Outlast'
    <3> SUFFICES ASSUME Outlast PROVE Outlast'
      OBVIOUS
    <3>1. creds # None /\ creds' # None /\ creds'.left >= creds.left - 1
      BY <2>3 DEF Outlast
    <3>2. /\ renewal.left \in Nat /\ renewal'.left \in Nat
          /\ creds.left \in Nat /\ creds'.left \in Nat
          /\ token.max \in Nat /\ token'.max \in Nat
          /\ renewal'.left = renewal.left - 1
      BY <1>1, <2>3, <3>1 DEF Numbers
    <3>3. CASE creds.left >= renewal.left + 2 * MaxWait + AnswerLag
      <4>1. creds'.left >= renewal'.left + 2 * MaxWait + AnswerLag
        BY <3>1, <3>2, <3>3
      <4> QED BY <3>1, <4>1 DEF Outlast
    <3>4. CASE token.left = 0 /\ renewal.left <= MaxWait /\ creds.left > Awaits + MaxWait
      <4>1. renewal'.left <= MaxWait
        BY <3>2, <3>4
      <4>2. creds'.left > Awaits' + MaxWait
        <5>1. Awaits \in Nat /\ Awaits' \in Nat /\ Awaits' + 1 <= Awaits
          BY <2>2
        <5>2. creds'.left >= creds.left - 1 /\ creds.left \in Nat /\ creds'.left \in Nat
          BY <3>1, <3>2
        <5>3. creds.left > Awaits + MaxWait
          BY <3>4
        <5>4. MaxWait \in Nat
          OBVIOUS
        <5> QED BY <5>1, <5>2, <5>3, <5>4, StillLeft
      <4> QED BY <2>3, <3>1, <3>4, <4>1, <4>2 DEF Outlast
    <3>5. CASE token.max > renewal.left + MaxDelay /\ creds.left > renewal.left
      <4>1. token'.max > renewal'.left + MaxDelay /\ creds'.left > renewal'.left
        BY <2>3, <3>1, <3>2, <3>5
      <4> QED BY <3>1, <4>1 DEF Outlast
    <3> QED BY <3>3, <3>4, <3>5 DEF Outlast
  <2>5. ASSUME IsKey, OutlastKey PROVE OutlastKey'
    <3>1. ParentLeft' > 0 /\ creds # None /\ creds' # None
      BY <1>1, <2>1, <2>5, TickEffect DEF OutlastKey, Ends, ParentLeft, Left, Less, Numbers
    <3>2. CASE creds.final /\ keyLease >= creds.left
      <4>1. creds'.final
        BY <3>1, <3>2, TickEffect
      <4>2. creds.left \in Nat /\ creds.left > 0 /\ creds.left # 1
        BY <1>1, <1>16, <2>5, <3>1, <3>2, TickEffect DEF OutlastKey, EndsOfAge, Valid, Numbers
      <4>3. creds'.left > 0 /\ keyLease' >= creds'.left
        BY <1>1, <3>1, <3>2, <4>2, TickEffect DEF Less, Numbers
      <4> QED BY <1>12, <2>5, <3>1, <4>1, <4>3 DEF OutlastKey, Valid
    <3>3. CASE ~(creds.final /\ keyLease >= creds.left)
      <4>1. \/ /\ creds'.left > renewal'.left + 2 * MaxDelay
               /\ keyLease' > renewal'.left + 2 * MaxDelay
            \/ parent' # None /\ creds'.left >= parent' /\ keyLease' >= parent'
        BY <1>1, <2>3, <2>5, <3>3 DEF OutlastKey, Numbers
      <4>2. creds'.left > 0
        BY <1>1, <3>1, <4>1 DEF ParentLeft, Left, Numbers
      <4> QED BY <1>12, <2>5, <3>1, <4>1, <4>2 DEF OutlastKey, Valid
    <3> QED BY <3>2, <3>3
  <2>6. Provided'
    BY <1>5, <2>4, <2>5, <2>7 DEF WorkingInv, Provided, IsKey
  <2> QED BY <1>8, <1>9, <1>10, <1>11, <1>13, <2>6 DEF WorkingInv
<1> QED BY <1>6, <1>14, <1>15, <1>16
-----------------------------------------------------------------------------
(* Every step keeps the invariant.                                         *)
LEMMA RecoveryStep == SInv /\ RInv /\ [Next]_vars => RInv'
<1> SUFFICES ASSUME SInv, RInv, [Next]_vars PROVE RInv'
  OBVIOUS
<1>1. SInv'
  BY InvStep
<1>2. CASE LoginStep
  BY <1>1, <1>2, LoginRecovers, RenewTokenRecovers, LoginFailsRecovers DEF LoginStep
<1>3. CASE RenewalStep
  <2>1. Panic => Exit
    BY DEF Panic
  <2> QED BY <1>1, <1>3, <2>1, ReadSecretRecovers, RenewLeaseRecovers, ConfirmRecovers,
             PublishRecovers, RenewalFailsRecovers, ExitRecovers DEF RenewalStep
<1>4. CASE Start \/ FirstLogin \/ Listen \/ Cancel \/ Shutdown
  BY <1>1, <1>4, StartRecovers, RunRecovers
<1>5. CASE Return \/ Crash
  BY <1>1, <1>5, ExitRecovers DEF Return, Crash
<1>6. CASE Outage \/ Recover \/ Unbind \/ Rebind \/ Revoke
  BY <1>1, <1>6, EnvironmentRecovers
<1>7. CASE Tick
  BY <1>1, <1>7, TickRecovers
<1>8. CASE UNCHANGED vars
  <2>1. UNCHANGED timers /\ UNCHANGED <<up, present, main, cancelled>>
    BY <1>8 DEF vars, environment, process, timers
  <2>2. DownInv' /\ AttemptsInv'
    BY <2>1 DEF RInv, DownInv, AttemptsInv, timers, Recovery
  <2>3. ASSUME Working' PROVE WorkingInv'
    BY <2>1, <2>3, SameTimers DEF RInv, WorkingInv, Working
  <2> QED BY <2>2, <2>3 DEF RInv, WorkingInv
<1> QED BY <1>2, <1>3, <1>4, <1>5, <1>6, <1>7, <1>8 DEF Next

(* The invariant of the recovery, for all leases, waits and delays of the  *)
(* assumed ratios (login.go:27-76, sidecar.go:91-112).                     *)
THEOREM RecoveryInvariance == Spec => []RInv
<1>1. Spec => []SInv
  BY Invariance
<1>2. Init => RInv
  BY RecoveryInit
<1>3. SInv /\ RInv /\ [Next]_vars => RInv'
  BY RecoveryStep
<1> QED BY <1>1, <1>2, <1>3, PTL DEF Spec

(* When it has been calm for long, nothing is as it was before.            *)
LEMMA LongCalm ==
    ASSUME SInv, RInv, Working, calm = Recovery
    PROVE  /\ TokenInv /\ Sound
           /\ IF IsKey THEN OutlastKey ELSE Outlast
<1>1. Numbers
  BY TypedNumbers
<1>2. ~Shaky /\ ~Soon
  BY <1>1, Constants, NotLongCalm
<1> QED BY <1>2 DEF RInv, Provided

(* However long Vault was away, the sidecar has valid credentials within   *)
(* the recovery time (login.go:27-52 and 64-76, sidecar.go:91-112).        *)
THEOREM RecoversInTimeCorrect == Spec => []RecoversInTime
<1>1. SInv /\ RInv => RecoversInTime
  <2> SUFFICES ASSUME SInv, RInv, Working, calm = Recovery PROVE Fresh
    BY DEF RecoversInTime, Working
  <2>1. Numbers
    BY TypedNumbers
  <2>2. CASE IsKey
    BY <2>2, LongCalm DEF OutlastKey, Fresh
  <2>3. CASE ~IsKey
    <3>1. Outlast
      BY <2>3, LongCalm
    <3>2. Awaits \in Nat
      BY <2>1, Constants DEF Awaits, Numbers
    <3>3. creds # None /\ creds.left > 0
      BY <2>1, <3>1, <3>2, Constants DEF Outlast, Numbers
    <3> QED BY <2>3, <3>3 DEF Fresh, Valid
  <2> QED BY <2>2, <2>3
<1> QED BY <1>1, Invariance, RecoveryInvariance, PTL

(* Once it has been calm for long, a login token ends only of age          *)
(* (login.go:27-76).                                                       *)
THEOREM TokenEndsOfAgeCorrect == Spec => []TokenEndsOfAge
<1>1. SInv /\ RInv => TokenEndsOfAge
  <2> SUFFICES ASSUME SInv, RInv, Working, calm = Recovery, ~(token.left > 0)
               PROVE  token.max <= MaxDelay
    BY DEF TokenEndsOfAge, Working
  <2>1. Numbers
    BY TypedNumbers
  <2>2. token.left = 0
    BY <2>1 DEF Numbers
  <2> QED BY <2>1, <2>2, LongCalm, EndedSound
<1> QED BY <1>1, Invariance, RecoveryInvariance, PTL

(* Once it has been calm for long no key file is replaced                  *)
(* (provider_gcp.go:145-152).                                              *)
THEOREM KeyKeptWhileCalmCorrect == Spec => KeyKeptWhileCalm
<1>1. SInv /\ RInv /\ IsKey /\ calm = Recovery => ~ \E delay \in 0 .. MaxDelay : Confirm(delay)
  <2> SUFFICES ASSUME SInv, RInv, IsKey, calm = Recovery,
                      NEW delay \in 0 .. MaxDelay, Confirm(delay)
               PROVE  FALSE
    OBVIOUS
  <2>1. calm < Recovery
    BY DEF RInv, AttemptsInv, Confirm
  <2> QED BY <2>1, Constants
<1>2. SInv /\ RInv /\ [Next]_vars =>
          [IsKey /\ calm = Recovery => ~ \E delay \in 0 .. MaxDelay : Confirm(delay)]_vars
  BY <1>1
<1> QED BY <1>2, Invariance, RecoveryInvariance, PTL DEF Spec, KeyKeptWhileCalm
=============================================================================
