--------------------------- MODULE EndpointsProofs ---------------------------
(***************************************************************************)
(* What the application is told, for every lease, wait and delay and any   *)
(* number of rebinds: proofs about the module Endpoints.                   *)
(***************************************************************************)
EXTENDS Endpoints, SidecarProofs

(* A request is for something that is served and there, and the            *)
(* application was told nothing that is not older than the metadata, nor,  *)
(* as metadata is forgotten with the process, than Vault's object.         *)
TInv ==
    /\ request = None \/ request \in [endpoint : Served, checked : BOOLEAN]
    /\ request # None => renewal.done
    /\ told \in [credentials : 0 .. binding \cup {None}, account : 0 .. binding \cup {None}]
    /\ SecretType = "access_token" /\ None \notin {told.credentials, metadata} =>
          told.credentials <= metadata
    /\ AccountNotOlder

(* A request that is under way finds what it is for.                       *)
LEMMA RequestServed == SInv /\ TInv => NeverTurnedAway
<1> SUFFICES ASSUME SInv, TInv, request # None PROVE Memory(request.endpoint) # None
  BY DEF NeverTurnedAway
<1> USE SidecarAssumption
<1>1. /\ renewal.done
      /\ request.endpoint \in Served
  BY DEF TInv
<1>2. creds # None /\ (SecretType = "access_token" => metadata # None)
  BY <1>1 DEF SInv, RetrievedInv
<1>3. request.endpoint = "account" => SecretType = "access_token"
  BY <1>1 DEF Served
<1>4. creds.version # None
  BY <1>2 DEF SInv, TypeOK
<1> QED BY <1>2, <1>3, <1>4 DEF Memory

(* Nobody has asked for anything yet.                                      *)
LEMMA ToldInit == EInit => SInv /\ TInv
<1> SUFFICES ASSUME EInit PROVE SInv /\ TInv
  OBVIOUS
<1>1. SInv
  BY InvInit DEF EInit
<1>2. TInv
  BY DEF EInit, TInv, NotTold, AccountNotOlder
<1> QED BY <1>1, <1>2

(* The sidecar's steps publish nothing that is older than what was told,   *)
(* and what ends the server ends the requests.                             *)
LEMMA ToldSidecar == SInv /\ TInv /\ SidecarStep => TInv'
<1> SUFFICES ASSUME SInv, TInv, SidecarStep PROVE TInv'
  OBVIOUS
<1> USE SidecarAssumption
<1>1. Next /\ UNCHANGED told /\ request' = IF main' = "down" THEN None ELSE request
  BY DEF SidecarStep
<1>2. SInv'
  BY <1>1, InvStep
<1> USE DEF Next, LoginStep, RenewalStep, LoginFails, Login, RenewToken, LoggedIn,
            ReadSecret, RenewalFails, Panic, RenewLease, Renewed, Confirm, Publish, Start,
            FirstLogin, Listen, Cancel, Shutdown, Return, Crash, Exit, Elsewhere, Outage,
            Recover, Unbind, Rebind, Revoke, Tick, Others, environment, process
<1>3. binding' \in Nat /\ binding \in Nat /\ binding <= binding'
  <2>1. binding' = binding \/ binding' = binding + 1
    BY <1>1
  <2> QED BY <2>1 DEF SInv, TypeOK
<1>4. metadata' \in {metadata, None, binding}
  BY <1>1
<1>5. renewal.done /\ main' # "down" => renewal'.done
  <2>1. renewal \in [left : Nat, step : 1 .. 3, version : 0 .. binding \cup {None},
                     parent : 0 .. LoginTTL \cup {None}, done : BOOLEAN]
    BY DEF SInv, TypeOK
  <2>2. CASE \E delay \in 0 .. MaxDelay : Login(delay)
    BY <2>1, <2>2
  <2>3. CASE ReadSecret \/ RenewalFails
    BY <2>1, <2>3 DEF Attempt
  <2>4. CASE \E delay \in 0 .. MaxDelay : RenewLease(delay) \/ Publish(delay)
    BY <2>4 DEF Attempt
  <2>5. CASE \E delay \in 0 .. MaxDelay : Confirm(delay)
    BY <2>1, <2>5
  <2>6. CASE Tick
    BY <2>1, <2>6
  <2>7. CASE Exit
    BY <2>7
  <2>8. CASE UNCHANGED renewal
    BY <2>8
  <2> QED BY <1>1, <2>2, <2>3, <2>4, <2>5, <2>6, <2>7, <2>8
<1>6. told \in [credentials : 0 .. binding' \cup {None}, account : 0 .. binding' \cup {None}]
  BY <1>3 DEF TInv
<1> QED BY <1>1, <1>3, <1>4, <1>5, <1>6 DEF TInv, AccountNotOlder

(* A handler answers with what is in memory.                               *)
LEMMA ToldRequests ==
    SInv /\ TInv /\ (Check \/ Answer \/ \E endpoint \in Served : Ask(endpoint)) => TInv'
<1> USE SidecarAssumption
<1>1. ASSUME SInv, TInv, NEW endpoint \in Served, Ask(endpoint) PROVE TInv'
  BY <1>1 DEF Ask, vars, environment, process, SInv, RetrievedInv, TInv, AccountNotOlder
<1>2. ASSUME SInv, TInv, Check PROVE TInv'
  BY <1>2 DEF Check, vars, environment, process, TInv, AccountNotOlder
<1>3. ASSUME SInv, TInv, Answer PROVE TInv'
  <2>1. UNCHANGED <<binding, metadata>> /\ request' = None
    BY <1>3 DEF Answer, vars, environment, process
  <2>2. request \in [endpoint : Served, checked : BOOLEAN] /\ renewal.done
    BY <1>3 DEF Answer, TInv
  <2>3. creds # None /\ (SecretType = "access_token" => metadata # None)
    BY <1>3, <2>2 DEF SInv, RetrievedInv
  <2>4. creds.version \in 0 .. binding /\ metadata \in 0 .. binding \cup {None}
    BY <1>3, <2>3 DEF SInv, TypeOK
  <2>5. CASE request.endpoint = "credentials"
    <3>1. told' = [credentials |-> creds.version, account |-> None]
      BY <1>3, <2>5 DEF Answer, TInv
    <3>2. SecretType = "access_token" => creds.version <= metadata
      BY <1>3, <2>3 DEF SInv, MetadataNotOlder
    <3> QED BY <1>3, <2>1, <2>3, <2>4, <3>1, <3>2 DEF TInv, AccountNotOlder
  <2>6. CASE request.endpoint # "credentials"
    <3>1. SecretType = "access_token" /\ metadata # None
      BY <2>2, <2>3, <2>6 DEF Served
    <3>2. told' = [credentials |-> told.credentials, account |-> metadata]
      BY <1>3, <2>6 DEF Answer, TInv
    <3> QED BY <1>3, <2>1, <2>4, <3>1, <3>2 DEF TInv, AccountNotOlder
  <2> QED BY <2>5, <2>6
<1> QED BY <1>1, <1>2, <1>3

(* Every step keeps both invariants.                                       *)
LEMMA ToldStep == (SInv /\ TInv) /\ [ENext]_allVars => (SInv /\ TInv)'
<1>1. ASSUME SInv, TInv, ENext PROVE (SInv /\ TInv)'
  <2>1. CASE SidecarStep
    BY <1>1, <2>1, ToldSidecar, InvStep DEF SidecarStep
  <2>2. CASE Check \/ Answer \/ \E endpoint \in Served : Ask(endpoint)
    <3>1. UNCHANGED vars
      BY <2>2 DEF Check, Answer, Ask
    <3> QED BY <1>1, <2>2, <3>1, ToldRequests, InvStep
  <2> QED BY <1>1, <2>1, <2>2 DEF ENext
<1>2. ASSUME SInv, TInv, UNCHANGED allVars PROVE (SInv /\ TInv)'
  <2>1. UNCHANGED vars /\ UNCHANGED <<request, told>>
    BY <1>2 DEF allVars, application
  <2>2. SInv'
    BY <1>2, <2>1, InvStep
  <2>3. TInv'
    BY <1>2, <2>1 DEF vars, environment, process, TInv, AccountNotOlder
  <2> QED BY <2>2, <2>3
<1> QED BY <1>1, <1>2

(* The invariants hold for all leases, waits, delays and rebinds.          *)
THEOREM ToldInvariance == ESpec => [](SInv /\ TInv)
BY ToldInit, ToldStep, PTL DEF ESpec

(* No handler ever answers "not initialized" (sidecar.go:159-167,          *)
(* provider_gcp.go:233 and 334, provider_aws.go:104).                      *)
THEOREM NeverTurnedAwayCorrect == ESpec => []NeverTurnedAway
BY ToldInvariance, RequestServed, PTL

(* However often the operator rebinds the account and the sidecar          *)
(* restarts, the account that is told is never older than the token        *)
(* (provider_gcp.go:103-143).                                              *)
THEOREM AccountNotOlderCorrect == ESpec => []AccountNotOlder
<1>1. TInv => AccountNotOlder
  BY DEF TInv
<1> QED BY <1>1, ToldInvariance, PTL
=============================================================================
