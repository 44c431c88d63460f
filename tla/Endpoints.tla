----------------------------- MODULE Endpoints -----------------------------
(***************************************************************************)
(* The sidecar with the application that uses it: requests to the          *)
(* provider's endpoints, whose handlers read what the renewal goroutine    *)
(* publishes, without a lock and more than once.  The handlers that need   *)
(* no credentials and no metadata answer the same at all times and are     *)
(* left out.  A request is under way alone: handlers share nothing.        *)
(***************************************************************************)
EXTENDS Sidecar

VARIABLES
    request,    \* the request under way: [endpoint, checked], or None
    told        \* history: the application's view: number of the identity of
                \*   the credentials it got last, and of the account it got
                \*   since

application == <<request, told>>
allVars == <<vars, application>>

NotTold == [credentials |-> None, account |-> None]

EInit == Init /\ request = None /\ told = NotTold

(* What is served: nothing for keys, which are in a file.                  *)
Served == CASE SecretType = "access_token" -> {"credentials", "account"}
            [] SecretType = "sts" -> {"credentials"}
            [] OTHER -> {}

Memory(endpoint) ==
    IF endpoint = "account" THEN metadata
    ELSE IF creds = None THEN None ELSE creds.version

Ask(endpoint) ==
    /\ server = "listening"
    /\ request = None
    /\ request' = [endpoint |-> endpoint, checked |-> FALSE]
    /\ UNCHANGED <<vars, told>>

(* The handler's test for nil, which may turn the application away.        *)
Check ==
    /\ request # None
    /\ ~request.checked
    /\ request' = IF Memory(request.endpoint) = None THEN None
                  ELSE [request EXCEPT !.checked = TRUE]
    /\ UNCHANGED <<vars, told>>

(* It reads again to answer; of the reads of a longer answer the first is  *)
(* the oldest.                                                             *)
Answer ==
    /\ request # None
    /\ request.checked
    /\ told' = IF request.endpoint = "credentials"
               THEN [told EXCEPT !.credentials = creds.version, !.account = None]
               ELSE [told EXCEPT !.account = metadata]
    /\ request' = None
    /\ UNCHANGED vars

(* A request ends with the process at the latest.                          *)
SidecarStep ==
    /\ Next
    /\ request' = IF main' = "down" THEN None ELSE request
    /\ UNCHANGED told

ENext == SidecarStep \/ Check \/ Answer \/ \E endpoint \in Served : Ask(endpoint)

(* The application asks for everything again and again.                    *)
ESpec ==
    /\ EInit /\ [][ENext]_allVars
    /\ Fairness
    /\ WF_allVars(Check) /\ WF_allVars(Answer)
    /\ \A endpoint \in Served : SF_allVars(Ask(endpoint))
-----------------------------------------------------------------------------
(* The webserver starts when there is something to serve: the application  *)
(* is never told that credentials or metadata are not initialized          *)
(* (sidecar.go:159-167, provider_gcp.go:233 and 334, provider_aws.go:104), *)
(* and a handler that has passed the test does not meet nothing after it.   *)
NeverTurnedAway == request # None => Memory(request.endpoint) # None

(* An application that asks for a token and then for the account it is of  *)
(* is never told an account older than the token, however the operator and *)
(* the renewals interleave with its requests, and across restarts of the   *)
(* sidecar: renewToken reads the token first and publishes it last         *)
(* (provider_gcp.go:103-143).                                              *)
AccountNotOlder ==
    None \notin {told.credentials, told.account} => told.credentials <= told.account

(* What the operator writes last is what the application is told in the    *)
(* end, also when it has deleted the objects in between.                   *)
EventuallyTold ==
    \A v \in 0 .. MaxRebinds :
        <>[](main # "down" /\ Answers /\ present /\ binding = v)
            => <>[](told.credentials = v /\ told.account \in {v, None})
=============================================================================
