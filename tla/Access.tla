------------------------------- MODULE Access -------------------------------
(***************************************************************************)
(* What the operator promises, without queues, retries, requests and       *)
(* garbage collection: which service account can use which cloud identity. *)
(* The operator comes and goes, its rules change from one start to the     *)
(* next.  While it is up it grants what the rules in force permit, and     *)
(* takes away only what was not permitted ever since it started.           *)
(***************************************************************************)
CONSTANTS
    Accounts,
    Identities,         \* the cloud identities an account may ask for
    RuleLists,
    Permits(_, _, _),   \* what a rule list says of an account and an identity
    Nobody              \* no identity

VARIABLES
    up,         \* the operator is up
    rules,      \* the rules in force, or last in force
    asked,      \* Accounts -> the identity that is asked for
    entitled,   \* accounts whose identity was permitted ever since the start
    grants      \* Accounts -> the identity that can be used

vars == <<up, rules, asked, entitled, grants>>

Permitted(sa) == Permits(rules, sa, asked[sa])

Init ==
    /\ up = FALSE
    /\ rules \in RuleLists
    /\ asked \in [Accounts -> Identities \cup {Nobody}]
    /\ entitled = {}
    /\ grants = [sa \in Accounts |-> Nobody]

(* The account asks for another identity, or for none.                     *)
Ask(sa, identity) ==
    /\ asked' = [asked EXCEPT ![sa] = identity]
    /\ entitled' = IF Permits(rules, sa, identity) THEN entitled ELSE entitled \ {sa}
    /\ UNCHANGED <<up, rules, grants>>

(* The identity may have been asked for a while ago, by what the operator  *)
(* knew then.                                                              *)
Grant(sa, identity) ==
    /\ up
    /\ Permits(rules, sa, identity)
    /\ grants' = [grants EXCEPT ![sa] = identity]
    /\ UNCHANGED <<up, rules, asked, entitled>>

Withdrawn(sa) ==
    /\ sa \notin entitled
    /\ grants' = [grants EXCEPT ![sa] = Nobody]

Withdraw(sa) ==
    /\ up
    /\ Withdrawn(sa)
    /\ UNCHANGED <<up, rules, asked, entitled>>

Start(ruleList) ==
    /\ ~up
    /\ up' = TRUE
    /\ rules' = ruleList
    /\ entitled' = {sa \in Accounts : Permits(ruleList, sa, asked[sa])}
    /\ UNCHANGED <<asked, grants>>

(* Vault may serve a last request.                                         *)
Stop ==
    /\ up
    /\ up' = FALSE
    /\ entitled' = {}
    /\ UNCHANGED grants \/ \E sa \in Accounts : Withdrawn(sa)
    /\ UNCHANGED <<rules, asked>>

Next ==
    \/ \E sa \in Accounts, identity \in Identities \cup {Nobody} :
          Ask(sa, identity) \/ Grant(sa, identity)
    \/ \E sa \in Accounts : Withdraw(sa)
    \/ \E ruleList \in RuleLists : Start(ruleList)
    \/ Stop

Spec == Init /\ [][Next]_vars

(* What is not permitted does not stay while the operator does.            *)
Fairness == \A sa \in Accounts : WF_vars(~Permitted(sa) /\ Withdraw(sa))

FairSpec == Spec /\ Fairness
=============================================================================
