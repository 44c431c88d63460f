----------------------------- MODULE MCOperator -----------------------------
(***************************************************************************)
(* Small instances of Operator.                                            *)
(***************************************************************************)
EXTENDS Operator

CONSTANTS MCTTLs, MCScopes, MCIdentities

MCMatch(pattern, text) ==
    IF pattern = "[" THEN "error"
    ELSE IF pattern \in {"*", text} THEN "yes" ELSE "no"

Identity(name) == [wellFormed |-> TRUE, account |-> "acct", isRole |-> TRUE, name |-> name]

Rule(namespace, names) ==
    [namespacePatterns |-> <<namespace>>, identityPatterns |-> names, accountIDs |-> {}]

(* Before and after an administrator takes the admin role away.            *)
Before == <<Rule("*", <<"reader">>), Rule("system", <<"admin">>)>>
After  == <<Rule("*", <<"reader">>)>>
MCRuleLists == {Before, After}
MCTwoLists == {<<Rule("*", <<"admin">>)>>}

MCAnnotationSets ==
    [identity : {IF name = NoIdentity THEN NoIdentity ELSE Identity(name)
                    : name \in MCIdentities},
     ttl : MCTTLs, scopes : MCScopes]

(* A lease that GCP's annotation may ask for and Vault refuses.             *)
MCNegativeTTLs == {NoTTL, -1}

(* The permitted admin, and the reader with a TTL that is refused.         *)
MCRefusedSets ==
    {ann \in MCAnnotationSets : (ann.identity.name = "reader") <=> (ann.ttl = BadTTL)}

(* A process that starts once and stays up, in a cluster that does not     *)
(* change any more, over what an earlier process left in Vault: nothing, a *)
(* write that was cut short after its first object, or all three.          *)
Leftover(written) ==
    [kind \in Kinds |-> [sa \in ServiceAccounts |->
        IF \E i \in 1 .. written[sa] : WriteOrder[i] = kind
        THEN Content(kind, CHOOSE ann \in AnnotationSets : TRUE) ELSE None]]

QuietInit ==
    /\ accounts \in [ServiceAccounts -> AnnotationSets \cup {None}]
    /\ vault \in {Leftover(written) : written \in [ServiceAccounts -> {0, 1, 3}]}
    /\ running = FALSE /\ rules \in RuleLists /\ queue = {} /\ delayed = {}
    /\ work = Idle /\ gc = GCDone /\ clobbered = {} /\ steady = {}

QuietNext ==
    \/ \E sa \in ServiceAccounts :
          \/ ReconcileRemove(sa) \/ ReconcileWrite(sa) \/ ReconcileRejectTTL(sa)
          \/ Requeue(sa) \/ WriteStep(sa) \/ RemoveStep(sa) \/ GCCheck(sa)
    \/ RequestFails \/ GCList \/ GCRemoveStep \/ GCNext
    \/ \E ruleList \in RuleLists : Startup(ruleList)

QuietSpec == QuietInit /\ [][QuietNext]_vars /\ Fairness
=============================================================================
