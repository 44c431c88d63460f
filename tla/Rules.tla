------------------------------- MODULE Rules -------------------------------
(***************************************************************************)
(* The rules of the configuration file (operator/aws.go, operator/gcp.go): *)
(* an ordered list that says which cloud identity the service accounts of  *)
(* a namespace may use.  A pattern is whatever filepath.Match takes; it    *)
(* may be malformed, and then evaluating it is an error.  An error of any  *)
(* pattern that is reached stops the evaluation, so the place of a rule in *)
(* the list, and of a pattern in its rule, matters.                        *)
(***************************************************************************)
EXTENDS Naturals, Sequences, FiniteSetsExt

CONSTANTS
    Provider,       \* "aws" or "gcp": one operator process serves one of them
    Match(_, _),    \* filepath.Match(pattern, text): "yes", "no" or "error"
    NoIdentity      \* the identity annotation is missing or empty

ASSUME ProviderAssumption == Provider \in {"aws", "gcp"}

Verdicts == {"yes", "no", "error"}

(* Mistake: the loop does not stop at the first decision.                  *)
LastVerdict(verdicts) ==
    LET decisive == {i \in DOMAIN verdicts : verdicts[i] # "no"}
    IN  IF decisive = {} THEN "no" ELSE verdicts[Max(decisive)]

(* The shape of all the loops of the evaluation: the first element that    *)
(* does not just say "no" decides.                                         *)
FirstVerdict(verdicts) ==
    LET decisive == {i \in DOMAIN verdicts : verdicts[i] # "no"}
    IN  IF decisive = {} THEN "no" ELSE verdicts[Min(decisive)]

MatchesAny(patterns, text) ==
    FirstVerdict([i \in DOMAIN patterns |-> Match(patterns[i], text)])

matchesAccountID(rule, accountID) ==
    rule.accountIDs = {} \/ accountID \in rule.accountIDs

(* Both verdicts have been asked for; an error of either is an error.      *)
Both(first, second) ==
    IF "error" \in {first, second} THEN "error"
    ELSE IF first = "yes" /\ second = "yes" THEN "yes" ELSE "no"

(* Mistake: the account of the ARN is not looked at.                       *)
AWSAllowsAnyAccount(rule, namespace, arn) ==
    Both(MatchesAny(rule.namespacePatterns, namespace),
         IF arn.isRole THEN MatchesAny(rule.identityPatterns, arn.name) ELSE "no")

(* An identity is what the rules read of it: whether it parses, and for an *)
(* ARN its account, whether its resource starts with "role/", and the name *)
(* after that; for a GCP service account the name is the whole email.      *)
AWSAllows(rule, namespace, arn) ==
    LET granted == Both(MatchesAny(rule.namespacePatterns, namespace),
                        IF arn.isRole
                        THEN MatchesAny(rule.identityPatterns, arn.name)
                        ELSE "no")
    IN  IF granted = "yes" /\ ~matchesAccountID(rule, arn.account)
        THEN "no" ELSE granted

GCPAllows(rule, namespace, email) ==
    Both(MatchesAny(rule.namespacePatterns, namespace),
         MatchesAny(rule.identityPatterns, email.name))

allows(rule, namespace, identity) ==
    IF Provider = "aws" THEN AWSAllows(rule, namespace, identity)
                        ELSE GCPAllows(rule, namespace, identity)

(* No rule at all permits every well-formed identity.                      *)
allow(ruleList, namespace, identity) ==
    IF ~identity.wellFormed THEN "error"
    ELSE IF ruleList = << >> THEN "yes"
    ELSE FirstVerdict([i \in DOMAIN ruleList |->
                          allows(ruleList[i], namespace, identity)])

(* An error is logged and counts as a refusal.                             *)
admitEvent(ruleList, namespace, identity) ==
    identity # NoIdentity /\ allow(ruleList, namespace, identity) = "yes"
=============================================================================
