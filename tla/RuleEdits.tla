----------------------------- MODULE RuleEdits -----------------------------
(***************************************************************************)
(* A rule list as an administrator extends it, one rule at a time, and the *)
(* verdict on one fixed request.  The reference definitions say without a  *)
(* loop what the comments of the code say of a single rule.                *)
(***************************************************************************)
EXTENDS Rules

CONSTANTS
    Patterns,       \* what a rule may have for a pattern
    RuleSet,        \* the rules the administrator knows
    Namespaces,
    Identities,
    MaxRules        \* bound on the length of the list

ASSUME RuleSetAssumption ==
    \A rule \in RuleSet : /\ rule.namespacePatterns \in Seq(Patterns)
                          /\ rule.identityPatterns \in Seq(Patterns)
ASSUME IdentityAssumption == NoIdentity \notin Identities

VARIABLES ruleList, namespace, identity
vars == <<ruleList, namespace, identity>>

(* The first pattern that does not just fail to match has this verdict.    *)
Finds(patterns, text, verdict) ==
    \E i \in DOMAIN patterns :
        /\ Match(patterns[i], text) = verdict
        /\ \A j \in 1 .. i - 1 : Match(patterns[j], text) = "no"

(* The name of an ARN counts only when it is a role's.                     *)
LooksAtName(id) == Provider = "gcp" \/ id.isRole

Malformed(rule, ns, id) ==
    \/ Finds(rule.namespacePatterns, ns, "error")
    \/ LooksAtName(id) /\ Finds(rule.identityPatterns, id.name, "error")

Grants(rule, ns, id) ==
    /\ ~Malformed(rule, ns, id)
    /\ Finds(rule.namespacePatterns, ns, "yes")
    /\ LooksAtName(id) /\ Finds(rule.identityPatterns, id.name, "yes")
    /\ Provider = "aws" => rule.accountIDs = {} \/ id.account \in rule.accountIDs

Permitted(list, ns, id) ==
    /\ id.wellFormed
    /\ \/ list = << >>
       \/ \E i \in DOMAIN list :
             /\ Grants(list[i], ns, id)
             /\ \A j \in 1 .. i - 1 : ~Malformed(list[j], ns, id)

Init ==
    /\ ruleList = << >>
    /\ namespace \in Namespaces
    /\ identity \in Identities

AppendRule(rule) ==
    /\ Len(ruleList) < MaxRules
    /\ ruleList' = Append(ruleList, rule)
    /\ UNCHANGED <<namespace, identity>>

Next == \E rule \in RuleSet : AppendRule(rule)
Spec == Init /\ [][Next]_vars

(* A request is admitted exactly when its identity parses and either there *)
(* are no rules, or some rule grants it and no rule before that one is     *)
(* malformed (allow, aws.go:147-168 and gcp.go:145-166).                   *)
AdmitsExactlyThePermitted ==
    admitEvent(ruleList, namespace, identity)
        <=> Permitted(ruleList, namespace, identity)

(* A rule added after the others never takes an admitted request away,     *)
(* even when it is malformed.  Only the first rule of all may: an empty    *)
(* list admits everything (aws.go:167, gcp.go:165).                        *)
LaterRuleNeverRevokes ==
    [][ ruleList # << >> /\ admitEvent(ruleList, namespace, identity)
            => admitEvent(ruleList', namespace', identity') ]_vars
=============================================================================
