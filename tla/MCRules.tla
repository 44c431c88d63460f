------------------------------ MODULE MCRules ------------------------------
(***************************************************************************)
(* Small instances of RuleEdits.                                           *)
(***************************************************************************)
EXTENDS RuleEdits

MCNamespaces == {"system", "shop"}
MCIdentities ==
    {[wellFormed |-> TRUE, account |-> "acct", isRole |-> TRUE, name |-> "admin"],
     [wellFormed |-> TRUE, account |-> "other", isRole |-> TRUE, name |-> "admin"],
     [wellFormed |-> TRUE, account |-> "acct", isRole |-> FALSE, name |-> "admin"],
     [wellFormed |-> FALSE, account |-> "acct", isRole |-> TRUE, name |-> "admin"]}

(* A pattern is a text that matches itself, "*" or the malformed "[".      *)
MCPatterns == {"system", "shop", "admin", "nobody", "*", "["}
MCMatch(pattern, text) ==
    IF pattern = "[" THEN "error"
    ELSE IF pattern \in {"*", text} THEN "yes" ELSE "no"

(* Patterns in front of and behind a malformed one, and behind one that    *)
(* does not match.                                                         *)
MCRuleSet ==
    [namespacePatterns : {<<"system">>, <<"shop", "[">>, <<"[", "system">>, <<"nobody", "*">>},
     identityPatterns  : {<<"admin">>, <<"[", "admin">>, <<"nobody">>, << >>},
     accountIDs        : {{}, {"acct"}}]
=============================================================================
