----------------------------- MODULE RuleProofs -----------------------------
(***************************************************************************)
(* The evaluation of the rules against its reference, for any patterns,    *)
(* any matching and rule lists of any length.                              *)
(***************************************************************************)
EXTENDS RuleEdits, SequenceTheorems, WellFoundedInduction, TLAPS

(* The least element of a set of indices.                                  *)
LEMMA LeastIndex ==
    ASSUME NEW n \in Nat, NEW S, S \subseteq 1 .. n, S # {}
    PROVE  /\ Min(S) \in S
           /\ \A i \in S : Min(S) <= i
<1> DEFINE less == {ss \in Nat \X Nat : ss[1] < ss[2]}
<1>1. IsWellFoundedOn(less, Nat)
  BY NatLessThanWellFounded DEF OpToRel
<1>2. S \subseteq Nat
  OBVIOUS
<1> HIDE DEF less
<1>3. PICK i \in S : \A j \in S : <<j, i>> \notin less
  BY <1>1, <1>2, WFMin
<1>4. \A j \in S : i <= j
  <2> TAKE j \in S
  <2>1. <<j, i>> \in less <=> j < i
    BY <1>2, Zenon DEF less
  <2> QED BY <1>2, <1>3, <2>1
<1> QED BY <1>4 DEF Min

(* FirstVerdict returns the first verdict that is not "no".                *)
LEMMA FirstVerdictIs ==
    ASSUME NEW n \in Nat, NEW v, DOMAIN v = 1 .. n
    PROVE  \/ /\ \A i \in 1 .. n : v[i] = "no"
              /\ FirstVerdict(v) = "no"
           \/ \E i \in 1 .. n : /\ v[i] # "no"
                                /\ FirstVerdict(v) = v[i]
                                /\ \A j \in 1 .. i - 1 : v[j] = "no"
<1> DEFINE decisive == {i \in DOMAIN v : v[i] # "no"}
<1>1. CASE decisive = {}
  BY <1>1 DEF FirstVerdict
<1>2. CASE decisive # {}
  <2>1. /\ Min(decisive) \in decisive
        /\ \A i \in decisive : Min(decisive) <= i
    BY <1>2, LeastIndex
  <2>2. FirstVerdict(v) = v[Min(decisive)]
    BY <1>2 DEF FirstVerdict
  <2>3. \A j \in 1 .. Min(decisive) - 1 : v[j] = "no"
    <3> DEFINE m == Min(decisive)
    <3>1. m \in 1 .. n /\ \A j \in decisive : m <= j
      BY <2>1
    <3> HIDE DEF m
    <3>2. \A j \in 1 .. m - 1 : v[j] = "no"
      BY <3>1
    <3> QED BY <3>2 DEF m
  <2> QED BY <2>1, <2>2, <2>3
<1> QED BY <1>1, <1>2

(* A list of patterns has the verdict of the first of them that does not   *)
(* just fail to match (aws.go:203-215, operator.go:344-356).               *)
LEMMA MatchesAnyFinds ==
    ASSUME NEW patterns \in Seq(Patterns), NEW text, NEW verdict \in {"yes", "error"}
    PROVE  MatchesAny(patterns, text) = verdict <=> Finds(patterns, text, verdict)
<1> DEFINE v == [i \in DOMAIN patterns |-> Match(patterns[i], text)]
           n == Len(patterns)
<1>1. n \in Nat /\ DOMAIN patterns = 1 .. n /\ DOMAIN v = 1 .. n
  BY LenProperties
<1>2. \A i \in 1 .. n : v[i] = Match(patterns[i], text)
  BY <1>1
<1>3. MatchesAny(patterns, text) = FirstVerdict(v)
  BY DEF MatchesAny
<1> HIDE DEF v
<1>4. Finds(patterns, text, verdict) <=>
          \E i \in 1 .. n : v[i] = verdict /\ \A j \in 1 .. i - 1 : v[j] = "no"
  BY <1>1, <1>2 DEF Finds
<1>5. \/ /\ \A i \in 1 .. n : v[i] = "no"
         /\ FirstVerdict(v) = "no"
      \/ \E i \in 1 .. n : /\ v[i] # "no"
                           /\ FirstVerdict(v) = v[i]
                           /\ \A j \in 1 .. i - 1 : v[j] = "no"
  BY <1>1, FirstVerdictIs
<1>6. ASSUME NEW i \in 1 .. n, v[i] # "no", \A j \in 1 .. i - 1 : v[j] = "no",
             NEW k \in 1 .. n, v[k] # "no", \A j \in 1 .. k - 1 : v[j] = "no"
      PROVE  i = k
  <2>1. ~(i < k) /\ ~(k < i)
    BY <1>1, <1>6
  <2> QED BY <2>1, <1>1
<1> QED BY <1>1, <1>3, <1>4, <1>5, <1>6

(* A single rule: its verdict is an error when a pattern it reaches is     *)
(* malformed, and otherwise says whether it grants the request.            *)
LEMMA RuleVerdict ==
    ASSUME NEW rule \in RuleSet, NEW ns, NEW id
    PROVE  /\ allows(rule, ns, id) \in Verdicts
           /\ allows(rule, ns, id) = "error" <=> Malformed(rule, ns, id)
           /\ allows(rule, ns, id) = "yes" <=> Grants(rule, ns, id)
<1>1. \A verdict \in {"yes", "error"} :
          /\ MatchesAny(rule.namespacePatterns, ns) = verdict
                 <=> Finds(rule.namespacePatterns, ns, verdict)
          /\ MatchesAny(rule.identityPatterns, id.name) = verdict
                 <=> Finds(rule.identityPatterns, id.name, verdict)
  BY MatchesAnyFinds, RuleSetAssumption
<1>2. CASE Provider = "aws"
  BY <1>1, <1>2 DEF allows, AWSAllows, Both, matchesAccountID, Malformed, Grants,
     LooksAtName, Verdicts
<1>3. CASE Provider = "gcp"
  BY <1>1, <1>3 DEF allows, GCPAllows, Both, Malformed, Grants, LooksAtName, Verdicts
<1> QED BY <1>2, <1>3, ProviderAssumption

(* The evaluation of a list agrees with the reference.                     *)
THEOREM AllowIsPermitted ==
    ASSUME NEW list \in Seq(RuleSet), NEW ns, NEW id, id # NoIdentity
    PROVE  admitEvent(list, ns, id) <=> Permitted(list, ns, id)
<1> DEFINE v == [i \in DOMAIN list |-> allows(list[i], ns, id)]
           n == Len(list)
<1>1. n \in Nat /\ DOMAIN list = 1 .. n /\ DOMAIN v = 1 .. n
  BY LenProperties
<1>2. \A i \in 1 .. n : /\ v[i] \in Verdicts
                        /\ v[i] = "error" <=> Malformed(list[i], ns, id)
                        /\ v[i] = "yes" <=> Grants(list[i], ns, id)
  BY <1>1, RuleVerdict, ElementOfSeq
<1>3. list # << >> /\ id.wellFormed => allow(list, ns, id) = FirstVerdict(v)
  BY DEF allow
<1> HIDE DEF v
<1>4. \/ /\ \A i \in 1 .. n : v[i] = "no"
         /\ FirstVerdict(v) = "no"
      \/ \E i \in 1 .. n : /\ v[i] # "no"
                           /\ FirstVerdict(v) = v[i]
                           /\ \A j \in 1 .. i - 1 : v[j] = "no"
  BY <1>1, FirstVerdictIs
<1>5. FirstVerdict(v) = "yes" <=>
          \E i \in 1 .. n : v[i] = "yes" /\ \A j \in 1 .. i - 1 : v[j] # "error"
  BY <1>1, <1>2, <1>4 DEF Verdicts
<1>6. FirstVerdict(v) = "yes" <=>
          \E i \in DOMAIN list : /\ Grants(list[i], ns, id)
                                 /\ \A j \in 1 .. i - 1 : ~Malformed(list[j], ns, id)
  BY <1>1, <1>2, <1>5
<1>7. CASE ~id.wellFormed
  BY <1>7 DEF admitEvent, allow, Permitted
<1>8. CASE id.wellFormed /\ list = << >>
  BY <1>8 DEF admitEvent, allow, Permitted
<1>9. CASE id.wellFormed /\ list # << >>
  BY <1>3, <1>6, <1>9 DEF admitEvent, Permitted
<1> QED BY <1>7, <1>8, <1>9
-----------------------------------------------------------------------------
(* The empty list is a list of rules.                                      *)
LEMMA ListTypeInit == Init => ruleList \in Seq(RuleSet) /\ identity \in Identities
BY EmptySeq DEF Init

(* Appending a rule gives a list of rules.                                 *)
LEMMA ListTypeStep ==
    ruleList \in Seq(RuleSet) /\ identity \in Identities /\ [Next]_vars
        => (ruleList \in Seq(RuleSet) /\ identity \in Identities)'
BY AppendProperties DEF Next, AppendRule, vars

(* The list of the administrator only ever holds known rules.              *)
LEMMA ListType == Spec => [](ruleList \in Seq(RuleSet) /\ identity \in Identities)
BY ListTypeInit, ListTypeStep, PTL DEF Spec

(* A request is admitted exactly when the reference permits it.            *)
THEOREM AdmitsExactly == Spec => []AdmitsExactlyThePermitted
<1>1. ruleList \in Seq(RuleSet) /\ identity \in Identities => AdmitsExactlyThePermitted
  BY AllowIsPermitted, IdentityAssumption DEF AdmitsExactlyThePermitted
<1> QED BY <1>1, ListType, PTL

(* Appending a rule, malformed or not, to a list that has rules takes      *)
(* nothing away from a request that was admitted.                          *)
THEOREM LaterRuleNeverRevokesCorrect == Spec => LaterRuleNeverRevokes
<1> DEFINE Typed == ruleList \in Seq(RuleSet) /\ identity \in Identities
           Keeps == ruleList # << >> /\ admitEvent(ruleList, namespace, identity)
                        => admitEvent(ruleList', namespace', identity')
<1>1. Typed /\ Typed' /\ Next => Keeps
  <2> SUFFICES ASSUME Typed, Typed', Next,
                      ruleList # << >>, admitEvent(ruleList, namespace, identity)
               PROVE  admitEvent(ruleList', namespace', identity')
    OBVIOUS
  <2>1. PICK rule \in RuleSet : AppendRule(rule)
    BY DEF Next
  <2>2. /\ ruleList' = Append(ruleList, rule)
        /\ namespace' = namespace /\ identity' = identity
    BY <2>1 DEF AppendRule
  <2>3. Permitted(ruleList, namespace, identity)
    BY AllowIsPermitted, IdentityAssumption
  <2>4. PICK i \in DOMAIN ruleList :
            /\ Grants(ruleList[i], namespace, identity)
            /\ \A j \in 1 .. i - 1 : ~Malformed(ruleList[j], namespace, identity)
    BY <2>3 DEF Permitted
  <2>5. /\ i \in 1 .. Len(ruleList) /\ Len(ruleList) \in Nat
        /\ i \in DOMAIN ruleList'
        /\ \A j \in 1 .. i : ruleList'[j] = ruleList[j]
    BY <2>2, LenProperties, AppendProperties
  <2>6. Permitted(ruleList', namespace, identity)
    BY <2>3, <2>4, <2>5 DEF Permitted
  <2> QED BY <2>2, <2>6, AllowIsPermitted, IdentityAssumption
<1> HIDE DEF Typed, Keeps
<1>2. Typed /\ Typed' /\ [Next]_vars => [Keeps]_vars
  BY <1>1
<1>3. Spec => []Typed
  BY ListType DEF Typed
<1>4. LaterRuleNeverRevokes <=> [][Keeps]_vars
  BY DEF LaterRuleNeverRevokes, Keeps
<1> QED BY <1>2, <1>3, <1>4, PTL DEF Spec
=============================================================================
