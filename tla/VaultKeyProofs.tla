--------------------------- MODULE VaultKeyProofs ---------------------------
(***************************************************************************)
(* Keys are understood by those they are for and by nobody else, for all   *)
(* prefixes, accounts and foreign keys: proofs about the modules VaultKeys *)
(* and SharedVault.                                                        *)
(***************************************************************************)
EXTENDS SharedVault, SequenceTheorems, TLAPS

(* A prefix is one part.                                                   *)
LEMMA PrefixIsOnePart ==
    ASSUME NEW op \in Operators, Accepted(op)
    PROVE  op.prefix = <<op.prefix[1]>>
<1>1. op.prefix \in Seq(STRING)
  BY SharedAssumption
<1>2. Len(op.prefix) = 1
  BY DEF Accepted
<1> QED BY <1>1, <1>2

(* Arithmetic on a numeral.                                                *)
LEMMA TwoFromFour == 4 - 2 = 2
OBVIOUS

(* A part before three others.                                             *)
LEMMA OneAndThree ==
    ASSUME NEW p, NEW a, NEW b, NEW c
    PROVE  <<p>> \o <<a, b, c>> = <<p, a, b, c>>
<1>1. PICK P : P = {p, a, b, c}
  OBVIOUS
<1> DEFINE one == <<p>>
           three == <<a, b, c>>
           all == <<p, a, b, c>>
<1>2. /\ one \in Seq(P) /\ Len(one) = 1 /\ one[1] = p
      /\ three \in Seq(P) /\ Len(three) = 3
      /\ three[1] = a /\ three[2] = b /\ three[3] = c
      /\ all \in Seq(P) /\ Len(all) = 4
      /\ all[1] = p /\ all[2] = a /\ all[3] = b /\ all[4] = c
  BY <1>1
<1> HIDE DEF one, three, all
<1>3. /\ one \o three \in Seq(P)
      /\ Len(one \o three) = Len(one) + Len(three)
      /\ \A i \in 1 .. Len(one) + Len(three) :
            (one \o three)[i] = IF i <= Len(one) THEN one[i] ELSE three[i - Len(one)]
  BY <1>2, ConcatProperties
<1>4. Len(one \o three) = 4 /\ \A i \in 1 .. 4 : (one \o three)[i] = all[i]
  BY <1>2, <1>3
<1>5. one \o three = all
  BY <1>2, <1>3, <1>4, SeqEqual
<1> QED BY <1>5 DEF one, three, all

(* What a name consists of when the prefix is accepted.                    *)
LEMMA NameParts ==
    ASSUME NEW op \in Operators, Accepted(op), NEW sa
    PROVE  name(op, sa) = <<op.prefix[1], op.provider, sa[1], sa[2]>>
<1>1. op.prefix = <<op.prefix[1]>>
  BY PrefixIsOnePart
<1>2. <<op.prefix[1]>> \o <<op.provider, sa[1], sa[2]>>
         = <<op.prefix[1], op.provider, sa[1], sa[2]>>
  BY OneAndThree
<1>3. op.prefix \o <<op.provider, sa[1], sa[2]>>
         = <<op.prefix[1], op.provider, sa[1], sa[2]>>
  BY <1>1, <1>2
<1> QED BY <1>3 DEF name

(* A name is longer than the prefix by three parts.                        *)
LEMMA NameLength ==
    ASSUME NEW op \in Operators, NEW sa
    PROVE  Len(op.prefix) \in Nat /\ Len(name(op, sa)) = Len(op.prefix) + 3
<1>1. op.prefix \in Seq(STRING)
  BY SharedAssumption
<1>2. PICK P : op.prefix \in Seq(P) /\ <<op.provider, sa[1], sa[2]>> \in Seq(P)
  <2> DEFINE P == {op.provider, sa[1], sa[2]} \cup STRING
  <2>1. op.prefix \in Seq(P) /\ <<op.provider, sa[1], sa[2]>> \in Seq(P)
    BY <1>1
  <2> QED BY <2>1
<1>3. Len(op.prefix \o <<op.provider, sa[1], sa[2]>>)
         = Len(op.prefix) + Len(<<op.provider, sa[1], sa[2]>>)
  BY <1>2, ConcatProperties
<1> QED BY <1>1, <1>3 DEF name

(* parseKey undoes name.                                                   *)
LEMMA NameParses ==
    ASSUME NEW op \in Operators, Accepted(op), NEW sa, sa = <<sa[1], sa[2]>>
    PROVE  parseKey(op, name(op, sa)) = sa
<1>1. sa = <<sa[1], sa[2]>>
  OBVIOUS
<1>2. op.prefix = <<op.prefix[1]>>
  BY PrefixIsOnePart
<1> DEFINE key == <<op.prefix[1], op.provider, sa[1], sa[2]>>
<1>3. parseKey(op, key) = <<sa[1], sa[2]>>
  BY <1>2 DEF parseKey
<1> QED BY <1>1, <1>3, NameParts

(* Two operators give the same name only if they are the same.             *)
LEMMA NamesDistinct ==
    ASSUME NEW op1 \in Operators, NEW op2 \in Operators, Accepted(op1),
           NEW sa1, sa1 = <<sa1[1], sa1[2]>>, NEW sa2, sa2 = <<sa2[1], sa2[2]>>,
           name(op1, sa1) = name(op2, sa2)
    PROVE  op1 = op2 /\ sa1 = sa2
<1>1. Accepted(op2)
  <2>1. \A m, n \in Nat : m + 3 = n + 3 => m = n
    OBVIOUS
  <2>2. Len(op1.prefix) \in Nat /\ Len(op2.prefix) \in Nat
    BY NameLength
  <2>3. Len(op1.prefix) + 3 = Len(op2.prefix) + 3
    BY NameLength
  <2>4. Len(op1.prefix) = Len(op2.prefix)
    BY <2>1, <2>2, <2>3
  <2> QED BY <2>4 DEF Accepted
<1>2. <<op1.prefix[1], op1.provider, sa1[1], sa1[2]>>
         = <<op2.prefix[1], op2.provider, sa2[1], sa2[2]>>
  BY <1>1, NameParts
<1>3. /\ op1.prefix[1] = op2.prefix[1] /\ op1.provider = op2.provider
      /\ sa1[1] = sa2[1] /\ sa1[2] = sa2[2]
  BY <1>2
<1>4. /\ op1.prefix = <<op1.prefix[1]>> /\ op2.prefix = <<op2.prefix[1]>>
  BY <1>1, PrefixIsOnePart
<1>5. op1.prefix = op2.prefix
  BY <1>3, <1>4
<1>6. op1 = op2
  BY <1>3, <1>5, SharedAssumption
<1>7. sa1 = sa2
  BY <1>3
<1> QED BY <1>6, <1>7

(* What a sidecar makes of a name with a prefix that is accepted.          *)
LEMMA NameIsUnderstood ==
    ASSUME NEW op \in Operators, Accepted(op), NEW sa
    PROVE  LaunchFor(op, sa) = IF op.prefix[1] \in Unreadable THEN Gone("panic")
                               ELSE [login |-> name(op, sa), secret |-> name(op, sa)]
<1> DEFINE key == name(op, sa)
           parts == <<op.prefix[1], op.provider, sa[1], sa[2]>>
<1>1. key = parts
  BY NameParts
<1>2. FindProvider(key) = IF op.prefix[1] \in Unreadable THEN None ELSE op.provider
  <2>1. Len(parts) = 4 /\ parts[1] = op.prefix[1] /\ parts[2] = op.provider
    BY DEF parts
  <2> HIDE DEF parts
  <2>2. Len(parts) - 3 = 1 /\ Len(parts) - 2 = 2
    BY <2>1
  <2>3. Matches(parts) <=> op.prefix[1] \notin Unreadable
    BY <2>1, <2>2, ~(1 > 1), 1 > 0 DEF Matches
  <2>4. FindProvider(parts) = IF op.prefix[1] \in Unreadable THEN None ELSE op.provider
    BY <2>1, <2>2, <2>3 DEF FindProvider
  <2> QED BY <1>1, <2>4
<1>3. key # NoFlag
  <2>1. parts # <<"">>
    OBVIOUS
  <2> QED BY <1>1, <2>1 DEF NoFlag
<1> HIDE DEF key, parts
<1>4. op.provider \in {"aws", "gcp"} /\ None \notin {"aws", "gcp"}
  BY SharedAssumption
<1>5. CASE op.provider = "aws"
  <2>1. LaunchFor(op, sa) = LaunchAs(FindProvider(key), key, NoFlag)
    BY <1>3, <1>5 DEF LaunchFor, Launch, key
  <2>2. LaunchAs("aws", key, NoFlag) = [login |-> key, secret |-> key]
    BY <1>4 DEF LaunchAs
  <2>3. LaunchAs(None, key, NoFlag) = Gone("panic")
    BY <1>4 DEF LaunchAs
  <2> QED BY <1>2, <1>5, <2>1, <2>2, <2>3 DEF key
<1>6. CASE op.provider = "gcp"
  <2>1. LaunchFor(op, sa) = LaunchAs(FindProvider(key), NoFlag, key)
    BY <1>3, <1>4, <1>6 DEF LaunchFor, Launch, key
  <2>2. LaunchAs("gcp", NoFlag, key) = [login |-> key, secret |-> key]
    BY <1>4 DEF LaunchAs
  <2>3. LaunchAs(None, NoFlag, key) = Gone("panic")
    BY <1>4 DEF LaunchAs
  <2> QED BY <1>2, <1>6, <2>1, <2>2, <2>3 DEF key
<1> QED BY <1>4, <1>5, <1>6
-----------------------------------------------------------------------------
(* Accounts are pairs, those that are removed too.                         *)
LEMMA RemovingPairs ==
    ASSUME KType, NEW op \in Operators, NEW sa \in Removing(op)
    PROVE  Pair(sa)
BY SharedAssumption DEF KType, Removing, Pair

(* A worker that is busy with an account is busy.                          *)
LEMMA NoneIsNoTask ==
    \A sa \in ServiceAccounts :
        /\ [account |-> sa, todo |-> "write"] # None
        /\ [account |-> sa, todo |-> "remove"] # None
<1>1. \A sa \in ServiceAccounts :
         /\ [account |-> sa, todo |-> "write"] \in [account : ServiceAccounts, todo : {"write", "remove"}]
         /\ [account |-> sa, todo |-> "remove"] \in [account : ServiceAccounts, todo : {"write", "remove"}]
  OBVIOUS
<1> QED BY <1>1, SharedAssumption

(* The invariant holds at the start.                                       *)
LEMMA InvInit == Init => KInv
<1> SUFFICES ASSUME Init PROVE KInv
  OBVIOUS
<1>1. KType /\ OrphanInv
  BY DEF Init, KType, OrphanInv, Remaining
<1>2. WorkerInv
  BY NoneIsNoTask DEF Init, WorkerInv
<1> QED BY <1>1, <1>2 DEF KInv

(* What kind of things the variables are, and that those of an operator    *)
(* that is down are empty.                                                 *)
LEMMA TypeStep == KType /\ [Next]_vars => KType'
<1> SUFFICES ASSUME KType, [Next]_vars PROVE KType'
  OBVIOUS
<1> USE DEF KType
<1>1. ASSUME NEW op \in Operators, Start(op) PROVE KType'
  BY <1>1 DEF Start, Remaining
<1>2. ASSUME NEW op \in Operators, Stop(op) PROVE KType'
  BY <1>2 DEF Stop, Remaining
<1>3. ASSUME NEW op \in Operators, NEW sa \in ServiceAccounts, Change(op, sa) PROVE KType'
  <2>1. /\ wanted' \in [Operators -> SUBSET ServiceAccounts]
        /\ dirty' \in [Operators -> SUBSET ServiceAccounts]
    BY <1>3 DEF Change
  <2> QED BY <1>3, <2>1 DEF Change, Remaining
<1>4. ASSUME NEW op \in Operators, NEW sa \in ServiceAccounts, Reconcile(op, sa) PROVE KType'
  <2>1. /\ dirty' \in [Operators -> SUBSET ServiceAccounts]
        /\ [account |-> sa, todo |-> IF sa \in wanted[op] THEN "write" ELSE "remove"]
              \in [account : ServiceAccounts, todo : {"write", "remove"}]
    BY <1>4 DEF Reconcile
  <2>2. \A o \in Operators : worker'[o] # None =>
           worker'[o] \in [account : ServiceAccounts, todo : {"write", "remove"}]
    BY <1>4, <2>1 DEF Reconcile
  <2> QED BY <1>4, <2>1, <2>2 DEF Reconcile, Remaining
<1>5. ASSUME NEW op \in Operators, Apply(op) PROVE KType'
  BY <1>5 DEF Apply, Remaining
<1>6. ASSUME NEW op \in Operators, List(op) PROVE KType'
  <2> DEFINE found == {parseKey(op, key) : key \in stored} \ {None}
  <2>1. \A sa \in found : sa # None /\ Pair(sa)
    BY DEF parseKey, Pair
  <2>2. /\ DOMAIN listed' = Operators
        /\ listed'[op] = found
        /\ \A o \in Operators \ {op} : listed'[o] = listed[o]
    BY <1>6 DEF List
  <2> HIDE DEF found
  <2>3. \A o \in Operators : \A sa \in Remaining(o)' : sa # None /\ Pair(sa)
    BY <2>1, <2>2 DEF Remaining
  <2> QED BY <1>6, <2>2, <2>3 DEF List
<1>7. ASSUME NEW op \in Operators, NEW sa \in Remaining(op), Collect(op, sa) PROVE KType'
  <2>1. \A o \in Operators : Remaining(o)' \subseteq Remaining(o)
    BY <1>7 DEF Collect, Remaining
  <2>2. op \in up
    BY <1>7 DEF Remaining
  <2>3. Pair(sa)
    OBVIOUS
  <2>4. \A o \in Operators : collecting'[o] # None => Pair(collecting'[o])
    BY <1>7, <2>3 DEF Collect
  <2>5. \A o \in Operators : o \notin up => listed'[o] = None /\ collecting'[o] = None
    BY <1>7, <2>2 DEF Collect
  <2> QED BY <1>7, <2>1, <2>4, <2>5 DEF Collect
<1>8. ASSUME NEW op \in Operators, Remove(op) PROVE KType'
  BY <1>8 DEF Remove, Remaining
<1>9. CASE UNCHANGED vars
  BY <1>9 DEF vars, Remaining
<1> QED BY <1>1, <1>2, <1>3, <1>4, <1>5, <1>6, <1>7, <1>8, <1>9 DEF Next

(* An account that changes while the worker is busy with it has an event.  *)
LEMMA WorkerStep == KType /\ WorkerInv /\ [Next]_vars => WorkerInv'
<1> SUFFICES ASSUME KType, WorkerInv, [Next]_vars,
                    NEW o \in Operators, NEW s \in ServiceAccounts
             PROVE  /\ worker'[o] = [account |-> s, todo |-> "write"]
                          => s \in dirty'[o] \/ s \in wanted'[o]
                    /\ worker'[o] = [account |-> s, todo |-> "remove"]
                          => s \in dirty'[o] \/ s \notin wanted'[o]
  BY DEF WorkerInv
<1> DEFINE adds == [account |-> s, todo |-> "write"]
           removes == [account |-> s, todo |-> "remove"]
           Goal == /\ worker'[o] = adds => s \in dirty'[o] \/ s \in wanted'[o]
                   /\ worker'[o] = removes => s \in dirty'[o] \/ s \notin wanted'[o]
<1> USE DEF KType
<1>1. /\ worker[o] = adds => s \in dirty[o] \/ s \in wanted[o]
      /\ worker[o] = removes => s \in dirty[o] \/ s \notin wanted[o]
      /\ adds # None /\ removes # None
  BY NoneIsNoTask DEF WorkerInv
<1>2. ASSUME NEW op \in Operators, NEW sa \in ServiceAccounts, Reconcile(op, sa) PROVE Goal
  <2>1. CASE o = op
    <3>1. /\ worker'[o] = [account |-> sa, todo |-> IF sa \in wanted[o] THEN "write" ELSE "remove"]
          /\ wanted' = wanted
      BY <1>2, <2>1 DEF Reconcile
    <3>2. worker'[o].account = sa /\ worker'[o].todo = IF sa \in wanted[o] THEN "write" ELSE "remove"
      BY <3>1
    <3>3. worker'[o] = adds => s = sa /\ s \in wanted[o]
      BY <3>2
    <3>4. worker'[o] = removes => s = sa /\ s \notin wanted[o]
      BY <3>2
    <3> QED BY <3>1, <3>3, <3>4
  <2>2. CASE o # op
    BY <1>1, <1>2, <2>2 DEF Reconcile
  <2> QED BY <2>1, <2>2
<1> HIDE DEF adds, removes
<1>3. ASSUME NEW op \in Operators, Start(op) PROVE Goal
  <2>1. worker' = worker /\ wanted' = wanted /\ worker[op] = None
    BY <1>3 DEF Start
  <2>2. o # op => dirty'[o] = dirty[o]
    BY <1>3 DEF Start
  <2> QED BY <1>1, <2>1, <2>2
<1>4. ASSUME NEW op \in Operators, Stop(op) PROVE Goal
  BY <1>1, <1>4 DEF Stop
<1>5. ASSUME NEW op \in Operators, NEW sa \in ServiceAccounts, Change(op, sa) PROVE Goal
  <2>1. /\ worker' = worker
        /\ o \in up /\ o = op => sa \in dirty'[o]
        /\ dirty[o] \subseteq dirty'[o]
    BY <1>5 DEF Change
  <2>2. ~(o = op /\ s = sa) => ((s \in wanted'[o]) <=> (s \in wanted[o]))
    BY <1>5 DEF Change
  <2>3. worker'[o] = adds \/ worker'[o] = removes => o \in up
    BY <1>1, <2>1
  <2> QED BY <1>1, <2>1, <2>2, <2>3
<1>6. ASSUME NEW op \in Operators, Apply(op) \/ List(op) \/ Remove(op) PROVE Goal
  BY <1>1, <1>6 DEF Apply, List, Remove
<1>7. ASSUME NEW op \in Operators, NEW sa \in Remaining(op), Collect(op, sa) PROVE Goal
  BY <1>1, <1>7 DEF Collect
<1>8. ASSUME UNCHANGED vars PROVE Goal
  BY <1>1, <1>8 DEF vars
<1> HIDE DEF Goal
<1>9. Goal
  BY <1>2, <1>3, <1>4, <1>5, <1>6, <1>7, <1>8 DEF Next
<1> QED BY <1>9 DEF Goal, adds, removes

(* What an operator deletes of its own account is not another's, so that   *)
(* no name but that account's leaves Vault.                                *)
LEMMA OnlyItsName ==
    ASSUME NEW op \in Operators, NEW o \in Operators, Accepted(op),
           NEW sa, Pair(sa), NEW s \in ServiceAccounts, name(op, sa) = name(o, s)
    PROVE  op = o /\ sa = s
<1>1. sa = <<sa[1], sa[2]>> /\ s = <<s[1], s[2]>>
  BY SharedAssumption DEF Pair
<1> QED BY <1>1, NamesDistinct

(* An operator deletes nothing but the names of what it is removing.       *)
LEMMA Deletes ==
    ASSUME KType, NEW op \in Operators, Apply(op) \/ Remove(op)
    PROVE  /\ op \in up
           /\ \A key \in stored \ stored' : \E sa \in Removing(op) : key = name(op, sa)
<1> USE DEF KType
<1>1. op \in up
  BY DEF Apply, Remove
<1>2. ASSUME NEW key \in stored \ stored', Apply(op)
      PROVE  \E sa \in Removing(op) : key = name(op, sa)
  <2> DEFINE sa == worker[op].account
  <2>1. key = name(op, sa) /\ worker[op].todo = "remove"
    BY <1>2 DEF Apply
  <2>2. worker[op] \in [account : ServiceAccounts, todo : {"write", "remove"}]
    BY <1>2 DEF Apply
  <2>3. sa \in Removing(op)
    BY <2>1, <2>2 DEF Removing
  <2> QED BY <2>1, <2>3
<1>3. ASSUME NEW key \in stored \ stored', Remove(op)
      PROVE  \E sa \in Removing(op) : key = name(op, sa)
  <2>1. key = name(op, collecting[op]) /\ collecting[op] \in Removing(op)
    BY <1>3 DEF Remove, Removing
  <2> QED BY <2>1
<1> QED BY <1>1, <1>2, <1>3

(* A step of one operator leaves what the others see of their keys alone.  *)
LEMMA OrphanStep == KInv /\ [Next]_vars => OrphanInv'
<1> SUFFICES ASSUME KInv, [Next]_vars, NEW o \in up', NEW s \in ServiceAccounts
             PROVE  name(o, s) \in stored' =>
                        \/ s \in wanted'[o] \cup dirty'[o] \cup Removing(o)'
                        \/ listed'[o] = None \/ s \in listed'[o]
  BY DEF OrphanInv
<1> DEFINE Goal ==
        name(o, s) \in stored' =>
            \/ s \in wanted'[o] \cup dirty'[o] \cup Removing(o)'
            \/ listed'[o] = None \/ s \in listed'[o]
<1> USE DEF KInv, KType
<1>1. \A op \in up : Accepted(op)
  OBVIOUS
<1>2. o \in up /\ name(o, s) \in stored =>
         \/ s \in wanted[o] \cup dirty[o] \cup Removing(o)
         \/ listed[o] = None \/ s \in listed[o]
  BY DEF OrphanInv
<1>3. ASSUME NEW op \in Operators, Start(op) PROVE Goal
  <2>1. CASE o = op
    BY <1>3, <2>1 DEF Start
  <2>2. CASE o # op
    <3>1. o \in up /\ Accepted(o)
      BY <1>1, <1>3, <2>2 DEF Start
    <3>2. UNCHANGED <<stored, wanted, listed, worker, collecting>> /\ dirty'[o] = dirty[o]
      BY <1>3, <2>2 DEF Start
    <3> QED BY <1>2, <3>1, <3>2 DEF Removing
  <2> QED BY <2>1, <2>2
<1>4. ASSUME NEW op \in Operators, Stop(op) PROVE Goal
  <2>1. o \in up /\ o # op
    BY <1>4 DEF Stop
  <2>2. /\ UNCHANGED <<stored, wanted>> /\ dirty'[o] = dirty[o] /\ listed'[o] = listed[o]
        /\ worker'[o] = worker[o] /\ collecting'[o] = collecting[o]
    BY <1>4, <2>1 DEF Stop
  <2> QED BY <1>1, <1>2, <2>1, <2>2 DEF Removing
<1>5. ASSUME NEW op \in Operators, NEW sa \in ServiceAccounts, Change(op, sa) PROVE Goal
  <2>1. o \in up /\ UNCHANGED <<stored, listed, worker, collecting>>
    BY <1>5 DEF Change
  <2>2. s \in wanted[o] \cup dirty[o] => s \in wanted'[o] \cup dirty'[o]
    BY <1>5, <2>1 DEF Change
  <2> QED BY <1>1, <1>2, <2>1, <2>2 DEF Removing
<1>6. ASSUME NEW op \in Operators, NEW sa \in ServiceAccounts, Reconcile(op, sa) PROVE Goal
  <2>1. o \in up /\ UNCHANGED <<stored, wanted, listed, collecting>>
    BY <1>6 DEF Reconcile
  <2>2. CASE o = op /\ s = sa
    <3>1. worker'[o] = [account |-> s, todo |-> IF s \in wanted[o] THEN "write" ELSE "remove"]
      BY <1>6, <2>2 DEF Reconcile
    <3>2. s \notin wanted[o] => worker'[o] = [account |-> s, todo |-> "remove"]
      BY <3>1
    <3>3. s \in wanted[o] \/ s \in Removing(o)'
      BY <3>2 DEF Removing
    <3> QED BY <1>1, <2>1, <3>3
  <2>3. CASE o = op /\ s # sa
    <3>1. s \in Removing(o) => s \in Removing(o)'
      <4>1. worker[o] = None /\ collecting' = collecting
        BY <1>6, <2>3 DEF Reconcile
      <4>2. worker[o] # [account |-> s, todo |-> "remove"]
        BY <4>1, NoneIsNoTask
      <4> QED BY <4>1, <4>2 DEF Removing
    <3>2. s \in dirty[o] => s \in dirty'[o]
      BY <1>6, <2>3 DEF Reconcile
    <3> QED BY <1>1, <1>2, <2>1, <3>1, <3>2
  <2>4. CASE o # op
    <3>1. worker'[o] = worker[o] /\ dirty'[o] = dirty[o]
      BY <1>6, <2>4 DEF Reconcile
    <3> QED BY <1>1, <1>2, <2>1, <3>1 DEF Removing
  <2> QED BY <2>2, <2>3, <2>4
<1>7. ASSUME NEW op \in Operators, Apply(op) PROVE Goal
  <2> DEFINE sa == worker[op].account
  <2>1. /\ o \in up /\ UNCHANGED <<wanted, dirty, listed, collecting>>
        /\ worker[op] \in [account : ServiceAccounts, todo : {"write", "remove"}] /\ op \in up
    BY <1>7 DEF Apply
  <2>2. worker[op] = [account |-> sa, todo |-> worker[op].todo] /\ sa \in ServiceAccounts
    BY <2>1
  <2>3. CASE o = op /\ s = sa
    <3>1. CASE worker[op].todo = "write"
      <4>1. s \in dirty[o] \/ s \in wanted[o]
        BY <2>2, <2>3, <3>1 DEF WorkerInv
      <4> QED BY <1>1, <2>1, <4>1
    <3>2. CASE worker[op].todo = "remove"
      <4>1. name(o, s) \notin stored'
        BY <1>7, <2>3, <3>2 DEF Apply
      <4> QED BY <1>1, <2>1, <4>1
    <3> QED BY <2>1, <3>1, <3>2
  <2>4. CASE ~(o = op /\ s = sa)
    <3>1. name(o, s) # name(op, sa)
      <4>1. Accepted(op) /\ Pair(sa) /\ o \in Operators
        BY <1>1, <2>1, <2>2, SharedAssumption DEF Pair
      <4> QED BY <2>4, <4>1, OnlyItsName
    <3>2. name(o, s) \in stored' => name(o, s) \in stored
      BY <1>7, <3>1 DEF Apply
    <3>3. s \in Removing(o) => s \in Removing(o)'
      <4>1. CASE o = op
        BY <2>1, <2>2, <2>4, <4>1 DEF Removing
      <4>2. CASE o # op
        BY <1>7, <4>2 DEF Apply, Removing
      <4> QED BY <4>1, <4>2
    <3> QED BY <1>1, <1>2, <2>1, <3>2, <3>3
  <2> QED BY <2>3, <2>4
<1>8. ASSUME NEW op \in Operators, List(op) PROVE Goal
  <2>1. o \in up /\ UNCHANGED <<stored, wanted, dirty, worker, collecting>>
    BY <1>8 DEF List
  <2>2. CASE o = op
    <3>1. listed'[o] = {parseKey(o, key) : key \in stored} \ {None}
      BY <1>8, <2>2 DEF List
    <3>2. parseKey(o, name(o, s)) = s /\ s # None
      BY <1>1, <2>1, NameParses, SharedAssumption
    <3>3. name(o, s) \in stored => s \in listed'[o]
      BY <3>1, <3>2
    <3> QED BY <1>1, <2>1, <3>3
  <2>3. CASE o # op
    BY <1>1, <1>2, <1>8, <2>1, <2>3 DEF List, Removing
  <2> QED BY <2>2, <2>3
<1>9. ASSUME NEW op \in Operators, NEW sa \in Remaining(op), Collect(op, sa) PROVE Goal
  <2>1. o \in up /\ UNCHANGED <<stored, wanted, dirty, worker>>
    BY <1>9 DEF Collect
  <2>2. CASE o = op
    <3>1. /\ collecting[o] = None /\ listed[o] # None /\ sa # None
          /\ listed'[o] = listed[o] \ {sa}
          /\ collecting'[o] = IF sa \in wanted[o] THEN None ELSE sa
      BY <1>9, <2>2 DEF Collect, Remaining
    <3>2. s \in Removing(o) => s \in Removing(o)'
      BY <2>1, <3>1 DEF Removing
    <3>3. s = sa => s \in wanted[o] \/ s \in Removing(o)'
      BY <3>1 DEF Removing
    <3> QED BY <1>1, <1>2, <2>1, <3>1, <3>2, <3>3
  <2>3. CASE o # op
    BY <1>1, <1>2, <1>9, <2>1, <2>3 DEF Collect, Removing
  <2> QED BY <2>2, <2>3
<1>10. ASSUME NEW op \in Operators, Remove(op) PROVE Goal
  <2>1. /\ o \in up /\ UNCHANGED <<wanted, dirty, worker, listed>> /\ stored' \subseteq stored
        /\ op \in up
    BY <1>10 DEF Remove
  <2>2. CASE o = op /\ s = collecting[op]
    BY <1>1, <1>10, <2>1, <2>2 DEF Remove
  <2>3. CASE ~(o = op /\ s = collecting[op])
    <3>1. s \in Removing(o) => s \in Removing(o)'
      BY <1>10, <2>1, <2>3 DEF Remove, Removing
    <3> QED BY <1>1, <1>2, <2>1, <3>1
  <2> QED BY <2>2, <2>3
<1>11. CASE UNCHANGED vars
  BY <1>1, <1>2, <1>11 DEF vars, Removing
<1> QED BY <1>3, <1>4, <1>5, <1>6, <1>7, <1>8, <1>9, <1>10, <1>11 DEF Next

(* The invariant holds for any operators, accounts and foreign objects.    *)
THEOREM Invariance == Spec => []KInv
<1>1. KInv /\ [Next]_vars => KInv'
  BY TypeStep, WorkerStep, OrphanStep DEF KInv
<1> QED BY <1>1, InvInit, PTL DEF Spec

(* Only operators with an accepted prefix write.                           *)
LEMMA WrittenStep == KInv /\ WrittenInv /\ [Next]_vars => WrittenInv'
<1> SUFFICES ASSUME KInv, WrittenInv, [Next]_vars PROVE WrittenInv'
  OBVIOUS
<1> USE DEF WrittenInv
<1>1. ASSUME stored' \subseteq stored PROVE WrittenInv'
  BY <1>1
<1>2. ASSUME NEW op \in Operators, Start(op) \/ Stop(op) \/ List(op) \/ Remove(op)
      PROVE  WrittenInv'
  BY <1>1, <1>2 DEF Start, Stop, List, Remove
<1>3. ASSUME NEW op \in Operators, NEW sa \in ServiceAccounts, Change(op, sa) \/ Reconcile(op, sa)
      PROVE  WrittenInv'
  BY <1>1, <1>3 DEF Change, Reconcile
<1>4. ASSUME NEW op \in Operators, NEW sa \in Remaining(op), Collect(op, sa)
      PROVE  WrittenInv'
  BY <1>1, <1>4 DEF Collect
<1>5. ASSUME NEW op \in Operators, Apply(op) PROVE WrittenInv'
  <2> DEFINE sa == worker[op].account
  <2>1. sa \in ServiceAccounts /\ Accepted(op)
    BY <1>5 DEF Apply, KInv, KType
  <2>2. stored' \subseteq stored \cup {name(op, sa)}
    BY <1>5 DEF Apply
  <2> HIDE DEF sa
  <2> QED BY <2>1, <2>2
<1>6. CASE UNCHANGED vars
  BY <1>1, <1>6 DEF vars
<1> QED BY <1>2, <1>3, <1>4, <1>5, <1>6 DEF Next

(* There are no other keys, for any operators, accounts, foreign objects.  *)
THEOREM Origin == Spec => []WrittenInv
<1>1. Init => WrittenInv
  BY DEF Init, WrittenInv
<1> QED BY <1>1, WrittenStep, Invariance, PTL DEF Spec

(* Nothing is left of an unwanted account once an operator has looked at   *)
(* all keys, whatever its configuration (operator.go:205-218, 294-315).    *)
THEOREM ClearsOrphansCorrect == Spec => []ClearsOrphans
<1>1. KInv => ClearsOrphans
  <2>1. {} # None
    BY SharedAssumption
  <2> QED BY <2>1 DEF KInv, OrphanInv, ClearsOrphans
<1> QED BY <1>1, Invariance, PTL

(* An operator deletes what it finds its own name in and has looked at in  *)
(* vain, and nothing that another one writes (operator.go:205-218,         *)
(* 109-134, 294-315).                                                      *)
THEOREM DeletesOnlyOwnCorrect == Spec => DeletesOnlyOwn
<1> DEFINE Own(key) ==
        \E op \in up : \E sa \in Removing(op) :
            /\ parseKey(op, key) = sa
            /\ \A o \in Operators \ {op}, s \in ServiceAccounts : name(o, s) # key
            /\ sa \in wanted[op] => sa \in dirty[op] \/ sa = collecting[op]
<1>1. KInv /\ [Next]_vars => \A key \in stored \ stored' : Own(key)
  <2> SUFFICES ASSUME KInv, [Next]_vars, NEW key \in stored \ stored' PROVE Own(key)
    OBVIOUS
  <2>1. ASSUME NEW op \in Operators, Apply(op) \/ Remove(op) PROVE Own(key)
    <3>1. PICK sa \in Removing(op) : key = name(op, sa)
      BY <2>1, Deletes DEF KInv
    <3>2. op \in up /\ Accepted(op)
      BY <2>1, Deletes DEF KInv, KType
    <3>3. Pair(sa)
      BY RemovingPairs DEF KInv
    <3>4. parseKey(op, key) = sa
      BY <3>1, <3>2, <3>3, NameParses DEF Pair
    <3>5. \A o \in Operators \ {op}, s \in ServiceAccounts : name(o, s) # key
      BY <3>1, <3>2, <3>3, OnlyItsName
    <3>6. sa \in wanted[op] => sa \in dirty[op] \/ sa = collecting[op]
      <4>1. CASE sa = collecting[op]
        BY <4>1
      <4>2. CASE sa \in ServiceAccounts /\ worker[op] = [account |-> sa, todo |-> "remove"]
        BY <4>2 DEF KInv, WorkerInv
      <4> QED BY <4>1, <4>2 DEF Removing
    <3> QED BY <3>2, <3>4, <3>5, <3>6
  <2>2. ASSUME NEW op \in Operators, Start(op) \/ Stop(op) \/ List(op) PROVE FALSE
    BY <2>2 DEF Start, Stop, List
  <2>3. ASSUME NEW op \in Operators, NEW sa \in ServiceAccounts, Change(op, sa) \/ Reconcile(op, sa)
        PROVE  FALSE
    BY <2>3 DEF Change, Reconcile
  <2>4. ASSUME NEW op \in Operators, NEW sa \in Remaining(op), Collect(op, sa) PROVE FALSE
    BY <2>4 DEF Collect
  <2>5. CASE UNCHANGED vars
    BY <2>5 DEF vars
  <2> QED BY <2>1, <2>2, <2>3, <2>4, <2>5 DEF Next
<1> HIDE DEF Own
<1>2. KInv /\ [Next]_vars => [\A key \in stored \ stored' : Own(key)]_vars
  BY <1>1
<1> USE DEF Own
<1> QED BY <1>2, Invariance, PTL DEF Spec, DeletesOnlyOwn

(* A sidecar understands the key of every object that an operator wrote,   *)
(* or panics because its prefix ends in the wrong way (main.go:97-139).    *)
THEOREM SidecarsUnderstandCorrect == Spec => []SidecarsUnderstand
<1>1. WrittenInv => SidecarsUnderstand
  <2> SUFFICES ASSUME WrittenInv, NEW op \in Operators, NEW sa \in ServiceAccounts,
                      name(op, sa) \in stored
               PROVE  Accepted(op)
    BY NameIsUnderstood DEF SidecarsUnderstand
  <2>1. name(op, sa) \notin Foreign
    BY SharedAssumption
  <2>2. PICK o \in Operators, s \in ServiceAccounts : Accepted(o) /\ name(op, sa) = name(o, s)
    BY <2>1 DEF WrittenInv
  <2>3. op = o
    BY <2>2, OnlyItsName, SharedAssumption DEF Pair
  <2> QED BY <2>2, <2>3
<1> QED BY <1>1, Origin, PTL
=============================================================================
