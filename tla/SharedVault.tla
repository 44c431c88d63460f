----------------------------- MODULE SharedVault -----------------------------
(***************************************************************************)
(* Operators that share one Vault: of both providers, and of several       *)
(* prefixes.  They list each other's objects, and those of others, and     *)
(* must tell which are theirs by the key alone.  An operator reads whether *)
(* it wants an account in one step and acts upon that in a later one, in   *)
(* its worker and in its garbage collection alike.  A key stands for all   *)
(* the objects of that name, which one step writes or deletes; the module  *)
(* Operator has the single requests, and those that fail.                  *)
(***************************************************************************)
EXTENDS VaultKeys, FiniteSets

CONSTANTS
    Operators,          \* records [prefix, provider]
    ServiceAccounts,    \* pairs of a namespace and a name
    Foreign,            \* keys of objects that no operator wrote
    MaxUp               \* bound: operators that are up at the same time

(* Nobody else gives an object the name of one of the accounts; but an     *)
(* operator may well find an account of its own in it that does not exist. *)
(* (Operators with the same prefix and provider are the same one.)         *)
ASSUME SharedAssumption ==
    /\ \A op \in Operators :
          op = [prefix |-> op.prefix, provider |-> op.provider] /\ op.prefix \in Seq(STRING)
    /\ \A op \in Operators : op.provider \in {"aws", "gcp"}
    /\ \A sa \in ServiceAccounts : sa = <<sa[1], sa[2]>> /\ sa # None
    /\ None \notin {"aws", "gcp", {}} \cup [account : ServiceAccounts, todo : {"write", "remove"}]
    /\ "" \in Unreadable
    /\ \A op \in Operators, sa \in ServiceAccounts : name(op, sa) \notin Foreign

VARIABLES
    up,         \* the operators that are up
    wanted,     \* op -> accounts whose annotations op admits
    dirty,      \* op -> accounts with an event that op has not handled
    worker,     \* op -> the account its worker is busy with and what it is
                \*   to do with its objects, or None
    listed,     \* op -> accounts that its garbage collection found in the
                \*   keys and has still to look at, or None before it listed
    collecting, \* op -> the account it is about to remove, or None
    stored      \* the keys of the objects in Vault

vars == <<up, wanted, dirty, worker, listed, collecting, stored>>

Init ==
    /\ up = {}
    /\ wanted \in [Operators -> SUBSET ServiceAccounts]
    /\ dirty = [op \in Operators |-> {}]
    /\ worker = [op \in Operators |-> None]
    /\ listed = [op \in Operators |-> None]
    /\ collecting = [op \in Operators |-> None]
    /\ stored = Foreign

(* The configuration is loaded, the accounts arrive as events.             *)
Start(op) ==
    /\ op \notin up
    /\ Cardinality(up) < MaxUp
    /\ Accepted(op)
    /\ up' = up \cup {op}
    /\ dirty' = [dirty EXCEPT ![op] = wanted[op]]
    /\ UNCHANGED <<wanted, worker, listed, collecting, stored>>

Stop(op) ==
    /\ op \in up
    /\ up' = up \ {op}
    /\ dirty' = [dirty EXCEPT ![op] = {}]
    /\ worker' = [worker EXCEPT ![op] = None]
    /\ listed' = [listed EXCEPT ![op] = None]
    /\ collecting' = [collecting EXCEPT ![op] = None]
    /\ UNCHANGED <<wanted, stored>>

(* An account gets, or loses, the annotation of a provider.                *)
Change(op, sa) ==
    /\ wanted' = [wanted EXCEPT ![op] = IF sa \in @ THEN @ \ {sa} ELSE @ \cup {sa}]
    /\ dirty' = IF op \in up THEN [dirty EXCEPT ![op] = @ \cup {sa}] ELSE dirty
    /\ UNCHANGED <<up, worker, listed, collecting, stored>>

(* Reconcile reads the account ...                                         *)
Reconcile(op, sa) ==
    /\ op \in up
    /\ worker[op] = None
    /\ sa \in dirty[op]
    /\ dirty' = [dirty EXCEPT ![op] = @ \ {sa}]
    /\ worker' = [worker EXCEPT ![op] =
                     [account |-> sa, todo |-> IF sa \in wanted[op] THEN "write" ELSE "remove"]]
    /\ UNCHANGED <<up, wanted, listed, collecting, stored>>

(* ... and writes its objects, or removes them, upon what it read.         *)
Apply(op) ==
    /\ worker[op] # None
    /\ LET key == name(op, worker[op].account) IN
          stored' = IF worker[op].todo = "write" THEN stored \cup {key} ELSE stored \ {key}
    /\ worker' = [worker EXCEPT ![op] = None]
    /\ UNCHANGED <<up, wanted, dirty, listed, collecting>>

List(op) ==
    /\ op \in up
    /\ listed[op] = None
    /\ listed' = [listed EXCEPT ![op] = {parseKey(op, key) : key \in stored} \ {None}]
    /\ UNCHANGED <<up, wanted, dirty, worker, collecting, stored>>

Remaining(op) == IF listed[op] = None THEN {} ELSE listed[op]

(* garbageCollect looks at an account ...                                  *)
Collect(op, sa) ==
    /\ collecting[op] = None
    /\ sa \in Remaining(op)
    /\ listed' = [listed EXCEPT ![op] = @ \ {sa}]
    /\ collecting' = [collecting EXCEPT ![op] = IF sa \in wanted[op] THEN None ELSE sa]
    /\ UNCHANGED <<up, wanted, dirty, worker, stored>>

(* ... and removes what an account of that name has, whoever wrote it.     *)
Remove(op) ==
    /\ collecting[op] # None
    /\ stored' = stored \ {name(op, collecting[op])}
    /\ collecting' = [collecting EXCEPT ![op] = None]
    /\ UNCHANGED <<up, wanted, dirty, worker, listed>>

Next ==
    \E op \in Operators :
        \/ Start(op) \/ Stop(op) \/ Apply(op) \/ List(op) \/ Remove(op)
        \/ \E sa \in ServiceAccounts : Change(op, sa) \/ Reconcile(op, sa)
        \/ \E sa \in Remaining(op) : Collect(op, sa)

Spec == Init /\ [][Next]_vars
-----------------------------------------------------------------------------
(* The accounts whose objects the operator is about to delete: one that    *)
(* its garbage collection, or its worker, found that it does not want.     *)
Removing(op) ==
    ({collecting[op]} \ {None})
      \cup {sa \in ServiceAccounts : worker[op] = [account |-> sa, todo |-> "remove"]}

(* Whatever the configuration files say: once an operator has looked at    *)
(* all keys, nothing is left of an account that it does not want, has no   *)
(* event for and is not about to delete.  An operator that did not         *)
(* understand its own keys would leave them there without a word           *)
(* (operator.go:205-218 and 294-315, config.go:76-78).                     *)
ClearsOrphans ==
    \A op \in up, sa \in ServiceAccounts :
        listed[op] = {} /\ sa \notin wanted[op] \cup dirty[op] \cup Removing(op)
            => name(op, sa) \notin stored

(* Whatever is deleted, an operator deletes that finds its own prefix and  *)
(* provider in the key, for an account that it looked at and did not want, *)
(* and never what another operator writes for any account: "Including      *)
(* <provider> avoids the potential for clashes" (README.md:165).  If it    *)
(* wants the account again by then, the event that will restore the object *)
(* is still to be handled, unless the garbage collection deleted it, which *)
(* may follow upon that event (operator.go:205-218, 109-134, 303-309).     *)
DeletesOnlyOwn ==
    [][ \A key \in stored \ stored' :
          \E op \in up : \E sa \in Removing(op) :
              /\ parseKey(op, key) = sa
              /\ \A o \in Operators \ {op}, s \in ServiceAccounts : name(o, s) # key
              /\ sa \in wanted[op] => sa \in dirty[op] \/ sa = collecting[op] ]_vars

(* A sidecar that is given the key of the account's objects finds out by   *)
(* itself which provider it is for, and asks for that key; but if the      *)
(* prefix, which the operator accepted, does not end in a letter, a digit  *)
(* or a hyphen, it panics (main.go:37 and 106-139, config.go:76-78).       *)
SidecarsUnderstand ==
    \A op \in Operators, sa \in ServiceAccounts :
        name(op, sa) \in stored =>
            LaunchFor(op, sa) = IF op.prefix[1] \in Unreadable THEN Gone("panic")
                                ELSE [login |-> name(op, sa), secret |-> name(op, sa)]
-----------------------------------------------------------------------------
(* Why ClearsOrphans holds: what is still going to be looked at.           *)
OrphanInv ==
    \A op \in up, sa \in ServiceAccounts :
        name(op, sa) \in stored =>
            \/ sa \in wanted[op] \cup dirty[op] \cup Removing(op)
            \/ listed[op] = None \/ sa \in listed[op]

(* What the worker is about to do is right, or there is an event that will *)
(* tell it otherwise.                                                      *)
WorkerInv ==
    \A op \in Operators, sa \in ServiceAccounts :
        /\ worker[op] = [account |-> sa, todo |-> "write"]
              => sa \in dirty[op] \/ sa \in wanted[op]
        /\ worker[op] = [account |-> sa, todo |-> "remove"]
              => sa \in dirty[op] \/ sa \notin wanted[op]

Pair(sa) == sa = <<sa[1], sa[2]>>

KType ==
    /\ up \subseteq {op \in Operators : Accepted(op)}
    /\ wanted \in [Operators -> SUBSET ServiceAccounts]
    /\ dirty \in [Operators -> SUBSET ServiceAccounts]
    /\ DOMAIN worker = Operators /\ DOMAIN listed = Operators /\ DOMAIN collecting = Operators
    /\ \A op \in Operators :
          /\ worker[op] # None => worker[op] \in [account : ServiceAccounts, todo : {"write", "remove"}]
          /\ collecting[op] # None => Pair(collecting[op])
          /\ \A sa \in Remaining(op) : sa # None /\ Pair(sa)
          /\ op \notin up => worker[op] = None /\ listed[op] = None /\ collecting[op] = None

KInv == KType /\ WorkerInv /\ OrphanInv

(* Why SidecarsUnderstand holds: every key is one that nobody wrote or one *)
(* that an operator with an accepted prefix did.                           *)
WrittenInv ==
    \A key \in stored \ Foreign :
        \E op \in Operators, sa \in ServiceAccounts : Accepted(op) /\ key = name(op, sa)
=============================================================================
