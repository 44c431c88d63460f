------------------------------ MODULE Operator ------------------------------
(***************************************************************************)
(* One operator process: the informer's view of the ServiceAccounts, the   *)
(* work queue and the single reconcile worker of the controller, the       *)
(* garbage collection that starts with the process and runs beside the     *)
(* worker, and the Vault objects both of them write and delete, one        *)
(* request at a time.  Every read of the cluster goes through the          *)
(* manager's cache, so that `accounts` is that cache while the process     *)
(* runs, and the cluster itself while it is down.                          *)
(***************************************************************************)
EXTENDS Annotations

CONSTANTS
    Namespaces, Names,
    AnnotationSets, \* the annotations a ServiceAccount may carry
    RuleLists,      \* the rule lists a process may be started with
    None            \* no account, no annotations, no Vault object

ServiceAccounts == Namespaces \X Names

(* What may be stored in Vault.                                            *)
Contents ==
    {[kind |-> "policy"]}
        \cup {Content("role", ann) : ann \in AnnotationSets}
        \cup {Content("secret", ann) : ann \in AnnotationSets}

ASSUME NoneAssumption == None \notin AnnotationSets \cup ServiceAccounts \cup Contents

VARIABLES
    accounts,   \* ServiceAccounts -> annotations, or None when it is not there
    running,    \* the process is up
    rules,      \* its rules
    queue,      \* accounts in the work queue
    delayed,    \* accounts waiting for the rate limiter after an error
    work,       \* the reconcile worker
    gc,         \* the garbage collection
    vault,      \* kind -> account -> content, or None when there is no object
    clobbered,  \* history: <<kind, account>> deleted by the garbage collection
                \* while the account was admitted, and not written since
    steady      \* history: accounts admitted ever since the process started

process == <<running, rules, queue, delayed, work, gc>>
vars == <<accounts, process, vault, clobbered, steady>>

WriteOrder  == <<"policy", "role", "secret">>
RemoveOrder == <<"secret", "role", "policy">>
ListOrder   == <<"secret", "role", "policy">>

Idle == [pc |-> "idle", sa |-> None, ann |-> None, step |-> 1]
GCAt(pc, listing, keys, sa, step) ==
    [pc |-> pc, listing |-> listing, keys |-> keys, sa |-> sa, step |-> step]
GCStart == GCAt("list", 1, {}, None, 1)
GCDone  == GCAt("done", 3, {}, None, 1)

Admits(ruleList, sa, ann) ==
    ann # None /\ admitEvent(ruleList, sa[1], ann.identity)
Admitted(sa) == Admits(rules, sa, accounts[sa])

Init ==
    /\ accounts \in [ServiceAccounts -> AnnotationSets \cup {None}]
    /\ running = FALSE
    /\ rules \in RuleLists
    /\ queue = {}
    /\ delayed = {}
    /\ work = Idle
    /\ gc = GCDone
    /\ vault = [kind \in Kinds |-> [sa \in ServiceAccounts |-> None]]
    /\ clobbered = {}
    /\ steady = {}
-----------------------------------------------------------------------------
(* The cluster.  The event filters see the old and the new object.         *)

(* Mistake: an update counts only if the new annotations are admitted.     *)
PassesFilterIfAdmitted(sa, old, new) ==
    \/ old = None /\ Admits(rules, sa, new)
    \/ new = None /\ Admits(rules, sa, old)
    \/ None \notin {old, new} /\ processUpdateEvent(old, new) /\ Admits(rules, sa, new)

(* Mistake: an account that is created is left to the next start.          *)
PassesFilterUnlessNew(sa, old, new) ==
    \/ new = None /\ Admits(rules, sa, old)
    \/ None \notin {old, new} /\ processUpdateEvent(old, new)

PassesFilter(sa, old, new) ==
    \/ old = None /\ Admits(rules, sa, new)
    \/ new = None /\ Admits(rules, sa, old)
    \/ None \notin {old, new} /\ processUpdateEvent(old, new)

Change(sa, ann) ==
    /\ ann # accounts[sa]
    /\ accounts' = [accounts EXCEPT ![sa] = ann]
    /\ queue' = IF running /\ PassesFilter(sa, accounts[sa], ann)
                THEN queue \cup {sa} ELSE queue
    /\ steady' = IF Admits(rules, sa, ann) THEN steady ELSE steady \ {sa}
    /\ UNCHANGED <<running, rules, delayed, work, gc, vault, clobbered>>
-----------------------------------------------------------------------------
(* The worker.  The account and its annotations are read once, when the    *)
(* request is taken off the queue; the queue holds an account that changes *)
(* meanwhile until the worker is done.                                     *)

(* Mistake: taking one account empties the queue.                          *)
TakeAll(sa) ==
    /\ running
    /\ work.pc = "idle"
    /\ sa \in queue
    /\ queue' = {}
    /\ UNCHANGED <<accounts, running, rules, gc, vault, clobbered, steady>>

Take(sa) ==
    /\ running
    /\ work.pc = "idle"
    /\ sa \in queue
    /\ queue' = queue \ {sa}
    /\ UNCHANGED <<accounts, running, rules, gc, vault, clobbered, steady>>

(* The account is gone, or its identity is not (or no longer) permitted.   *)
ReconcileRemove(sa) ==
    /\ Take(sa)
    /\ ~Admitted(sa)
    /\ work' = [pc |-> "remove", sa |-> sa, ann |-> None, step |-> 1]
    /\ UNCHANGED delayed

(* Mistake: an account that exists is not checked against the rules.       *)
ReconcileWriteUnchecked(sa) ==
    /\ Take(sa)
    /\ accounts[sa] # None
    /\ TTLAccepted(accounts[sa])
    /\ work' = [pc |-> "write", sa |-> sa, ann |-> accounts[sa], step |-> 1]
    /\ UNCHANGED delayed

ReconcileWrite(sa) ==
    /\ Take(sa)
    /\ Admitted(sa)
    /\ TTLAccepted(accounts[sa])
    /\ work' = [pc |-> "write", sa |-> sa, ann |-> accounts[sa], step |-> 1]
    /\ UNCHANGED delayed

(* Mistake: a TTL that is not accepted is not returned as an error.        *)
ReconcileRejectTTLSilently(sa) ==
    /\ Take(sa)
    /\ Admitted(sa)
    /\ ~TTLAccepted(accounts[sa])
    /\ UNCHANGED <<delayed, work>>

ReconcileRejectTTL(sa) ==
    /\ Take(sa)
    /\ Admitted(sa)
    /\ ~TTLAccepted(accounts[sa])
    /\ delayed' = delayed \cup {sa}
    /\ UNCHANGED work

(* The environment, the CA file it names or the account cannot be read.    *)
ReadEnvironmentFails(sa) ==
    /\ Take(sa)
    /\ delayed' = delayed \cup {sa}
    /\ UNCHANGED work

Requeue(sa) ==
    /\ sa \in delayed
    /\ delayed' = delayed \ {sa}
    /\ queue' = queue \cup {sa}
    /\ UNCHANGED <<accounts, running, rules, work, gc, vault, clobbered, steady>>

Store(kind, sa, content) == vault' = [vault EXCEPT ![kind][sa] = content]

Advance ==
    work' = IF work.step = 3 THEN Idle ELSE [work EXCEPT !.step = @ + 1]

(* writeToVault: one request after the other, an error ends it.            *)
WriteStep(sa) ==
    /\ work.pc = "write"
    /\ work.sa = sa
    /\ LET kind == WriteOrder[work.step] IN
          /\ VaultAccepts(Content(kind, work.ann))
          /\ Store(kind, sa, Content(kind, work.ann))
          /\ clobbered' = clobbered \ {<<kind, sa>>}
    /\ Advance
    /\ UNCHANGED <<accounts, running, rules, queue, delayed, gc, steady>>

(* removeFromVault, called by Reconcile.                                   *)
RemoveStep(sa) ==
    /\ work.pc = "remove"
    /\ work.sa = sa
    /\ Store(RemoveOrder[work.step], sa, None)
    /\ Advance
    /\ UNCHANGED <<accounts, running, rules, queue, delayed, gc, clobbered, steady>>

(* Mistake: the error of a request is not returned, so that it is not      *)
(* retried.                                                                *)
RequestFailsForGood ==
    /\ work.pc \in {"write", "remove"}
    /\ work' = Idle
    /\ UNCHANGED <<accounts, running, rules, queue, delayed, gc, vault, clobbered, steady>>

(* A request fails, or Vault has served it but the answer is lost.  Either *)
(* way Reconcile returns the error and the account is tried again later.   *)
RequestFails ==
    /\ work.pc \in {"write", "remove"}
    /\ \/ UNCHANGED <<vault, clobbered>>
       \/ /\ work.pc = "write"
          /\ LET kind == WriteOrder[work.step] IN
                /\ VaultAccepts(Content(kind, work.ann))
                /\ Store(kind, work.sa, Content(kind, work.ann))
                /\ clobbered' = clobbered \ {<<kind, work.sa>>}
       \/ /\ work.pc = "remove"
          /\ Store(RemoveOrder[work.step], work.sa, None)
          /\ UNCHANGED clobbered
    /\ work' = Idle
    /\ delayed' = delayed \cup {work.sa}
    /\ UNCHANGED <<accounts, running, rules, queue, gc, steady>>
-----------------------------------------------------------------------------
(* Garbage collection: list the keys of one kind after the other; remove   *)
(* everything of each key that has no admitted account.                    *)

GCUnchanged == UNCHANGED <<accounts, running, rules, queue, delayed, work, steady>>

(* Mistake: only the keys of the first kind are ever listed.               *)
GCListFirstKind ==
    /\ gc.pc = "list"
    /\ gc' = [gc EXCEPT !.pc = "scan",
                        !.keys = {sa \in ServiceAccounts : vault[ListOrder[1]][sa] # None}]
    /\ GCUnchanged /\ UNCHANGED <<vault, clobbered>>

GCList ==
    /\ gc.pc = "list"
    /\ gc' = [gc EXCEPT !.pc = "scan",
                        !.keys = {sa \in ServiceAccounts :
                                     vault[ListOrder[gc.listing]][sa] # None}]
    /\ GCUnchanged /\ UNCHANGED <<vault, clobbered>>

(* Mistake: an account whose TTL is not accepted is taken for missing.     *)
GCCheckTTL(sa) ==
    /\ gc.pc = "scan"
    /\ sa \in gc.keys
    /\ gc' = IF Admitted(sa) /\ TTLAccepted(accounts[sa])
             THEN [gc EXCEPT !.keys = @ \ {sa}]
             ELSE GCAt("remove", gc.listing, gc.keys \ {sa}, sa, 1)
    /\ GCUnchanged /\ UNCHANGED <<vault, clobbered>>

(* Mistake: the search stops at the first account of that name, in any     *)
(* namespace.                                                              *)
GCCheckFirstOfName(sa) ==
    /\ gc.pc = "scan"
    /\ sa \in gc.keys
    /\ gc' = IF \A ns \in Namespaces : Admitted(<<ns, sa[2]>>)
             THEN [gc EXCEPT !.keys = @ \ {sa}]
             ELSE GCAt("remove", gc.listing, gc.keys \ {sa}, sa, 1)
    /\ GCUnchanged /\ UNCHANGED <<vault, clobbered>>

(* hasServiceAccount; its answer is acted on in the steps that follow.     *)
GCCheck(sa) ==
    /\ gc.pc = "scan"
    /\ sa \in gc.keys
    /\ gc' = IF Admitted(sa)
             THEN [gc EXCEPT !.keys = @ \ {sa}]
             ELSE GCAt("remove", gc.listing, gc.keys \ {sa}, sa, 1)
    /\ GCUnchanged /\ UNCHANGED <<vault, clobbered>>

GCDelete ==
    LET kind == RemoveOrder[gc.step] IN
    /\ Store(kind, gc.sa, None)
    /\ clobbered' = IF Admitted(gc.sa) THEN clobbered \cup {<<kind, gc.sa>>}
                                       ELSE clobbered

GCRemoveStep ==
    /\ gc.pc = "remove"
    /\ GCDelete
    /\ gc' = IF gc.step = 3 THEN GCAt("scan", gc.listing, gc.keys, None, 1)
                            ELSE [gc EXCEPT !.step = @ + 1]
    /\ GCUnchanged

(* Mistake: the collection is done after the first kind.                   *)
GCNextAfterFirst ==
    /\ gc.pc = "scan"
    /\ gc.keys = {}
    /\ gc' = GCDone
    /\ GCUnchanged /\ UNCHANGED <<vault, clobbered>>

GCNext ==
    /\ gc.pc = "scan"
    /\ gc.keys = {}
    /\ gc' = IF gc.listing = 3 THEN GCDone ELSE GCAt("list", gc.listing + 1, {}, None, 1)
    /\ GCUnchanged /\ UNCHANGED <<vault, clobbered>>
-----------------------------------------------------------------------------
(* The process.                                                            *)

Stop ==
    /\ running' = FALSE
    /\ queue' = {}
    /\ delayed' = {}
    /\ work' = Idle
    /\ gc' = GCDone
    /\ steady' = {}
    /\ UNCHANGED <<accounts, rules>>

(* Killed or evicted at any point.  A request that is under way may still  *)
(* be served by Vault: that is the request's step, and then this one.      *)
Crash ==
    /\ running
    /\ Stop
    /\ clobbered' = {}
    /\ UNCHANGED vault

(* An error of the garbage collection is returned by Start, the manager    *)
(* stops and the process exits.                                            *)
GCFails ==
    /\ gc.pc # "done"
    /\ Stop
    /\ clobbered' = {}
    /\ \/ UNCHANGED vault
       \/ gc.pc = "remove" /\ Store(RemoveOrder[gc.step], gc.sa, None)

(* Mistake: the accounts that exist at the start are not queued.           *)
StartupWithoutCreates(ruleList) ==
    /\ ~running
    /\ running' = TRUE
    /\ rules' = ruleList
    /\ steady' = {sa \in ServiceAccounts : Admits(ruleList, sa, accounts[sa])}
    /\ gc' = GCStart
    /\ UNCHANGED <<accounts, queue, delayed, work, vault, clobbered>>

(* The cache is filled, the accounts in it arrive as Create events, and    *)
(* the garbage collection starts.  The configuration may have changed.     *)
Startup(ruleList) ==
    /\ ~running
    /\ running' = TRUE
    /\ rules' = ruleList
    /\ queue' = {sa \in ServiceAccounts : Admits(ruleList, sa, accounts[sa])}
    /\ steady' = {sa \in ServiceAccounts : Admits(ruleList, sa, accounts[sa])}
    /\ gc' = GCStart
    /\ UNCHANGED <<accounts, delayed, work, vault, clobbered>>
-----------------------------------------------------------------------------
ReconcileBegins(sa) ==
    ReconcileRemove(sa) \/ ReconcileWrite(sa) \/ ReconcileRejectTTL(sa)

Next ==
    \/ \E sa \in ServiceAccounts :
          \/ \E ann \in AnnotationSets \cup {None} : Change(sa, ann)
          \/ ReconcileRemove(sa)
          \/ ReconcileWrite(sa)
          \/ ReconcileRejectTTL(sa)
          \/ ReadEnvironmentFails(sa)
          \/ Requeue(sa)
          \/ WriteStep(sa)
          \/ RemoveStep(sa)
          \/ GCCheck(sa)
    \/ RequestFails
    \/ GCList
    \/ GCRemoveStep
    \/ GCNext
    \/ GCFails
    \/ Crash
    \/ \E ruleList \in RuleLists : Startup(ruleList)

Spec == Init /\ [][Next]_vars

(* The process is restarted; the goroutines run; the queue is first in,    *)
(* first out, so that no account is passed over for ever; every request    *)
(* ends; and one that is repeated for ever, and that Vault does not refuse,*)
(* is served at some point.                                                *)
Fairness ==
    /\ WF_vars(\E ruleList \in RuleLists : Startup(ruleList))
    /\ WF_vars(RequestFails \/ \E sa \in ServiceAccounts : WriteStep(sa) \/ RemoveStep(sa))
    /\ WF_vars(GCList \/ GCRemoveStep \/ GCNext \/ \E sa \in ServiceAccounts : GCCheck(sa))
    /\ \A sa \in ServiceAccounts :
          /\ WF_vars(Requeue(sa))
          /\ SF_vars(ReconcileBegins(sa))
          /\ \A i \in 1 .. 3 :
                SF_vars(work.step = i /\ (WriteStep(sa) \/ RemoveStep(sa)))

FairSpec == Spec /\ Fairness
-----------------------------------------------------------------------------
HasContent(kind, sa, ann) == vault[kind][sa] = Content(kind, ann)

(* Nothing is left to do for the account.                                  *)
Settled(sa) ==
    /\ running
    /\ sa \notin queue \cup delayed
    /\ work.sa # sa
    /\ gc.pc = "done"

WorkStates ==
    [pc : {"idle", "write", "remove"}, sa : ServiceAccounts \cup {None},
     ann : AnnotationSets \cup {None}, step : 1 .. 3]

GCStates ==
    [pc : {"list", "scan", "remove", "done"}, listing : 1 .. 3,
     keys : SUBSET ServiceAccounts, sa : ServiceAccounts \cup {None}, step : 1 .. 3]

(* Every variable has its type, and a process that is busy names the       *)
(* account, and the annotations, it is busy with.                          *)
TypeOK ==
    /\ accounts \in [ServiceAccounts -> AnnotationSets \cup {None}]
    /\ running \in BOOLEAN
    /\ rules \in RuleLists
    /\ queue \subseteq ServiceAccounts
    /\ delayed \subseteq ServiceAccounts
    /\ work \in WorkStates
    /\ work.pc = "idle" => work = Idle
    /\ work.pc # "idle" => work.sa # None
    /\ work.pc = "write" => work.ann # None
    /\ gc \in GCStates
    /\ (gc.pc = "remove") <=> (gc.sa # None)
    /\ vault \in [Kinds -> [ServiceAccounts -> Contents \cup {None}]]
    /\ clobbered \subseteq Kinds \X ServiceAccounts
    /\ steady \subseteq ServiceAccounts

(* An account that is deleted, or whose identity the rules do not permit,  *)
(* leaves no object behind in Vault once nothing is pending for it,        *)
(* whatever happened before: changes that no event tells of, requests that *)
(* failed half way, crashes in the middle of a write (Reconcile,           *)
(* operator.go:127-139, and the garbage collection, 291-318).              *)
Revoked ==
    \A sa \in ServiceAccounts :
        Settled(sa) /\ ~Admitted(sa) => \A kind \in Kinds : vault[kind][sa] = None

(* An admitted account for which nothing is pending has its three objects, *)
(* with the content of its annotations as they are now, except those the   *)
(* garbage collection deleted under it (writeToVault, operator.go:220-264, *)
(* and the event filter, 192-198).  Only a TTL annotation that is made     *)
(* empty is not noticed: what was stored without it then stays.            *)
Provisioned ==
    \A sa \in ServiceAccounts :
        Settled(sa) /\ Admitted(sa) /\ TTLAccepted(accounts[sa]) =>
            \A kind \in Kinds : \/ HasContent(kind, sa, accounts[sa])
                               \/ <<kind, sa>> \in clobbered

(* The doc comment of Reconcile (operator.go:102-104): an account that was *)
(* reconciled is able to log in and to retrieve credentials.               *)
ReconciledAccountCanLogin ==
    \A sa \in ServiceAccounts :
        Settled(sa) /\ Admitted(sa) => \A kind \in Kinds : vault[kind][sa] # None

(* An account that was admitted when the process started, and has been     *)
(* ever since, loses no object: neither the worker nor the garbage         *)
(* collection of a restarted operator interrupts its access, whatever its  *)
(* annotations change to meanwhile (garbageCollect, operator.go:303-313).  *)
SteadyKeepsAccess ==
    [][ \A sa \in steady, kind \in Kinds :
            vault[kind][sa] # None => vault'[kind][sa] # None ]_vars

(* Once the process stays up, an account that is not admitted ends up      *)
(* without objects (operator.go:50-52 and 127-139).                        *)
EventuallyRevoked ==
    \A sa \in ServiceAccounts :
        <>[](running /\ ~Admitted(sa))
            => <>[](\A kind \in Kinds : vault[kind][sa] = None)

(* Once the process stays up, an account whose annotations stay what they  *)
(* are, admitted and with a TTL that is accepted, ends up with the objects *)
(* of these annotations (or those the garbage collection deleted under it  *)
(* missing), however many other accounts fail (operator.go:141-153).       *)
EventuallyProvisioned ==
    \A sa \in ServiceAccounts,
       ann \in {a \in AnnotationSets : TTLAccepted(a) /\ VaultAccepts(Content("role", a))} :
        <>[](running /\ accounts[sa] = ann /\ Admitted(sa))
            => <>[](\A kind \in Kinds : \/ HasContent(kind, sa, ann)
                                       \/ <<kind, sa>> \in clobbered)

(* README.md: the rules control which service accounts can use which       *)
(* roles.  Once the process stays up and the account stays what it is,     *)
(* Vault ends up with no identity for it but one the rules permit.         *)
RulesEventuallyEnforced ==
    \A sa \in ServiceAccounts, ann \in AnnotationSets \cup {None} :
        <>[](running /\ accounts[sa] = ann)
            => <>[](\/ vault["secret"][sa] = None
                    \/ admitEvent(rules, sa[1], vault["secret"][sa].identity))
-----------------------------------------------------------------------------
(* What it all amounts to: the identities that can be used are those of    *)
(* the objects under the provider's path, the last that are written and    *)
(* the first that are removed.                                             *)
Granted ==
    [sa \in ServiceAccounts |-> IF vault["secret"][sa] = None THEN NoIdentity
                                ELSE vault["secret"][sa].identity]

IdentityOf(ann) == IF ann = None THEN NoIdentity ELSE ann.identity

Permits(ruleList, sa, identity) == admitEvent(ruleList, sa[1], identity)

Promise == INSTANCE Access WITH
    Accounts <- ServiceAccounts,
    Identities <- {ann.identity : ann \in AnnotationSets},
    Permits <- Permits,
    Nobody <- NoIdentity,
    up <- running,
    asked <- [sa \in ServiceAccounts |-> IdentityOf(accounts[sa])],
    entitled <- steady,
    grants <- Granted

(* Neither stale reads, nor requests that fail or are lost, nor the        *)
(* garbage collection beside the worker, nor a crash anywhere grants an    *)
(* identity that the rules of the process do not permit, or takes one from *)
(* an account that was entitled all along (operator.go:102-171, 291-318).  *)
ImplementsAccess == Promise!Spec

(* And what the rules do not permit is withdrawn in the end, while the     *)
(* process is up, though the account goes on changing (operator.go:50-52,  *)
(* 127-139 and 192-198).                                                   *)
ImplementsFairAccess == Promise!FairSpec
-----------------------------------------------------------------------------
(* Why the invariants hold: what every reachable state satisfies.          *)

(* The part of the annotations that the stored objects depend on.          *)
Normal(ann) ==
    [identity |-> ann.identity, ttl |-> TTLText(ann.ttl), scopes |-> ann.scopes]

(* A process that is down has lost all it held in memory.                  *)
DownInv ==
    ~running => queue = {} /\ delayed = {} /\ work = Idle /\ gc = GCDone

(* The worker writes what was admitted, and unless the account is queued   *)
(* again, what is still asked for.                                         *)
WriteInv ==
    work.pc = "write" =>
        /\ Admits(rules, work.sa, work.ann)
        /\ TTLAccepted(work.ann)
        /\ \/ work.sa \in queue
           \/ /\ accounts[work.sa] # None
              /\ ~processUpdateEvent(work.ann, accounts[work.sa])

(* The worker removes an account that is admitted only if it is queued.    *)
RemoveInv ==
    work.pc = "remove" => ~Admitted(work.sa) \/ work.sa \in queue

RemovalPending(kind, sa) ==
    \/ sa \in queue \cup delayed
    \/ /\ work.pc = "remove" /\ work.sa = sa
       /\ \E i \in work.step .. 3 : RemoveOrder[i] = kind
    \/ /\ gc.pc = "remove" /\ gc.sa = sa
       /\ \E i \in gc.step .. 3 : RemoveOrder[i] = kind
    \/ /\ gc.pc # "done"
       /\ \/ \E i \in gc.listing + 1 .. 3 : ListOrder[i] = kind
          \/ ListOrder[gc.listing] = kind /\ (gc.pc = "list" \/ sa \in gc.keys)

(* Every object of an account that is not admitted is going to be removed. *)
OrphanInv ==
    running => \A sa \in ServiceAccounts, kind \in Kinds :
        ~Admitted(sa) /\ vault[kind][sa] # None => RemovalPending(kind, sa)

(* The first objects of a write that is under way are in place.            *)
HasObject(kind, sa, ann) ==
    HasContent(kind, sa, ann) \/ <<kind, sa>> \in clobbered
WriteProgress(sa) ==
    /\ work.pc = "write" /\ work.sa = sa
    /\ \A i \in 1 .. work.step - 1 : HasObject(WriteOrder[i], sa, work.ann)

(* Every admitted account has its objects or is going to be reconciled.    *)
ProvisionInv ==
    running => \A sa \in ServiceAccounts :
        Admitted(sa) =>
            \/ sa \in queue \cup delayed
            \/ WriteProgress(sa)
            \/ \A kind \in Kinds : HasObject(kind, sa, Normal(accounts[sa]))

SteadyInv ==
    \A sa \in steady :
        /\ running /\ Admitted(sa)
        /\ ~(work.pc = "remove" /\ work.sa = sa)
        /\ ~(gc.pc = "remove" /\ gc.sa = sa)

(* TypeOK, and Revoked, Provisioned and the action properties follow from  *)
(* this conjunction, which every step preserves.                           *)
IInv ==
    /\ TypeOK
    /\ DownInv
    /\ WriteInv
    /\ RemoveInv
    /\ OrphanInv
    /\ ProvisionInv
    /\ SteadyInv
=============================================================================
