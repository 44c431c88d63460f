------------------------------- MODULE Rollout -------------------------------
(***************************************************************************)
(* A rollout of the operator's Deployment: a new process, the one of the   *)
(* module Operator with its variables, starts while an old one is still    *)
(* up, possibly with other rules, and nothing elects a leader.  Both write *)
(* and delete the same Vault objects.  Each has a cache of its own.  The   *)
(* old one has been up for long: its garbage collection is over.  Requests *)
(* of the workers that fail are left to the module Operator: an account    *)
(* that is tried again is like one that is queued for longer.              *)
(***************************************************************************)
EXTENDS Operator

CONSTANT OldRules   \* the rule list the old process was started with

VARIABLES
    oldAccounts, oldRunning, oldQueue, oldWork,
                \* the old process, its cache first
    contested   \* history: accounts that the old process left, when it was
                \*   killed, in a state that the new one may not correct
                \*   before they change or it restarts

oldProcess == <<oldAccounts, oldRunning, oldQueue, oldWork>>

Old == INSTANCE Operator WITH
    accounts <- oldAccounts, running <- oldRunning, rules <- OldRules,
    queue <- oldQueue, delayed <- {}, work <- oldWork,
    gc <- GCDone, clobbered <- {}, steady <- {}

RolloutInit ==
    /\ accounts \in [ServiceAccounts -> AnnotationSets \cup {None}]
    /\ oldAccounts = accounts
    /\ oldRunning = TRUE /\ running = FALSE
    /\ rules \in RuleLists
    /\ oldQueue = {} /\ queue = {}
    /\ delayed = {}
    /\ oldWork = Idle /\ work = Idle
    /\ gc = GCDone /\ clobbered = {} /\ steady = {}
    /\ vault = [kind \in Kinds |-> [sa \in ServiceAccounts |->
                   IF Old!Admitted(sa) /\ TTLAccepted(accounts[sa])
                   THEN Content(kind, accounts[sa]) ELSE None]]
    /\ contested = {}

(* Bounds: the new process learns of every change at once, the old one is  *)
(* behind by no more than one change of an account.  An event that is      *)
(* queued makes the new process do all requests of the account again.      *)
Annotate(sa, ann) ==
    /\ oldAccounts[sa] = accounts[sa]
    /\ Change(sa, ann)
    /\ contested' = contested \ queue'
    /\ UNCHANGED oldProcess

OldLearns(sa) ==
    /\ Old!Change(sa, accounts[sa])
    /\ UNCHANGED <<accounts, process, clobbered, steady, contested>>

(* The old process may have to do something about the account, or would    *)
(* not do what the new one would.                                          *)
Unfinished(sa) ==
    /\ oldRunning
    /\ \/ sa \in oldQueue
       \/ oldWork.sa = sa
       \/ oldAccounts[sa] # accounts[sa]
       \/ Admits(OldRules, sa, accounts[sa]) # Admits(rules, sa, accounts[sa])

(* The rollout goes on as soon as the new process runs; it may be undone.  *)
OldStops ==
    /\ Old!Crash
    /\ contested' = contested \cup {sa \in ServiceAccounts : running /\ Unfinished(sa)}
    /\ UNCHANGED <<accounts, process, clobbered, steady>>

OldStep ==
    /\ \E sa \in ServiceAccounts :
          \/ Old!ReconcileRemove(sa) \/ Old!ReconcileWrite(sa)
          \/ Old!WriteStep(sa) \/ Old!RemoveStep(sa)
    /\ UNCHANGED <<accounts, process, clobbered, steady, contested>>

NewStarts(ruleList) ==
    /\ Startup(ruleList)
    /\ contested' = {}
    /\ UNCHANGED oldProcess

NewStep ==
    /\ \/ GCList \/ GCRemoveStep \/ GCNext \/ GCFails \/ Crash
       \/ \E sa \in ServiceAccounts :
             \/ ReconcileRemove(sa) \/ ReconcileWrite(sa)
             \/ WriteStep(sa) \/ RemoveStep(sa) \/ GCCheck(sa)
    /\ UNCHANGED <<oldProcess, contested>>

RolloutNext ==
    \/ OldStops \/ OldStep \/ NewStep
    \/ \E ruleList \in RuleLists : NewStarts(ruleList)
    \/ \E sa \in ServiceAccounts :
          \/ OldLearns(sa)
          \/ \E ann \in AnnotationSets \cup {None} : Annotate(sa, ann)

RolloutSpec == RolloutInit /\ [][RolloutNext]_<<vars, oldProcess, contested>>
-----------------------------------------------------------------------------
(* Neither process has anything to do for the account, and no one that was *)
(* killed had.                                                             *)
Finished(sa) ==
    /\ Settled(sa) /\ ~Unfinished(sa)
    /\ sa \notin contested

(* What one process removes, the other one has not put back when both are  *)
(* done, in whatever order their requests arrived: each of them comes back *)
(* to an account for the last change (controller.go:48, operator.go:109-   *)
(* 171).  The exceptions are those of Unfinished and contested.            *)
RevokedInRollout ==
    \A sa \in ServiceAccounts :
        Finished(sa) /\ ~Admitted(sa) => \A kind \in Kinds : vault[kind][sa] = None

(* Nor has either of them overwritten, with what it read before the last   *)
(* change, what the other one wrote after it, or removed it.               *)
ProvisionedInRollout ==
    \A sa \in ServiceAccounts :
        Finished(sa) /\ Admitted(sa) /\ TTLAccepted(accounts[sa]) =>
            \A kind \in Kinds : \/ HasContent(kind, sa, accounts[sa])
                               \/ <<kind, sa>> \in clobbered

(* Nor does the rollout interrupt an account that is admitted: once the    *)
(* new process has started with it, its garbage collection and worker take *)
(* no object away.  The old process may, on the strength of what it read   *)
(* earlier, but only if it still takes the account for one that is not     *)
(* admitted, or is going to write it again (operator.go:127-139, 303-313). *)
KeepsAccessInRollout ==
    [][ \A sa \in steady, kind \in Kinds :
            vault[kind][sa] # None /\ vault'[kind][sa] = None =>
                oldRunning /\ (sa \in oldQueue \/ ~Old!Admitted(sa)) ]_vars
-----------------------------------------------------------------------------
(* Why the invariants hold: what every reachable state satisfies.          *)

RolloutTypeOK ==
    /\ TypeOK
    /\ delayed = {}
    /\ oldAccounts \in [ServiceAccounts -> AnnotationSets \cup {None}]
    /\ oldRunning \in BOOLEAN
    /\ oldQueue \subseteq ServiceAccounts
    /\ oldWork \in WorkStates
    /\ oldWork.pc = "idle" => oldWork = Idle
    /\ oldWork.pc # "idle" => oldWork.sa # None
    /\ oldWork.pc = "write" => oldWork.ann # None
    /\ contested \subseteq ServiceAccounts

(* Each worker is right about its own cache, as it is when it is alone.    *)
WorkersInv ==
    /\ DownInv /\ WriteInv /\ RemoveInv
    /\ Old!DownInv /\ Old!WriteInv /\ Old!RemoveInv

(* The old process is removing the object, or is going to, or will when it *)
(* learns that the account is not admitted any more.                       *)
OldRemoves(kind, sa) ==
    oldRunning /\ (Old!RemovalPending(kind, sa) \/ Old!Admitted(sa))

(* Every object of an account that is not admitted is going to be removed  *)
(* by one of the two.                                                      *)
RolloutOrphanInv ==
    running => \A sa \in ServiceAccounts, kind \in Kinds :
        ~Admitted(sa) /\ vault[kind][sa] # None =>
            \/ sa \in contested
            \/ RemovalPending(kind, sa)
            \/ OldRemoves(kind, sa)

(* The old process will come back to the account.                          *)
OldHears(sa) ==
    sa \in oldQueue \/ Old!PassesFilter(sa, oldAccounts[sa], accounts[sa])

(* What is under way for the account is for what it asks now, in both.     *)
Quiet(sa) ==
    /\ sa \notin queue \cup contested
    /\ oldRunning => ~OldHears(sa) /\ Admits(OldRules, sa, accounts[sa])

Has(kind, sa) == HasObject(kind, sa, Normal(accounts[sa]))

(* A worker has begun to write the objects of the account.                 *)
Provides(w, sa) ==
    /\ w.pc = "write" /\ w.sa = sa
    /\ \A i \in 1 .. w.step - 1 : Has(WriteOrder[i], sa)

(* Whoever of the two is writing an account that is quiet, the objects it  *)
(* has passed stay what they should be.                                    *)
RolloutProvisionInv ==
    running => \A sa \in ServiceAccounts :
        Admitted(sa) /\ Quiet(sa) =>
            \/ Provides(work, sa) \/ Provides(oldWork, sa)
            \/ \A kind \in Kinds : Has(kind, sa)

(* The three properties follow from this conjunction, which every step of  *)
(* either process preserves.                                               *)
RolloutInv ==
    /\ RolloutTypeOK
    /\ WorkersInv
    /\ SteadyInv
    /\ RolloutOrphanInv
    /\ RolloutProvisionInv
=============================================================================
