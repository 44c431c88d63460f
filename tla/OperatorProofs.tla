--------------------------- MODULE OperatorProofs ---------------------------
(***************************************************************************)
(* Theorems about Operator, for any accounts, annotations and rule lists.  *)
(***************************************************************************)
EXTENDS Operator, TLAPS

(* The orders in which the objects are written, removed and listed.        *)
LEMMA Orders ==
    /\ WriteOrder[1] = "policy" /\ WriteOrder[2] = "role" /\ WriteOrder[3] = "secret"
    /\ RemoveOrder[1] = "secret" /\ RemoveOrder[2] = "role" /\ RemoveOrder[3] = "policy"
    /\ ListOrder[1] = "secret" /\ ListOrder[2] = "role" /\ ListOrder[3] = "policy"
BY DEF WriteOrder, RemoveOrder, ListOrder

(* Every kind has its place in each of them.                               *)
LEMMA OrdersCover ==
    /\ \A i \in 1 .. 3 : /\ WriteOrder[i] \in Kinds
                         /\ RemoveOrder[i] \in Kinds
                         /\ ListOrder[i] \in Kinds
    /\ \A kind \in Kinds : /\ \E i \in 1 .. 3 : WriteOrder[i] = kind
                           /\ \E i \in 1 .. 3 : RemoveOrder[i] = kind
                           /\ \E i \in 1 .. 3 : ListOrder[i] = kind
BY Orders DEF Kinds

(* What is stored has the type of Vault's objects.                         *)
LEMMA ContentType ==
    ASSUME NEW ann \in AnnotationSets, NEW kind \in Kinds
    PROVE  Content(kind, ann) \in Contents
<1>1. CASE kind = "policy"
  BY <1>1 DEF Content, Contents
<1>2. CASE kind = "role"
  BY <1>2 DEF Contents
<1>3. CASE kind = "secret"
  BY <1>3 DEF Contents
<1> QED BY <1>1, <1>2, <1>3 DEF Kinds

(* An update the event filter drops leaves the content as it is            *)
(* (processUpdateEvent against secretPayload and secretTTL).               *)
THEOREM UnnoticedKeepsContent ==
    ASSUME NEW old, NEW new, ~processUpdateEvent(old, new), NEW kind \in Kinds
    PROVE  Content(kind, Normal(old)) = Content(kind, Normal(new))
<1>1. /\ Normal(old).identity = Normal(new).identity
      /\ Normal(old).ttl = Normal(new).ttl
      /\ Provider = "gcp" => Normal(old).scopes = Normal(new).scopes
  BY DEF processUpdateEvent, Normal
<1>2. secretTTL(Normal(old)) = secretTTL(Normal(new))
  BY <1>1 DEF secretTTL
<1>3. secretPayload(Normal(old)) = secretPayload(Normal(new))
  BY <1>1, <1>2, ProviderAssumption DEF secretPayload
<1> QED BY <1>2, <1>3 DEF Content, Kinds

(* A TTL that is accepted is not the empty text.                           *)
LEMMA AcceptedIsNormal ==
    ASSUME NEW ann, TTLAccepted(ann), NEW kind \in Kinds
    PROVE  Content(kind, Normal(ann)) = Content(kind, ann)
<1>1. /\ Normal(ann).identity = ann.identity
      /\ Normal(ann).ttl = ann.ttl
      /\ Normal(ann).scopes = ann.scopes
  BY DEF TTLAccepted, Normal, TTLText
<1>2. secretTTL(Normal(ann)) = secretTTL(ann)
  BY <1>1 DEF secretTTL
<1>3. secretPayload(Normal(ann)) = secretPayload(ann)
  BY <1>1, <1>2 DEF secretPayload
<1> QED BY <1>2, <1>3 DEF Content, Kinds

(* A change of the admission never goes unnoticed.                         *)
LEMMA AdmissionIsNoticed ==
    ASSUME NEW ruleList, NEW sa, NEW old, NEW new,
           Admits(ruleList, sa, old) # Admits(ruleList, sa, new)
    PROVE  \/ old = None /\ Admits(ruleList, sa, new)
           \/ new = None /\ Admits(ruleList, sa, old)
           \/ None \notin {old, new} /\ processUpdateEvent(old, new)
BY DEF Admits, processUpdateEvent
-----------------------------------------------------------------------------
(* Type correctness.                                                       *)

(* A worker or a collection that is at rest has its type.                  *)
LEMMA Resting ==
    /\ Idle \in WorkStates /\ Idle.pc = "idle" /\ Idle.sa = None
    /\ GCStart \in GCStates /\ GCStart.pc = "list" /\ GCStart.sa = None
    /\ GCStart.listing = 1
    /\ GCDone \in GCStates /\ GCDone.pc = "done" /\ GCDone.sa = None
BY DEF Idle, WorkStates, GCStart, GCDone, GCAt, GCStates

(* The types hold in the initial states.                                   *)
LEMMA TypeInit == Init => TypeOK
<1> SUFFICES ASSUME Init PROVE TypeOK
  OBVIOUS
<1>1. vault \in [Kinds -> [ServiceAccounts -> Contents \cup {None}]]
  BY DEF Init
<1>2. clobbered \subseteq Kinds \X ServiceAccounts
  BY DEF Init
<1> QED BY <1>1, <1>2, Resting DEF Init, TypeOK

(* A request that Vault serves keeps the type of the objects.              *)
LEMMA StoreType ==
    ASSUME vault \in [Kinds -> [ServiceAccounts -> Contents \cup {None}]],
           NEW kind \in Kinds, NEW sa \in ServiceAccounts,
           NEW content \in Contents \cup {None}, Store(kind, sa, content)
    PROVE  vault' \in [Kinds -> [ServiceAccounts -> Contents \cup {None}]]
BY DEF Store

(* The worker goes on to the next request of the same account, or rests.   *)
LEMMA AdvanceType ==
    ASSUME work \in WorkStates, work.pc # "idle", Advance
    PROVE  /\ work' \in WorkStates
           /\ \/ work' = Idle
              \/ work'.pc = work.pc /\ work'.sa = work.sa /\ work'.ann = work.ann
BY Resting DEF Advance, WorkStates

(* Every step keeps the types.                                             *)
LEMMA TypeStep == TypeOK /\ [Next]_vars => TypeOK'
<1> SUFFICES ASSUME TypeOK, [Next]_vars PROVE TypeOK'
  OBVIOUS
<1> USE Resting DEF TypeOK
<1>1. ASSUME NEW sa \in ServiceAccounts, NEW ann \in AnnotationSets \cup {None},
             Change(sa, ann)
      PROVE  TypeOK'
  BY <1>1 DEF Change
<1>2. ASSUME NEW sa \in ServiceAccounts, ReconcileRemove(sa)
      PROVE  TypeOK'
  BY <1>2, NoneAssumption DEF ReconcileRemove, Take, WorkStates
<1>3. ASSUME NEW sa \in ServiceAccounts, ReconcileWrite(sa)
      PROVE  TypeOK'
  BY <1>3, NoneAssumption DEF ReconcileWrite, Take, WorkStates, Admitted, Admits
<1>4. ASSUME NEW sa \in ServiceAccounts, ReconcileRejectTTL(sa)
      PROVE  TypeOK'
  BY <1>4 DEF ReconcileRejectTTL, Take
<1>5. ASSUME NEW sa \in ServiceAccounts, ReadEnvironmentFails(sa)
      PROVE  TypeOK'
  BY <1>5 DEF ReadEnvironmentFails, Take
<1>6. ASSUME NEW sa \in ServiceAccounts, Requeue(sa)
      PROVE  TypeOK'
  BY <1>6 DEF Requeue
<1>7. ASSUME NEW sa \in ServiceAccounts, WriteStep(sa)
      PROVE  TypeOK'
  <2>1. WriteOrder[work.step] \in Kinds
    BY OrdersCover DEF WorkStates, GCStates
  <2>2. Content(WriteOrder[work.step], work.ann) \in Contents
    BY <1>7, <2>1, ContentType DEF WriteStep, WorkStates
  <2>3. vault' \in [Kinds -> [ServiceAccounts -> Contents \cup {None}]]
    BY <1>7, <2>1, <2>2, StoreType DEF WriteStep
  <2>4. /\ work' \in WorkStates
        /\ work' = Idle \/ (work'.sa = work.sa /\ work'.ann = work.ann /\ work'.pc = "write")
    BY <1>7, AdvanceType DEF WriteStep
  <2>5. clobbered' \subseteq clobbered
    BY <1>7 DEF WriteStep
  <2> HIDE DEF TypeOK
  <2>6. /\ TypeOK /\ work.pc = "write"
        /\ UNCHANGED <<accounts, running, rules, queue, delayed, gc, steady>>
    BY <1>7 DEF WriteStep
  <2> QED BY <2>3, <2>4, <2>5, <2>6, Resting DEF TypeOK
<1>8. ASSUME NEW sa \in ServiceAccounts, RemoveStep(sa)
      PROVE  TypeOK'
  <2>1. RemoveOrder[work.step] \in Kinds
    BY OrdersCover DEF WorkStates, GCStates
  <2>2. vault' \in [Kinds -> [ServiceAccounts -> Contents \cup {None}]]
    BY <1>8, <2>1, StoreType DEF RemoveStep
  <2>3. /\ work' \in WorkStates
        /\ work' = Idle \/ (work'.sa = work.sa /\ work'.ann = work.ann /\ work'.pc = "remove")
    BY <1>8, AdvanceType DEF RemoveStep
  <2> HIDE DEF TypeOK
  <2>4. /\ TypeOK /\ work.pc = "remove"
        /\ UNCHANGED <<accounts, running, rules, queue, delayed, gc, clobbered, steady>>
    BY <1>8 DEF RemoveStep
  <2> QED BY <2>2, <2>3, <2>4, Resting DEF TypeOK
<1>9. CASE RequestFails
  <2>1. WriteOrder[work.step] \in Kinds /\ RemoveOrder[work.step] \in Kinds
    BY OrdersCover DEF WorkStates, GCStates
  <2>2. work.sa \in ServiceAccounts
    BY <1>9 DEF RequestFails, WorkStates
  <2>3. work.pc = "write" => Content(WriteOrder[work.step], work.ann) \in Contents
    BY <2>1, ContentType DEF WorkStates
  <2>4. vault' \in [Kinds -> [ServiceAccounts -> Contents \cup {None}]]
    BY <1>9, <2>1, <2>2, <2>3 DEF RequestFails, Store
  <2> QED BY <1>9, <2>2, <2>4 DEF RequestFails
<1>10. CASE GCList
  BY <1>10 DEF GCList, GCUnchanged, GCStates
<1>11. ASSUME NEW sa \in ServiceAccounts, GCCheck(sa)
       PROVE  TypeOK'
  BY <1>11, NoneAssumption DEF GCCheck, GCUnchanged, GCAt, GCStates
<1>12. CASE GCRemoveStep
  <2>1. RemoveOrder[gc.step] \in Kinds
    BY OrdersCover DEF WorkStates, GCStates
  <2> QED BY <1>12, <2>1 DEF GCRemoveStep, GCDelete, Store, GCUnchanged, GCAt, GCStates
<1>13. CASE GCNext
  BY <1>13 DEF GCNext, GCUnchanged, GCAt, GCStates
<1>14. CASE GCFails
  <2>1. RemoveOrder[gc.step] \in Kinds
    BY OrdersCover DEF WorkStates, GCStates
  <2>2. gc.pc = "remove" => gc.sa \in ServiceAccounts
    BY DEF GCStates
  <2>3. vault' \in [Kinds -> [ServiceAccounts -> Contents \cup {None}]]
    BY <1>14, <2>1, <2>2 DEF GCFails, Store
  <2>4. clobbered' \subseteq Kinds \X ServiceAccounts
    BY <1>14 DEF GCFails
  <2> QED BY <1>14, <2>3, <2>4 DEF GCFails, Stop
<1>15. CASE Crash
  BY <1>15 DEF Crash, Stop
<1>16. ASSUME NEW ruleList \in RuleLists, Startup(ruleList)
       PROVE  TypeOK'
  BY <1>16 DEF Startup
<1>17. CASE UNCHANGED vars
  BY <1>17 DEF vars, process
<1> QED
  BY <1>1, <1>2, <1>3, <1>4, <1>5, <1>6, <1>7, <1>8, <1>9, <1>10, <1>11, <1>12,
     <1>13, <1>14, <1>15, <1>16, <1>17 DEF Next

(* Every variable keeps its type: what is under way always names an        *)
(* account, and Vault only holds contents of annotations there may be.     *)
THEOREM TypeCorrect == Spec => []TypeOK
BY TypeInit, TypeStep, PTL DEF Spec
-----------------------------------------------------------------------------
(* The inductive invariant.                                                *)

(* The invariant holds when no process has ever run.                       *)
LEMMA InvInit == Init => IInv
<1> SUFFICES ASSUME Init PROVE IInv
  OBVIOUS
<1>1. TypeOK
  BY TypeInit
<1>2. DownInv /\ WriteInv /\ RemoveInv
  BY Resting DEF Init, DownInv, WriteInv, RemoveInv
<1>3. OrphanInv /\ ProvisionInv /\ SteadyInv
  BY DEF Init, OrphanInv, ProvisionInv, SteadyInv
<1> QED BY <1>1, <1>2, <1>3 DEF IInv

(* A change of an account either is noticed, or changes nothing of what is *)
(* to be stored for it.                                                    *)
LEMMA ChangeInv ==
    ASSUME IInv, TypeOK', NEW sa \in ServiceAccounts,
           NEW ann \in AnnotationSets \cup {None}, Change(sa, ann)
    PROVE  IInv'
<1> USE DEF IInv
<1>1. /\ UNCHANGED <<running, rules, delayed, work, gc, vault, clobbered>>
      /\ queue \subseteq queue'
      /\ \A s \in ServiceAccounts : s # sa => accounts'[s] = accounts[s]
      /\ accounts'[sa] = ann
  BY DEF Change, TypeOK
<1>2. running /\ PassesFilter(sa, accounts[sa], ann) => sa \in queue'
  BY DEF Change
<1>3. \A s \in ServiceAccounts :
          Admitted(s)' # Admitted(s) => s = sa /\ (running => sa \in queue')
  BY <1>1, <1>2, AdmissionIsNoticed DEF Admitted, PassesFilter
<1>4. DownInv'
  BY <1>1 DEF DownInv, Change
<1>5. WriteInv'
  <2> SUFFICES ASSUME work.pc = "write", work.sa = sa, sa \notin queue'
               PROVE  ann # None /\ ~processUpdateEvent(work.ann, ann)
    BY <1>1 DEF WriteInv, TypeOK, WorkStates
  <2>1. running
    BY Resting DEF DownInv
  <2>2. /\ accounts[sa] # None
        /\ ~processUpdateEvent(work.ann, accounts[sa])
        /\ Admits(rules, sa, work.ann)
    BY <1>1 DEF WriteInv
  <2>3. Admits(rules, sa, accounts[sa])
    BY <2>2 DEF Admits, processUpdateEvent
  <2>4. ann # None /\ ~processUpdateEvent(accounts[sa], ann)
    BY <1>2, <2>1, <2>2, <2>3 DEF PassesFilter
  <2> QED BY <2>2, <2>4 DEF processUpdateEvent
<1>6. RemoveInv'
  <2> SUFFICES ASSUME work.pc = "remove" PROVE ~Admitted(work.sa)' \/ work.sa \in queue'
    BY <1>1 DEF RemoveInv
  <2>1. running
    BY Resting DEF DownInv
  <2>2. work.sa \in ServiceAccounts
    BY DEF TypeOK, WorkStates
  <2> QED BY <1>1, <1>3, <2>1, <2>2 DEF RemoveInv
<1>7. OrphanInv'
  <2> SUFFICES ASSUME running, NEW s \in ServiceAccounts, NEW kind \in Kinds,
                      ~Admitted(s)', vault[kind][s] # None
               PROVE  RemovalPending(kind, s)'
    BY <1>1 DEF OrphanInv
  <2>1. CASE Admitted(s)
    BY <1>3, <2>1 DEF RemovalPending
  <2>2. CASE ~Admitted(s)
    BY <1>1, <2>2 DEF OrphanInv, RemovalPending
  <2> QED BY <2>1, <2>2
<1>8. ProvisionInv'
  <2> SUFFICES ASSUME running, NEW s \in ServiceAccounts, Admitted(s)',
                      s \notin queue', s \notin delayed', ~WriteProgress(s)'
               PROVE  \A kind \in Kinds : HasObject(kind, s, Normal(accounts[s]))'
    BY <1>1 DEF ProvisionInv
  <2>1. Admitted(s)
    BY <1>3
  <2>2. \A kind \in Kinds : HasObject(kind, s, Normal(accounts[s]))
    BY <1>1, <2>1 DEF ProvisionInv, WriteProgress, HasObject, HasContent
  <2>3. CASE s = sa
    <3>1. ~processUpdateEvent(accounts[sa], ann)
      BY <1>1, <1>2, <2>1, <2>3 DEF PassesFilter, Admitted, Admits
    <3> QED BY <1>1, <2>2, <2>3, <3>1, UnnoticedKeepsContent DEF HasObject, HasContent
  <2>4. CASE s # sa
    BY <1>1, <2>2, <2>4 DEF HasObject, HasContent
  <2> QED BY <2>3, <2>4
<1>9. SteadyInv'
  BY <1>1 DEF SteadyInv, Change, Admitted, TypeOK
<1> QED BY <1>4, <1>5, <1>6, <1>7, <1>8, <1>9

(* The worker takes an account off the queue only to remove it, to write   *)
(* it, or to wait for the rate limiter.                                    *)
LEMMA TakeInv ==
    ASSUME IInv, TypeOK', NEW sa \in ServiceAccounts,
           \/ ReconcileRemove(sa) \/ ReconcileWrite(sa)
           \/ ReconcileRejectTTL(sa) \/ ReadEnvironmentFails(sa)
    PROVE  IInv'
<1> USE DEF IInv
<1>1. /\ UNCHANGED <<accounts, running, rules, gc, vault, clobbered, steady>>
      /\ running
      /\ work.pc = "idle"
      /\ queue' = queue \ {sa}
      /\ delayed \subseteq delayed'
  BY DEF ReconcileRemove, ReconcileWrite, ReconcileRejectTTL, ReadEnvironmentFails, Take
<1>2. \/ /\ ~Admitted(sa)
         /\ work' = [pc |-> "remove", sa |-> sa, ann |-> None, step |-> 1]
      \/ /\ Admitted(sa) /\ TTLAccepted(accounts[sa])
         /\ work' = [pc |-> "write", sa |-> sa, ann |-> accounts[sa], step |-> 1]
      \/ sa \in delayed' /\ work' = work
  BY DEF ReconcileRemove, ReconcileWrite, ReconcileRejectTTL, ReadEnvironmentFails
<1>3. \A s \in ServiceAccounts : Admitted(s)' = Admitted(s)
  BY <1>1 DEF Admitted
<1>4. DownInv'
  BY <1>1 DEF DownInv
<1>5. WriteInv'
  BY <1>1, <1>2 DEF WriteInv, Admitted, Admits, processUpdateEvent
<1>6. RemoveInv'
  BY <1>1, <1>2, <1>3 DEF RemoveInv
<1>7. OrphanInv'
  <2> SUFFICES ASSUME NEW s \in ServiceAccounts, NEW kind \in Kinds,
                      ~Admitted(s), vault[kind][s] # None
               PROVE  RemovalPending(kind, s)'
    BY <1>1, <1>3 DEF OrphanInv
  <2>1. RemovalPending(kind, s)
    BY <1>1 DEF OrphanInv
  <2>2. CASE s = sa
    BY <1>2, <2>2, OrdersCover DEF RemovalPending
  <2>3. CASE s # sa
    BY <1>1, <2>1, <2>3 DEF RemovalPending
  <2> QED BY <2>2, <2>3
<1>8. ProvisionInv'
  <2> SUFFICES ASSUME NEW s \in ServiceAccounts, Admitted(s),
                      s \notin queue', s \notin delayed', ~WriteProgress(s)'
               PROVE  \A kind \in Kinds : HasObject(kind, s, Normal(accounts[s]))'
    BY <1>1, <1>3 DEF ProvisionInv
  <2>1. s # sa
    BY <1>2 DEF WriteProgress
  <2>2. \A kind \in Kinds : HasObject(kind, s, Normal(accounts[s]))
    BY <1>1, <2>1 DEF ProvisionInv, WriteProgress
  <2> QED BY <1>1, <2>2 DEF HasObject, HasContent
<1>9. SteadyInv'
  BY <1>1, <1>2, <1>3 DEF SteadyInv, TypeOK
<1> QED BY <1>4, <1>5, <1>6, <1>7, <1>8, <1>9

(* The rate limiter puts an account back on the queue.                     *)
LEMMA RequeueInv ==
    ASSUME IInv, TypeOK', NEW sa \in ServiceAccounts, Requeue(sa)
    PROVE  IInv'
<1> USE DEF IInv
<1>1. /\ UNCHANGED <<accounts, running, rules, work, gc, vault, clobbered, steady>>
      /\ sa \in delayed
      /\ queue' = queue \cup {sa}
      /\ delayed' = delayed \ {sa}
  BY DEF Requeue
<1>2. DownInv'
  BY <1>1 DEF DownInv
<1>3. WriteInv' /\ RemoveInv'
  BY <1>1 DEF WriteInv, RemoveInv, Admitted
<1>4. OrphanInv'
  BY <1>1 DEF OrphanInv, RemovalPending, Admitted
<1>5. ProvisionInv'
  BY <1>1 DEF ProvisionInv, WriteProgress, HasObject, HasContent, Admitted
<1>6. SteadyInv'
  BY <1>1 DEF SteadyInv, Admitted, TypeOK
<1> QED BY <1>2, <1>3, <1>4, <1>5, <1>6

(* One request of writeToVault that Vault serves, whether the worker goes  *)
(* on (WriteStep) or gives up because the answer is lost (RequestFails).   *)
LEMMA WriteServedInv ==
    ASSUME IInv, TypeOK', work.pc = "write",
           Store(WriteOrder[work.step], work.sa, Content(WriteOrder[work.step], work.ann)),
           clobbered' = clobbered \ {<<WriteOrder[work.step], work.sa>>},
           \/ Advance /\ delayed' = delayed
           \/ work' = Idle /\ delayed' = delayed \cup {work.sa},
           UNCHANGED <<accounts, running, rules, queue, gc, steady>>
    PROVE  IInv'
<1> USE DEF IInv
<1> DEFINE sa == work.sa
           step == work.step
<1>1. /\ sa \in ServiceAccounts
      /\ step \in 1 .. 3
      /\ running
  BY Resting DEF TypeOK, WorkStates, DownInv
<1>2. /\ WriteOrder[step] \in Kinds
      /\ vault'[WriteOrder[step]][sa] = Content(WriteOrder[step], work.ann)
      /\ \A s \in ServiceAccounts, kind \in Kinds :
            s # sa \/ kind # WriteOrder[step] =>
                vault'[kind][s] = vault[kind][s]
  BY <1>1, OrdersCover DEF Store, TypeOK
<1>3. \/ work' = Idle
      \/ /\ work'.pc = "write" /\ work'.sa = sa /\ work'.ann = work.ann
         /\ step # 3 /\ work'.step = step + 1
  BY <1>1 DEF Advance, TypeOK, WorkStates
<1>4. DownInv'
  BY <1>1 DEF DownInv
<1>5. WriteInv'
  BY <1>3, Resting DEF WriteInv
<1>6. RemoveInv'
  BY <1>3, Resting DEF RemoveInv
<1>7. OrphanInv'
  <2> SUFFICES ASSUME NEW s \in ServiceAccounts, NEW kind \in Kinds,
                      ~Admitted(s), vault'[kind][s] # None
               PROVE  RemovalPending(kind, s)'
    BY DEF OrphanInv, Admitted
  <2>1. CASE s = sa
    <3>1. sa \in queue
      BY <2>1 DEF WriteInv, Admitted, Admits, processUpdateEvent
    <3> QED BY <2>1, <3>1 DEF RemovalPending
  <2>2. CASE s # sa
    <3>1. RemovalPending(kind, s)
      BY <1>1, <1>2, <2>2 DEF OrphanInv
    <3> QED BY <2>2, <3>1 DEF RemovalPending
  <2> QED BY <2>1, <2>2
<1>8. ProvisionInv'
  <2> SUFFICES ASSUME NEW s \in ServiceAccounts, Admitted(s),
                      s \notin queue, s \notin delayed', ~WriteProgress(s)'
               PROVE  \A kind \in Kinds : HasObject(kind, s, Normal(accounts[s]))'
    BY DEF ProvisionInv, Admitted
  <2>1. CASE s # sa
    <3>1. \A kind \in Kinds : HasObject(kind, s, Normal(accounts[s]))
      BY <1>1, <2>1 DEF ProvisionInv, WriteProgress
    <3> QED BY <1>2, <2>1, <3>1 DEF HasObject, HasContent
  <2>2. CASE s = sa
    <3>1. /\ TTLAccepted(work.ann)
          /\ ~processUpdateEvent(work.ann, accounts[s])
      BY <2>2 DEF WriteInv
    <3>2. \A kind \in Kinds :
              Content(kind, work.ann) = Content(kind, Normal(accounts[s]))
      BY <3>1, AcceptedIsNormal, UnnoticedKeepsContent
    <3>3. \/ \A i \in 1 .. step - 1 : HasObject(WriteOrder[i], s, work.ann)
          \/ \A kind \in Kinds : HasObject(kind, s, Normal(accounts[s]))
      BY <1>1, <2>2 DEF ProvisionInv, WriteProgress
    <3>4. CASE \A kind \in Kinds : HasObject(kind, s, Normal(accounts[s]))
      BY <1>2, <2>2, <3>2, <3>4 DEF HasObject, HasContent
    <3>5. CASE \A i \in 1 .. step - 1 : HasObject(WriteOrder[i], s, work.ann)
      <4>1. \A i \in 1 .. step :
                \/ vault'[WriteOrder[i]][s] = Content(WriteOrder[i], work.ann)
                \/ <<WriteOrder[i], s>> \in clobbered'
        <5> TAKE i \in 1 .. step
        <5>1. CASE WriteOrder[i] = WriteOrder[step]
          BY <1>2, <2>2, <5>1
        <5>2. CASE WriteOrder[i] # WriteOrder[step]
          <6>1. i \in 1 .. step - 1 /\ WriteOrder[i] \in Kinds
            BY <1>1, <5>2, OrdersCover
          <6> QED BY <1>2, <2>2, <3>5, <5>2, <6>1 DEF HasObject, HasContent
        <5> QED BY <5>1, <5>2
      <4>2. step = 3
        <5> SUFFICES ASSUME step # 3 PROVE FALSE
          OBVIOUS
        <5>1. /\ work'.pc = "write" /\ work'.sa = sa /\ work'.ann = work.ann
              /\ work'.step = step + 1
          BY <1>1, <2>2 DEF Advance, TypeOK, WorkStates
        <5> QED BY <1>1, <2>2, <4>1, <5>1 DEF WriteProgress, HasObject, HasContent
      <4> QED BY <3>2, <4>1, <4>2, OrdersCover DEF HasObject, HasContent
    <3> QED BY <3>3, <3>4, <3>5
  <2> QED BY <2>1, <2>2
<1>9. SteadyInv'
  BY <1>3, Resting DEF SteadyInv, Admitted, TypeOK
<1> QED BY <1>4, <1>5, <1>6, <1>7, <1>8, <1>9

(* The same of one request of removeFromVault, called by Reconcile.        *)
LEMMA RemoveServedInv ==
    ASSUME IInv, TypeOK', work.pc = "remove",
           Store(RemoveOrder[work.step], work.sa, None),
           \/ Advance /\ delayed' = delayed
           \/ work' = Idle /\ delayed' = delayed \cup {work.sa},
           UNCHANGED <<accounts, running, rules, queue, gc, clobbered, steady>>
    PROVE  IInv'
<1> USE DEF IInv
<1> DEFINE sa == work.sa
           step == work.step
<1>1. /\ sa \in ServiceAccounts
      /\ step \in 1 .. 3
      /\ running
  BY Resting DEF TypeOK, WorkStates, DownInv
<1>2. /\ RemoveOrder[step] \in Kinds
      /\ vault'[RemoveOrder[step]][sa] = None
      /\ \A s \in ServiceAccounts, kind \in Kinds :
            s # sa \/ kind # RemoveOrder[step] =>
                vault'[kind][s] = vault[kind][s]
  BY <1>1, OrdersCover DEF Store, TypeOK
<1>3. \/ work' = Idle
      \/ /\ work'.pc = "remove" /\ work'.sa = sa
         /\ step # 3 /\ work'.step = step + 1
  BY <1>1 DEF Advance, TypeOK, WorkStates
<1>4. DownInv'
  BY <1>1 DEF DownInv
<1>5. WriteInv'
  BY <1>3, Resting DEF WriteInv
<1>6. RemoveInv'
  BY <1>3, Resting DEF RemoveInv, Admitted
<1>7. OrphanInv'
  <2> SUFFICES ASSUME NEW s \in ServiceAccounts, NEW kind \in Kinds,
                      ~Admitted(s), vault'[kind][s] # None
               PROVE  RemovalPending(kind, s)'
    BY DEF OrphanInv, Admitted
  <2>1. vault[kind][s] # None /\ ~(s = sa /\ kind = RemoveOrder[step])
    BY <1>2
  <2>2. RemovalPending(kind, s)
    BY <1>1, <2>1 DEF OrphanInv
  <2>3. CASE s = sa /\ s \notin delayed'
                    /\ \E i \in step .. 3 : RemoveOrder[i] = kind
    <3>1. Advance
      BY <2>3
    <3>2. PICK i \in step .. 3 : RemoveOrder[i] = kind
      BY <2>3
    <3>3. i \in step + 1 .. 3 /\ step # 3
      BY <1>1, <2>1, <2>3, <3>2
    <3>4. work'.pc = "remove" /\ work'.sa = sa /\ work'.step = step + 1
      BY <1>1, <3>1, <3>3 DEF Advance, TypeOK, WorkStates
    <3> QED BY <2>3, <3>2, <3>3, <3>4 DEF RemovalPending
  <2> QED BY <2>2, <2>3 DEF RemovalPending
<1>8. ProvisionInv'
  <2> SUFFICES ASSUME NEW s \in ServiceAccounts, Admitted(s),
                      s \notin queue, s \notin delayed'
               PROVE  \A kind \in Kinds : HasObject(kind, s, Normal(accounts[s]))'
    BY DEF ProvisionInv, Admitted
  <2>1. s # sa
    BY DEF RemoveInv
  <2>2. \A kind \in Kinds : HasObject(kind, s, Normal(accounts[s]))
    BY <1>1 DEF ProvisionInv, WriteProgress
  <2> QED BY <1>2, <2>1, <2>2 DEF HasObject, HasContent
<1>9. SteadyInv'
  BY <1>3, Resting DEF SteadyInv, Admitted, TypeOK
<1> QED BY <1>4, <1>5, <1>6, <1>7, <1>8, <1>9

(* A request of Reconcile fails, whether or not Vault has served it        *)
(* (operator.go:231-260 and 270-285).                                      *)
LEMMA RequestFailsInv ==
    ASSUME IInv, TypeOK', RequestFails
    PROVE  IInv'
<1> USE DEF IInv
<1>1. CASE work.pc = "write" /\ ~UNCHANGED <<vault, clobbered>>
  BY <1>1, WriteServedInv DEF RequestFails
<1>2. CASE work.pc = "remove" /\ ~UNCHANGED <<vault, clobbered>>
  BY <1>2, RemoveServedInv DEF RequestFails
<1>3. CASE UNCHANGED <<vault, clobbered>>
  <2>1. /\ UNCHANGED <<accounts, running, rules, queue, gc, steady>>
        /\ work.pc # "idle"
        /\ work' = Idle
        /\ delayed' = delayed \cup {work.sa}
    BY DEF RequestFails
  <2>2. running
    BY <2>1, Resting DEF DownInv
  <2>3. DownInv'
    BY <2>1, <2>2 DEF DownInv
  <2>4. WriteInv' /\ RemoveInv'
    BY <2>1, Resting DEF WriteInv, RemoveInv
  <2>5. OrphanInv'
    BY <1>3, <2>1, <2>2 DEF OrphanInv, RemovalPending, Admitted
  <2>6. ProvisionInv'
    BY <1>3, <2>1, <2>2 DEF ProvisionInv, WriteProgress, HasObject, HasContent, Admitted
  <2>7. SteadyInv'
    BY <2>1, Resting DEF SteadyInv, Admitted, TypeOK
  <2> QED BY <2>3, <2>4, <2>5, <2>6, <2>7
<1> QED BY <1>1, <1>2, <1>3 DEF RequestFails

(* The garbage collection reads: a key is dropped only when its account is *)
(* admitted or is being removed.                                           *)
LEMMA GCReadInv ==
    ASSUME IInv, TypeOK',
           GCList \/ GCNext \/ \E sa \in ServiceAccounts : GCCheck(sa)
    PROVE  IInv'
<1> USE DEF IInv
<1>1. /\ UNCHANGED <<accounts, running, rules, queue, delayed, work, vault, clobbered, steady>>
      /\ gc.pc # "done" /\ gc.pc # "remove"
  BY DEF GCList, GCNext, GCCheck, GCUnchanged
<1>2. running
  BY <1>1, Resting DEF DownInv
<1>3. DownInv'
  BY <1>1, <1>2 DEF DownInv
<1>4. WriteInv' /\ RemoveInv'
  BY <1>1 DEF WriteInv, RemoveInv, Admitted
<1>5. OrphanInv'
  <2> SUFFICES ASSUME NEW s \in ServiceAccounts, NEW kind \in Kinds,
                      ~Admitted(s), vault[kind][s] # None
               PROVE  RemovalPending(kind, s)'
    BY <1>1 DEF OrphanInv, Admitted
  <2>1. RemovalPending(kind, s)
    BY <1>2 DEF OrphanInv
  <2>2. gc.listing \in 1 .. 3
    BY DEF TypeOK, GCStates
  <2>3. CASE GCList
    <3>1. /\ gc.pc = "list"
          /\ gc'.pc = "scan" /\ gc'.listing = gc.listing
          /\ gc'.keys = {sa \in ServiceAccounts :
                            vault[ListOrder[gc.listing]][sa] # None}
      BY <2>3 DEF GCList, TypeOK, GCStates
    <3> QED BY <1>1, <2>1, <3>1 DEF RemovalPending
  <2>4. CASE GCNext
    <3>1. /\ gc.pc = "scan" /\ gc.keys = {}
          /\ gc.listing = 3 \/ (gc'.pc = "list" /\ gc'.listing = gc.listing + 1)
      BY <2>2, <2>4 DEF GCNext, GCAt
    <3> QED BY <1>1, <2>1, <2>2, <3>1 DEF RemovalPending
  <2>5. ASSUME NEW sa \in ServiceAccounts, GCCheck(sa)
        PROVE  RemovalPending(kind, s)'
    <3>1. /\ gc.pc = "scan"
          /\ gc'.listing = gc.listing
          /\ gc'.keys = gc.keys \ {sa}
          /\ gc'.pc # "done"
          /\ ~Admitted(sa) => gc'.pc = "remove" /\ gc'.sa = sa /\ gc'.step = 1
      BY <2>5 DEF GCCheck, GCAt, TypeOK, GCStates
    <3>2. CASE s = sa
      BY <3>1, <3>2, OrdersCover DEF RemovalPending
    <3>3. CASE s # sa
      BY <1>1, <2>1, <3>1, <3>3 DEF RemovalPending
    <3> QED BY <3>2, <3>3
  <2> QED BY <2>3, <2>4, <2>5
<1>6. ProvisionInv'
  BY <1>1 DEF ProvisionInv, WriteProgress, HasObject, HasContent, Admitted
<1>7. SteadyInv'
  <2>1. \A s \in ServiceAccounts :
            gc'.pc = "remove" /\ gc'.sa = s => ~Admitted(s)
    <3>1. CASE GCList
      BY <3>1 DEF GCList, TypeOK, GCStates
    <3>2. CASE GCNext
      BY <3>2, Resting DEF GCNext, GCAt
    <3>3. ASSUME NEW sa \in ServiceAccounts, GCCheck(sa)
          PROVE  \A s \in ServiceAccounts :
                     gc'.pc = "remove" /\ gc'.sa = s => ~Admitted(s)
      BY <3>3 DEF GCCheck, GCAt, TypeOK, GCStates
    <3> QED BY <3>1, <3>2, <3>3
  <2> QED BY <1>1, <2>1 DEF SteadyInv, Admitted, TypeOK
<1> QED BY <1>3, <1>4, <1>5, <1>6, <1>7

(* A request of the garbage collection's removal.                          *)
LEMMA GCRemoveInv ==
    ASSUME IInv, TypeOK', GCRemoveStep
    PROVE  IInv'
<1> USE DEF IInv
<1> DEFINE sa == gc.sa
           step == gc.step
<1>1. /\ UNCHANGED <<accounts, running, rules, queue, delayed, work, steady>>
      /\ gc.pc = "remove"
      /\ sa \in ServiceAccounts
      /\ step \in 1 .. 3
      /\ gc.listing \in 1 .. 3
      /\ running
  BY Resting DEF GCRemoveStep, GCUnchanged, TypeOK, GCStates, DownInv
<1>2. /\ RemoveOrder[step] \in Kinds
      /\ vault'[RemoveOrder[step]][sa] = None
      /\ \A s \in ServiceAccounts, kind \in Kinds :
            s # sa \/ kind # RemoveOrder[step] =>
                vault'[kind][s] = vault[kind][s]
  BY <1>1, OrdersCover DEF GCRemoveStep, GCDelete, Store, TypeOK
<1>3. /\ clobbered \subseteq clobbered'
      /\ Admitted(sa) => <<RemoveOrder[step], sa>> \in clobbered'
  BY DEF GCRemoveStep, GCDelete
<1>4. /\ gc'.listing = gc.listing /\ gc'.keys = gc.keys
      /\ \/ step = 3 /\ gc'.pc = "scan"
         \/ step # 3 /\ gc'.pc = "remove" /\ gc'.sa = sa /\ gc'.step = step + 1
  BY <1>1 DEF GCRemoveStep, GCAt, TypeOK, GCStates
<1>5. DownInv'
  BY <1>1 DEF DownInv
<1>6. WriteInv' /\ RemoveInv'
  BY <1>1 DEF WriteInv, RemoveInv, Admitted
<1>7. OrphanInv'
  <2> SUFFICES ASSUME NEW s \in ServiceAccounts, NEW kind \in Kinds,
                      ~Admitted(s), vault'[kind][s] # None
               PROVE  RemovalPending(kind, s)'
    BY <1>1 DEF OrphanInv, Admitted
  <2>1. vault[kind][s] # None /\ ~(s = sa /\ kind = RemoveOrder[step])
    BY <1>2
  <2>2. RemovalPending(kind, s)
    BY <1>1, <2>1 DEF OrphanInv
  <2>3. CASE s = sa /\ \E i \in step .. 3 : RemoveOrder[i] = kind
    <3>1. PICK i \in step .. 3 : RemoveOrder[i] = kind
      BY <2>3
    <3>2. i \in step + 1 .. 3 /\ step # 3
      BY <1>1, <2>1, <2>3, <3>1
    <3> QED BY <1>4, <2>3, <3>1, <3>2 DEF RemovalPending
  <2>4. CASE \/ s \in queue \cup delayed
             \/ /\ work.pc = "remove" /\ work.sa = s
                /\ \E i \in work.step .. 3 : RemoveOrder[i] = kind
    BY <1>1, <2>4 DEF RemovalPending
  <2>5. CASE \/ \E i \in gc.listing + 1 .. 3 : ListOrder[i] = kind
             \/ ListOrder[gc.listing] = kind /\ s \in gc.keys
    BY <1>4, <2>5 DEF RemovalPending
  <2> QED BY <1>1, <2>2, <2>3, <2>4, <2>5 DEF RemovalPending
<1>8. ProvisionInv'
  <2> SUFFICES ASSUME NEW s \in ServiceAccounts, Admitted(s),
                      s \notin queue, s \notin delayed, ~WriteProgress(s)'
               PROVE  \A kind \in Kinds : HasObject(kind, s, Normal(accounts[s]))'
    BY <1>1 DEF ProvisionInv, Admitted
  <2>1. \A kind \in Kinds : \A ann : HasObject(kind, s, ann) => HasObject(kind, s, ann)'
    BY <1>2, <1>3 DEF HasObject, HasContent
  <2>2. WriteProgress(s) => WriteProgress(s)'
    <3>1. work.step \in 1 .. 3
      BY DEF TypeOK, WorkStates
    <3>2. \A i \in 1 .. work.step - 1 : WriteOrder[i] \in Kinds
      BY <3>1, OrdersCover
    <3> QED BY <1>1, <2>1, <3>2 DEF WriteProgress
  <2>3. \A kind \in Kinds : HasObject(kind, s, Normal(accounts[s]))
    BY <1>1, <2>2 DEF ProvisionInv
  <2> QED BY <1>1, <2>1, <2>3 DEF HasObject, HasContent
<1>9. SteadyInv'
  BY <1>1, <1>4 DEF SteadyInv, Admitted, TypeOK
<1> QED BY <1>5, <1>6, <1>7, <1>8, <1>9

(* A process that ends, for whatever reason, leaves the cluster and Vault  *)
(* to the next one.                                                        *)
LEMMA StopInv ==
    ASSUME IInv, TypeOK', Stop
    PROVE  IInv'
BY Resting DEF IInv, Stop, DownInv, WriteInv, RemoveInv, OrphanInv, ProvisionInv, SteadyInv

(* A process that starts has queued every admitted account, and has the    *)
(* listings of all the kinds before it.                                    *)
LEMMA StartupInv ==
    ASSUME IInv, TypeOK', NEW ruleList \in RuleLists, Startup(ruleList)
    PROVE  IInv'
<1> USE DEF IInv
<1>1. /\ UNCHANGED <<accounts, delayed, work, vault, clobbered>>
      /\ running' /\ work = Idle /\ gc' = GCStart
      /\ queue' = {s \in ServiceAccounts : Admitted(s)'}
      /\ steady' = {s \in ServiceAccounts : Admitted(s)'}
  BY DEF Startup, DownInv, Admitted
<1>2. DownInv' /\ WriteInv' /\ RemoveInv'
  BY <1>1, Resting DEF DownInv, WriteInv, RemoveInv
<1>3. OrphanInv'
  <2>1. \A kind \in Kinds :
            \/ \E i \in 2 .. 3 : ListOrder[i] = kind
            \/ ListOrder[1] = kind
    BY OrdersCover
  <2> QED BY <1>1, <2>1, Resting DEF OrphanInv, RemovalPending
<1>4. ProvisionInv'
  BY <1>1 DEF ProvisionInv
<1>5. SteadyInv'
  BY <1>1, Resting DEF SteadyInv
<1> QED BY <1>2, <1>3, <1>4, <1>5

(* Every step of the operator, of the cluster and of the process keeps the *)
(* invariant.                                                              *)
LEMMA InvStep == IInv /\ [Next]_vars => IInv'
<1> SUFFICES ASSUME IInv, [Next]_vars PROVE IInv'
  OBVIOUS
<1>1. TypeOK'
  BY TypeStep DEF IInv
<1>2. ASSUME NEW sa \in ServiceAccounts, NEW ann \in AnnotationSets \cup {None},
             Change(sa, ann)
      PROVE  IInv'
  BY <1>1, <1>2, ChangeInv
<1>3. ASSUME NEW sa \in ServiceAccounts,
             \/ ReconcileRemove(sa) \/ ReconcileWrite(sa)
             \/ ReconcileRejectTTL(sa) \/ ReadEnvironmentFails(sa)
      PROVE  IInv'
  BY <1>1, <1>3, TakeInv
<1>4. ASSUME NEW sa \in ServiceAccounts, Requeue(sa)
      PROVE  IInv'
  BY <1>1, <1>4, RequeueInv
<1>5. ASSUME NEW sa \in ServiceAccounts, WriteStep(sa)
      PROVE  IInv'
  BY <1>1, <1>5, WriteServedInv DEF WriteStep
<1>6. ASSUME NEW sa \in ServiceAccounts, RemoveStep(sa)
      PROVE  IInv'
  BY <1>1, <1>6, RemoveServedInv DEF RemoveStep
<1>7. CASE RequestFails
  BY <1>1, <1>7, RequestFailsInv
<1>8. CASE GCList \/ GCNext \/ \E sa \in ServiceAccounts : GCCheck(sa)
  BY <1>1, <1>8, GCReadInv
<1>9. CASE GCRemoveStep
  BY <1>1, <1>9, GCRemoveInv
<1>10. CASE GCFails \/ Crash
  BY <1>1, <1>10, StopInv DEF GCFails, Crash
<1>11. ASSUME NEW ruleList \in RuleLists, Startup(ruleList)
       PROVE  IInv'
  BY <1>1, <1>11, StartupInv
<1>12. CASE UNCHANGED vars
  BY <1>1, <1>12 DEF vars, process, IInv, DownInv, WriteInv, RemoveInv, OrphanInv,
     ProvisionInv, SteadyInv, RemovalPending, WriteProgress, HasObject, HasContent,
     Admitted
<1> QED
  BY <1>2, <1>3, <1>4, <1>5, <1>6, <1>7, <1>8, <1>9, <1>10, <1>11, <1>12 DEF Next

(* The invariant that the safety properties follow from holds in every     *)
(* reachable state of the operator (operator.go:50-154 and 291-318).       *)
THEOREM Invariance == Spec => []IInv
BY InvInit, InvStep, PTL DEF Spec
-----------------------------------------------------------------------------
(* What it is good for.                                                    *)

(* An account that is gone or not permitted, and for which nothing is      *)
(* pending, has no object in Vault: Reconcile, the event filters and the   *)
(* garbage collection between them miss none.                              *)
THEOREM RevokedCorrect == Spec => []Revoked
<1>1. IInv => Revoked
  BY DEF IInv, OrphanInv, RemovalPending, Revoked, Settled, TypeOK, WorkStates
<1> QED BY <1>1, Invariance, PTL

(* An admitted account with a TTL that is accepted, and for which nothing  *)
(* is pending, has the objects of its present annotations, or else the     *)
(* garbage collection deleted them while it was admitted.                  *)
THEOREM ProvisionedCorrect == Spec => []Provisioned
<1>1. IInv => Provisioned
  BY AcceptedIsNormal
  DEF IInv, ProvisionInv, Provisioned, Settled, WriteProgress, HasObject, HasContent
<1> QED BY <1>1, Invariance, PTL

(* What one step does to the objects of an account.                        *)
LEMMA ObjectStep ==
    ASSUME IInv, [Next]_vars, NEW s \in ServiceAccounts, NEW kind \in Kinds,
           vault'[kind][s] # vault[kind][s]
    PROVE  \/ /\ work.pc = "write" /\ work.sa = s
              /\ vault'[kind][s] = Content(kind, work.ann)
           \/ work.pc = "remove" /\ work.sa = s /\ vault'[kind][s] = None
           \/ gc.pc = "remove" /\ gc.sa = s /\ vault'[kind][s] = None
<1> USE DEF IInv, TypeOK
<1>1. ASSUME NEW sa \in ServiceAccounts, WriteStep(sa)
      PROVE  work.pc = "write" /\ work.sa = s /\ vault'[kind][s] = Content(kind, work.ann)
  <2>1. WriteOrder[work.step] \in Kinds
    BY OrdersCover DEF WorkStates
  <2> QED BY <1>1, <2>1 DEF WriteStep, Store
<1>2. ASSUME NEW sa \in ServiceAccounts, RemoveStep(sa)
      PROVE  work.pc = "remove" /\ work.sa = s /\ vault'[kind][s] = None
  <2>1. RemoveOrder[work.step] \in Kinds
    BY OrdersCover DEF WorkStates
  <2> QED BY <1>2, <2>1 DEF RemoveStep, Store
<1>3. ASSUME RequestFails
      PROVE  \/ /\ work.pc = "write" /\ work.sa = s
                /\ vault'[kind][s] = Content(kind, work.ann)
             \/ work.pc = "remove" /\ work.sa = s /\ vault'[kind][s] = None
  <2>1. WriteOrder[work.step] \in Kinds /\ RemoveOrder[work.step] \in Kinds
    BY OrdersCover DEF WorkStates
  <2>2. work.sa \in ServiceAccounts
    BY <1>3 DEF WorkStates, RequestFails
  <2> QED BY <1>3, <2>1, <2>2 DEF RequestFails, Store
<1>4. ASSUME GCRemoveStep \/ GCFails
      PROVE  gc.pc = "remove" /\ gc.sa = s /\ vault'[kind][s] = None
  <2>1. RemoveOrder[gc.step] \in Kinds /\ (gc.pc = "remove" => gc.sa \in ServiceAccounts)
    BY OrdersCover DEF GCStates
  <2> QED BY <1>4, <2>1 DEF GCRemoveStep, GCFails, GCDelete, Store
<1> QED
  BY <1>1, <1>2, <1>3, <1>4
  DEF Next, vars, Change, ReconcileRemove, ReconcileWrite, ReconcileRejectTTL,
      ReadEnvironmentFails, Take, Requeue, GCList, GCCheck, GCNext, Crash, Startup

(* An account that has been admitted since the process started loses none  *)
(* of its objects, whatever the worker and the garbage collection do.      *)
THEOREM SteadyKeepsAccessCorrect == Spec => SteadyKeepsAccess
<1>1. IInv /\ [Next]_vars =>
          [ \A sa \in steady, kind \in Kinds :
                vault[kind][sa] # None => vault'[kind][sa] # None ]_vars
  <2> SUFFICES ASSUME IInv, [Next]_vars, NEW sa \in steady, NEW kind \in Kinds,
                      vault[kind][sa] # None, vault'[kind][sa] = None
               PROVE  FALSE
    OBVIOUS
  <2>1. sa \in ServiceAccounts
    BY DEF IInv, TypeOK
  <2>2. work.pc = "write" => Content(kind, work.ann) \in Contents
    BY ContentType DEF IInv, TypeOK, WorkStates
  <2>3. /\ ~(work.pc = "remove" /\ work.sa = sa)
        /\ ~(gc.pc = "remove" /\ gc.sa = sa)
    BY DEF IInv, SteadyInv
  <2> QED BY <2>1, <2>2, <2>3, ObjectStep, NoneAssumption
<1> QED BY <1>1, Invariance, PTL DEF Spec, SteadyKeepsAccess

-----------------------------------------------------------------------------
(* The operator keeps its promise: proofs about the refinement of Access.  *)

(* What a request that writes an object does to the grants.                *)
LEMMA WriteGrants ==
    ASSUME TypeOK, NEW sa \in ServiceAccounts, NEW ann \in AnnotationSets,
           NEW kind \in Kinds, Store(kind, sa, Content(kind, ann))
    PROVE  Granted' = IF kind = "secret" THEN [Granted EXCEPT ![sa] = ann.identity]
                                         ELSE Granted
<1>1. vault \in [Kinds -> [ServiceAccounts -> Contents \cup {None}]]
  BY DEF TypeOK
<1>2. vault' = [vault EXCEPT ![kind][sa] = Content(kind, ann)]
  BY DEF Store
<1>3. Content("secret", ann) # None /\ Content("secret", ann).identity = ann.identity
  <2>1. Content("secret", ann) \in Contents
    BY ContentType DEF Kinds
  <2>2. Content("secret", ann).identity = ann.identity
    BY DEF Content, secretPayload
  <2> QED BY <2>1, <2>2, NoneAssumption
<1>4. CASE kind = "secret"
  <2>1. vault'["secret"] = [vault["secret"] EXCEPT ![sa] = Content("secret", ann)]
    BY <1>1, <1>2, <1>4
  <2> QED BY <1>1, <1>3, <1>4, <2>1 DEF Granted, Kinds
<1>5. CASE kind # "secret"
  <2>1. vault'["secret"] = vault["secret"]
    BY <1>1, <1>2, <1>5 DEF Kinds
  <2> QED BY <1>5, <2>1 DEF Granted
<1> QED BY <1>4, <1>5

(* And one that deletes an object.                                         *)
LEMMA RemoveGrants ==
    ASSUME TypeOK, NEW sa \in ServiceAccounts, NEW kind \in Kinds, Store(kind, sa, None)
    PROVE  Granted' = IF kind = "secret" THEN [Granted EXCEPT ![sa] = NoIdentity]
                                         ELSE Granted
<1>1. vault \in [Kinds -> [ServiceAccounts -> Contents \cup {None}]]
  BY DEF TypeOK
<1>2. vault' = [vault EXCEPT ![kind][sa] = None]
  BY DEF Store
<1>3. CASE kind = "secret"
  <2>1. vault'["secret"] = [vault["secret"] EXCEPT ![sa] = None]
    BY <1>1, <1>2, <1>3
  <2> QED BY <1>1, <1>3, <2>1 DEF Granted, Kinds
<1>4. CASE kind # "secret"
  <2>1. vault'["secret"] = vault["secret"]
    BY <1>1, <1>2, <1>4 DEF Kinds
  <2> QED BY <1>4, <2>1 DEF Granted
<1> QED BY <1>3, <1>4

(* A write that Vault serves grants what the rules permit.                 *)
LEMMA WriteKeepsPromise ==
    ASSUME IInv, running, work.pc = "write",
           Store(WriteOrder[work.step], work.sa, Content(WriteOrder[work.step], work.ann)),
           UNCHANGED <<accounts, running, rules, steady>>
    PROVE  Promise!Next \/ UNCHANGED Promise!vars
<1>1. /\ TypeOK /\ work.sa \in ServiceAccounts /\ work.ann \in AnnotationSets
      /\ WriteOrder[work.step] \in Kinds
  BY OrdersCover DEF IInv, TypeOK, WorkStates
<1>2. admitEvent(rules, work.sa[1], work.ann.identity)
  BY DEF IInv, WriteInv, Admits
<1>3. CASE WriteOrder[work.step] = "secret"
  <2>1. Granted' = [Granted EXCEPT ![work.sa] = work.ann.identity]
    BY <1>1, <1>3, WriteGrants
  <2>2. Promise!Grant(work.sa, work.ann.identity)
    BY <1>2, <2>1 DEF Promise!Grant, Permits
  <2> QED BY <1>1, <2>2 DEF Promise!Next
<1>4. CASE WriteOrder[work.step] # "secret"
  <2>1. Granted' = Granted
    BY <1>1, <1>4, WriteGrants
  <2> QED BY <2>1 DEF Promise!vars
<1> QED BY <1>3, <1>4

(* A removal takes nothing from an account that is entitled.               *)
LEMMA RemoveKeepsPromise ==
    ASSUME IInv, running, NEW sa \in ServiceAccounts, sa \notin steady, NEW kind \in Kinds,
           Store(kind, sa, None), UNCHANGED <<accounts, running, rules, steady>>
    PROVE  Promise!Next \/ UNCHANGED Promise!vars
<1>1. CASE kind = "secret"
  <2>1. Granted' = [Granted EXCEPT ![sa] = NoIdentity]
    BY <1>1, RemoveGrants DEF IInv
  <2>2. Promise!Withdraw(sa)
    BY <2>1 DEF Promise!Withdraw, Promise!Withdrawn
  <2> QED BY <2>2 DEF Promise!Next
<1>2. CASE kind # "secret"
  <2>1. Granted' = Granted
    BY <1>2, RemoveGrants DEF IInv
  <2> QED BY <2>1 DEF Promise!vars
<1> QED BY <1>1, <1>2

(* A process that ends takes at most one such grant with it.               *)
LEMMA StopKeepsPromise ==
    ASSUME IInv, running, Stop,
           \/ UNCHANGED vault
           \/ gc.pc = "remove" /\ Store(RemoveOrder[gc.step], gc.sa, None)
    PROVE  Promise!Next
<1>1. UNCHANGED Granted \/ \E sa \in ServiceAccounts : Promise!Withdrawn(sa)
  <2>1. CASE UNCHANGED vault
    BY <2>1 DEF Granted
  <2>2. CASE gc.pc = "remove" /\ Store(RemoveOrder[gc.step], gc.sa, None)
    <3>1. gc.sa \in ServiceAccounts /\ RemoveOrder[gc.step] \in Kinds
      BY <2>2, OrdersCover DEF IInv, TypeOK, GCStates
    <3>2. gc.sa \notin steady
      BY <2>2 DEF IInv, SteadyInv
    <3>3. Granted' = Granted \/ Granted' = [Granted EXCEPT ![gc.sa] = NoIdentity]
      BY <2>2, <3>1, RemoveGrants DEF IInv
    <3> QED BY <3>1, <3>2, <3>3 DEF Promise!Withdrawn
  <2> QED BY <2>1, <2>2
<1>2. Promise!Stop
  BY <1>1 DEF Promise!Stop, Stop
<1> QED BY <1>2 DEF Promise!Next

(* The initial states and every step of the operator are the promise's.    *)
LEMMA PromiseInit == Init => Promise!Init
<1> SUFFICES ASSUME Init PROVE Promise!Init
  OBVIOUS
<1>1. Granted = [sa \in ServiceAccounts |-> NoIdentity]
  BY DEF Init, Granted, Kinds
<1>2. \A sa \in ServiceAccounts :
          IdentityOf(accounts[sa]) \in {ann.identity : ann \in AnnotationSets} \cup {NoIdentity}
  BY DEF Init, IdentityOf
<1> QED BY <1>1, <1>2 DEF Init, Promise!Init

LEMMA PromiseStep == IInv /\ [Next]_vars => [Promise!Next]_(Promise!vars)
<1> SUFFICES ASSUME IInv, [Next]_vars PROVE Promise!Next \/ UNCHANGED Promise!vars
  OBVIOUS
<1>0. TypeOK
  BY DEF IInv
<1>1. ASSUME NEW sa \in ServiceAccounts, NEW ann \in AnnotationSets \cup {None}, Change(sa, ann)
      PROVE  Promise!Next
  <2>1. /\ accounts' = [accounts EXCEPT ![sa] = ann]
        /\ accounts \in [ServiceAccounts -> AnnotationSets \cup {None}]
    BY <1>0, <1>1 DEF Change, TypeOK
  <2>2. [s \in ServiceAccounts |-> IdentityOf(accounts'[s])]
            = [[s \in ServiceAccounts |-> IdentityOf(accounts[s])] EXCEPT ![sa] = IdentityOf(ann)]
    BY <2>1
  <2>3. Admits(rules, sa, ann) = Permits(rules, sa, IdentityOf(ann))
    <3>1. CASE ann = None
      BY <3>1 DEF Admits, Permits, IdentityOf, admitEvent
    <3>2. CASE ann # None
      BY <3>2 DEF Admits, Permits, IdentityOf, admitEvent
    <3> QED BY <3>1, <3>2
  <2>4. Granted' = Granted
    BY <1>1 DEF Change, Granted
  <2>5. Promise!Ask(sa, IdentityOf(ann))
    BY <1>1, <2>2, <2>3, <2>4 DEF Change, Promise!Ask
  <2>6. IdentityOf(ann) \in {a.identity : a \in AnnotationSets} \cup {NoIdentity}
    BY DEF IdentityOf
  <2> QED BY <2>5, <2>6 DEF Promise!Next
<1>2. ASSUME NEW ruleList \in RuleLists, Startup(ruleList) PROVE Promise!Next
  <2>1. \A sa \in ServiceAccounts :
            Admits(ruleList, sa, accounts[sa]) <=> Permits(ruleList, sa, IdentityOf(accounts[sa]))
    BY DEF Admits, Permits, IdentityOf, admitEvent
  <2>2. Granted' = Granted /\ accounts' = accounts
    BY <1>2 DEF Startup, Granted
  <2>3. Promise!Start(ruleList)
    BY <1>2, <2>1, <2>2 DEF Startup, Promise!Start
  <2> QED BY <2>3 DEF Promise!Next
<1>3. ASSUME NEW sa \in ServiceAccounts, WriteStep(sa)
      PROVE  Promise!Next \/ UNCHANGED Promise!vars
  BY <1>3, WriteKeepsPromise DEF WriteStep, IInv, DownInv, Idle
<1>4. ASSUME NEW sa \in ServiceAccounts, RemoveStep(sa)
      PROVE  Promise!Next \/ UNCHANGED Promise!vars
  <2>1. RemoveOrder[work.step] \in Kinds
    BY <1>0, OrdersCover DEF TypeOK, WorkStates
  <2>2. sa \notin steady /\ running
    BY <1>4 DEF RemoveStep, IInv, SteadyInv, DownInv, Idle
  <2> QED BY <1>4, <2>1, <2>2, RemoveKeepsPromise DEF RemoveStep
<1>5. ASSUME RequestFails PROVE Promise!Next \/ UNCHANGED Promise!vars
  <2>1. running /\ UNCHANGED <<accounts, running, rules, steady>>
    BY <1>5 DEF RequestFails, IInv, DownInv, Idle
  <2>2. CASE UNCHANGED vault
    BY <2>1, <2>2 DEF Promise!vars, Granted
  <2>3. CASE work.pc = "write" /\ ~UNCHANGED vault
    BY <1>5, <2>1, <2>3, WriteKeepsPromise DEF RequestFails
  <2>4. CASE work.pc = "remove" /\ ~UNCHANGED vault
    <3>1. /\ RemoveOrder[work.step] \in Kinds
          /\ work.sa \in ServiceAccounts \ steady
      BY <1>0, <2>4, OrdersCover DEF TypeOK, WorkStates, IInv, SteadyInv
    <3> QED BY <1>5, <2>1, <2>4, <3>1, RemoveKeepsPromise DEF RequestFails
  <2> QED BY <1>5, <2>2, <2>3, <2>4 DEF RequestFails
<1>6. ASSUME GCRemoveStep PROVE Promise!Next \/ UNCHANGED Promise!vars
  <2>1. /\ RemoveOrder[gc.step] \in Kinds
        /\ gc.sa \in ServiceAccounts \ steady
        /\ running
    BY <1>0, <1>6, OrdersCover
    DEF TypeOK, GCStates, IInv, SteadyInv, DownInv, GCDone, GCAt, GCRemoveStep
  <2> QED BY <1>6, <2>1, RemoveKeepsPromise DEF GCRemoveStep, GCDelete, GCUnchanged
<1>7. ASSUME Crash \/ GCFails PROVE Promise!Next
  <2>1. running
    BY <1>7 DEF Crash, GCFails, IInv, DownInv, GCDone, GCAt
  <2> QED BY <1>7, <2>1, StopKeepsPromise DEF Crash, GCFails
<1>8. ASSUME \/ \E sa \in ServiceAccounts :
                   \/ ReconcileRemove(sa) \/ ReconcileWrite(sa) \/ ReconcileRejectTTL(sa)
                   \/ ReadEnvironmentFails(sa) \/ Requeue(sa) \/ GCCheck(sa)
             \/ GCList \/ GCNext \/ UNCHANGED vars
      PROVE  UNCHANGED Promise!vars
  <2>1. UNCHANGED <<accounts, running, rules, vault, steady>>
    BY <1>8 DEF ReconcileRemove, ReconcileWrite, ReconcileRejectTTL, ReadEnvironmentFails,
                Take, Requeue, GCCheck, GCList, GCNext, GCUnchanged, vars, process
  <2> QED BY <2>1 DEF Promise!vars, Granted
<1> QED BY <1>1, <1>2, <1>3, <1>4, <1>5, <1>6, <1>7, <1>8 DEF Next

(* The operator implements Access: whatever is granted the rules in force  *)
(* permit, and nothing is taken from an account that was entitled ever     *)
(* since the process started (operator.go:102-171, 220-318).               *)
THEOREM ImplementsAccessCorrect == Spec => ImplementsAccess
<1>1. Init => Promise!Init
  BY PromiseInit
<1>2. IInv /\ [Next]_vars => [Promise!Next]_(Promise!vars)
  BY PromiseStep
<1> QED BY <1>1, <1>2, Invariance, PTL DEF Spec, ImplementsAccess, Promise!Spec
=============================================================================
