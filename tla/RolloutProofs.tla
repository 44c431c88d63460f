---------------------------- MODULE RolloutProofs ----------------------------
(***************************************************************************)
(* Theorems about Rollout: what two operators with different rules, one on *)
(* its way out, leave in Vault, for any accounts, annotations and rules.   *)
(***************************************************************************)
EXTENDS Rollout, OperatorProofs

(* The old process evaluates rules and annotations as the new one does.    *)
LEMMA SameOperators ==
    /\ \A ruleList, sa, ann : Old!Admits(ruleList, sa, ann) = Admits(ruleList, sa, ann)
    /\ \A old, new : Old!processUpdateEvent(old, new) = processUpdateEvent(old, new)
    /\ \A ann : Old!TTLAccepted(ann) = TTLAccepted(ann)
    /\ \A kind, ann : Old!Content(kind, ann) = Content(kind, ann)
    /\ Old!Idle = Idle /\ Old!WriteOrder = WriteOrder /\ Old!RemoveOrder = RemoveOrder
<1>1. \A ruleList, ns, id :
          Old!admitEvent(ruleList, ns, id) = admitEvent(ruleList, ns, id)
  <2>1. \A verdicts : Old!FirstVerdict(verdicts) = FirstVerdict(verdicts)
    BY DEF Old!FirstVerdict, FirstVerdict, Old!Min, Min
  <2>2. \A patterns, text : Old!MatchesAny(patterns, text) = MatchesAny(patterns, text)
    BY <2>1 DEF Old!MatchesAny, MatchesAny
  <2>3. \A rule, ns, id : Old!AWSAllows(rule, ns, id) = AWSAllows(rule, ns, id)
    BY <2>2 DEF Old!AWSAllows, AWSAllows, Old!Both, Both,
                Old!matchesAccountID, matchesAccountID
  <2>4. \A rule, ns, id : Old!GCPAllows(rule, ns, id) = GCPAllows(rule, ns, id)
    BY <2>2 DEF Old!GCPAllows, GCPAllows, Old!Both, Both
  <2>5. \A rule, ns, id : Old!allows(rule, ns, id) = allows(rule, ns, id)
    BY <2>3, <2>4 DEF Old!allows, allows
  <2>6. \A ruleList, ns, id : Old!allow(ruleList, ns, id) = allow(ruleList, ns, id)
    BY <2>1, <2>5 DEF Old!allow, allow
  <2> QED BY <2>6 DEF Old!admitEvent, admitEvent
<1>2. \A ruleList, sa, ann : Old!Admits(ruleList, sa, ann) = Admits(ruleList, sa, ann)
  BY <1>1 DEF Old!Admits, Admits
<1>3. \A old, new : Old!processUpdateEvent(old, new) = processUpdateEvent(old, new)
  BY DEF Old!processUpdateEvent, processUpdateEvent, Old!TTLText, TTLText
<1>4. \A ann : Old!TTLAccepted(ann) = TTLAccepted(ann)
  BY DEF Old!TTLAccepted, TTLAccepted, Old!secretTTL, secretTTL
<1>5. \A kind, ann : Old!Content(kind, ann) = Content(kind, ann)
  BY DEF Old!Content, Content, Old!secretTTL, secretTTL, Old!secretPayload, secretPayload
<1>6. Old!Idle = Idle /\ Old!WriteOrder = WriteOrder /\ Old!RemoveOrder = RemoveOrder
  BY DEF Old!Idle, Idle, Old!WriteOrder, WriteOrder, Old!RemoveOrder, RemoveOrder
<1> QED BY <1>2, <1>3, <1>4, <1>5, <1>6

(* The invariants of the old process in the words of the new one.          *)
OldInWords ==
    /\ \A sa : Old!Admitted(sa) = Admits(OldRules, sa, oldAccounts[sa])
    /\ Old!DownInv <=> (~oldRunning => oldQueue = {} /\ oldWork = Idle)
    /\ Old!WriteInv <=>
          (oldWork.pc = "write" =>
              /\ Admits(OldRules, oldWork.sa, oldWork.ann)
              /\ TTLAccepted(oldWork.ann)
              /\ \/ oldWork.sa \in oldQueue
                 \/ /\ oldAccounts[oldWork.sa] # None
                    /\ ~processUpdateEvent(oldWork.ann, oldAccounts[oldWork.sa]))
    /\ Old!RemoveInv <=>
          (oldWork.pc = "remove" =>
              \/ ~Admits(OldRules, oldWork.sa, oldAccounts[oldWork.sa])
              \/ oldWork.sa \in oldQueue)
    /\ \A kind, sa : Old!RemovalPending(kind, sa) <=>
          \/ sa \in oldQueue
          \/ /\ oldWork.pc = "remove" /\ oldWork.sa = sa
             /\ \E i \in oldWork.step .. 3 : RemoveOrder[i] = kind

(* They say the same.                                                      *)
LEMMA OldInvariants == OldInWords
<1>1. \A sa : Old!Admitted(sa) = Admits(OldRules, sa, oldAccounts[sa])
  BY SameOperators DEF Old!Admitted
<1>2. Old!DownInv <=> (~oldRunning => oldQueue = {} /\ oldWork = Idle)
  BY SameOperators DEF Old!DownInv, Old!GCDone, GCDone, Old!GCAt, GCAt
<1>3. Old!WriteInv <=>
          (oldWork.pc = "write" =>
              /\ Admits(OldRules, oldWork.sa, oldWork.ann)
              /\ TTLAccepted(oldWork.ann)
              /\ \/ oldWork.sa \in oldQueue
                 \/ /\ oldAccounts[oldWork.sa] # None
                    /\ ~processUpdateEvent(oldWork.ann, oldAccounts[oldWork.sa]))
  BY SameOperators DEF Old!WriteInv
<1>4. Old!RemoveInv <=>
          (oldWork.pc = "remove" =>
              \/ ~Admits(OldRules, oldWork.sa, oldAccounts[oldWork.sa])
              \/ oldWork.sa \in oldQueue)
  BY <1>1 DEF Old!RemoveInv
<1>5. \A kind, sa : Old!RemovalPending(kind, sa) <=>
          \/ sa \in oldQueue
          \/ /\ oldWork.pc = "remove" /\ oldWork.sa = sa
             /\ \E i \in oldWork.step .. 3 : RemoveOrder[i] = kind
  BY SameOperators, Resting DEF Old!RemovalPending
<1> QED BY <1>1, <1>2, <1>3, <1>4, <1>5 DEF OldInWords

(* And in the next state.                                                  *)
LEMMA OldInvariantsNext == OldInWords'
BY OldInvariants, PTL

(* Its event filter.                                                       *)
LEMMA OldFilter ==
    \A sa, old, new : Old!PassesFilter(sa, old, new) <=>
        \/ old = None /\ Admits(OldRules, sa, new)
        \/ new = None /\ Admits(OldRules, sa, old)
        \/ None \notin {old, new} /\ processUpdateEvent(old, new)
BY SameOperators DEF Old!PassesFilter

(* It learns of a change, begins with an account, or goes on with it.      *)
LEMMA OldSteps ==
    ASSUME NEW sa
    PROVE  /\ OldLearns(sa) =>
                /\ oldAccounts' = [oldAccounts EXCEPT ![sa] = accounts[sa]]
                /\ oldQueue' = IF oldRunning /\ Old!PassesFilter(sa, oldAccounts[sa], accounts[sa])
                               THEN oldQueue \cup {sa} ELSE oldQueue
                /\ UNCHANGED <<oldRunning, oldWork, vars, contested>>
           /\ Old!ReconcileRemove(sa) =>
                /\ oldRunning /\ oldWork.pc = "idle" /\ sa \in oldQueue
                /\ ~Admits(OldRules, sa, oldAccounts[sa])
                /\ oldQueue' = oldQueue \ {sa}
                /\ oldWork' = [pc |-> "remove", sa |-> sa, ann |-> None, step |-> 1]
                /\ UNCHANGED <<oldAccounts, oldRunning, vault>>
           /\ Old!ReconcileWrite(sa) =>
                /\ oldRunning /\ oldWork.pc = "idle" /\ sa \in oldQueue
                /\ Admits(OldRules, sa, oldAccounts[sa])
                /\ TTLAccepted(oldAccounts[sa])
                /\ oldQueue' = oldQueue \ {sa}
                /\ oldWork' = [pc |-> "write", sa |-> sa, ann |-> oldAccounts[sa], step |-> 1]
                /\ UNCHANGED <<oldAccounts, oldRunning, vault>>
           /\ Old!WriteStep(sa) =>
                /\ oldWork.pc = "write" /\ oldWork.sa = sa
                /\ Store(WriteOrder[oldWork.step], sa, Content(WriteOrder[oldWork.step], oldWork.ann))
                /\ oldWork' = IF oldWork.step = 3 THEN Idle ELSE [oldWork EXCEPT !.step = @ + 1]
                /\ UNCHANGED <<oldAccounts, oldRunning, oldQueue>>
           /\ Old!RemoveStep(sa) =>
                /\ oldWork.pc = "remove" /\ oldWork.sa = sa
                /\ Store(RemoveOrder[oldWork.step], sa, None)
                /\ oldWork' = IF oldWork.step = 3 THEN Idle ELSE [oldWork EXCEPT !.step = @ + 1]
                /\ UNCHANGED <<oldAccounts, oldRunning, oldQueue>>
<1> USE SameOperators
<1>1. OldLearns(sa) =>
          /\ oldAccounts' = [oldAccounts EXCEPT ![sa] = accounts[sa]]
          /\ oldQueue' = IF oldRunning /\ Old!PassesFilter(sa, oldAccounts[sa], accounts[sa])
                         THEN oldQueue \cup {sa} ELSE oldQueue
          /\ UNCHANGED <<oldRunning, oldWork, vars, contested>>
  BY DEF OldLearns, Old!Change, vars, process
<1>2. Old!ReconcileRemove(sa) =>
          /\ oldRunning /\ oldWork.pc = "idle" /\ sa \in oldQueue
          /\ ~Admits(OldRules, sa, oldAccounts[sa])
          /\ oldQueue' = oldQueue \ {sa}
          /\ oldWork' = [pc |-> "remove", sa |-> sa, ann |-> None, step |-> 1]
          /\ UNCHANGED <<oldAccounts, oldRunning, vault>>
  BY DEF Old!ReconcileRemove, Old!Take, Old!Admitted
<1>3. Old!ReconcileWrite(sa) =>
          /\ oldRunning /\ oldWork.pc = "idle" /\ sa \in oldQueue
          /\ Admits(OldRules, sa, oldAccounts[sa])
          /\ TTLAccepted(oldAccounts[sa])
          /\ oldQueue' = oldQueue \ {sa}
          /\ oldWork' = [pc |-> "write", sa |-> sa, ann |-> oldAccounts[sa], step |-> 1]
          /\ UNCHANGED <<oldAccounts, oldRunning, vault>>
  BY DEF Old!ReconcileWrite, Old!Take, Old!Admitted
<1>4. Old!WriteStep(sa) =>
          /\ oldWork.pc = "write" /\ oldWork.sa = sa
          /\ Store(WriteOrder[oldWork.step], sa, Content(WriteOrder[oldWork.step], oldWork.ann))
          /\ oldWork' = IF oldWork.step = 3 THEN Idle ELSE [oldWork EXCEPT !.step = @ + 1]
          /\ UNCHANGED <<oldAccounts, oldRunning, oldQueue>>
  BY DEF Old!WriteStep, Old!Store, Store, Old!Advance
<1>5. Old!RemoveStep(sa) =>
          /\ oldWork.pc = "remove" /\ oldWork.sa = sa
          /\ Store(RemoveOrder[oldWork.step], sa, None)
          /\ oldWork' = IF oldWork.step = 3 THEN Idle ELSE [oldWork EXCEPT !.step = @ + 1]
          /\ UNCHANGED <<oldAccounts, oldRunning, oldQueue>>
  BY DEF Old!RemoveStep, Old!Store, Store, Old!Advance
<1> QED BY <1>1, <1>2, <1>3, <1>4, <1>5

(* It ends for good.                                                       *)
LEMMA OldEnds ==
    ASSUME OldStops
    PROVE  /\ oldRunning /\ oldRunning' = FALSE
           /\ oldQueue' = {} /\ oldWork' = Idle
           /\ contested' = contested \cup {sa \in ServiceAccounts : running /\ Unfinished(sa)}
           /\ UNCHANGED <<oldAccounts, vars>>
BY SameOperators DEF OldStops, Old!Crash, Old!Stop, vars
-----------------------------------------------------------------------------
(* Type correctness.                                                       *)

(* The types hold in the initial states.                                   *)
LEMMA RolloutTypeInit == RolloutInit => RolloutTypeOK
<1> SUFFICES ASSUME RolloutInit PROVE RolloutTypeOK
  OBVIOUS
<1>1. vault \in [Kinds -> [ServiceAccounts -> Contents \cup {None}]]
  <2>1. \A kind \in Kinds, sa \in ServiceAccounts :
            Old!Admitted(sa) => Content(kind, accounts[sa]) \in Contents
    BY OldInvariants, ContentType DEF OldInWords, RolloutInit, Admits
  <2> QED BY <2>1 DEF RolloutInit
<1>2. clobbered \subseteq Kinds \X ServiceAccounts
  BY DEF RolloutInit
<1> QED BY <1>1, <1>2, Resting DEF RolloutInit, RolloutTypeOK, TypeOK

(* Every step of either process keeps the types.                           *)
LEMMA RolloutTypeStep ==
    RolloutTypeOK /\ [RolloutNext]_<<vars, oldProcess, contested>> => RolloutTypeOK'
<1> SUFFICES ASSUME RolloutTypeOK, [RolloutNext]_<<vars, oldProcess, contested>>
             PROVE  RolloutTypeOK'
  OBVIOUS
<1> USE DEF RolloutTypeOK
<1>1. ASSUME NEW sa \in ServiceAccounts, NEW ann \in AnnotationSets \cup {None},
             Annotate(sa, ann)
      PROVE  RolloutTypeOK'
  <2>1. TypeOK'
    BY <1>1, TypeStep DEF Annotate, Next
  <2> QED BY <1>1, <2>1 DEF Annotate, Change, oldProcess
<1>2. ASSUME NEW sa \in ServiceAccounts, OldLearns(sa)
      PROVE  RolloutTypeOK'
  <2>1. TypeOK'
    BY <1>2, OldSteps, TypeStep
  <2>2. accounts[sa] \in AnnotationSets \cup {None}
    BY DEF TypeOK
  <2> QED BY <1>2, <2>1, <2>2, OldSteps DEF vars, process
<1>3. CASE OldStops
  <2>1. TypeOK'
    BY <1>3, OldEnds, TypeStep
  <2>2. contested' \subseteq ServiceAccounts
    BY <1>3, OldEnds
  <2>3. UNCHANGED <<delayed, oldAccounts>> /\ oldRunning' \in BOOLEAN
    BY <1>3, OldEnds DEF vars, process
  <2>4. oldQueue' = {} /\ oldWork' = Idle
    BY <1>3, OldEnds
  <2> QED BY <2>1, <2>2, <2>3, <2>4, Resting
<1>4. CASE OldStep
  <2>1. UNCHANGED <<accounts, process, clobbered, steady, contested>>
    BY <1>4 DEF OldStep
  <2>2. ASSUME NEW sa \in ServiceAccounts, Old!ReconcileRemove(sa) \/ Old!ReconcileWrite(sa)
        PROVE  RolloutTypeOK'
    <3>1. TypeOK'
      BY <2>1, <2>2, OldSteps DEF TypeOK, process
    <3>2. Admits(OldRules, sa, oldAccounts[sa]) => oldAccounts[sa] # None
      BY DEF Admits
    <3>3. /\ oldWork' \in WorkStates /\ oldWork'.pc # "idle"
          /\ oldWork'.sa # None
          /\ oldWork'.pc = "write" => oldWork'.ann # None
      BY <2>2, <3>2, OldSteps, NoneAssumption DEF WorkStates
    <3> QED BY <2>1, <2>2, <3>1, <3>3, OldSteps DEF process
  <2>3. ASSUME NEW sa \in ServiceAccounts, Old!WriteStep(sa) \/ Old!RemoveStep(sa)
        PROVE  RolloutTypeOK'
    <3>1. /\ WriteOrder[oldWork.step] \in Kinds
          /\ RemoveOrder[oldWork.step] \in Kinds
      BY OrdersCover DEF WorkStates
    <3>2. oldWork.pc = "write" => Content(WriteOrder[oldWork.step], oldWork.ann) \in Contents
      BY <3>1, ContentType DEF WorkStates
    <3>3. vault' \in [Kinds -> [ServiceAccounts -> Contents \cup {None}]]
      <4>1. CASE Old!WriteStep(sa)
        <5>1. /\ oldWork.pc = "write"
              /\ Store(WriteOrder[oldWork.step], sa,
                       Content(WriteOrder[oldWork.step], oldWork.ann))
          BY <4>1, OldSteps
        <5> QED BY <3>1, <3>2, <5>1 DEF Store, TypeOK
      <4>2. CASE Old!RemoveStep(sa)
        <5>1. Store(RemoveOrder[oldWork.step], sa, None)
          BY <4>2, OldSteps
        <5> QED BY <3>1, <5>1 DEF Store, TypeOK
      <4> QED BY <2>3, <4>1, <4>2
    <3>4. TypeOK'
      BY <2>1, <3>3 DEF TypeOK, process
    <3>5. /\ oldWork' \in WorkStates
          /\ oldWork' = Idle \/ (oldWork'.pc = oldWork.pc /\ oldWork'.pc # "idle"
                                  /\ oldWork'.sa = oldWork.sa /\ oldWork'.ann = oldWork.ann)
      BY <2>3, OldSteps, Resting DEF WorkStates
    <3> QED BY <2>1, <2>3, <3>4, <3>5, OldSteps, Resting DEF process
  <2> QED BY <1>4, <2>2, <2>3 DEF OldStep
<1>5. ASSUME NEW ruleList \in RuleLists, NewStarts(ruleList)
      PROVE  RolloutTypeOK'
  <2>1. TypeOK'
    BY <1>5, TypeStep DEF NewStarts, Next
  <2> QED BY <1>5, <2>1 DEF NewStarts, Startup, oldProcess
<1>6. CASE NewStep
  <2>1. TypeOK'
    BY <1>6, TypeStep DEF NewStep, Next
  <2>2. delayed' = {}
    BY <1>6 DEF NewStep, ReconcileRemove, ReconcileWrite, WriteStep, RemoveStep,
       GCList, GCCheck, GCNext, GCRemoveStep, GCUnchanged, GCFails, Crash, Stop
  <2> QED BY <1>6, <2>1, <2>2 DEF NewStep, oldProcess
<1>7. CASE UNCHANGED <<vars, oldProcess, contested>>
  <2>1. TypeOK'
    BY <1>7, TypeStep
  <2> QED BY <1>7, <2>1 DEF vars, process, oldProcess
<1> QED BY <1>1, <1>2, <1>3, <1>4, <1>5, <1>6, <1>7 DEF RolloutNext
-----------------------------------------------------------------------------
(* The workers.                                                            *)

(* A change, as in Operator: it is noticed, or nothing the worker is busy  *)
(* with depends on it.                                                     *)
LEMMA AnnotateWorkers ==
    ASSUME RolloutTypeOK, WorkersInv, NEW sa \in ServiceAccounts,
           NEW ann \in AnnotationSets \cup {None}, Annotate(sa, ann)
    PROVE  WorkersInv'
<1> USE DEF WorkersInv
<1>1. /\ UNCHANGED <<running, rules, delayed, work, gc, oldProcess>>
      /\ queue \subseteq queue'
      /\ \A s \in ServiceAccounts : s # sa => accounts'[s] = accounts[s]
      /\ accounts'[sa] = ann
      /\ running /\ PassesFilter(sa, accounts[sa], ann) => sa \in queue'
  BY DEF Annotate, Change, RolloutTypeOK, TypeOK
<1>2. DownInv'
  BY DEF DownInv, Annotate, Change
<1>3. WriteInv'
  <2> SUFFICES ASSUME work.pc = "write", work.sa = sa, sa \notin queue'
               PROVE  ann # None /\ ~processUpdateEvent(work.ann, ann)
    BY <1>1 DEF WriteInv, RolloutTypeOK, TypeOK, WorkStates
  <2>1. running
    BY Resting DEF DownInv
  <2>2. /\ accounts[sa] # None
        /\ ~processUpdateEvent(work.ann, accounts[sa])
        /\ Admits(rules, sa, work.ann)
    BY <1>1 DEF WriteInv
  <2>3. Admits(rules, sa, accounts[sa])
    BY <2>2 DEF Admits, processUpdateEvent
  <2>4. ann # None /\ ~processUpdateEvent(accounts[sa], ann)
    BY <1>1, <2>1, <2>2, <2>3 DEF PassesFilter
  <2> QED BY <2>2, <2>4 DEF processUpdateEvent
<1>4. RemoveInv'
  <2> SUFFICES ASSUME work.pc = "remove" PROVE ~Admitted(work.sa)' \/ work.sa \in queue'
    BY <1>1 DEF RemoveInv
  <2>1. running
    BY Resting DEF DownInv
  <2>2. work.sa \in ServiceAccounts
    BY DEF RolloutTypeOK, TypeOK, WorkStates
  <2> QED BY <1>1, <2>1, <2>2, AdmissionIsNoticed DEF RemoveInv, Admitted, PassesFilter
<1>5. Old!DownInv' /\ Old!WriteInv' /\ Old!RemoveInv'
  BY <1>1, OldInvariants, OldInvariantsNext DEF OldInWords, oldProcess
<1> QED BY <1>2, <1>3, <1>4, <1>5

(* The same, when the old process learns of it.                            *)
LEMMA OldLearnsWorkers ==
    ASSUME RolloutTypeOK, WorkersInv, NEW sa \in ServiceAccounts, OldLearns(sa)
    PROVE  WorkersInv'
<1> USE DEF WorkersInv
<1>1. /\ UNCHANGED <<vars, oldRunning, oldWork>>
      /\ oldQueue \subseteq oldQueue'
      /\ \A s \in ServiceAccounts : s # sa => oldAccounts'[s] = oldAccounts[s]
      /\ oldAccounts'[sa] = accounts[sa]
      /\ oldRunning /\ Old!PassesFilter(sa, oldAccounts[sa], accounts[sa]) => sa \in oldQueue'
      /\ ~oldRunning => oldQueue' = oldQueue
  BY OldSteps DEF RolloutTypeOK
<1>2. DownInv' /\ WriteInv' /\ RemoveInv'
  BY <1>1 DEF vars, process, DownInv, WriteInv, RemoveInv, Admitted
<1>3. Old!DownInv'
  BY <1>1, OldInvariants, OldInvariantsNext DEF OldInWords
<1>4. Old!WriteInv'
  <2>1. CASE oldWork.pc = "write" /\ oldWork.sa = sa /\ sa \notin oldQueue'
    <3>1. oldRunning
      BY <2>1, OldInvariants, Resting DEF OldInWords
    <3>2. /\ oldAccounts[sa] # None
          /\ ~processUpdateEvent(oldWork.ann, oldAccounts[sa])
          /\ Admits(OldRules, sa, oldWork.ann)
      BY <1>1, <2>1, OldInvariants DEF OldInWords
    <3>3. Admits(OldRules, sa, oldAccounts[sa])
      BY <3>2 DEF Admits, processUpdateEvent
    <3>4. accounts[sa] # None /\ ~processUpdateEvent(oldAccounts[sa], accounts[sa])
      BY <1>1, <2>1, <3>1, <3>2, <3>3, OldFilter
    <3>5. ~processUpdateEvent(oldWork.ann, accounts[sa])
      BY <3>2, <3>4 DEF processUpdateEvent
    <3> QED BY <1>1, <2>1, <3>4, <3>5, OldInvariants, OldInvariantsNext DEF OldInWords
  <2>2. CASE ~(oldWork.pc = "write" /\ oldWork.sa = sa /\ sa \notin oldQueue')
    <3>1. oldWork.pc = "write" => oldWork.sa \in ServiceAccounts
      BY DEF RolloutTypeOK, WorkStates
    <3> QED BY <1>1, <2>2, <3>1, OldInvariants, OldInvariantsNext DEF OldInWords
  <2> QED BY <2>1, <2>2
<1>5. Old!RemoveInv'
  <2>1. oldWork.pc = "remove" => oldWork.sa \in ServiceAccounts /\ oldRunning
    BY OldInvariants, Resting DEF OldInWords, RolloutTypeOK, WorkStates
  <2>2. Admits(OldRules, sa, accounts[sa]) # Admits(OldRules, sa, oldAccounts[sa]) =>
            Old!PassesFilter(sa, oldAccounts[sa], accounts[sa])
    BY AdmissionIsNoticed, OldFilter
  <2> QED BY <1>1, <2>1, <2>2, OldInvariants, OldInvariantsNext DEF OldInWords
<1> QED BY <1>2, <1>3, <1>4, <1>5

(* A worker begins with an account, goes on, or ends.                      *)
LEMMA StepWorkers ==
    ASSUME RolloutTypeOK, RolloutTypeOK', WorkersInv,
           \/ OldStops \/ OldStep \/ NewStep
           \/ \E ruleList \in RuleLists : NewStarts(ruleList)
           \/ UNCHANGED <<vars, oldProcess, contested>>
    PROVE  WorkersInv'
<1> USE DEF WorkersInv
<1>1. CASE OldStops
  <2>1. DownInv' /\ WriteInv' /\ RemoveInv'
    BY <1>1, OldEnds DEF vars, process, DownInv, WriteInv, RemoveInv, Admitted
  <2>2. Old!DownInv' /\ Old!WriteInv' /\ Old!RemoveInv'
    BY <1>1, OldEnds, Resting, OldInvariantsNext DEF OldInWords
  <2> QED BY <2>1, <2>2
<1>2. CASE OldStep
  <2>1. DownInv' /\ WriteInv' /\ RemoveInv'
    BY <1>2 DEF OldStep, process, DownInv, WriteInv, RemoveInv, Admitted
  <2>2. ASSUME NEW sa \in ServiceAccounts, Old!ReconcileRemove(sa) \/ Old!ReconcileWrite(sa)
        PROVE  Old!DownInv' /\ Old!WriteInv' /\ Old!RemoveInv'
    <3>1. ~processUpdateEvent(oldAccounts[sa], oldAccounts[sa])
      BY DEF processUpdateEvent
    <3>2. Admits(OldRules, sa, oldAccounts[sa]) => oldAccounts[sa] # None
      BY DEF Admits
    <3>3. CASE Old!ReconcileRemove(sa)
      BY <3>3, OldSteps, OldInvariantsNext DEF OldInWords
    <3>4. CASE Old!ReconcileWrite(sa)
      BY <3>1, <3>2, <3>4, OldSteps, OldInvariantsNext DEF OldInWords
    <3> QED BY <2>2, <3>3, <3>4
  <2>3. ASSUME NEW sa \in ServiceAccounts, Old!WriteStep(sa) \/ Old!RemoveStep(sa)
        PROVE  Old!DownInv' /\ Old!WriteInv' /\ Old!RemoveInv'
    <3>1. /\ UNCHANGED <<oldAccounts, oldRunning, oldQueue>>
          /\ \/ oldWork' = Idle
             \/ /\ oldWork'.pc = oldWork.pc /\ oldWork'.sa = oldWork.sa
                /\ oldWork'.ann = oldWork.ann
      BY <2>3, OldSteps DEF RolloutTypeOK, WorkStates
    <3>2. oldRunning
      BY <2>3, OldSteps, OldInvariants, Resting DEF OldInWords
    <3> QED BY <3>1, <3>2, Resting, OldInvariants, OldInvariantsNext DEF OldInWords
  <2> QED BY <1>2, <2>1, <2>2, <2>3 DEF OldStep
<1>3. ASSUME NewStep \/ \E ruleList \in RuleLists : NewStarts(ruleList)
      PROVE  WorkersInv'
  <2>1. Old!DownInv' /\ Old!WriteInv' /\ Old!RemoveInv'
    BY <1>3, OldInvariants, OldInvariantsNext DEF NewStep, NewStarts, OldInWords, oldProcess
  <2>2. ASSUME NEW ruleList \in RuleLists, NewStarts(ruleList)
        PROVE  DownInv' /\ WriteInv' /\ RemoveInv'
    BY <2>2, Resting DEF NewStarts, Startup, DownInv, WriteInv, RemoveInv
  <2>3. CASE GCFails \/ Crash
    BY <2>1, <2>3, Resting DEF GCFails, Crash, Stop, DownInv, WriteInv, RemoveInv
  <2>4. CASE GCList \/ GCRemoveStep \/ GCNext \/ \E sa \in ServiceAccounts : GCCheck(sa)
    <3>1. UNCHANGED <<accounts, running, rules, queue, delayed, work>> /\ gc.pc # "done"
      BY <2>4 DEF GCList, GCRemoveStep, GCNext, GCCheck, GCUnchanged
    <3> QED BY <2>1, <3>1, Resting DEF DownInv, WriteInv, RemoveInv, Admitted
  <2>5. ASSUME NEW sa \in ServiceAccounts, ReconcileRemove(sa) \/ ReconcileWrite(sa)
        PROVE  DownInv' /\ WriteInv' /\ RemoveInv'
    BY <2>5 DEF ReconcileRemove, ReconcileWrite, Take, DownInv, WriteInv, RemoveInv,
       Admitted, Admits, processUpdateEvent
  <2>6. ASSUME NEW sa \in ServiceAccounts, WriteStep(sa) \/ RemoveStep(sa)
        PROVE  DownInv' /\ WriteInv' /\ RemoveInv'
    <3>1. /\ UNCHANGED <<accounts, running, rules, queue, delayed, gc>>
          /\ work.pc # "idle"
          /\ \/ work' = Idle
             \/ work'.pc = work.pc /\ work'.sa = work.sa /\ work'.ann = work.ann
      BY <2>6 DEF WriteStep, RemoveStep, Advance, RolloutTypeOK, TypeOK, WorkStates
    <3>2. running
      BY <3>1, Resting DEF DownInv
    <3> QED BY <3>1, <3>2, Resting DEF DownInv, WriteInv, RemoveInv, Admitted
  <2> QED BY <1>3, <2>1, <2>2, <2>3, <2>4, <2>5, <2>6 DEF NewStep
<1>4. CASE UNCHANGED <<vars, oldProcess, contested>>
  <2>1. DownInv' /\ WriteInv' /\ RemoveInv'
    BY <1>4 DEF vars, process, DownInv, WriteInv, RemoveInv, Admitted
  <2>2. Old!DownInv' /\ Old!WriteInv' /\ Old!RemoveInv'
    BY <1>4, OldInvariants, OldInvariantsNext DEF OldInWords, oldProcess
  <2> QED BY <2>1, <2>2
<1> QED BY <1>1, <1>2, <1>3, <1>4
-----------------------------------------------------------------------------
(* What is written to, and removed from, a quiet account.                  *)

(* The old process knows the account as it is.                             *)
LEMMA OldKnows ==
    ASSUME NEW sa, Quiet(sa), oldRunning
    PROVE  /\ sa \notin oldQueue
           /\ oldAccounts[sa] # None /\ accounts[sa] # None
           /\ ~processUpdateEvent(oldAccounts[sa], accounts[sa])
           /\ Admits(OldRules, sa, oldAccounts[sa])
<1>1. /\ sa \notin oldQueue
      /\ ~Old!PassesFilter(sa, oldAccounts[sa], accounts[sa])
      /\ Admits(OldRules, sa, accounts[sa])
  BY DEF Quiet, OldHears
<1>2. accounts[sa] # None
  BY <1>1 DEF Admits
<1>3. oldAccounts[sa] # None /\ ~processUpdateEvent(oldAccounts[sa], accounts[sa])
  BY <1>1, <1>2, OldFilter
<1>4. Admits(OldRules, sa, oldAccounts[sa])
  BY <1>1, <1>3 DEF Admits, processUpdateEvent
<1> QED BY <1>1, <1>2, <1>3, <1>4

(* Neither worker removes it, and both write the same.                     *)
LEMMA QuietWorkers ==
    ASSUME WorkersInv, NEW sa, Admitted(sa), Quiet(sa)
    PROVE  /\ work.sa = sa => work.pc # "remove"
           /\ oldWork.sa = sa => oldWork.pc # "remove"
           /\ work.pc = "write" /\ work.sa = sa =>
                \A kind \in Kinds :
                    Content(kind, work.ann) = Content(kind, Normal(accounts[sa]))
           /\ oldWork.pc = "write" /\ oldWork.sa = sa =>
                \A kind \in Kinds :
                    Content(kind, oldWork.ann) = Content(kind, Normal(accounts[sa]))
<1> USE DEF WorkersInv
<1>1. sa \notin queue
  BY DEF Quiet
<1>2. work.sa = sa => work.pc # "remove"
  BY <1>1 DEF RemoveInv
<1>3. oldWork.pc # "idle" => oldRunning
  BY OldInvariants, Resting DEF OldInWords
<1>4. oldWork.sa = sa => oldWork.pc # "remove"
  BY <1>3, OldKnows, OldInvariants DEF OldInWords
<1>5. ASSUME work.pc = "write", work.sa = sa, NEW kind \in Kinds
      PROVE  Content(kind, work.ann) = Content(kind, Normal(accounts[sa]))
  BY <1>1, <1>5, AcceptedIsNormal, UnnoticedKeepsContent DEF WriteInv
<1>6. ASSUME oldWork.pc = "write", oldWork.sa = sa, NEW kind \in Kinds
      PROVE  Content(kind, oldWork.ann) = Content(kind, Normal(accounts[sa]))
  <2>1. /\ TTLAccepted(oldWork.ann)
        /\ ~processUpdateEvent(oldWork.ann, oldAccounts[sa])
    BY <1>3, <1>6, OldKnows, OldInvariants DEF OldInWords
  <2>2. ~processUpdateEvent(oldAccounts[sa], accounts[sa])
    BY <1>3, <1>6, OldKnows
  <2> QED BY <2>1, <2>2, AcceptedIsNormal, UnnoticedKeepsContent
<1> QED BY <1>2, <1>4, <1>5, <1>6

(* A write that goes on has one more object in place, and with the third   *)
(* all of them.                                                            *)
LEMMA WriteAdvances ==
    ASSUME NEW w \in WorkStates, NEW next, NEW placed,
           w.pc = "write",
           next = IF w.step = 3 THEN Idle ELSE [w EXCEPT !.step = @ + 1],
           \A i \in 1 .. w.step - 1 : WriteOrder[i] \in placed,
           WriteOrder[w.step] \in placed
    PROVE  \/ Kinds \subseteq placed
           \/ /\ next.pc = "write" /\ next.sa = w.sa
              /\ \A i \in 1 .. next.step - 1 : WriteOrder[i] \in placed
<1>1. w.step \in 1 .. 3
  BY DEF WorkStates
<1>2. \A i \in 1 .. w.step : WriteOrder[i] \in placed
  BY <1>1
<1>3. CASE w.step = 3
  BY <1>2, <1>3, OrdersCover
<1>4. CASE w.step # 3
  <2>1. next.pc = "write" /\ next.sa = w.sa /\ next.step = w.step + 1
    BY <1>1, <1>4 DEF WorkStates
  <2> QED BY <1>1, <1>2, <2>1
<1> QED BY <1>3, <1>4

(* Only Vault and what the workers are busy with have changed, and every   *)
(* quiet account that had what it should still does.                       *)
LEMMA ProvisionKept ==
    ASSUME RolloutProvisionInv,
           UNCHANGED <<accounts, running, rules, queue, contested,
                       oldAccounts, oldRunning, oldQueue>>,
           \A sa \in ServiceAccounts :
               Admitted(sa) /\ Quiet(sa) =>
                   /\ (\A kind \in Kinds : Has(kind, sa)) =>
                          \A kind \in Kinds : Has(kind, sa)'
                   /\ Provides(work, sa) \/ Provides(oldWork, sa) =>
                          \/ Provides(work, sa)' \/ Provides(oldWork, sa)'
                          \/ \A kind \in Kinds : Has(kind, sa)'
    PROVE  RolloutProvisionInv'
<1>1. \A sa : Admitted(sa)' = Admitted(sa)
  BY DEF Admitted
<1>2. \A sa : Quiet(sa)' => Quiet(sa)
  BY OldFilter DEF Quiet, OldHears
<1> QED BY <1>1, <1>2 DEF RolloutProvisionInv
-----------------------------------------------------------------------------
(* The cluster and the processes.                                          *)

(* A change is noticed, by the new process at once and by the old one when *)
(* it learns of it, or leaves the objects what they should be.             *)
LEMMA AnnotateInv ==
    ASSUME RolloutInv, NEW sa \in ServiceAccounts,
           NEW ann \in AnnotationSets \cup {None}, Annotate(sa, ann)
    PROVE  RolloutOrphanInv' /\ RolloutProvisionInv'
<1> USE DEF RolloutInv
<1>1. /\ UNCHANGED <<running, rules, delayed, work, gc, vault, clobbered, oldProcess>>
      /\ queue \subseteq queue'
      /\ \A s \in ServiceAccounts : s # sa => accounts'[s] = accounts[s]
      /\ accounts'[sa] = ann /\ oldAccounts[sa] = accounts[sa]
      /\ running /\ PassesFilter(sa, accounts[sa], ann) => sa \in queue'
      /\ contested' = contested \ queue'
  BY DEF Annotate, Change, RolloutTypeOK, TypeOK
<1>2. \A s \in ServiceAccounts :
          Admitted(s)' # Admitted(s) => s = sa /\ (running => sa \in queue')
  BY <1>1, AdmissionIsNoticed DEF Admitted, PassesFilter
<1>3. RolloutOrphanInv'
  <2> SUFFICES ASSUME running, NEW s \in ServiceAccounts, NEW kind \in Kinds,
                      ~Admitted(s)', vault[kind][s] # None
               PROVE  s \in contested' \/ RemovalPending(kind, s)' \/ OldRemoves(kind, s)'
    BY <1>1 DEF RolloutOrphanInv
  <2>1. CASE s \in queue'
    BY <2>1 DEF RemovalPending
  <2>2. CASE s \notin queue'
    <3>1. s \in contested \/ RemovalPending(kind, s) \/ OldRemoves(kind, s)
      BY <1>2, <2>2 DEF RolloutOrphanInv
    <3>2. RemovalPending(kind, s) => RemovalPending(kind, s)'
      BY <1>1 DEF RemovalPending
    <3>3. OldRemoves(kind, s) => OldRemoves(kind, s)'
      BY <1>1, OldInvariants, OldInvariantsNext DEF OldRemoves, OldInWords, oldProcess
    <3> QED BY <1>1, <2>2, <3>1, <3>2, <3>3
  <2> QED BY <2>1, <2>2
<1>4. RolloutProvisionInv'
  <2> SUFFICES ASSUME running, NEW s \in ServiceAccounts, Admitted(s)', Quiet(s)'
               PROVE  \/ Provides(work, s)' \/ Provides(oldWork, s)'
                      \/ \A kind \in Kinds : Has(kind, s)'
    BY <1>1 DEF RolloutProvisionInv
  <2>1. s \notin queue' /\ s \notin contested'
    BY DEF Quiet
  <2>2. Admitted(s)
    BY <1>2, <2>1
  <2>3. s = sa => accounts[s] # None /\ ann # None /\ ~processUpdateEvent(accounts[s], ann)
    BY <1>1, <2>1, <2>2 DEF PassesFilter, Admitted, Admits
  <2>4. Quiet(s)
    <3>1. s \notin queue \cup contested
      BY <1>1, <2>1
    <3>2. ASSUME oldRunning
          PROVE  ~OldHears(s) /\ Admits(OldRules, s, accounts[s])
      <4>1. s \notin oldQueue
        BY <1>1, <3>2 DEF Quiet, OldHears, oldProcess
      <4>2. Admits(OldRules, s, accounts'[s])
        BY <1>1, <3>2 DEF Quiet, oldProcess
      <4>3. Admits(OldRules, s, accounts[s])
        BY <1>1, <2>3, <4>2 DEF Admits, processUpdateEvent
      <4>4. ~Old!PassesFilter(s, oldAccounts[s], accounts[s])
        <5>1. CASE s = sa
          BY <1>1, <4>3, <5>1, OldFilter DEF Admits, processUpdateEvent
        <5>2. CASE s # sa
          BY <1>1, <3>2, <5>2 DEF Quiet, OldHears, oldProcess
        <5> QED BY <5>1, <5>2
      <4> QED BY <4>1, <4>3, <4>4 DEF OldHears
    <3> QED BY <3>1, <3>2 DEF Quiet
  <2>5. \A kind \in Kinds : Has(kind, s) => Has(kind, s)'
    <3>1. \A kind \in Kinds :
              Content(kind, Normal(accounts[s])) = Content(kind, Normal(accounts'[s]))
      BY <1>1, <2>3, UnnoticedKeepsContent
    <3> QED BY <1>1, <3>1 DEF Has, HasObject, HasContent
  <2>6. /\ work.pc = "write" => \A i \in 1 .. work.step - 1 : WriteOrder[i] \in Kinds
        /\ oldWork.pc = "write" => \A i \in 1 .. oldWork.step - 1 : WriteOrder[i] \in Kinds
    BY OrdersCover DEF RolloutTypeOK, TypeOK, WorkStates
  <2>7. /\ Provides(work, s) => Provides(work, s)'
        /\ Provides(oldWork, s) => Provides(oldWork, s)'
    BY <1>1, <2>5, <2>6 DEF Provides, oldProcess
  <2> QED BY <2>2, <2>4, <2>5, <2>7 DEF RolloutProvisionInv
<1> QED BY <1>3, <1>4

(* The old process queues the account if it has to.                        *)
LEMMA OldLearnsInv ==
    ASSUME RolloutInv, NEW sa \in ServiceAccounts, OldLearns(sa)
    PROVE  RolloutOrphanInv' /\ RolloutProvisionInv'
<1> USE DEF RolloutInv
<1>1. /\ UNCHANGED <<vars, oldRunning, oldWork, contested>>
      /\ oldQueue \subseteq oldQueue'
      /\ \A s \in ServiceAccounts : s # sa => oldAccounts'[s] = oldAccounts[s]
      /\ oldAccounts'[sa] = accounts[sa]
      /\ oldRunning /\ Old!PassesFilter(sa, oldAccounts[sa], accounts[sa]) => sa \in oldQueue'
  BY OldSteps DEF RolloutTypeOK
<1>2. RolloutOrphanInv'
  <2> SUFFICES ASSUME running, NEW s \in ServiceAccounts, NEW kind \in Kinds,
                      ~Admitted(s), vault[kind][s] # None
               PROVE  s \in contested \/ RemovalPending(kind, s) \/ OldRemoves(kind, s)'
    BY <1>1 DEF RolloutOrphanInv, vars, process, Admitted, RemovalPending
  <2>1. s \in contested \/ RemovalPending(kind, s) \/ OldRemoves(kind, s)
    BY DEF RolloutOrphanInv
  <2>2. ASSUME OldRemoves(kind, s)
        PROVE  OldRemoves(kind, s)'
    <3>1. CASE Admits(OldRules, s, oldAccounts'[s]) = Admits(OldRules, s, oldAccounts[s])
      BY <1>1, <2>2, <3>1, OldInvariants, OldInvariantsNext DEF OldRemoves, OldInWords
    <3>2. CASE Admits(OldRules, s, oldAccounts'[s]) # Admits(OldRules, s, oldAccounts[s])
      <4>1. s = sa /\ Old!PassesFilter(sa, oldAccounts[sa], accounts[sa])
        BY <1>1, <3>2, AdmissionIsNoticed, OldFilter
      <4> QED BY <1>1, <2>2, <4>1, OldInvariantsNext DEF OldRemoves, OldInWords
    <3> QED BY <3>1, <3>2
  <2> QED BY <2>1, <2>2
<1>3. RolloutProvisionInv'
  <2>1. ASSUME NEW s \in ServiceAccounts, Quiet(s)'
        PROVE  Quiet(s)
    <3>1. s \notin queue \cup contested /\ (oldRunning => s \notin oldQueue)
      BY <1>1, <2>1 DEF Quiet, OldHears, vars, process
    <3>2. oldRunning => /\ Admits(OldRules, s, accounts[s])
                        /\ ~Old!PassesFilter(s, oldAccounts[s], accounts[s])
      BY <1>1, <2>1 DEF Quiet, OldHears, vars
    <3> QED BY <3>1, <3>2 DEF Quiet, OldHears
  <2>2. \A s : Admitted(s)' = Admitted(s)
    BY <1>1 DEF Admitted, vars, process
  <2>3. \A s : /\ Provides(work, s)' = Provides(work, s)
               /\ Provides(oldWork, s)' = Provides(oldWork, s)
               /\ \A kind : Has(kind, s)' = Has(kind, s)
    BY <1>1 DEF Provides, Has, HasObject, HasContent, vars, process
  <2> QED BY <1>1, <2>1, <2>2, <2>3 DEF RolloutProvisionInv, vars, process
<1> QED BY <1>2, <1>3

(* What the old process leaves undone, or done by its own rules, is        *)
(* contested.                                                              *)
LEMMA OldStopsInv ==
    ASSUME RolloutInv, OldStops
    PROVE  RolloutOrphanInv' /\ RolloutProvisionInv'
<1> USE DEF RolloutInv
<1>1. /\ UNCHANGED <<vars, oldAccounts>> /\ oldRunning /\ oldRunning' = FALSE
      /\ contested' = contested \cup {s \in ServiceAccounts : running /\ Unfinished(s)}
      /\ oldWork' = Idle
  BY OldEnds
<1>2. RolloutOrphanInv'
  <2> SUFFICES ASSUME running, NEW s \in ServiceAccounts, NEW kind \in Kinds,
                      ~Admitted(s), vault[kind][s] # None
               PROVE  s \in contested' \/ RemovalPending(kind, s)
    BY <1>1 DEF RolloutOrphanInv, vars, process, Admitted, RemovalPending
  <2>1. s \in contested \/ RemovalPending(kind, s) \/ OldRemoves(kind, s)
    BY DEF RolloutOrphanInv
  <2>2. OldRemoves(kind, s) => Unfinished(s)
    BY <1>1, OldInvariants DEF OldRemoves, OldInWords, Unfinished, Admitted
  <2> QED BY <1>1, <2>1, <2>2
<1>3. RolloutProvisionInv'
  <2> SUFFICES ASSUME running, NEW s \in ServiceAccounts, Admitted(s), Quiet(s)'
               PROVE  Provides(work, s)' \/ \A kind \in Kinds : Has(kind, s)'
    BY <1>1 DEF RolloutProvisionInv, vars, process, Admitted
  <2>1. s \notin queue \cup contested /\ ~Unfinished(s)
    BY <1>1 DEF Quiet, vars, process
  <2>2. Quiet(s)
    BY <1>1, <2>1, OldFilter DEF Quiet, OldHears, Unfinished, Admitted, Admits,
       processUpdateEvent
  <2>3. ~Provides(oldWork, s)
    BY <1>1, <2>1 DEF Provides, Unfinished
  <2>4. Provides(work, s) \/ \A kind \in Kinds : Has(kind, s)
    BY <2>2, <2>3 DEF RolloutProvisionInv
  <2> QED BY <1>1, <2>4 DEF Provides, Has, HasObject, HasContent, vars, process
<1> QED BY <1>2, <1>3

(* A new process queues every admitted account and lists every kind.       *)
LEMMA NewStartsInv ==
    ASSUME RolloutInv, NEW ruleList \in RuleLists, NewStarts(ruleList)
    PROVE  RolloutOrphanInv' /\ RolloutProvisionInv'
<1>1. /\ gc' = GCStart
      /\ queue' = {s \in ServiceAccounts : Admitted(s)'}
  BY DEF NewStarts, Startup, Admitted
<1>2. \A kind \in Kinds :
          \/ \E i \in 2 .. 3 : ListOrder[i] = kind
          \/ ListOrder[1] = kind
  BY OrdersCover
<1>3. RolloutOrphanInv'
  BY <1>1, <1>2, Resting DEF RolloutOrphanInv, RemovalPending
<1>4. RolloutProvisionInv'
  BY <1>1 DEF RolloutProvisionInv, Quiet
<1> QED BY <1>3, <1>4
-----------------------------------------------------------------------------
(* The old process.                                                        *)

(* It begins to remove all objects of the account, or to write them.       *)
LEMMA OldTakesInv ==
    ASSUME RolloutInv, NEW sa \in ServiceAccounts, OldStep,
           Old!ReconcileRemove(sa) \/ Old!ReconcileWrite(sa)
    PROVE  RolloutOrphanInv' /\ RolloutProvisionInv'
<1> USE DEF RolloutInv
<1>1. /\ UNCHANGED <<accounts, process, clobbered, steady, contested,
                      oldAccounts, oldRunning, vault>>
      /\ oldRunning /\ oldWork.pc = "idle" /\ sa \in oldQueue
      /\ oldQueue' = oldQueue \ {sa}
      /\ \/ /\ ~Admits(OldRules, sa, oldAccounts[sa])
            /\ oldWork' = [pc |-> "remove", sa |-> sa, ann |-> None, step |-> 1]
         \/ /\ Admits(OldRules, sa, oldAccounts[sa])
            /\ oldWork' = [pc |-> "write", sa |-> sa, ann |-> oldAccounts[sa], step |-> 1]
  BY OldSteps DEF OldStep
<1>2. RolloutOrphanInv'
  <2> SUFFICES ASSUME running, NEW s \in ServiceAccounts, NEW kind \in Kinds,
                      ~Admitted(s), vault[kind][s] # None
               PROVE  s \in contested \/ RemovalPending(kind, s) \/ OldRemoves(kind, s)'
    BY <1>1 DEF RolloutOrphanInv, process, Admitted, RemovalPending
  <2>1. s \in contested \/ RemovalPending(kind, s) \/ OldRemoves(kind, s)
    BY DEF RolloutOrphanInv
  <2>2. CASE s = sa
    <3>1. Admits(OldRules, s, oldAccounts[s]) => OldRemoves(kind, s)'
      BY <1>1, OldInvariantsNext DEF OldRemoves, OldInWords
    <3>2. ~Admits(OldRules, s, oldAccounts[s]) => OldRemoves(kind, s)'
      BY <1>1, <2>2, OrdersCover, OldInvariantsNext DEF OldRemoves, OldInWords
    <3> QED BY <3>1, <3>2
  <2>3. CASE s # sa
    <3>1. OldRemoves(kind, s) => OldRemoves(kind, s)'
      BY <1>1, <2>3, OldInvariants, OldInvariantsNext DEF OldRemoves, OldInWords
    <3> QED BY <2>1, <3>1
  <2> QED BY <2>2, <2>3
<1>3. RolloutProvisionInv'
  <2> SUFFICES ASSUME running, NEW s \in ServiceAccounts, Admitted(s), Quiet(s)'
               PROVE  \/ Provides(work, s) \/ Provides(oldWork, s)'
                      \/ \A kind \in Kinds : Has(kind, s)
    BY <1>1 DEF RolloutProvisionInv, process, Admitted, Provides, Has, HasObject, HasContent
  <2>1. /\ s \notin queue \cup contested /\ s \notin oldQueue'
        /\ Admits(OldRules, s, accounts[s])
        /\ ~Old!PassesFilter(s, oldAccounts[s], accounts[s])
    BY <1>1 DEF Quiet, OldHears, process
  <2>2. CASE s = sa
    <3>1. Admits(OldRules, s, oldAccounts[s])
      BY <2>1, AdmissionIsNoticed, OldFilter
    <3> QED BY <1>1, <2>2, <3>1 DEF Provides
  <2>3. CASE s # sa
    <3>1. Quiet(s)
      BY <1>1, <2>1, <2>3 DEF Quiet, OldHears
    <3>2. ~Provides(oldWork, s)
      BY <1>1 DEF Provides
    <3> QED BY <3>1, <3>2 DEF RolloutProvisionInv
  <2> QED BY <2>2, <2>3
<1> QED BY <1>2, <1>3

(* It writes what it read, which is what is asked for, or it comes back.   *)
LEMMA OldWritesInv ==
    ASSUME RolloutInv, NEW sa \in ServiceAccounts, OldStep, Old!WriteStep(sa)
    PROVE  RolloutOrphanInv' /\ RolloutProvisionInv'
<1> USE DEF RolloutInv
<1> DEFINE kind0 == WriteOrder[oldWork.step]
<1>1. /\ UNCHANGED <<accounts, process, clobbered, steady, contested,
                      oldAccounts, oldRunning, oldQueue>>
      /\ oldWork.pc = "write" /\ oldWork.sa = sa
      /\ Store(kind0, sa, Content(kind0, oldWork.ann))
      /\ oldWork' = IF oldWork.step = 3 THEN Idle ELSE [oldWork EXCEPT !.step = @ + 1]
  BY OldSteps DEF OldStep
<1>2. /\ oldRunning
      /\ oldWork.step \in 1 .. 3 /\ kind0 \in Kinds
  BY <1>1, OldInvariants, OrdersCover, Resting
  DEF OldInWords, WorkersInv, RolloutTypeOK, WorkStates
<1>3. /\ vault'[kind0][sa] = Content(kind0, oldWork.ann)
      /\ \A s \in ServiceAccounts, kind \in Kinds :
            s # sa \/ kind # kind0 => vault'[kind][s] = vault[kind][s]
  BY <1>1, <1>2 DEF Store, RolloutTypeOK, TypeOK
<1>4. RolloutOrphanInv'
  <2> SUFFICES ASSUME running, NEW s \in ServiceAccounts, NEW kind \in Kinds,
                      ~Admitted(s), vault'[kind][s] # None
               PROVE  s \in contested \/ RemovalPending(kind, s) \/ OldRemoves(kind, s)'
    BY <1>1 DEF RolloutOrphanInv, process, Admitted, RemovalPending
  <2>1. CASE s = sa
    <3>1. s \in oldQueue \/ Admits(OldRules, s, oldAccounts[s])
      BY <1>1, <2>1, OldInvariants DEF OldInWords, WorkersInv, Admits, processUpdateEvent
    <3> QED BY <1>1, <1>2, <3>1, OldInvariantsNext DEF OldRemoves, OldInWords
  <2>2. CASE s # sa
    <3>1. s \in contested \/ RemovalPending(kind, s) \/ OldRemoves(kind, s)
      BY <1>3, <2>2 DEF RolloutOrphanInv
    <3>2. OldRemoves(kind, s) => OldRemoves(kind, s)'
      BY <1>1, OldInvariants, OldInvariantsNext DEF OldRemoves, OldInWords
    <3> QED BY <3>1, <3>2
  <2> QED BY <2>1, <2>2
<1>5. RolloutProvisionInv'
  <2>1. ASSUME NEW s \in ServiceAccounts, Admitted(s), Quiet(s)
        PROVE  \A kind \in Kinds :
                   Has(kind, s) \/ (s = sa /\ kind = kind0) => Has(kind, s)'
    <3>1. s = sa => \A kind \in Kinds :
              Content(kind, oldWork.ann) = Content(kind, Normal(accounts[s]))
      BY <1>1, <2>1, QuietWorkers
    <3> QED BY <1>1, <1>2, <1>3, <3>1 DEF Has, HasObject, HasContent
  <2>2. ASSUME NEW s \in ServiceAccounts, Admitted(s), Quiet(s), Provides(work, s)
        PROVE  Provides(work, s)'
    <3>1. \A i \in 1 .. work.step - 1 : WriteOrder[i] \in Kinds
      BY OrdersCover DEF RolloutTypeOK, TypeOK, WorkStates
    <3> QED BY <1>1, <2>1, <2>2, <3>1 DEF Provides, process
  <2>3. ASSUME NEW s \in ServiceAccounts, Admitted(s), Quiet(s), Provides(oldWork, s)
        PROVE  Provides(oldWork, s)' \/ \A kind \in Kinds : Has(kind, s)'
    <3> DEFINE placed == {kind \in Kinds : Has(kind, s)'}
    <3>1. \A i \in 1 .. oldWork.step - 1 : WriteOrder[i] \in placed
      BY <1>2, <2>1, <2>3, OrdersCover DEF Provides
    <3>2. s = sa /\ kind0 \in placed
      BY <1>1, <1>2, <2>1, <2>3 DEF Provides
    <3>3. oldWork \in WorkStates
      BY DEF RolloutTypeOK
    <3> HIDE DEF placed
    <3>4. \/ Kinds \subseteq placed
          \/ /\ oldWork'.pc = "write" /\ oldWork'.sa = oldWork.sa
             /\ \A i \in 1 .. oldWork'.step - 1 : WriteOrder[i] \in placed
      BY <1>1, <3>1, <3>2, <3>3, WriteAdvances
    <3> QED BY <1>1, <3>2, <3>4 DEF placed, Provides
  <2> QED BY <1>1, <2>1, <2>2, <2>3, ProvisionKept DEF process
<1> QED BY <1>4, <1>5

(* It removes nothing of a quiet account.                                  *)
LEMMA OldRemovesInv ==
    ASSUME RolloutInv, NEW sa \in ServiceAccounts, OldStep, Old!RemoveStep(sa)
    PROVE  RolloutOrphanInv' /\ RolloutProvisionInv'
<1> USE DEF RolloutInv
<1> DEFINE step == oldWork.step
<1>1. /\ UNCHANGED <<accounts, process, clobbered, steady, contested,
                      oldAccounts, oldRunning, oldQueue>>
      /\ oldWork.pc = "remove" /\ oldWork.sa = sa
      /\ Store(RemoveOrder[step], sa, None)
      /\ oldWork' = IF step = 3 THEN Idle ELSE [oldWork EXCEPT !.step = @ + 1]
  BY OldSteps DEF OldStep
<1>2. step \in 1 .. 3 /\ RemoveOrder[step] \in Kinds
  BY OrdersCover DEF RolloutTypeOK, WorkStates
<1>3. /\ vault'[RemoveOrder[step]][sa] = None
      /\ \A s \in ServiceAccounts, kind \in Kinds :
            s # sa \/ kind # RemoveOrder[step] => vault'[kind][s] = vault[kind][s]
  BY <1>1, <1>2 DEF Store, RolloutTypeOK, TypeOK
<1>4. RolloutOrphanInv'
  <2> SUFFICES ASSUME running, NEW s \in ServiceAccounts, NEW kind \in Kinds,
                      ~Admitted(s), vault'[kind][s] # None
               PROVE  s \in contested \/ RemovalPending(kind, s) \/ OldRemoves(kind, s)'
    BY <1>1 DEF RolloutOrphanInv, process, Admitted, RemovalPending
  <2>1. vault[kind][s] # None /\ ~(s = sa /\ kind = RemoveOrder[step])
    BY <1>3
  <2>2. s \in contested \/ RemovalPending(kind, s) \/ OldRemoves(kind, s)
    BY <2>1 DEF RolloutOrphanInv
  <2>3. ASSUME OldRemoves(kind, s)
        PROVE  OldRemoves(kind, s)'
    <3>1. CASE s = sa /\ \E i \in step .. 3 : RemoveOrder[i] = kind
      <4>1. PICK i \in step .. 3 : RemoveOrder[i] = kind
        BY <3>1
      <4>2. i \in step + 1 .. 3 /\ step # 3
        BY <1>2, <2>1, <3>1, <4>1
      <4>3. oldWork'.pc = "remove" /\ oldWork'.sa = sa /\ oldWork'.step = step + 1
        BY <1>1, <1>2, <4>2 DEF RolloutTypeOK, WorkStates
      <4> QED BY <1>1, <2>3, <3>1, <4>1, <4>2, <4>3, OldInvariantsNext
              DEF OldRemoves, OldInWords
    <3>2. CASE s \in oldQueue \/ Admits(OldRules, s, oldAccounts[s])
      BY <1>1, <2>3, <3>2, OldInvariantsNext DEF OldRemoves, OldInWords
    <3> QED BY <1>1, <2>3, <3>1, <3>2, OldInvariants DEF OldRemoves, OldInWords
  <2> QED BY <2>2, <2>3
<1>5. RolloutProvisionInv'
  <2>1. ASSUME NEW s \in ServiceAccounts, Admitted(s), Quiet(s)
        PROVE  s # sa /\ \A kind \in Kinds : Has(kind, s) => Has(kind, s)'
    <3>1. s # sa
      BY <1>1, <2>1, QuietWorkers
    <3> QED BY <1>1, <1>3, <3>1 DEF Has, HasObject, HasContent
  <2>2. ASSUME NEW s \in ServiceAccounts, Admitted(s), Quiet(s), Provides(work, s)
        PROVE  Provides(work, s)'
    <3>1. \A i \in 1 .. work.step - 1 : WriteOrder[i] \in Kinds
      BY OrdersCover DEF RolloutTypeOK, TypeOK, WorkStates
    <3> QED BY <1>1, <2>1, <2>2, <3>1 DEF Provides, process
  <2>3. \A s : ~Provides(oldWork, s)
    BY <1>1 DEF Provides
  <2> QED BY <1>1, <2>1, <2>2, <2>3, ProvisionKept DEF process
<1> QED BY <1>4, <1>5
-----------------------------------------------------------------------------
(* The new process.                                                        *)

(* What the old process is going to remove does not depend on the new one. *)
LEMMA OldRemovesKept ==
    ASSUME UNCHANGED oldProcess
    PROVE  \A kind, sa : OldRemoves(kind, sa)' = OldRemoves(kind, sa)
BY OldInvariants, OldInvariantsNext DEF OldRemoves, OldInWords, oldProcess

(* It begins to remove all objects of the account, or to write them.       *)
LEMMA NewTakesInv ==
    ASSUME RolloutInv, NEW sa \in ServiceAccounts, UNCHANGED <<oldProcess, contested>>,
           ReconcileRemove(sa) \/ ReconcileWrite(sa)
    PROVE  RolloutOrphanInv' /\ RolloutProvisionInv'
<1> USE DEF RolloutInv
<1>1. /\ UNCHANGED <<accounts, running, rules, gc, vault, clobbered, delayed>>
      /\ work.pc = "idle"
      /\ queue' = queue \ {sa}
      /\ \/ /\ ~Admitted(sa)
            /\ work' = [pc |-> "remove", sa |-> sa, ann |-> None, step |-> 1]
         \/ /\ Admitted(sa)
            /\ work' = [pc |-> "write", sa |-> sa, ann |-> accounts[sa], step |-> 1]
  BY DEF ReconcileRemove, ReconcileWrite, Take
<1>2. RolloutOrphanInv'
  <2> SUFFICES ASSUME running, NEW s \in ServiceAccounts, NEW kind \in Kinds,
                      ~Admitted(s), vault[kind][s] # None
               PROVE  s \in contested \/ RemovalPending(kind, s)' \/ OldRemoves(kind, s)
    BY <1>1, OldRemovesKept DEF RolloutOrphanInv, Admitted
  <2>1. CASE s = sa
    BY <1>1, <2>1, OrdersCover DEF RemovalPending
  <2>2. CASE s # sa
    <3>1. s \in contested \/ RemovalPending(kind, s) \/ OldRemoves(kind, s)
      BY DEF RolloutOrphanInv
    <3> QED BY <1>1, <2>2, <3>1 DEF RemovalPending
  <2> QED BY <2>1, <2>2
<1>3. RolloutProvisionInv'
  <2> SUFFICES ASSUME running, NEW s \in ServiceAccounts, Admitted(s), Quiet(s)'
               PROVE  \/ Provides(work, s)' \/ Provides(oldWork, s)
                      \/ \A kind \in Kinds : Has(kind, s)
    BY <1>1 DEF RolloutProvisionInv, oldProcess, Admitted, Provides, Has, HasObject,
       HasContent
  <2>1. CASE s = sa
    BY <1>1, <2>1 DEF Provides
  <2>2. CASE s # sa
    <3>1. Quiet(s)
      BY <1>1, <2>2 DEF Quiet, OldHears, oldProcess
    <3>2. ~Provides(work, s)
      BY <1>1 DEF Provides
    <3> QED BY <3>1, <3>2 DEF RolloutProvisionInv
  <2> QED BY <2>1, <2>2
<1> QED BY <1>2, <1>3

(* It writes what is asked for, or the account is queued again.            *)
LEMMA NewWritesInv ==
    ASSUME RolloutInv, NEW sa \in ServiceAccounts, UNCHANGED <<oldProcess, contested>>,
           WriteStep(sa)
    PROVE  RolloutOrphanInv' /\ RolloutProvisionInv'
<1> USE DEF RolloutInv
<1> DEFINE kind0 == WriteOrder[work.step]
<1>1. /\ UNCHANGED <<accounts, running, rules, queue, delayed, gc>>
      /\ work.pc = "write" /\ work.sa = sa
      /\ Store(kind0, sa, Content(kind0, work.ann))
      /\ clobbered' = clobbered \ {<<kind0, sa>>}
      /\ work' = IF work.step = 3 THEN Idle ELSE [work EXCEPT !.step = @ + 1]
  BY DEF WriteStep, Advance
<1>2. work.step \in 1 .. 3 /\ kind0 \in Kinds
  BY OrdersCover DEF RolloutTypeOK, TypeOK, WorkStates
<1>3. /\ vault'[kind0][sa] = Content(kind0, work.ann)
      /\ \A s \in ServiceAccounts, kind \in Kinds :
            s # sa \/ kind # kind0 => vault'[kind][s] = vault[kind][s]
  BY <1>1, <1>2 DEF Store, RolloutTypeOK, TypeOK
<1>4. RolloutOrphanInv'
  <2> SUFFICES ASSUME running, NEW s \in ServiceAccounts, NEW kind \in Kinds,
                      ~Admitted(s), vault'[kind][s] # None
               PROVE  s \in contested \/ RemovalPending(kind, s)' \/ OldRemoves(kind, s)
    BY <1>1, OldRemovesKept DEF RolloutOrphanInv, Admitted
  <2>1. CASE s = sa
    <3>1. s \in queue
      BY <1>1, <2>1 DEF WorkersInv, WriteInv, Admitted, Admits, processUpdateEvent
    <3> QED BY <1>1, <3>1 DEF RemovalPending
  <2>2. CASE s # sa
    <3>1. s \in contested \/ RemovalPending(kind, s) \/ OldRemoves(kind, s)
      BY <1>3, <2>2 DEF RolloutOrphanInv
    <3> QED BY <1>1, <2>2, <3>1 DEF RemovalPending
  <2> QED BY <2>1, <2>2
<1>5. RolloutProvisionInv'
  <2>1. ASSUME NEW s \in ServiceAccounts, Admitted(s), Quiet(s)
        PROVE  \A kind \in Kinds :
                   Has(kind, s) \/ (s = sa /\ kind = kind0) => Has(kind, s)'
    <3>1. s = sa => \A kind \in Kinds :
              Content(kind, work.ann) = Content(kind, Normal(accounts[s]))
      BY <1>1, <2>1, QuietWorkers
    <3> QED BY <1>1, <1>2, <1>3, <3>1 DEF Has, HasObject, HasContent
  <2>2. ASSUME NEW s \in ServiceAccounts, Admitted(s), Quiet(s), Provides(oldWork, s)
        PROVE  Provides(oldWork, s)'
    <3>1. \A i \in 1 .. oldWork.step - 1 : WriteOrder[i] \in Kinds
      BY OrdersCover DEF RolloutTypeOK, WorkStates
    <3> QED BY <1>1, <2>1, <2>2, <3>1 DEF Provides, oldProcess
  <2>3. ASSUME NEW s \in ServiceAccounts, Admitted(s), Quiet(s), Provides(work, s)
        PROVE  Provides(work, s)' \/ \A kind \in Kinds : Has(kind, s)'
    <3> DEFINE placed == {kind \in Kinds : Has(kind, s)'}
    <3>1. \A i \in 1 .. work.step - 1 : WriteOrder[i] \in placed
      BY <1>2, <2>1, <2>3, OrdersCover DEF Provides
    <3>2. s = sa /\ kind0 \in placed
      BY <1>1, <1>2, <2>1, <2>3 DEF Provides
    <3>3. work \in WorkStates
      BY DEF RolloutTypeOK, TypeOK
    <3> HIDE DEF placed
    <3>4. \/ Kinds \subseteq placed
          \/ /\ work'.pc = "write" /\ work'.sa = work.sa
             /\ \A i \in 1 .. work'.step - 1 : WriteOrder[i] \in placed
      BY <1>1, <3>1, <3>2, <3>3, WriteAdvances
    <3> QED BY <1>1, <3>2, <3>4 DEF placed, Provides
  <2> QED BY <1>1, <2>1, <2>2, <2>3, ProvisionKept DEF oldProcess
<1> QED BY <1>4, <1>5

(* It removes nothing of a quiet account.                                  *)
LEMMA NewRemovesInv ==
    ASSUME RolloutInv, NEW sa \in ServiceAccounts, UNCHANGED <<oldProcess, contested>>,
           RemoveStep(sa)
    PROVE  RolloutOrphanInv' /\ RolloutProvisionInv'
<1> USE DEF RolloutInv
<1> DEFINE step == work.step
<1>1. /\ UNCHANGED <<accounts, running, rules, queue, delayed, gc, clobbered>>
      /\ work.pc = "remove" /\ work.sa = sa
      /\ Store(RemoveOrder[step], sa, None)
      /\ work' = IF step = 3 THEN Idle ELSE [work EXCEPT !.step = @ + 1]
  BY DEF RemoveStep, Advance
<1>2. step \in 1 .. 3 /\ RemoveOrder[step] \in Kinds
  BY OrdersCover DEF RolloutTypeOK, TypeOK, WorkStates
<1>3. /\ vault'[RemoveOrder[step]][sa] = None
      /\ \A s \in ServiceAccounts, kind \in Kinds :
            s # sa \/ kind # RemoveOrder[step] => vault'[kind][s] = vault[kind][s]
  BY <1>1, <1>2 DEF Store, RolloutTypeOK, TypeOK
<1>4. RolloutOrphanInv'
  <2> SUFFICES ASSUME running, NEW s \in ServiceAccounts, NEW kind \in Kinds,
                      ~Admitted(s), vault'[kind][s] # None
               PROVE  s \in contested \/ RemovalPending(kind, s)' \/ OldRemoves(kind, s)
    BY <1>1, OldRemovesKept DEF RolloutOrphanInv, Admitted
  <2>1. vault[kind][s] # None /\ ~(s = sa /\ kind = RemoveOrder[step])
    BY <1>3
  <2>2. s \in contested \/ RemovalPending(kind, s) \/ OldRemoves(kind, s)
    BY <2>1 DEF RolloutOrphanInv
  <2>3. CASE s = sa /\ \E i \in step .. 3 : RemoveOrder[i] = kind
    <3>1. PICK i \in step .. 3 : RemoveOrder[i] = kind
      BY <2>3
    <3>2. i \in step + 1 .. 3 /\ step # 3
      BY <1>2, <2>1, <2>3, <3>1
    <3>3. work'.pc = "remove" /\ work'.sa = sa /\ work'.step = step + 1
      BY <1>1, <1>2, <3>2 DEF RolloutTypeOK, TypeOK, WorkStates
    <3> QED BY <2>3, <3>1, <3>2, <3>3 DEF RemovalPending
  <2> QED BY <1>1, <2>2, <2>3 DEF RemovalPending
<1>5. RolloutProvisionInv'
  <2>1. ASSUME NEW s \in ServiceAccounts, Admitted(s), Quiet(s)
        PROVE  s # sa /\ \A kind \in Kinds : Has(kind, s) => Has(kind, s)'
    <3>1. s # sa
      BY <1>1, <2>1, QuietWorkers
    <3> QED BY <1>1, <1>3, <3>1 DEF Has, HasObject, HasContent
  <2>2. ASSUME NEW s \in ServiceAccounts, Admitted(s), Quiet(s), Provides(oldWork, s)
        PROVE  Provides(oldWork, s)'
    <3>1. \A i \in 1 .. oldWork.step - 1 : WriteOrder[i] \in Kinds
      BY OrdersCover DEF RolloutTypeOK, WorkStates
    <3> QED BY <1>1, <2>1, <2>2, <3>1 DEF Provides, oldProcess
  <2>3. \A s : ~Provides(work, s)
    BY <1>1 DEF Provides
  <2> QED BY <1>1, <2>1, <2>2, <2>3, ProvisionKept DEF oldProcess
<1> QED BY <1>4, <1>5

(* The garbage collection drops a key only when its account is admitted or *)
(* is being removed.                                                       *)
LEMMA NewCollectsInv ==
    ASSUME RolloutInv, UNCHANGED <<oldProcess, contested>>,
           GCList \/ GCNext \/ \E sa \in ServiceAccounts : GCCheck(sa)
    PROVE  RolloutOrphanInv' /\ RolloutProvisionInv'
<1> USE DEF RolloutInv
<1>1. /\ UNCHANGED <<accounts, running, rules, queue, delayed, work, vault, clobbered>>
      /\ gc.pc # "done" /\ gc.pc # "remove"
  BY DEF GCList, GCNext, GCCheck, GCUnchanged
<1>2. RolloutOrphanInv'
  <2> SUFFICES ASSUME running, NEW s \in ServiceAccounts, NEW kind \in Kinds,
                      ~Admitted(s), vault[kind][s] # None, RemovalPending(kind, s)
               PROVE  RemovalPending(kind, s)'
    BY <1>1, OldRemovesKept DEF RolloutOrphanInv, Admitted
  <2>1. gc.listing \in 1 .. 3
    BY DEF RolloutTypeOK, TypeOK, GCStates
  <2>2. CASE GCList
    <3>1. /\ gc.pc = "list"
          /\ gc'.pc = "scan" /\ gc'.listing = gc.listing
          /\ gc'.keys = {sa \in ServiceAccounts :
                            vault[ListOrder[gc.listing]][sa] # None}
      BY <2>2 DEF GCList, RolloutTypeOK, TypeOK, GCStates
    <3> QED BY <1>1, <3>1 DEF RemovalPending
  <2>3. CASE GCNext
    <3>1. /\ gc.pc = "scan" /\ gc.keys = {}
          /\ gc.listing = 3 \/ (gc'.pc = "list" /\ gc'.listing = gc.listing + 1)
      BY <2>1, <2>3 DEF GCNext, GCAt
    <3> QED BY <1>1, <2>1, <3>1 DEF RemovalPending
  <2>4. ASSUME NEW sa \in ServiceAccounts, GCCheck(sa)
        PROVE  RemovalPending(kind, s)'
    <3>1. /\ gc.pc = "scan"
          /\ gc'.listing = gc.listing
          /\ gc'.keys = gc.keys \ {sa}
          /\ gc'.pc # "done"
          /\ ~Admitted(sa) => gc'.pc = "remove" /\ gc'.sa = sa /\ gc'.step = 1
      BY <2>4 DEF GCCheck, GCAt, RolloutTypeOK, TypeOK, GCStates
    <3>2. CASE s = sa
      BY <3>1, <3>2, OrdersCover DEF RemovalPending
    <3>3. CASE s # sa
      BY <1>1, <3>1, <3>3 DEF RemovalPending
    <3> QED BY <3>2, <3>3
  <2> QED BY <2>2, <2>3, <2>4
<1>3. RolloutProvisionInv'
  BY <1>1 DEF RolloutProvisionInv, Provides, Has, HasObject, HasContent, Admitted,
     Quiet, OldHears, oldProcess
<1> QED BY <1>2, <1>3

(* What it deletes of an admitted account is clobbered.                    *)
LEMMA NewDeletesInv ==
    ASSUME RolloutInv, UNCHANGED <<oldProcess, contested>>, GCRemoveStep
    PROVE  RolloutOrphanInv' /\ RolloutProvisionInv'
<1> USE DEF RolloutInv
<1> DEFINE sa == gc.sa
           step == gc.step
<1>1. /\ UNCHANGED <<accounts, running, rules, queue, delayed, work>>
      /\ gc.pc = "remove"
      /\ sa \in ServiceAccounts
      /\ step \in 1 .. 3
      /\ gc.listing \in 1 .. 3
  BY DEF GCRemoveStep, GCUnchanged, RolloutTypeOK, TypeOK, GCStates
<1>2. /\ RemoveOrder[step] \in Kinds
      /\ vault'[RemoveOrder[step]][sa] = None
      /\ \A s \in ServiceAccounts, kind \in Kinds :
            s # sa \/ kind # RemoveOrder[step] => vault'[kind][s] = vault[kind][s]
  BY <1>1, OrdersCover DEF GCRemoveStep, GCDelete, Store, RolloutTypeOK, TypeOK
<1>3. /\ clobbered \subseteq clobbered'
      /\ Admitted(sa) => <<RemoveOrder[step], sa>> \in clobbered'
  BY DEF GCRemoveStep, GCDelete
<1>4. /\ gc'.listing = gc.listing /\ gc'.keys = gc.keys
      /\ \/ step = 3 /\ gc'.pc = "scan"
         \/ step # 3 /\ gc'.pc = "remove" /\ gc'.sa = sa /\ gc'.step = step + 1
  BY <1>1 DEF GCRemoveStep, GCAt, RolloutTypeOK, TypeOK, GCStates
<1>5. RolloutOrphanInv'
  <2> SUFFICES ASSUME running, NEW s \in ServiceAccounts, NEW kind \in Kinds,
                      ~Admitted(s), vault'[kind][s] # None
               PROVE  s \in contested \/ RemovalPending(kind, s)' \/ OldRemoves(kind, s)
    BY <1>1, OldRemovesKept DEF RolloutOrphanInv, Admitted
  <2>1. vault[kind][s] # None /\ ~(s = sa /\ kind = RemoveOrder[step])
    BY <1>2
  <2>2. s \in contested \/ RemovalPending(kind, s) \/ OldRemoves(kind, s)
    BY <2>1 DEF RolloutOrphanInv
  <2>3. CASE s = sa /\ \E i \in step .. 3 : RemoveOrder[i] = kind
    <3>1. PICK i \in step .. 3 : RemoveOrder[i] = kind
      BY <2>3
    <3>2. i \in step + 1 .. 3 /\ step # 3
      BY <1>1, <2>1, <2>3, <3>1
    <3> QED BY <1>4, <2>3, <3>1, <3>2 DEF RemovalPending
  <2>4. CASE \/ s \in queue \cup delayed
             \/ /\ work.pc = "remove" /\ work.sa = s
                /\ \E i \in work.step .. 3 : RemoveOrder[i] = kind
    BY <1>1, <2>4 DEF RemovalPending
  <2>5. CASE \/ \E i \in gc.listing + 1 .. 3 : ListOrder[i] = kind
             \/ ListOrder[gc.listing] = kind /\ s \in gc.keys
    BY <1>4, <2>5 DEF RemovalPending
  <2> QED BY <1>1, <2>2, <2>3, <2>4, <2>5 DEF RemovalPending
<1>6. RolloutProvisionInv'
  <2>1. ASSUME NEW s \in ServiceAccounts, Admitted(s)
        PROVE  \A kind \in Kinds : Has(kind, s) => Has(kind, s)'
    BY <1>1, <1>2, <1>3, <2>1 DEF Has, HasObject, HasContent
  <2>2. /\ \A i \in 1 .. work.step - 1 : WriteOrder[i] \in Kinds
        /\ \A i \in 1 .. oldWork.step - 1 : WriteOrder[i] \in Kinds
    <3>1. work.step \in 1 .. 3 /\ oldWork.step \in 1 .. 3
      BY DEF RolloutTypeOK, TypeOK, WorkStates
    <3> QED BY <3>1, OrdersCover
  <2>3. ASSUME NEW s \in ServiceAccounts, Admitted(s)
        PROVE  /\ Provides(work, s) => Provides(work, s)'
               /\ Provides(oldWork, s) => Provides(oldWork, s)'
    BY <1>1, <2>1, <2>2, <2>3 DEF Provides, oldProcess
  <2> QED BY <1>1, <2>1, <2>3, ProvisionKept DEF oldProcess
<1> QED BY <1>5, <1>6
-----------------------------------------------------------------------------
(* The accounts that were admitted all along.                              *)

(* A step of the new process begins to remove none of them.                *)
LEMMA NewStepSteady ==
    ASSUME RolloutTypeOK, SteadyInv, NewStep
    PROVE  SteadyInv'
<1> USE DEF RolloutTypeOK, TypeOK
<1>1. ASSUME NEW sa \in ServiceAccounts, ReconcileRemove(sa) \/ ReconcileWrite(sa)
      PROVE  SteadyInv'
  BY <1>1 DEF ReconcileRemove, ReconcileWrite, Take, SteadyInv, Admitted
<1>2. ASSUME NEW sa \in ServiceAccounts, WriteStep(sa) \/ RemoveStep(sa)
      PROVE  SteadyInv'
  BY <1>2, Resting DEF WriteStep, RemoveStep, Advance, WorkStates, SteadyInv, Admitted
<1>3. ASSUME NEW sa \in ServiceAccounts, GCCheck(sa)
      PROVE  SteadyInv'
  BY <1>3 DEF GCCheck, GCAt, GCUnchanged, GCStates, SteadyInv, Admitted
<1>4. CASE GCList
  BY <1>4 DEF GCList, GCUnchanged, GCStates, SteadyInv, Admitted
<1>5. CASE GCNext
  BY <1>5, Resting DEF GCNext, GCAt, GCUnchanged, SteadyInv, Admitted
<1>6. CASE GCRemoveStep
  BY <1>6 DEF GCRemoveStep, GCAt, GCUnchanged, GCStates, SteadyInv, Admitted
<1>7. CASE GCFails \/ Crash
  BY <1>7 DEF GCFails, Crash, Stop, SteadyInv
<1> QED BY <1>1, <1>2, <1>3, <1>4, <1>5, <1>6, <1>7 DEF NewStep

(* No step of the rollout does.                                            *)
LEMMA SteadyStep ==
    ASSUME RolloutTypeOK, WorkersInv, SteadyInv,
           [RolloutNext]_<<vars, oldProcess, contested>>
    PROVE  SteadyInv'
<1> USE DEF RolloutTypeOK, TypeOK
<1>1. ASSUME NEW sa \in ServiceAccounts, NEW ann \in AnnotationSets \cup {None},
             Annotate(sa, ann)
      PROVE  SteadyInv'
  BY <1>1 DEF Annotate, Change, SteadyInv, Admitted
<1>2. ASSUME NEW ruleList \in RuleLists, NewStarts(ruleList)
      PROVE  SteadyInv'
  <2>1. ~running /\ work.pc = "idle" /\ work' = work
    BY <1>2, Resting DEF NewStarts, Startup, WorkersInv, DownInv
  <2> QED BY <1>2, <2>1, Resting DEF NewStarts, Startup, SteadyInv, Admitted
<1>3. ASSUME \/ OldStep \/ OldStops \/ UNCHANGED <<vars, oldProcess, contested>>
             \/ \E sa \in ServiceAccounts : OldLearns(sa)
      PROVE  SteadyInv'
  <2>1. UNCHANGED <<accounts, process, steady>>
    BY <1>3 DEF OldStep, OldStops, OldLearns, vars
  <2> QED BY <2>1 DEF process, SteadyInv, Admitted
<1> QED BY <1>1, <1>2, <1>3, NewStepSteady DEF RolloutNext
-----------------------------------------------------------------------------
(* The invariant and what it is good for.                                  *)

(* It holds when the rollout begins.                                       *)
LEMMA RolloutInvInit == RolloutInit => RolloutInv
<1> SUFFICES ASSUME RolloutInit PROVE RolloutInv
  OBVIOUS
<1>1. RolloutTypeOK
  BY RolloutTypeInit
<1>2. DownInv /\ WriteInv /\ RemoveInv
  BY Resting DEF RolloutInit, DownInv, WriteInv, RemoveInv
<1>3. Old!DownInv /\ Old!WriteInv /\ Old!RemoveInv
  BY Resting, OldInvariants DEF RolloutInit, OldInWords
<1>4. SteadyInv /\ RolloutOrphanInv /\ RolloutProvisionInv
  BY DEF RolloutInit, SteadyInv, RolloutOrphanInv, RolloutProvisionInv
<1> QED BY <1>1, <1>2, <1>3, <1>4 DEF RolloutInv, WorkersInv

(* Every step of either process, and of the cluster, keeps it.             *)
LEMMA RolloutInvStep ==
    RolloutInv /\ [RolloutNext]_<<vars, oldProcess, contested>> => RolloutInv'
<1> SUFFICES ASSUME RolloutInv, [RolloutNext]_<<vars, oldProcess, contested>>
             PROVE  RolloutInv'
  OBVIOUS
<1> USE DEF RolloutInv
<1>1. RolloutTypeOK'
  BY RolloutTypeStep
<1>2. WorkersInv'
  BY <1>1, AnnotateWorkers, OldLearnsWorkers, StepWorkers DEF RolloutNext
<1> SUFFICES RolloutOrphanInv' /\ RolloutProvisionInv'
  BY <1>1, <1>2, SteadyStep
<1>3. ASSUME NEW sa \in ServiceAccounts, NEW ann \in AnnotationSets \cup {None},
             Annotate(sa, ann)
      PROVE  RolloutOrphanInv' /\ RolloutProvisionInv'
  BY <1>3, AnnotateInv
<1>4. ASSUME NEW sa \in ServiceAccounts, OldLearns(sa)
      PROVE  RolloutOrphanInv' /\ RolloutProvisionInv'
  BY <1>4, OldLearnsInv
<1>5. CASE OldStops
  BY <1>5, OldStopsInv
<1>6. CASE OldStep
  <2>1. PICK sa \in ServiceAccounts :
            \/ Old!ReconcileRemove(sa) \/ Old!ReconcileWrite(sa)
            \/ Old!WriteStep(sa) \/ Old!RemoveStep(sa)
    BY <1>6 DEF OldStep
  <2> QED BY <1>6, <2>1, OldTakesInv, OldWritesInv, OldRemovesInv
<1>7. ASSUME NEW ruleList \in RuleLists, NewStarts(ruleList)
      PROVE  RolloutOrphanInv' /\ RolloutProvisionInv'
  BY <1>7, NewStartsInv
<1>8. CASE NewStep
  <2>1. UNCHANGED <<oldProcess, contested>>
    BY <1>8 DEF NewStep
  <2>2. CASE GCFails \/ Crash
    BY <2>2 DEF GCFails, Crash, Stop, RolloutOrphanInv, RolloutProvisionInv
  <2>3. CASE GCList \/ GCNext \/ \E sa \in ServiceAccounts : GCCheck(sa)
    BY <2>1, <2>3, NewCollectsInv
  <2>4. CASE GCRemoveStep
    BY <2>1, <2>4, NewDeletesInv
  <2>5. ASSUME NEW sa \in ServiceAccounts,
               \/ ReconcileRemove(sa) \/ ReconcileWrite(sa)
               \/ WriteStep(sa) \/ RemoveStep(sa)
        PROVE  RolloutOrphanInv' /\ RolloutProvisionInv'
    BY <2>1, <2>5, NewTakesInv, NewWritesInv, NewRemovesInv
  <2> QED BY <1>8, <2>2, <2>3, <2>4, <2>5 DEF NewStep
<1>9. CASE UNCHANGED <<vars, oldProcess, contested>>
  <2>1. RolloutOrphanInv'
    BY <1>9, OldRemovesKept DEF RolloutOrphanInv, RemovalPending, Admitted, vars, process
  <2>2. RolloutProvisionInv'
    BY <1>9 DEF RolloutProvisionInv, Provides, Has, HasObject, HasContent, Admitted,
       Quiet, OldHears, vars, process, oldProcess
  <2> QED BY <2>1, <2>2
<1> QED BY <1>3, <1>4, <1>5, <1>6, <1>7, <1>8, <1>9 DEF RolloutNext

(* Two processes that overlap keep, of every account, what either is going *)
(* to correct (operator.go:102-171).                                       *)
THEOREM RolloutInvariance == RolloutSpec => []RolloutInv
BY RolloutInvInit, RolloutInvStep, PTL DEF RolloutSpec

(* What one of them removes stays removed, for any two rule lists and in   *)
(* whatever order their requests arrive.                                   *)
THEOREM RevokedInRolloutCorrect == RolloutSpec => []RevokedInRollout
<1>1. RolloutInv => RevokedInRollout
  <2> SUFFICES ASSUME RolloutInv, NEW sa \in ServiceAccounts, Finished(sa),
                      ~Admitted(sa), NEW kind \in Kinds
               PROVE  vault[kind][sa] = None
    BY DEF RevokedInRollout
  <2>1. ~RemovalPending(kind, sa)
    BY DEF Finished, Settled, RemovalPending, RolloutInv, RolloutTypeOK, TypeOK, WorkStates
  <2>2. ~OldRemoves(kind, sa)
    BY OldInvariants DEF Finished, Unfinished, Admitted, OldRemoves, OldInWords
  <2> QED BY <2>1, <2>2 DEF Finished, Settled, RolloutInv, RolloutOrphanInv
<1> QED BY <1>1, RolloutInvariance, PTL

(* And what one of them writes for the last change is not undone by the    *)
(* other.                                                                  *)
THEOREM ProvisionedInRolloutCorrect == RolloutSpec => []ProvisionedInRollout
<1>1. RolloutInv => ProvisionedInRollout
  <2> SUFFICES ASSUME RolloutInv, NEW sa \in ServiceAccounts, Finished(sa),
                      Admitted(sa), TTLAccepted(accounts[sa]), NEW kind \in Kinds
               PROVE  HasContent(kind, sa, accounts[sa]) \/ <<kind, sa>> \in clobbered
    BY DEF ProvisionedInRollout
  <2>1. sa \notin queue \cup contested /\ work.sa # sa
    BY DEF Finished, Settled
  <2>2. oldRunning => ~OldHears(sa) /\ Admits(OldRules, sa, accounts[sa])
    BY OldFilter DEF Finished, Unfinished, OldHears, Admitted, Admits, processUpdateEvent
  <2>3. ~Provides(work, sa) /\ ~Provides(oldWork, sa)
    BY <2>1, OldInvariants, Resting
    DEF Finished, Unfinished, Provides, OldInWords, RolloutInv, WorkersInv
  <2>4. Has(kind, sa)
    BY <2>1, <2>2, <2>3
    DEF Finished, Settled, Quiet, RolloutInv, RolloutProvisionInv
  <2> QED BY <2>4, AcceptedIsNormal DEF Has, HasObject, HasContent
<1> QED BY <1>1, RolloutInvariance, PTL

(* What one step of either process does to the objects of an account.      *)
LEMMA RolloutObjectStep ==
    ASSUME RolloutInv, [RolloutNext]_<<vars, oldProcess, contested>>,
           NEW s \in ServiceAccounts, NEW kind \in Kinds, vault'[kind][s] # vault[kind][s]
    PROVE  \/ /\ work.pc = "write"
              /\ vault'[kind][s] = Content(kind, work.ann)
           \/ /\ oldWork.pc = "write"
              /\ vault'[kind][s] = Content(kind, oldWork.ann)
           \/ work.pc = "remove" /\ work.sa = s
           \/ oldWork.pc = "remove" /\ oldWork.sa = s
           \/ gc.pc = "remove" /\ gc.sa = s
<1> USE DEF RolloutInv, RolloutTypeOK, TypeOK
<1>1. ASSUME NEW sa \in ServiceAccounts, WriteStep(sa)
      PROVE  work.pc = "write" /\ vault'[kind][s] = Content(kind, work.ann)
  <2>1. WriteOrder[work.step] \in Kinds
    BY OrdersCover DEF WorkStates
  <2> QED BY <1>1, <2>1 DEF WriteStep, Store
<1>2. ASSUME NEW sa \in ServiceAccounts, RemoveStep(sa)
      PROVE  work.pc = "remove" /\ work.sa = s
  <2>1. RemoveOrder[work.step] \in Kinds
    BY OrdersCover DEF WorkStates
  <2> QED BY <1>2, <2>1 DEF RemoveStep, Store
<1>3. ASSUME NEW sa \in ServiceAccounts, Old!WriteStep(sa)
      PROVE  oldWork.pc = "write" /\ vault'[kind][s] = Content(kind, oldWork.ann)
  <2>1. WriteOrder[oldWork.step] \in Kinds
    BY OrdersCover DEF WorkStates
  <2>2. /\ oldWork.pc = "write" /\ oldWork.sa = sa
        /\ Store(WriteOrder[oldWork.step], sa,
                 Content(WriteOrder[oldWork.step], oldWork.ann))
    BY <1>3, OldSteps
  <2> QED BY <2>1, <2>2 DEF Store
<1>4. ASSUME NEW sa \in ServiceAccounts, Old!RemoveStep(sa)
      PROVE  oldWork.pc = "remove" /\ oldWork.sa = s
  <2>1. RemoveOrder[oldWork.step] \in Kinds
    BY OrdersCover DEF WorkStates
  <2>2. /\ oldWork.pc = "remove" /\ oldWork.sa = sa
        /\ Store(RemoveOrder[oldWork.step], sa, None)
    BY <1>4, OldSteps
  <2> QED BY <2>1, <2>2 DEF Store
<1>5. ASSUME GCRemoveStep \/ GCFails
      PROVE  gc.pc = "remove" /\ gc.sa = s
  <2>1. RemoveOrder[gc.step] \in Kinds /\ (gc.pc = "remove" => gc.sa \in ServiceAccounts)
    BY OrdersCover DEF GCStates
  <2> QED BY <1>5, <2>1 DEF GCRemoveStep, GCFails, GCDelete, Store
<1>6. ASSUME \/ \E sa \in ServiceAccounts :
                   \/ OldLearns(sa) \/ Old!ReconcileRemove(sa) \/ Old!ReconcileWrite(sa)
             \/ OldStops \/ UNCHANGED <<vars, oldProcess, contested>>
      PROVE  FALSE
  <2>1. UNCHANGED vault
    BY <1>6, OldSteps, OldEnds DEF vars
  <2> QED BY <2>1
<1>7. ASSUME \/ \E sa \in ServiceAccounts :
                   \/ \E ann \in AnnotationSets \cup {None} : Annotate(sa, ann)
                   \/ ReconcileRemove(sa) \/ ReconcileWrite(sa) \/ GCCheck(sa)
             \/ \E ruleList \in RuleLists : NewStarts(ruleList)
             \/ GCList \/ GCNext \/ Crash
      PROVE  FALSE
  <2>1. UNCHANGED vault
    BY <1>7 DEF Annotate, Change, ReconcileRemove, ReconcileWrite, Take, GCCheck,
                NewStarts, Startup, GCList, GCNext, Crash
  <2> QED BY <2>1
<1> QED BY <1>1, <1>2, <1>3, <1>4, <1>5, <1>6, <1>7 DEF RolloutNext, OldStep, NewStep

(* The rollout does not interrupt an account that is admitted, unless the  *)
(* old process acts on what it read of it earlier (operator.go:127-139).   *)
THEOREM KeepsAccessInRolloutCorrect == RolloutSpec => KeepsAccessInRollout
<1>1. RolloutInv /\ [RolloutNext]_<<vars, oldProcess, contested>> =>
          [ \A sa \in steady, kind \in Kinds :
                vault[kind][sa] # None /\ vault'[kind][sa] = None =>
                    oldRunning /\ (sa \in oldQueue \/ ~Old!Admitted(sa)) ]_vars
  <2> SUFFICES ASSUME RolloutInv, [RolloutNext]_<<vars, oldProcess, contested>>,
                      NEW sa \in steady, NEW kind \in Kinds,
                      vault[kind][sa] # None, vault'[kind][sa] = None
               PROVE  oldRunning /\ (sa \in oldQueue \/ ~Old!Admitted(sa))
    OBVIOUS
  <2>1. sa \in ServiceAccounts
    BY DEF RolloutInv, RolloutTypeOK, TypeOK
  <2>2. /\ work.pc = "write" => Content(kind, work.ann) # None
        /\ oldWork.pc = "write" => Content(kind, oldWork.ann) # None
    BY ContentType, NoneAssumption DEF RolloutInv, RolloutTypeOK, TypeOK, WorkStates
  <2>3. /\ ~(work.pc = "remove" /\ work.sa = sa)
        /\ ~(gc.pc = "remove" /\ gc.sa = sa)
    BY DEF RolloutInv, SteadyInv
  <2>4. oldWork.pc = "remove" /\ oldWork.sa = sa
    BY <2>1, <2>2, <2>3, RolloutObjectStep
  <2>5. oldRunning
    BY <2>4, Resting, OldInvariants DEF RolloutInv, WorkersInv, OldInWords
  <2>6. sa \in oldQueue \/ ~Old!Admitted(sa)
    BY <2>4, OldInvariants DEF RolloutInv, WorkersInv, OldInWords
  <2> QED BY <2>5, <2>6
<1> QED BY <1>1, RolloutInvariance, PTL DEF RolloutSpec, KeepsAccessInRollout
=============================================================================
