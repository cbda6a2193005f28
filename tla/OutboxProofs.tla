---------------------------- MODULE OutboxProofs ----------------------------
(***************************************************************************)
(* The safety of the outbox, for any rows, workers, attempts and crashes.  *)
(*                                                                         *)
(* The claim is the only step that takes a row, and it takes none that is  *)
(* processing.  So the worker that claimed a row is alone with it until it *)
(* records a result, and what it loaded is still true then: Ownership.     *)
(* Attempts and broadcasts are counted against that: Budget.               *)
(***************************************************************************)
EXTENDS Outbox, FiniteSetTheorems, TLAPS

HandsFull ==
    \A w \in Workers : work[w].stage = "ready" <=> work[w].event = NoEvent

Ownership == HandsFull /\ HolderIsCurrent /\ OnePublisher

Budget ==
    /\ AttemptsAreBounded
    /\ \A e \in Events : status[e] \in {"absent", "pending", "failed"}
                         => attempts[e] < MaxAttempts
    /\ \A w \in Workers : work[w].stage = "claimed" =>
          broadcasts[work[w].event] < attempts[work[w].event]

Delivery ==
    /\ DeliveredWasBroadcast
    /\ \A w \in Workers : work[w].stage = "sent" =>
          broadcasts[work[w].event] > 0

IInv == TypeOK /\ Ownership /\ Budget /\ Delivery

USE OutboxAssumption

(* The steps that move no row and no worker: queueing, taking and dropping *)
(* of tasks, the passing of time.                                          *)
LEMMA QuietStep ==
    ASSUME IInv, TypeOK', UNCHANGED <<status, attempts, broadcasts>>,
           \A w \in Workers : /\ work'[w].stage = work[w].stage
                              /\ work'[w].event = work[w].event
                              /\ work'[w].attempt = work[w].attempt
    PROVE  IInv'
BY DEF IInv, Ownership, HandsFull, HolderIsCurrent, OnePublisher, Holds,
       Budget, AttemptsAreBounded, Delivery, DeliveredWasBroadcast

(* What the worker in hand of a row looks like from the outside. *)
LEMMA HolderFacts ==
    ASSUME IInv, NEW w \in Workers, work[w].stage # "ready"
    PROVE  /\ work[w].event \in Events
           /\ status[work[w].event] = "processing"
           /\ attempts[work[w].event] = work[w].attempt
           /\ \A v \in Workers : v # w => work[v].event # work[w].event
BY DEF IInv, Ownership, HolderIsCurrent, OnePublisher, Holds

(* A step of worker w on row e keeps the invariant when it keeps what the  *)
(* invariant says of w and e.                                              *)
LEMMA OneRowStep ==
    ASSUME IInv, TypeOK', NEW w \in Workers, NEW e \in Events,
           \A v \in Workers : v # w =>
               work'[v] = work[v] /\ work[v].event # e,
           \A f \in Events : f # e =>
               /\ status'[f] = status[f]
               /\ attempts'[f] = attempts[f]
               /\ broadcasts'[f] = broadcasts[f],
           work'[w].stage = "ready" => work'[w].event = NoEvent,
           work'[w].stage # "ready" =>
               /\ work'[w].event = e
               /\ status'[e] = "processing"
               /\ attempts'[e] = work'[w].attempt,
           broadcasts'[e] <= attempts'[e],
           status'[e] = "dead" => attempts'[e] = MaxAttempts,
           status'[e] \in {"absent", "pending", "failed"} =>
               attempts'[e] < MaxAttempts,
           status'[e] = "delivered" => broadcasts'[e] > 0,
           work'[w].stage = "claimed" => broadcasts'[e] < attempts'[e],
           work'[w].stage = "sent" => broadcasts'[e] > 0
    PROVE  IInv'
<1>1. \A v \in Workers : work[v].stage # "ready" =>
         work[v].event \in Events /\ status[work[v].event] = "processing"
  BY HolderFacts
<1>2. Ownership /\ Budget /\ Delivery
  BY DEF IInv
<1>3. HandsFull'
  BY <1>2 DEF Ownership, HandsFull
<1>4. HolderIsCurrent'
  <2> SUFFICES ASSUME NEW v \in Workers, work'[v].stage # "ready"
               PROVE  /\ work'[v].event \in Events
                      /\ status'[work'[v].event] = "processing"
                      /\ attempts'[work'[v].event] = work'[v].attempt
    BY DEF HolderIsCurrent
  <2>1. CASE v = w
    BY <2>1
  <2>2. CASE v # w
    <3>1. work'[v] = work[v] /\ work[v].stage # "ready" /\ work[v].event # e
      BY <2>2
    <3>2. /\ work[v].event \in Events
          /\ status[work[v].event] = "processing"
          /\ attempts[work[v].event] = work[v].attempt
      BY <1>2, <3>1 DEF Ownership, HolderIsCurrent
    <3> QED BY <3>1, <3>2
  <2> QED BY <2>1, <2>2
<1>5. OnePublisher'
  <2> SUFFICES ASSUME NEW f \in Events, NEW u \in Workers, NEW v \in Workers,
                      work'[u].event = f, work'[v].event = f, u # v
               PROVE  FALSE
    BY DEF OnePublisher, Holds
  <2>1. CASE u # w /\ v # w
    BY <1>2, <2>1 DEF Ownership, OnePublisher, Holds
  <2>2. CASE u = w \/ v = w
    BY <2>2
  <2> QED BY <2>1, <2>2
<1>6. Budget'
  <2>1. AttemptsAreBounded'
    BY <1>2 DEF Budget, AttemptsAreBounded
  <2>2. \A f \in Events : status'[f] \in {"absent", "pending", "failed"}
                          => attempts'[f] < MaxAttempts
    BY <1>2 DEF Budget
  <2>3. ASSUME NEW v \in Workers, work'[v].stage = "claimed"
        PROVE  broadcasts'[work'[v].event] < attempts'[work'[v].event]
    <3>1. CASE v = w
      BY <2>3, <3>1
    <3>2. CASE v # w
      <4>1. work'[v] = work[v] /\ work[v].event # e
        BY <3>2
      <4>2. /\ work[v].event \in Events
            /\ broadcasts[work[v].event] < attempts[work[v].event]
        BY <1>1, <1>2, <2>3, <4>1 DEF Budget
      <4>3. /\ broadcasts'[work[v].event] = broadcasts[work[v].event]
            /\ attempts'[work[v].event] = attempts[work[v].event]
        BY <4>1, <4>2, Zenon
      <4> QED BY <4>1, <4>2, <4>3, Zenon
    <3> QED BY <3>1, <3>2
  <2> QED BY <2>1, <2>2, <2>3 DEF Budget
<1>7. Delivery'
  <2>1. DeliveredWasBroadcast'
    BY <1>2 DEF Delivery, DeliveredWasBroadcast
  <2>2. ASSUME NEW v \in Workers, work'[v].stage = "sent"
        PROVE  broadcasts'[work'[v].event] > 0
    <3>1. CASE v = w
      BY <2>2, <3>1
    <3>2. CASE v # w
      <4>1. work'[v] = work[v] /\ work[v].event # e
        BY <3>2
      <4>2. work[v].event \in Events /\ broadcasts[work[v].event] > 0
        BY <1>1, <1>2, <2>2, <4>1 DEF Delivery
      <4>3. broadcasts'[work[v].event] = broadcasts[work[v].event]
        BY <4>1, <4>2, Zenon
      <4> QED BY <4>1, <4>2, <4>3, Zenon
    <3> QED BY <3>1, <3>2
  <2> QED BY <2>1, <2>2 DEF Delivery
<1> QED BY <1>3, <1>4, <1>5, <1>6, <1>7 DEF IInv, Ownership

LEMMA InvInit == Init => IInv
BY DEF Init, IInv, TypeOK, Status, Work, Idle, Ownership, HandsFull,
       HolderIsCurrent, OnePublisher, Holds, Budget, AttemptsAreBounded,
       Delivery, DeliveredWasBroadcast

LEMMA TypeStep == IInv /\ [Next]_vars => TypeOK'
<1> SUFFICES ASSUME IInv, [Next]_vars PROVE TypeOK'
  OBVIOUS
<1> USE DEF TypeOK, Status, Work
<1>0. TypeOK
  BY DEF IInv
<1>1. ASSUME NEW e \in Events, Enqueue(e) PROVE TypeOK'
  BY <1>0, <1>1 DEF Enqueue
<1>2. ASSUME NEW e \in Events, QueueTask(e) \/ SkipTask(e) PROVE TypeOK'
  BY <1>0, <1>2 DEF QueueTask, SkipTask, rowVars
<1>3. ASSUME NEW e \in Events, TimePasses(e) PROVE TypeOK'
  BY <1>0, <1>3 DEF TimePasses, taskVars
<1>4. ASSUME NEW w \in Workers, NEW e \in Events, TakeTask(w, e) PROVE TypeOK'
  BY <1>0, <1>4 DEF TakeTask, rowVars
<1>5. ASSUME NEW w \in Workers, StartBatch(w) PROVE TypeOK'
  BY <1>0, <1>5 DEF StartBatch, Due, rowVars, taskVars
<1>6. ASSUME NEW w \in Workers, Claim(w) PROVE TypeOK'
  <2>1. PICK e \in work[w].todo :
           IF Claimable(e)
           THEN /\ status' = [status EXCEPT ![e] = "processing"]
                /\ attempts' = [attempts EXCEPT ![e] = attempts[e] + 1]
                /\ work' = [work EXCEPT ![w] =
                              [todo |-> work[w].todo \ {e}, event |-> e,
                               attempt |-> attempts[e] + 1,
                               stage |-> "claimed"]]
           ELSE /\ work' = [work EXCEPT ![w].todo = work[w].todo \ {e}]
                /\ UNCHANGED <<status, attempts>>
    BY <1>6 DEF Claim, ClaimedAttempt
  <2>2. e \in Events
    BY <1>0
  <2>3. Claimable(e) => attempts[e] < MaxAttempts
    BY <2>2, <1>0 DEF IInv, Budget, Claimable, Settled
  <2>4. work' \in [Workers -> Work]
    <3>1. CASE Claimable(e)
      <4>1. [todo |-> work[w].todo \ {e}, event |-> e,
             attempt |-> attempts[e] + 1, stage |-> "claimed"] \in Work
        BY <1>0, <2>2
      <4> HIDE DEF Work
      <4> QED BY <1>0, <2>1, <3>1, <4>1
    <3>2. CASE ~Claimable(e)
      BY <1>0, <2>1, <3>2
    <3> QED BY <3>1, <3>2
  <2>5. status' \in [Events -> Status]
    BY <1>0, <2>1, <2>2
  <2>6. attempts' \in [Events -> 0..MaxAttempts]
    <3>1. Claimable(e) => attempts[e] + 1 \in 0..MaxAttempts
      BY <1>0, <2>2, <2>3
    <3> QED BY <1>0, <2>1, <3>1
  <2> QED BY <1>0, <1>6, <2>4, <2>5, <2>6 DEF Claim, taskVars
<1>7. ASSUME NEW w \in Workers, Publish(w) \/ PublishFails(w) PROVE TypeOK'
  <2>1. work[w].event \in Events
    BY <1>7, HolderFacts DEF Publish, PublishFails
  <2>2. CASE Publish(w)
    BY <1>0, <2>1, <2>2 DEF Publish, rowVars, taskVars
  <2>3. CASE PublishFails(w)
    <3>1. PICK reached \in {0, 1} :
             broadcasts' = [broadcasts EXCEPT ![work[w].event] = @ + reached]
      BY <2>3 DEF PublishFails
    <3> QED BY <1>0, <2>1, <2>3, <3>1 DEF PublishFails, rowVars, taskVars
  <2> QED BY <1>7, <2>2, <2>3
<1>8. ASSUME NEW w \in Workers, RecordDelivery(w) \/ RecordFailure(w)
      PROVE  TypeOK'
  <2>1. work[w].event \in Events
    BY <1>8, HolderFacts DEF RecordDelivery, RecordFailure
  <2>2. CASE RecordDelivery(w)
    BY <1>0, <2>1, <2>2 DEF RecordDelivery, Finished, Idle, taskVars
  <2>3. CASE RecordFailure(w)
    BY <1>0, <2>1, <2>3 DEF RecordFailure, Finished, Idle, taskVars
  <2> QED BY <1>8, <2>2, <2>3
<1>9. ASSUME NEW w \in Workers, Crash(w) PROVE TypeOK'
  BY <1>0, <1>9 DEF Crash, Idle, rowVars, taskVars
<1>10. CASE UNCHANGED vars
  BY <1>0, <1>10 DEF vars, rowVars, taskVars
<1> QED
  BY <1>1, <1>2, <1>3, <1>4, <1>5, <1>6, <1>7, <1>8, <1>9, <1>10
  DEF Next, WorkerStep

LEMMA InvStep == IInv /\ [Next]_vars => IInv'
<1> SUFFICES ASSUME IInv, [Next]_vars PROVE IInv'
  OBVIOUS
<1>0. TypeOK /\ TypeOK'
  BY TypeStep DEF IInv
<1>a. /\ MaxAttempts \in Nat
      /\ \A e \in Events : attempts[e] \in Nat /\ broadcasts[e] \in Nat
  BY <1>0 DEF TypeOK
<1>b. \A v \in Workers : work[v].stage # "ready" =>
         work[v].event \in Events /\ status[work[v].event] = "processing"
  BY HolderFacts
<1>c. Ownership /\ Budget /\ Delivery
  BY DEF IInv
<1>1. ASSUME NEW e \in Events, Enqueue(e) PROVE IInv'
  <2>1. \A w \in Workers : work[w].event # e
    BY <1>1, <1>0, HolderFacts DEF TypeOK, Enqueue, IInv, Ownership, HandsFull
  <2> QED
    BY <1>0, <1>1, <2>1
    DEF TypeOK, Enqueue, IInv, Ownership, HandsFull, HolderIsCurrent, OnePublisher,
        Holds, Budget, AttemptsAreBounded, Delivery, DeliveredWasBroadcast
<1>2. ASSUME NEW e \in Events, QueueTask(e) \/ SkipTask(e) \/ TimePasses(e)
      PROVE  IInv'
  BY <1>0, <1>2, QuietStep DEF QueueTask, SkipTask, TimePasses, rowVars
<1>3. ASSUME NEW w \in Workers, NEW e \in Events, TakeTask(w, e) PROVE IInv'
  BY <1>0, <1>3, QuietStep DEF TakeTask, rowVars, TypeOK, Work
<1>4. ASSUME NEW w \in Workers, StartBatch(w) PROVE IInv'
  BY <1>0, <1>4, QuietStep DEF StartBatch, rowVars, TypeOK, Work
<1>5. ASSUME NEW w \in Workers, Claim(w) PROVE IInv'
  <2>1. PICK e \in work[w].todo :
           IF Claimable(e)
           THEN /\ status' = [status EXCEPT ![e] = "processing"]
                /\ attempts' = [attempts EXCEPT ![e] = attempts[e] + 1]
                /\ work' = [work EXCEPT ![w] =
                              [todo |-> work[w].todo \ {e}, event |-> e,
                               attempt |-> attempts[e] + 1,
                               stage |-> "claimed"]]
           ELSE /\ work' = [work EXCEPT ![w].todo = work[w].todo \ {e}]
                /\ UNCHANGED <<status, attempts>>
    BY <1>5 DEF Claim, ClaimedAttempt
  <2>2. e \in Events
    BY <1>0 DEF TypeOK, Work
  <2>3. broadcasts' = broadcasts /\ work[w].stage = "ready"
    BY <1>5 DEF Claim
  <2>4. CASE ~Claimable(e)
    <3>1. \A v \in Workers : /\ work'[v].stage = work[v].stage
                              /\ work'[v].event = work[v].event
                              /\ work'[v].attempt = work[v].attempt
      BY <1>0, <2>1, <2>4 DEF TypeOK, Work
    <3> QED BY <1>0, <2>1, <2>3, <2>4, <3>1, QuietStep
  <2>5. CASE Claimable(e)
    <3>1. \A v \in Workers : work[v].event # e
      BY <2>2, <2>5, <1>0, HolderFacts
      DEF Claimable, IInv, Ownership, HandsFull
    <3>2. broadcasts[e] <= attempts[e] /\ attempts[e] < MaxAttempts
      BY <2>2, <2>5, <1>0
      DEF IInv, Budget, AttemptsAreBounded, Claimable, Settled, TypeOK, Status
    <3>3. /\ work'[w].event = e /\ work'[w].stage = "claimed"
          /\ work'[w].attempt = attempts[e] + 1
          /\ \A v \in Workers : v # w => work'[v] = work[v]
      BY <1>0, <2>1, <2>5 DEF TypeOK, Work
    <3>4. /\ status'[e] = "processing" /\ attempts'[e] = attempts[e] + 1
          /\ \A f \in Events : f # e => /\ status'[f] = status[f]
                                        /\ attempts'[f] = attempts[f]
      BY <1>0, <2>1, <2>2, <2>5 DEF TypeOK
    <3>5. broadcasts[e] < attempts[e] + 1 /\ broadcasts[e] <= attempts[e] + 1
      BY <1>a, <2>2, <3>2
    <3>6. \A v \in Workers : v # w => work'[v] = work[v] /\ work[v].event # e
      BY <3>1, <3>3
    <3>7. broadcasts'[e] <= attempts'[e] /\ broadcasts'[e] < attempts'[e]
      BY <2>3, <3>4, <3>5
    <3> QED
      BY <1>0, <2>2, <2>3, <3>3, <3>4, <3>6, <3>7, OneRowStep
  <2> QED BY <2>4, <2>5
<1>6. ASSUME NEW w \in Workers, Publish(w) \/ PublishFails(w) PROVE IInv'
  <2> DEFINE e == work[w].event
  <2>1. /\ e \in Events /\ status[e] = "processing"
        /\ work[w].stage = "claimed" /\ broadcasts[e] < attempts[e]
        /\ \A v \in Workers : v # w => work[v].event # e
    BY <1>6, HolderFacts DEF Publish, PublishFails, IInv, Budget
  <2>2. PICK n \in {0, 1} :
           /\ broadcasts' = [broadcasts EXCEPT ![e] = broadcasts[e] + n]
           /\ n = 1 \/ work'[w].stage = "failed"
    BY <1>0, <1>6 DEF Publish, PublishFails, TypeOK, Work
  <2>3. /\ work'[w].stage \in {"sent", "failed"}
        /\ \A v \in Workers : /\ work'[v].event = work[v].event
                              /\ work'[v].attempt = work[v].attempt
                              /\ v # w => work'[v] = work[v]
        /\ UNCHANGED <<status, attempts>>
    BY <1>0, <1>6 DEF Publish, PublishFails, rowVars, TypeOK, Work
  <2>4. /\ broadcasts'[e] = broadcasts[e] + n
        /\ \A f \in Events : f # e => broadcasts'[f] = broadcasts[f]
    BY <1>0, <2>1, <2>2 DEF TypeOK
  <2> HIDE DEF e
  <2>5. work[w].event = e /\ broadcasts[e] <= attempts[e]
        /\ attempts[e] = work[w].attempt
    BY <1>6, <2>1, HolderFacts
    DEF e, Publish, PublishFails, IInv, Budget, AttemptsAreBounded
  <2> QED BY <1>0, <1>a, <2>1, <2>2, <2>3, <2>4, <2>5, OneRowStep
<1>7. ASSUME NEW w \in Workers, RecordDelivery(w) \/ RecordFailure(w)
      PROVE  IInv'
  <2> DEFINE e == work[w].event
  <2>1. /\ e \in Events /\ status[e] = "processing"
        /\ work[w].stage \in {"sent", "failed"} /\ attempts[e] = work[w].attempt
        /\ \A v \in Workers : v # w => work[v].event # e
    BY <1>7, HolderFacts DEF RecordDelivery, RecordFailure
  <2>2. /\ work'[w].event = NoEvent /\ work'[w].stage = "ready"
        /\ \A v \in Workers : v # w => work'[v] = work[v]
        /\ UNCHANGED <<attempts, broadcasts>>
    BY <1>0, <1>7 DEF RecordDelivery, RecordFailure, Finished, Idle, TypeOK, Work
  <2>3. /\ \A f \in Events : f # e => status'[f] = status[f]
        /\ \/ status'[e] = "delivered" /\ work[w].stage = "sent"
           \/ status'[e] = "dead" /\ attempts[e] >= MaxAttempts
           \/ status'[e] = "failed" /\ ~(attempts[e] >= MaxAttempts)
    BY <1>0, <1>7, <2>1 DEF RecordDelivery, RecordFailure, Exhausted, TypeOK
  <2>4. broadcasts[e] > 0 \/ work[w].stage # "sent"
    BY DEF IInv, Delivery
  <2>5. broadcasts[e] <= attempts[e] /\ attempts[e] \in 0..MaxAttempts
    BY <1>0, <1>c, <2>1 DEF Budget, AttemptsAreBounded, TypeOK
  <2> HIDE DEF e
  <2> QED BY <1>0, <1>a, <2>1, <2>2, <2>3, <2>4, <2>5, OneRowStep
<1>8. ASSUME NEW w \in Workers, Crash(w) PROVE IInv'
  <2>1. /\ work'[w] = Idle /\ \A v \in Workers : v # w => work'[v] = work[v]
        /\ UNCHANGED <<status, attempts, broadcasts>>
    BY <1>0, <1>8 DEF Crash, rowVars, TypeOK
  <2> QED
    BY <1>0, <2>1
    DEF Idle, IInv, Ownership, HandsFull, HolderIsCurrent, OnePublisher,
        Holds, Budget, AttemptsAreBounded, Delivery, DeliveredWasBroadcast
<1>9. CASE UNCHANGED vars
  BY <1>0, <1>9, QuietStep DEF vars, rowVars
<1> QED
  BY <1>1, <1>2, <1>3, <1>4, <1>5, <1>6, <1>7, <1>8, <1>9 DEF Next, WorkerStep

LEMMA Invariance == Spec => []IInv
<1>1. Init => IInv
  BY InvInit
<1>2. IInv /\ [Next]_vars => IInv'
  BY InvStep
<1> QED BY <1>1, <1>2, PTL DEF Spec

(* Columns keep their types, and attempt_count its bound. *)
THEOREM OutboxTypeCorrect == Spec => []TypeOK
<1>1. IInv => TypeOK
  BY DEF IInv
<1> QED BY <1>1, Invariance, PTL

(* No row is ever in the hands of two workers, however many tasks and      *)
(* batches name it (_claim_outbox_event).                                  *)
THEOREM OneWorkerPerRow == Spec => []OnePublisher
<1>1. IInv => OnePublisher
  BY DEF IInv, Ownership
<1> QED BY <1>1, Invariance, PTL

(* The unlocked save that records a result overwrites no other worker's    *)
(* update.                                                                 *)
THEOREM ClaimsStayCurrent == Spec => []HolderIsCurrent
<1>1. IInv => HolderIsCurrent
  BY DEF IInv, Ownership
<1> QED BY <1>1, Invariance, PTL

(* Broadcasts and attempts are bounded, and only a used-up row is dead.  *)
THEOREM AttemptsBounded == Spec => []AttemptsAreBounded
<1>1. IInv => AttemptsAreBounded
  BY DEF IInv, Budget
<1> QED BY <1>1, Invariance, PTL

(* A row that says delivered was broadcast. *)
THEOREM DeliveredMeansSent == Spec => []DeliveredWasBroadcast
<1>1. IInv => DeliveredWasBroadcast
  BY DEF IInv, Delivery
<1> QED BY <1>1, Invariance, PTL

-----------------------------------------------------------------------------
(* The rows that crashes left behind.                                      *)
Left == {e \in Events : Abandoned(e)}

CrashInv == IsFiniteSet(Left) /\ Cardinality(Left) <= crashes

(* Only a crash leaves a row behind, and it leaves the one in hand.        *)
LEMMA NothingLeft ==
    ASSUME IInv, NEW e \in Events, ~Abandoned(e), Abandoned(e)',
           Next
    PROVE  \E w \in Workers : Crash(w) /\ e = work[w].event
<1>0. /\ TypeOK /\ status \in [Events -> Status] /\ NoEvent \notin Events
      /\ work \in [Workers -> Work]
  BY DEF IInv, TypeOK
<1>1. status'[e] = "processing" /\ \A w \in Workers : work'[w].event # e
  BY DEF Abandoned, Holds
<1>2. ASSUME NEW f \in Events,
             Enqueue(f) \/ QueueTask(f) \/ SkipTask(f) \/ TimePasses(f)
      PROVE  FALSE
  BY <1>0, <1>1, <1>2
  DEF Enqueue, QueueTask, SkipTask, TimePasses, rowVars, Abandoned, Holds
<1>3. ASSUME NEW w \in Workers,
             (\E f \in Events : TakeTask(w, f)) \/ StartBatch(w)
      PROVE  FALSE
  <2>1. UNCHANGED status /\ \A v \in Workers : work'[v].event = work[v].event
    BY <1>0, <1>3 DEF TakeTask, StartBatch, rowVars, Work
  <2> QED BY <1>1, <2>1 DEF Abandoned, Holds
<1>4. ASSUME NEW w \in Workers, Claim(w) PROVE FALSE
  <2>1. PICK f \in work[w].todo :
           IF Claimable(f)
           THEN /\ status' = [status EXCEPT ![f] = "processing"]
                /\ work' = [work EXCEPT ![w] =
                              [todo |-> work[w].todo \ {f}, event |-> f,
                               attempt |-> ClaimedAttempt(f), stage |-> "claimed"]]
           ELSE /\ work' = [work EXCEPT ![w].todo = work[w].todo \ {f}]
                /\ UNCHANGED status
    BY <1>4 DEF Claim
  <2>2. CASE Claimable(f)
    <3>1. work'[w].event = f /\ \A v \in Workers : v # w => work'[v] = work[v]
      BY <1>0, <2>1, <2>2
    <3>2. f # e /\ status'[e] = status[e]
      BY <1>0, <1>1, <2>1, <2>2, <3>1
    <3>3. work[w].event = e
      BY <1>1, <3>1, <3>2 DEF Abandoned, Holds
    <3>4. work[w].event = NoEvent
      BY <1>4 DEF Claim, IInv, Ownership, HandsFull
    <3> QED BY <1>0, <3>3, <3>4
  <2>3. CASE ~Claimable(f)
    <3>1. UNCHANGED status /\ \A v \in Workers : work'[v].event = work[v].event
      BY <1>0, <2>1, <2>3 DEF Work
    <3> QED BY <1>1, <3>1 DEF Abandoned, Holds
  <2> QED BY <2>2, <2>3
<1>5. ASSUME NEW w \in Workers, Publish(w) \/ PublishFails(w) PROVE FALSE
  <2>1. UNCHANGED status /\ \A v \in Workers : work'[v].event = work[v].event
    BY <1>0, <1>5 DEF Publish, PublishFails, rowVars, Work
  <2> QED BY <1>1, <2>1 DEF Abandoned, Holds
<1>6. ASSUME NEW w \in Workers, RecordDelivery(w) \/ RecordFailure(w)
      PROVE  FALSE
  <2>1. work[w].event \in Events /\ status'[work[w].event] # "processing"
    <3>1. work[w].event \in Events
      BY <1>6, HolderFacts DEF RecordDelivery, RecordFailure
    <3> QED BY <1>0, <1>6, <3>1 DEF RecordDelivery, RecordFailure
  <2>2. e # work[w].event /\ status'[e] = status[e]
    BY <1>0, <1>1, <1>6, <2>1 DEF RecordDelivery, RecordFailure
  <2>3. \A v \in Workers : v # w => work'[v] = work[v]
    BY <1>0, <1>6 DEF RecordDelivery, RecordFailure
  <2> QED BY <1>1, <2>2, <2>3 DEF Abandoned, Holds
<1>7. ASSUME NEW w \in Workers, Crash(w) PROVE e = work[w].event
  <2>1. UNCHANGED status /\ \A v \in Workers : v # w => work'[v] = work[v]
    BY <1>0, <1>7 DEF Crash, rowVars
  <2> QED BY <1>1, <2>1 DEF Abandoned, Holds
<1> QED
  BY <1>2, <1>3, <1>4, <1>5, <1>6, <1>7 DEF Next, WorkerStep

LEMMA CrashStep == IInv /\ CrashInv /\ [Next]_vars => CrashInv'
<1> SUFFICES ASSUME IInv, CrashInv, [Next]_vars PROVE CrashInv'
  OBVIOUS
<1>1. crashes \in Nat /\ Cardinality(Left) \in Nat
  BY FS_CardinalityType DEF IInv, TypeOK, CrashInv
<1>2. ASSUME NEW w \in Workers, Crash(w) PROVE CrashInv'
  <2>1. Left' \subseteq Left \cup {work[w].event}
    <3>1. \A e \in Events : ~Abandoned(e) /\ Abandoned(e)' => e = work[w].event
      <4> SUFFICES ASSUME NEW e \in Events, ~Abandoned(e), Abandoned(e)'
                   PROVE  e = work[w].event
        OBVIOUS
      <4>1. \A v \in Workers : v # w => work'[v] = work[v]
        BY <1>2 DEF Crash, IInv, TypeOK
      <4> QED BY <1>2, <4>1 DEF Crash, rowVars, Abandoned, Holds
    <3> QED BY <3>1 DEF Left
  <2>2. /\ IsFiniteSet(Left \cup {work[w].event})
        /\ Cardinality(Left \cup {work[w].event}) <= Cardinality(Left) + 1
    <3> DEFINE x == work[w].event
    <3>1. IsFiniteSet(Left)
      BY DEF CrashInv
    <3> HIDE DEF x
    <3>2. /\ IsFiniteSet(Left \cup {x})
          /\ Cardinality(Left \cup {x}) =
                IF x \in Left THEN Cardinality(Left) ELSE Cardinality(Left) + 1
      BY <3>1, FS_AddElement, Zenon
    <3>3. Cardinality(Left \cup {x}) <= Cardinality(Left) + 1
      BY <1>1, <3>2
    <3> QED BY <3>2, <3>3 DEF x
  <2>3. IsFiniteSet(Left') /\ Cardinality(Left') <= Cardinality(Left \cup {work[w].event})
    BY <2>1, <2>2, FS_Subset
  <2>4. Cardinality(Left') \in Nat /\ Cardinality(Left \cup {work[w].event}) \in Nat
    BY <2>2, <2>3, FS_CardinalityType
  <2>5. crashes' = crashes + 1
    BY <1>2 DEF Crash
  <2> QED BY <1>1, <2>2, <2>3, <2>4, <2>5 DEF CrashInv
<1>3. CASE Next /\ \A w \in Workers : ~Crash(w)
  <2>1. Left' \subseteq Left
    BY <1>3, NothingLeft DEF Left
  <2>2. IsFiniteSet(Left') /\ Cardinality(Left') <= Cardinality(Left)
    BY <2>1, FS_Subset DEF CrashInv
  <2>3. Cardinality(Left') \in Nat
    BY <2>2, FS_CardinalityType
  <2>4. crashes' = crashes
    BY <1>3 DEF Next, WorkerStep, Enqueue, QueueTask, SkipTask, TimePasses,
                TakeTask, StartBatch, Claim, Publish, PublishFails,
                RecordDelivery, RecordFailure
  <2> QED BY <1>1, <2>2, <2>3, <2>4 DEF CrashInv
<1>4. CASE UNCHANGED vars
  <2>1. Left' = Left
    BY <1>4 DEF vars, rowVars, Left, Abandoned, Holds
  <2> QED BY <1>4, <2>1 DEF vars, CrashInv
<1> QED BY <1>2, <1>3, <1>4

(* What a row says of its attempts is what happened, and each crash leaves *)
(* at most one row behind, however long its worker's batch was.            *)
THEOREM AttemptsStayInStep == Spec => []AttemptsAgree
<1>1. Init => CrashInv
  <2> SUFFICES ASSUME Init PROVE CrashInv
    OBVIOUS
  <2>1. Left = {}
    BY DEF Init, Left, Abandoned
  <2> QED BY <2>1, FS_EmptySet DEF Init, CrashInv
<1>2. IInv /\ CrashInv => AttemptsAgree
  BY DEF IInv, Budget, Delivery, CrashInv, Left, AttemptsAgree, CrashCostsOneRow
<1> QED BY <1>1, <1>2, CrashStep, Invariance, PTL DEF Spec

(* One worker has a row in hand, and the row is as it left it.             *)
THEOREM HoldersAreAlone == Spec => []OneHolder
<1>1. IInv => OneHolder
  BY DEF IInv, Ownership, OneHolder
<1> QED BY <1>1, Invariance, PTL

(* Delivered and dead are final. *)
THEOREM SettledRowsStay == Spec => SettledIsFinal
<1> DEFINE Stays == \A e \in Events : status[e] \in Settled =>
                       status'[e] = status[e] /\ broadcasts'[e] = broadcasts[e]
<1>1. IInv /\ [Next]_vars => [Stays]_vars
  <2> SUFFICES ASSUME IInv, Next PROVE Stays
    BY DEF vars
  <2>0. /\ status \in [Events -> Status] /\ broadcasts \in [Events -> Nat]
        /\ \A w \in Workers : work[w].todo \subseteq Events
    BY DEF IInv, TypeOK, Work
  <2>1. ASSUME NEW e \in Events,
               Enqueue(e) \/ QueueTask(e) \/ SkipTask(e) \/ TimePasses(e)
        PROVE  Stays
    BY <2>0, <2>1
    DEF Enqueue, QueueTask, SkipTask, TimePasses, Settled, rowVars
  <2>2. ASSUME NEW w \in Workers,
               (\E e \in Events : TakeTask(w, e)) \/ StartBatch(w) \/ Crash(w)
        PROVE  Stays
    BY <2>2 DEF TakeTask, StartBatch, Crash, rowVars
  <2>3. ASSUME NEW w \in Workers, Claim(w) PROVE Stays
    BY <2>0, <2>3 DEF Claim, Claimable
  <2>4. ASSUME NEW w \in Workers, Publish(w) \/ PublishFails(w) PROVE Stays
    <3>1. work[w].event \in Events /\ status[work[w].event] = "processing"
      BY <2>4, HolderFacts DEF Publish, PublishFails
    <3>2. CASE Publish(w)
      BY <2>0, <3>1, <3>2 DEF Publish, Settled, rowVars
    <3>3. CASE PublishFails(w)
      BY <2>0, <3>1, <3>3 DEF PublishFails, Settled, rowVars
    <3> QED BY <2>4, <3>2, <3>3
  <2>5. ASSUME NEW w \in Workers, RecordDelivery(w) \/ RecordFailure(w)
        PROVE  Stays
    <3>1. work[w].event \in Events /\ status[work[w].event] = "processing"
      BY <2>5, HolderFacts DEF RecordDelivery, RecordFailure
    <3> QED BY <2>0, <2>5, <3>1 DEF RecordDelivery, RecordFailure, Settled
  <2> QED BY <2>1, <2>2, <2>3, <2>4, <2>5 DEF Next, WorkerStep
<1> QED BY <1>1, Invariance, PTL DEF Spec, SettledIsFinal
=============================================================================
