------------------------------- MODULE Outbox -------------------------------
(***************************************************************************)
(* The realtime outbox (apps/notifications): rows committed together with  *)
(* a message or notification, Celery workers that broadcast them, and the  *)
(* periodic task that picks up what is due.                                *)
(*                                                                         *)
(* A worker's call is cut where the code gives others a chance: claiming   *)
(* the row is one database transaction, the broadcast to Redis happens     *)
(* outside any transaction, and recording the result is a save of the      *)
(* instance loaded by the claim.  A worker can die between any two.        *)
(*                                                                         *)
(* A definition marked "fault" is a variant of the one after it with a     *)
(* plausible mistake, to show that a property notices it.                  *)
(***************************************************************************)
EXTENDS Integers, FiniteSets

CONSTANTS
    Events,       \* numbers that name rows in the order of created_at
    Workers,      \* Celery worker processes
    NoEvent,      \* the worker has no row in hand
    MaxAttempts,  \* OUTBOX_MAX_ATTEMPTS
    BatchLimit,   \* the limit of the periodic task
    MaxCrashes    \* bound on the worker crashes of one behaviour

ASSUME OutboxAssumption ==
    /\ Events \subseteq Nat
    /\ NoEvent \notin Events
    /\ MaxAttempts \in Nat \ {0}
    /\ BatchLimit \in Nat \ {0}
    /\ MaxCrashes \in Nat

VARIABLES
    status,     \* RealtimeOutboxEvent.status, "absent" before the commit
    attempts,   \* .attempt_count
    waiting,    \* .next_attempt_at lies in the future
    hooks,      \* rows whose on_commit callback has not run yet
    queue,      \* process_realtime_outbox_event tasks in the broker
    work,       \* what each worker is doing
    broadcasts, \* history: how often each row reached the channel layer
    crashes     \* history: worker crashes so far

rowVars == <<status, attempts, waiting>>
taskVars == <<hooks, queue>>
vars == <<rowVars, taskVars, work, broadcasts, crashes>>

Status == {"absent", "pending", "processing", "delivered", "failed", "dead"}
Settled == {"delivered", "dead"}

(* A worker holds the ids it still has to process and, from the claim on,  *)
(* the claimed row with the attempt_count the claim wrote.                 *)
Idle == [todo |-> {}, event |-> NoEvent, attempt |-> 0, stage |-> "ready"]
Work == [todo : SUBSET Events, event : Events \cup {NoEvent}, attempt : Nat,
         stage : {"ready", "claimed", "sent", "failed"}]

Init ==
    /\ status = [e \in Events |-> "absent"]
    /\ attempts = [e \in Events |-> 0]
    /\ waiting = [e \in Events |-> FALSE]
    /\ hooks = {}
    /\ queue = {}
    /\ work = [w \in Workers |-> Idle]
    /\ broadcasts = [e \in Events |-> 0]
    /\ crashes = 0

-----------------------------------------------------------------------------
(* enqueue_realtime_message, enqueue_realtime_notification: the row is     *)
(* part of the transaction that creates the message, the task is not.      *)
Enqueue(e) ==
    /\ status[e] = "absent"
    /\ \A f \in Events : f < e => status[f] # "absent"
    /\ status' = [status EXCEPT ![e] = "pending"]
    /\ hooks' = hooks \cup {e}
    /\ UNCHANGED <<attempts, waiting, queue, work, broadcasts, crashes>>

(* queue_realtime_outbox_processing, in the on_commit callback.  The task  *)
(* is skipped when tasks are disabled or the broker cannot be reached, and *)
(* lost with the web process.                                              *)
QueueTask(e) ==
    /\ e \in hooks
    /\ hooks' = hooks \ {e}
    /\ queue' = queue \cup {e}
    /\ UNCHANGED <<rowVars, work, broadcasts, crashes>>

SkipTask(e) ==
    /\ e \in hooks
    /\ hooks' = hooks \ {e}
    /\ UNCHANGED <<rowVars, queue, work, broadcasts, crashes>>

Free(w) == work[w].stage = "ready" /\ work[w].todo = {}

(* The process_realtime_outbox_event task starts on a worker. *)
TakeTask(w, e) ==
    /\ Free(w)
    /\ e \in queue
    /\ queue' = queue \ {e}
    /\ work' = [work EXCEPT ![w].todo = {e}]
    /\ UNCHANGED <<rowVars, hooks, broadcasts, crashes>>

DueEverFailing == {e \in Events : status[e] = "pending"}          \* fault
Due == {e \in Events : status[e] \in {"pending", "failed"} /\ ~waiting[e]}

(* The oldest due rows, as many as the limit allows. *)
OldestDue(batch) ==
    /\ Cardinality(batch) <= BatchLimit
    /\ batch # Due => Cardinality(batch) = BatchLimit
    /\ \A e \in batch, f \in Due \ batch : e < f

(* process_due_realtime_outbox_events reads the ids that are due once and  *)
(* then works through them.                                                *)
StartBatch(w) ==
    /\ Free(w)
    /\ \E batch \in SUBSET Due :
          /\ batch # {}
          /\ OldestDue(batch)
          /\ work' = [work EXCEPT ![w].todo = batch]
    /\ UNCHANGED <<rowVars, taskVars, broadcasts, crashes>>

ClaimableIfUnsettled(e) ==                                        \* fault
    status[e] \notin (Settled \cup {"absent"}) /\ ~waiting[e]
ClaimableIfIdle(e) ==                                             \* fault
    status[e] \notin {"absent", "processing"} /\ ~waiting[e]
Claimable(e) ==
    /\ status[e] \notin (Settled \cup {"processing", "absent"})
    /\ ~waiting[e]

LoadedBeforeClaim(e) == attempts[e]                               \* fault
ClaimedAttempt(e) == attempts[e] + 1

(* _claim_outbox_event: under the row's lock its state is looked at again, *)
(* as the id may be old.                                                   *)
Claim(w) ==
    /\ work[w].stage = "ready"
    /\ \E e \in work[w].todo :
          /\ \A f \in work[w].todo : e <= f
          /\ IF Claimable(e)
             THEN /\ status' = [status EXCEPT ![e] = "processing"]
                  /\ attempts' = [attempts EXCEPT ![e] = attempts[e] + 1]
                  /\ work' = [work EXCEPT ![w] =
                                [todo |-> work[w].todo \ {e}, event |-> e,
                                 attempt |-> ClaimedAttempt(e),
                                 stage |-> "claimed"]]
             ELSE /\ work' = [work EXCEPT ![w].todo = work[w].todo \ {e}]
                  /\ UNCHANGED <<status, attempts>>
    /\ UNCHANGED <<waiting, taskVars, broadcasts, crashes>>

(* publish_realtime_outbox_event returns: the event went to the group. *)
Publish(w) ==
    /\ work[w].stage = "claimed"
    /\ broadcasts' = [broadcasts EXCEPT
                         ![work[w].event] = broadcasts[work[w].event] + 1]
    /\ work' = [work EXCEPT ![w].stage = "sent"]
    /\ UNCHANGED <<rowVars, taskVars, crashes>>

PublishFailsSilently(w) ==                                        \* fault
    /\ work[w].stage = "claimed"
    /\ work' = [work EXCEPT ![w].stage = "sent"]
    /\ UNCHANGED <<rowVars, taskVars, broadcasts, crashes>>

(* publish_realtime_outbox_event raises.  A lost answer from Redis looks   *)
(* the same to the worker as a lost request.                               *)
PublishFails(w) ==
    /\ work[w].stage = "claimed"
    /\ \E reached \in {0, 1} :
          broadcasts' = [broadcasts EXCEPT
                            ![work[w].event] = @ + reached]
    /\ work' = [work EXCEPT ![w].stage = "failed"]
    /\ UNCHANGED <<rowVars, taskVars, crashes>>

Finished(w) == [Idle EXCEPT !.todo = work[w].todo]

(* The end of process_realtime_outbox_event_now after a broadcast. *)
RecordDelivery(w) ==
    /\ work[w].stage = "sent"
    /\ status' = [status EXCEPT ![work[w].event] = "delivered"]
    /\ work' = [work EXCEPT ![w] = Finished(w)]
    /\ UNCHANGED <<attempts, waiting, taskVars, broadcasts, crashes>>

ExhaustedLate(n) == n > MaxAttempts                               \* fault
ExhaustedEarly(n) == n + 1 >= MaxAttempts                         \* fault
Exhausted(n) == n >= MaxAttempts

RecordFailureInLogOnly(w) ==                                      \* fault
    /\ work[w].stage = "failed"
    /\ work' = [work EXCEPT ![w] = Finished(w)]
    /\ UNCHANGED <<rowVars, taskVars, broadcasts, crashes>>

(* _record_outbox_failure.  The delay it looks up is never zero: the first *)
(* entry of OUTBOX_RETRY_DELAYS_SECONDS belongs to attempt 0.              *)
RecordFailure(w) ==
    LET e == work[w].event
        dead == Exhausted(work[w].attempt)
    IN  /\ work[w].stage = "failed"
        /\ status' = [status EXCEPT ![e] = IF dead THEN "dead" ELSE "failed"]
        /\ waiting' = [waiting EXCEPT ![e] = ~dead]
        /\ work' = [work EXCEPT ![w] = Finished(w)]
        /\ UNCHANGED <<attempts, taskVars, broadcasts, crashes>>

(* next_attempt_at passes. *)
TimePasses(e) ==
    /\ waiting[e]
    /\ waiting' = [waiting EXCEPT ![e] = FALSE]
    /\ UNCHANGED <<status, attempts, taskVars, work, broadcasts, crashes>>

(* A worker process dies.  Celery acknowledges a task when it starts, so   *)
(* nobody takes the task over.                                             *)
Crash(w) ==
    /\ crashes < MaxCrashes
    /\ work[w] # Idle
    /\ crashes' = crashes + 1
    /\ work' = [work EXCEPT ![w] = Idle]
    /\ UNCHANGED <<rowVars, taskVars, broadcasts>>

WorkerStep(w) ==
    \/ \E e \in Events : TakeTask(w, e)
    \/ Claim(w)
    \/ Publish(w)
    \/ PublishFails(w)
    \/ RecordDelivery(w)
    \/ RecordFailure(w)

Next ==
    \/ \E e \in Events : Enqueue(e) \/ QueueTask(e) \/ SkipTask(e)
                         \/ TimePasses(e)
    \/ \E w \in Workers : WorkerStep(w) \/ StartBatch(w) \/ Crash(w)

Spec == Init /\ [][Next]_vars

(* Workers keep working and time passes.  The periodic task comes back     *)
(* every interval, so that some free worker gets it.  Nobody has to run a  *)
(* callback or queue a task.                                               *)
Fairness ==
    /\ \A w \in Workers : WF_vars(WorkerStep(w))
    /\ WF_vars(\E w \in Workers : StartBatch(w))
    /\ \A e \in Events : WF_vars(TimePasses(e))

FairSpec == Spec /\ Fairness
-----------------------------------------------------------------------------
(* Properties *)

(* What the columns, the queue and the workers can hold.                   *)
TypeOK ==
    /\ status \in [Events -> Status]
    /\ attempts \in [Events -> 0..MaxAttempts]
    /\ waiting \in [Events -> BOOLEAN]
    /\ hooks \subseteq Events
    /\ queue \subseteq Events
    /\ work \in [Workers -> Work]
    /\ broadcasts \in [Events -> Nat]
    /\ crashes \in Nat

Holds(w, e) == work[w].event = e

(* A row is in the hands of one worker at most, although its own task and  *)
(* the batches of several workers can all name it: the claim under the row *)
(* lock decides (docs/RealityNG-Realtime-Outbox-Design.md, Concurrency).   *)
OnePublisher ==
    \A e \in Events, v, w \in Workers :
        Holds(v, e) /\ Holds(w, e) => v = w

(* Recording a result saves a row instance without a lock.  It loses no    *)
(* update because the row is still as the claim left it.                   *)
HolderIsCurrent ==
    \A w \in Workers : work[w].stage # "ready" =>
        /\ work[w].event \in Events
        /\ status[work[w].event] = "processing"
        /\ attempts[work[w].event] = work[w].attempt

(* A row is broadcast at most once for each attempt, and it dies when the  *)
(* attempts are used up, neither before nor after (OUTBOX_MAX_ATTEMPTS).   *)
AttemptsAreBounded ==
    \A e \in Events :
        /\ broadcasts[e] <= attempts[e]
        /\ status[e] = "dead" => attempts[e] = MaxAttempts
        /\ status[e] = "failed" => attempts[e] < MaxAttempts

(* A delivered row has reached the channel layer. *)
DeliveredWasBroadcast ==
    \A e \in Events : status[e] = "delivered" => broadcasts[e] > 0

(* The worker that has a row in hand is the only one, and nothing changed  *)
(* the row behind its back: both together.                                 *)
OneHolder == OnePublisher /\ HolderIsCurrent

(* Delivered and dead rows stay what they are and are not broadcast again, *)
(* whatever tasks and old batches still name them.                         *)
SettledIsFinal ==
    [][\A e \in Events : status[e] \in Settled =>
          status'[e] = status[e] /\ broadcasts'[e] = broadcasts[e]]_vars

(* A row that is marked processing without a worker: what a crash leaves. *)
Abandoned(e) == status[e] = "processing" /\ \A w \in Workers : ~Holds(w, e)

(* A crash costs one row at most: the rest of a batch stays due. *)
CrashCostsOneRow == Cardinality({e \in Events : Abandoned(e)}) <= crashes

(* What a row says of its attempts is what happened, and a crash leaves    *)
(* one row at most that says nothing: the three together.                  *)
AttemptsAgree == AttemptsAreBounded /\ DeliveredWasBroadcast /\ CrashCostsOneRow

(* Every committed row is delivered or given up in the end, also when its  *)
(* task was never queued and when older rows keep failing and fill the     *)
(* batches, unless a worker crashes on it.                                 *)
EveryRowSettles ==
    \A e \in Events :
        status[e] = "pending" ~> (status[e] \in Settled \/ Abandoned(e))

-----------------------------------------------------------------------------
(* docs/RealityNG-Messaging-Reliability-Architecture.md, Send Path: if     *)
(* Celery or Redis is unavailable, the outbox row remains retryable.       *)
ProcessingEnds ==
    \A e \in Events : status[e] = "processing" ~> status[e] # "processing"
=============================================================================
