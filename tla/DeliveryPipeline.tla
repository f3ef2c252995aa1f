-------------------------- MODULE DeliveryPipeline --------------------------
(***************************************************************************)
(* The delivery pipeline of the notification platform: the API handler     *)
(* that stores a notification and publishes one job per channel            *)
(* (notifications.Service.Send), the channel workers (delivery.Worker),    *)
(* the retry worker (retry.Service.RetryLoop), the dead-letter worker      *)
(* (retry.Service.RetryDeadLetters) and the administrator who pauses or    *)
(* stops a tenant's channel (UpdateQueueControl).                          *)
(*                                                                         *)
(* Two stores are shared.  PostgreSQL holds one row per delivery; a row    *)
(* inserted by Send's open transaction is invisible to the workers, so an  *)
(* UPDATE of it matches nothing.  RabbitMQ holds the jobs: a job taken     *)
(* from a queue stays unacknowledged until Ack, and goes back to its queue *)
(* when the consumer crashes or its AMQP channel closes.                   *)
(*                                                                         *)
(* What a step of the model is: one SQL statement, one provider call, one  *)
(* publish or one acknowledgement.  A process may stop between any two.    *)
(***************************************************************************)
EXTENDS Naturals

CONSTANTS
  Notification,       \* notifications the API may be asked to send
  Channel,            \* channel names a request may list
  Tenant,             \* tenants
  TenantOf,           \* the tenant that sends each notification
  Consumer,           \* worker processes (channel, retry and dead-letter)
  QueueOf,            \* the queue each worker process consumes
  MaxDeliveryTries,   \* config.MaxDeliveryTries (MAX_DELIVERY_ATTEMPTS)
  ManagedLane,        \* bound: tenants and channels whose control changes
  MaxFaults,          \* bound: crashes, lost channels, failed statements
  NoJob               \* what a consumer holds between two messages

(***************************************************************************)
(* One queue per known channel, the router queue for any other channel.    *)
(***************************************************************************)
channelQueue(ch) ==
  IF ch \in {"email", "sms", "fcm", "websocket"} THEN ch ELSE "router"

RetryQueue == "retry"
DeadQueue  == "dead"
Queue == {channelQueue(ch) : ch \in Channel} \cup {RetryQueue, DeadQueue}

(***************************************************************************)
(* A delivery is one channel of one notification.  A job is the message    *)
(* for it.  AttemptCap only makes the set of jobs finite for the queues'   *)
(* counters; AttemptDiscipline shows that no attempt number comes near it. *)
(***************************************************************************)
Delivery   == Notification \X Channel
AttemptCap == MaxDeliveryTries + 3
Job        == [delivery : Delivery, attempt : 0..AttemptCap]
Lane       == Tenant \X Channel
LaneOf(d)  == <<TenantOf[d[1]], d[2]>>

ASSUME PipelineAssumption ==
  /\ MaxDeliveryTries \in Nat
  /\ MaxFaults \in Nat
  /\ ManagedLane \subseteq Lane
  /\ TenantOf \in [Notification -> Tenant]
  /\ QueueOf \in [Consumer -> Queue]
  /\ NoJob \notin Job

VARIABLES
  row,        \* notification_deliveries.status of each committed row
  retryCount, \* response_json.retry_count of the row, 0 when it has no such key
  attempts,   \* number of delivery_attempts rows of the delivery
  control,    \* tenant_queue_controls.status of each tenant and channel
  api,        \* state of the Send call for each notification
  channels,   \* req.Channels of that call
  published,  \* channels the call has inserted and published so far
  queue,      \* ready messages: queue -> job -> number of copies
  pc,         \* where each consumer is in its loop
  held,       \* the message each consumer is working on
  result,     \* handle's local variable status, set by provider.Send
  open,       \* the consumers whose AMQP channel is open
  sends,      \* history: provider.Send calls for the delivery
  accepted,   \* history: those the provider accepted
  missed,     \* history: deliveries whose row a worker's statement did not find
  lost,       \* history: deliveries of which a job was dropped unfinished
  faults      \* faults so far

database == <<row, retryCount, attempts, control>>
sender   == <<api, channels, published>>
workers  == <<pc, held, result, open>>
history  == <<sends, accepted, missed, lost>>
vars     == <<database, sender, queue, workers, history, faults>>

Statuses == {"none", "queued", "sending", "sent", "failed", "blocked", "dead"}
ControlStatus == {"active", "paused", "stopped"}
Steps == {"idle", "check", "paused", "stopped", "start", "provider", "record",
          "attempt", "retry", "route", "count", "bury", "ack", "spin"}

(***************************************************************************)
(* The type invariant.                                                     *)
(***************************************************************************)
TypeOK ==
  /\ row        \in [Delivery -> Statuses]
  /\ retryCount \in [Delivery -> Nat]
  /\ attempts   \in [Delivery -> Nat]
  /\ control    \in [Lane -> ControlStatus]
  /\ api        \in [Notification -> {"new", "open", "committed", "aborted"}]
  /\ channels   \in [Notification -> SUBSET Channel]
  /\ published  \in [Notification -> SUBSET Channel]
  /\ queue      \in [Queue -> [Job -> Nat]]
  /\ pc         \in [Consumer -> Steps]
  /\ held       \in [Consumer -> Job \cup {NoJob}]
  /\ result     \in [Consumer -> {"none", "sent", "failed"}]
  /\ open       \in SUBSET Consumer
  /\ sends      \in [Delivery -> Nat]
  /\ accepted   \in [Delivery -> Nat]
  /\ missed     \in SUBSET Delivery
  /\ lost       \in SUBSET Delivery
  /\ faults     \in 0..MaxFaults

Init ==
  /\ row        = [d \in Delivery |-> "none"]
  /\ retryCount = [d \in Delivery |-> 0]
  /\ attempts   = [d \in Delivery |-> 0]
  /\ control    \in [Lane -> ControlStatus]
  /\ api        = [n \in Notification |-> "new"]
  /\ channels   = [n \in Notification |-> {}]
  /\ published  = [n \in Notification |-> {}]
  /\ queue      = [q \in Queue |-> [j \in Job |-> 0]]
  /\ pc         = [c \in Consumer |-> "idle"]
  /\ held       = [c \in Consumer |-> NoJob]
  /\ result     = [c \in Consumer |-> "none"]
  /\ open       = Consumer
  /\ sends      = [d \in Delivery |-> 0]
  /\ accepted   = [d \in Delivery |-> 0]
  /\ missed     = {}
  /\ lost       = {}
  /\ faults     = 0

-----------------------------------------------------------------------------
(***************************************************************************)
(* RabbitMQ as the code uses it.                                           *)
(***************************************************************************)
Added(q, j)   == [queue EXCEPT ![q][j] = @ + 1]
Removed(q, j) == [queue EXCEPT ![q][j] = @ - 1]

\* The queues after the broker takes back what c has not acknowledged.
Requeued(c) ==
  IF c \in open /\ held[c] # NoJob THEN Added(QueueOf[c], held[c]) ELSE queue

\* Publish fails exactly when the AMQP channel is closed.
AfterPublish(c, q, j) == IF c \in open THEN Added(q, j) ELSE queue

Goto(c, step) == pc' = [pc EXCEPT ![c] = step]

\* End of one iteration of c's loop.  On a closed channel the loop receives
\* zero messages for ever: json.Unmarshal fails, Nack fails, continue.
NextMessage(c) ==
  /\ Goto(c, IF c \in open THEN "idle" ELSE "spin")
  /\ held'   = [held   EXCEPT ![c] = NoJob]
  /\ result' = [result EXCEPT ![c] = "none"]
  /\ UNCHANGED open

\* A fault of the environment: a failed statement, a crash, a lost channel.
Fault   == faults < MaxFaults /\ faults' = faults + 1
NoFault == UNCHANGED faults

(***************************************************************************)
(* PostgreSQL as the code uses it: UPDATE ... WHERE id = $1 on a row that  *)
(* is not committed succeeds and changes nothing.                          *)
(***************************************************************************)
Stored(d) == row[d] # "none"

\* Mutant: the statement inserts the row when it is missing.
UpdateStatusUpsert(d, s) ==
  /\ row' = [row EXCEPT ![d] = s]
  /\ UNCHANGED missed

UpdateStatus(d, s) ==
  /\ row'    = IF Stored(d) THEN [row EXCEPT ![d] = s] ELSE row
  /\ missed' = IF Stored(d) THEN missed ELSE missed \cup {d}

DeliveryOf(c) == held[c].delivery

\* Giving up a message on a closed channel: nobody takes this copy back.
GiveUp(c) ==
  lost' = IF c \notin open /\ held[c] # NoJob
            THEN lost \cup {DeliveryOf(c)} ELSE lost

NextAttempt(j) == [delivery |-> j.delivery, attempt |-> j.attempt + 1]

-----------------------------------------------------------------------------
(***************************************************************************)
(* notifications.Service.Send for an instant notification.  The checks     *)
(* before the transaction (tenant, features, channels, rate limit) refuse  *)
(* the request without any effect here: the call is then never started.    *)
(***************************************************************************)
SendBegin(n) ==
  /\ api[n] = "new"
  /\ api' = [api EXCEPT ![n] = "open"]
  /\ \E chs \in SUBSET Channel \ {{}} : channels' = [channels EXCEPT ![n] = chs]
  /\ UNCHANGED <<database, published, queue, workers, history, faults>>

\* One iteration of the channel loop: INSERT the delivery in the transaction,
\* EnsureControl on another connection, publish the job before the commit.
SendChannel(n, ch) ==
  /\ api[n] = "open"
  /\ ch \in channels[n] \ published[n]
  /\ published' = [published EXCEPT ![n] = @ \cup {ch}]
  /\ queue' = Added(channelQueue(ch), [delivery |-> <<n, ch>>, attempt |-> 0])
  /\ UNCHANGED <<database, api, channels, workers, history, faults>>

SendCommit(n) ==
  /\ api[n] = "open"
  /\ published[n] = channels[n]
  /\ api' = [api EXCEPT ![n] = "committed"]
  /\ row' = [d \in Delivery |->
               IF d[1] = n /\ d[2] \in channels[n] THEN "queued" ELSE row[d]]
  /\ UNCHANGED <<retryCount, attempts, control, channels, published, queue,
                 workers, history, faults>>

\* Any error after Begin (a statement, EnsureControl, Publish, Commit, the
\* client's context) or a crash of the API: the deferred Rollback discards the
\* rows, the jobs already published stay in their queues.
SendAbort(n) ==
  /\ api[n] = "open"
  /\ Fault
  /\ api' = [api EXCEPT ![n] = "aborted"]
  /\ UNCHANGED <<database, channels, published, queue, workers, history>>

Send(n) == SendBegin(n) \/ (\E ch \in Channel : SendChannel(n, ch)) \/ SendCommit(n)

-----------------------------------------------------------------------------
(***************************************************************************)
(* Every consumer: receive a message, acknowledge it.                      *)
(***************************************************************************)
\* Mutant: the retry process is started with the dead-letter loop.
FirstStepMiswired(q) == IF q \in {RetryQueue, DeadQueue} THEN "bury" ELSE "check"

FirstStep(q) ==
  IF q = RetryQueue THEN "route" ELSE IF q = DeadQueue THEN "bury" ELSE "check"

Receive(c, j) ==
  /\ pc[c] = "idle"
  /\ queue[QueueOf[c]][j] > 0
  /\ queue' = Removed(QueueOf[c], j)
  /\ held' = [held EXCEPT ![c] = j]
  /\ Goto(c, FirstStep(QueueOf[c]))
  /\ UNCHANGED <<database, sender, result, open, history, faults>>

Ack(c) ==
  /\ pc[c] = "ack"
  /\ NextMessage(c)
  /\ UNCHANGED <<database, sender, queue, history, faults>>

\* Mutant: msg.Nack(false, false).
NackNoRequeue(c) == NextMessage(c) /\ UNCHANGED queue

\* msg.Nack(false, true): back to the queue.
Nack(c) == NextMessage(c) /\ queue' = Requeued(c)

(***************************************************************************)
(* delivery.Worker: applyQueueControl.                                     *)
(***************************************************************************)
\* Mutant: a stopped lane is treated like a paused one.
CheckControlNoStop(c) ==
  /\ pc[c] = "check"
  /\ Goto(c, IF control[LaneOf(DeliveryOf(c))] = "active" THEN "start" ELSE "paused")
  /\ UNCHANGED <<database, sender, queue, held, result, open, history, faults>>

CheckControl(c) ==
  /\ pc[c] = "check"
  /\ \/ /\ LET status == control[LaneOf(DeliveryOf(c))] IN
             Goto(c, IF status = "active" THEN "start" ELSE status)
        /\ NoFault
        /\ UNCHANGED <<queue, held, result, open>>
     \/ /\ Fault              \* GetControl returns an error
        /\ Nack(c)
  /\ UNCHANGED <<database, sender, history>>

\* UPDATE to 'queued' (its error is ignored), sleep, Nack with requeue.
MarkPaused(c) ==
  /\ pc[c] = "paused"
  /\ \/ UpdateStatus(DeliveryOf(c), "queued") /\ NoFault
     \/ Fault /\ UNCHANGED <<row, missed>>
  /\ Nack(c)
  /\ GiveUp(c)
  /\ UNCHANGED <<retryCount, attempts, control, sender, sends, accepted>>

\* Mutant: the message of a stopped lane is requeued instead of acknowledged.
MarkStoppedRequeue(c) ==
  /\ pc[c] = "stopped"
  /\ UpdateStatus(DeliveryOf(c), "blocked")
  /\ Nack(c)
  /\ GiveUp(c)
  /\ UNCHANGED <<retryCount, attempts, control, sender, sends, accepted, faults>>

\* UPDATE to 'blocked', then the job is acknowledged and gone.
MarkStopped(c) ==
  /\ pc[c] = "stopped"
  /\ \/ /\ UpdateStatus(DeliveryOf(c), "blocked")
        /\ Goto(c, "ack")
        /\ NoFault
        /\ UNCHANGED <<queue, held, result, open>>
     \/ /\ Fault              \* the UPDATE fails: Nack with requeue
        /\ Nack(c)
        /\ UNCHANGED <<row, missed>>
  /\ UNCHANGED <<retryCount, attempts, control, sender, sends, accepted, lost>>

(***************************************************************************)
(* delivery.Worker: handle.                                                *)
(***************************************************************************)
MarkSending(c) ==
  /\ pc[c] = "start"
  /\ \/ UpdateStatus(DeliveryOf(c), "sending") /\ NoFault
     \/ Fault /\ UNCHANGED <<row, missed>>      \* the error is ignored
  /\ Goto(c, "provider")
  /\ UNCHANGED <<retryCount, attempts, control, sender, queue, held, result,
                 open, sends, accepted, lost>>

ProviderSend(c) ==
  /\ pc[c] = "provider"
  /\ sends' = [sends EXCEPT ![DeliveryOf(c)] = @ + 1]
  /\ \/ /\ result'   = [result EXCEPT ![c] = "sent"]
        /\ accepted' = [accepted EXCEPT ![DeliveryOf(c)] = @ + 1]
     \/ /\ result'   = [result EXCEPT ![c] = "failed"]
        /\ UNCHANGED accepted
  /\ Goto(c, "record")
  /\ UNCHANGED <<database, sender, queue, held, open, missed, lost, faults>>

\* UPDATE of the status and of the whole response_json; its error is handle's.
RecordStatus(c) ==
  /\ pc[c] = "record"
  /\ \/ /\ UpdateStatus(DeliveryOf(c), result[c])
        /\ retryCount' = [retryCount EXCEPT ![DeliveryOf(c)] = 0]
        /\ Goto(c, "attempt")
        /\ NoFault
     \/ /\ Fault
        /\ Goto(c, "retry")
        /\ UNCHANGED <<row, missed, retryCount>>
  /\ UNCHANGED <<attempts, control, sender, queue, held, result, open,
                 sends, accepted, lost>>

\* Mutant: the error of the INSERT is dropped.
RecordAttemptUnchecked(c) ==
  /\ pc[c] = "attempt"
  /\ \/ /\ Stored(DeliveryOf(c))
        /\ attempts' = [attempts EXCEPT ![DeliveryOf(c)] = @ + 1]
        /\ NoFault
     \/ Fault /\ UNCHANGED attempts
  /\ Goto(c, IF result[c] = "failed" THEN "retry" ELSE "ack")
  /\ UNCHANGED <<row, retryCount, control, sender, queue, held, result, open, history>>

\* Mutant: handle returns an error after a success too.
RecordAttemptAlwaysRetry(c) ==
  /\ pc[c] = "attempt"
  /\ Stored(DeliveryOf(c))
  /\ attempts' = [attempts EXCEPT ![DeliveryOf(c)] = @ + 1]
  /\ Goto(c, "retry")
  /\ UNCHANGED <<row, retryCount, control, sender, queue, held, result, open, history,
                 faults>>

\* INSERT INTO delivery_attempts: the foreign key refuses it when the delivery
\* row is not committed.  handle fails when the provider or the INSERT failed.
RecordAttempt(c) ==
  /\ pc[c] = "attempt"
  /\ \/ /\ Stored(DeliveryOf(c))
        /\ NoFault
        /\ attempts' = [attempts EXCEPT ![DeliveryOf(c)] = @ + 1]
        /\ Goto(c, IF result[c] = "failed" THEN "retry" ELSE "ack")
        /\ UNCHANGED missed
     \/ /\ IF Stored(DeliveryOf(c)) THEN Fault ELSE NoFault
        /\ missed' = IF Stored(DeliveryOf(c)) THEN missed ELSE missed \cup {DeliveryOf(c)}
        /\ Goto(c, "retry")
        /\ UNCHANGED attempts
  /\ UNCHANGED <<row, retryCount, control, sender, queue, held, result, open,
                 sends, accepted, lost>>

\* handle failed: Attempt++, publish to the retry queue (an error is only
\* logged), then the message is acknowledged.
PublishRetry(c) ==
  /\ pc[c] = "retry"
  /\ queue' = AfterPublish(c, RetryQueue, NextAttempt(held[c]))
  /\ GiveUp(c)
  /\ Goto(c, "ack")
  /\ UNCHANGED <<database, sender, held, result, open, sends, accepted, missed,
                 faults>>

-----------------------------------------------------------------------------
(***************************************************************************)
(* retry.Service.RetryLoop.  The backoff sleep is the time the consumer    *)
(* may stay at "route".                                                    *)
(***************************************************************************)
Exhausted(j) == j.attempt >= MaxDeliveryTries

RouteDead(c) ==
  /\ pc[c] = "route"
  /\ Exhausted(held[c])
  /\ queue' = AfterPublish(c, DeadQueue, held[c])
  /\ Goto(c, "ack")
  /\ UNCHANGED <<database, sender, held, result, open, history, faults>>

\* Mutant: the retry worker publishes the job without Attempt++.
RouteAgainSameAttempt(c) ==
  /\ pc[c] = "route"
  /\ ~Exhausted(held[c])
  /\ queue' = AfterPublish(c, channelQueue(DeliveryOf(c)[2]), held[c])
  /\ Goto(c, IF c \in open THEN "count" ELSE "ack")
  /\ UNCHANGED <<database, sender, held, result, open, history, faults>>

\* Attempt++, publish to the channel's queue; after an error the message is
\* refused without requeue, which a closed channel cannot carry out.
RouteAgain(c) ==
  /\ pc[c] = "route"
  /\ ~Exhausted(held[c])
  /\ queue' = AfterPublish(c, channelQueue(DeliveryOf(c)[2]), NextAttempt(held[c]))
  /\ Goto(c, IF c \in open THEN "count" ELSE "ack")
  /\ UNCHANGED <<database, sender, held, result, open, history, faults>>

\* UPDATE response_json.retry_count, after the job is already published.
CountRetry(c) ==
  /\ pc[c] = "count"
  /\ \/ /\ retryCount' = IF Stored(DeliveryOf(c))
                           THEN [retryCount EXCEPT ![DeliveryOf(c)] = held[c].attempt + 1]
                           ELSE retryCount
        /\ NoFault
     \/ Fault /\ UNCHANGED retryCount           \* the error is ignored
  /\ Goto(c, "ack")
  /\ UNCHANGED <<row, attempts, control, sender, queue, held, result, open,
                 history>>

(***************************************************************************)
(* retry.Service.RetryDeadLetters: UPDATE to 'dead'; an error is logged    *)
(* and the job acknowledged all the same.                                  *)
(***************************************************************************)
MarkDead(c) ==
  /\ pc[c] = "bury"
  /\ \/ UpdateStatus(DeliveryOf(c), "dead") /\ NoFault /\ UNCHANGED lost
     \/ Fault /\ lost' = lost \cup {DeliveryOf(c)} /\ UNCHANGED <<row, missed>>
  /\ Goto(c, "ack")
  /\ UNCHANGED <<retryCount, attempts, control, sender, queue, held, result,
                 open, sends, accepted>>

-----------------------------------------------------------------------------
(***************************************************************************)
(* handlers.UpdateQueueControl: an administrator sets a lane's status.     *)
(***************************************************************************)
UpdateQueueControl(l, s) ==
  /\ control[l] # s
  /\ control' = [control EXCEPT ![l] = s]
  /\ UNCHANGED <<row, retryCount, attempts, sender, queue, workers, history,
                 faults>>

(***************************************************************************)
(* The environment.                                                        *)
(***************************************************************************)
\* The process dies and is started again: the broker requeues its message.
Crash(c) ==
  /\ Fault
  /\ queue'  = Requeued(c)
  /\ pc'     = [pc     EXCEPT ![c] = "idle"]
  /\ held'   = [held   EXCEPT ![c] = NoJob]
  /\ result' = [result EXCEPT ![c] = "none"]
  /\ open'   = open \cup {c}
  /\ GiveUp(c)
  /\ UNCHANGED <<database, sender, sends, accepted, missed>>

\* The AMQP channel closes: the broker requeues the message while the worker
\* goes on handling its copy.  No code of this repository reconnects.
LoseChannel(c) ==
  /\ c \in open
  /\ Fault
  /\ queue' = Requeued(c)
  /\ open'  = open \ {c}
  /\ pc'    = [pc   EXCEPT ![c] = IF @ = "idle" THEN "spin" ELSE @]
  /\ UNCHANGED <<database, sender, held, result, history>>

\* Publishing waits for no confirmation, so the broker may lose the message.
BrokerDrop(q, j) ==
  /\ queue[q][j] > 0
  /\ Fault
  /\ queue' = Removed(q, j)
  /\ lost' = lost \cup {j.delivery}
  /\ UNCHANGED <<database, sender, workers, sends, accepted, missed>>

-----------------------------------------------------------------------------
Work(c) ==
  \/ Ack(c)
  \/ CheckControl(c) \/ MarkPaused(c) \/ MarkStopped(c)
  \/ MarkSending(c) \/ ProviderSend(c) \/ RecordStatus(c) \/ RecordAttempt(c)
  \/ PublishRetry(c)
  \/ RouteDead(c) \/ RouteAgain(c) \/ CountRetry(c)
  \/ MarkDead(c)

Next ==
  \/ \E n \in Notification : Send(n) \/ SendAbort(n)
  \/ \E c \in Consumer, j \in Job : Receive(c, j)
  \/ \E c \in Consumer : Work(c)
  \/ \E l \in ManagedLane, s \in ControlStatus : UpdateQueueControl(l, s)
  \/ \E c \in Consumer : Crash(c) \/ LoseChannel(c)
  \/ \E q \in Queue, j \in Job : BrokerDrop(q, j)

Spec == Init /\ [][Next]_vars

(***************************************************************************)
(* Fairness.  A started Send call and a worker's loop keep running: neither *)
(* waits on another process.  Every ready message is pushed to a consumer  *)
(* of its queue (Consume sets no prefetch limit) and its loop takes the    *)
(* messages one by one, so no message is passed over for ever.  Nothing    *)
(* makes a request arrive, an administrator act or a fault happen.         *)
(***************************************************************************)
ReceiveFrom(q, d) ==
  \E c \in {x \in Consumer : QueueOf[x] = q}, a \in 0..AttemptCap :
    Receive(c, [delivery |-> d, attempt |-> a])

Fairness ==
  /\ \A n \in Notification :
       WF_vars((\E ch \in Channel : SendChannel(n, ch)) \/ SendCommit(n))
  /\ \A c \in Consumer : WF_vars(Work(c))
  /\ \A q \in Queue, d \in Delivery : SF_vars(ReceiveFrom(q, d))

FairSpec == Spec /\ Fairness

-----------------------------------------------------------------------------
(***************************************************************************)
(* Safety.                                                                 *)
(***************************************************************************)
InQueue(d) == \E q \in Queue, j \in Job : j.delivery = d /\ queue[q][j] > 0
Holds(c, d) == held[c] # NoJob /\ held[c].delivery = d

\* c will finish d, publish a job for it or give it back to the broker.
Carries(c, d) ==
  /\ Holds(c, d)
  /\ \/ pc[c] \in {"provider", "record", "retry"}
     \/ pc[c] = "attempt" /\ result[c] = "failed"
     \/ c \in open /\ pc[c] \in {"check", "paused", "stopped", "start", "route", "bury"}

HasJob(d) == InQueue(d) \/ \E c \in Consumer : Carries(c, d)
Final == {"sent", "blocked", "dead"}

(***************************************************************************)
(* Attempt numbers.  The worker and the retry worker both do Attempt++, so *)
(* a channel queue only holds even numbers up to MaxDeliveryTries, the     *)
(* retry queue odd ones, and the dead queue odd ones that are at least     *)
(* MaxDeliveryTries, wherever crashes and redeliveries put the copies.     *)
(***************************************************************************)
AttemptFits(q, a) ==
  /\ q = RetryQueue => a % 2 = 1 /\ a <= MaxDeliveryTries + 1
  /\ q = DeadQueue  => a % 2 = 1 /\ a \in MaxDeliveryTries..(MaxDeliveryTries + 1)
  /\ q \notin {RetryQueue, DeadQueue} => a % 2 = 0 /\ a <= MaxDeliveryTries

AttemptDiscipline ==
  /\ \A q \in Queue, j \in Job : queue[q][j] > 0 => AttemptFits(q, j.attempt)
  /\ \A c \in Consumer : held[c] # NoJob => AttemptFits(QueueOf[c], held[c].attempt)

(***************************************************************************)
(* A delivery is only marked dead after the provider was called for it at  *)
(* least (MaxDeliveryTries + 1) / 2 times: neither a redelivered copy nor  *)
(* a job whose rows are not committed yet can get there sooner.            *)
(***************************************************************************)
DeadAfterRetries ==
  \A d \in Delivery : row[d] = "dead" => 2 * sends[d] >= MaxDeliveryTries + 1

(***************************************************************************)
(* A published delivery that is not finished has a job somewhere, unless a *)
(* copy was dropped or a worker processed the job before Send's commit.    *)
(***************************************************************************)
NotStranded ==
  \A d \in Delivery :
    d[2] \in published[d[1]] /\ row[d] \notin Final
      => HasJob(d) \/ d \in lost \cup missed

(***************************************************************************)
(* A delivery shown as sent was accepted by the provider, and its attempt  *)
(* is on record unless the work on it goes on, was dropped or was done     *)
(* before Send's commit.                                                   *)
(***************************************************************************)
SentIsAccounted ==
  \A d \in Delivery :
    row[d] = "sent" =>
      /\ accepted[d] > 0
      /\ \/ attempts[d] > 0
         \/ d \in lost \cup missed
         \/ HasJob(d)
         \/ \E c \in Consumer : Holds(c, d) /\ pc[c] = "attempt"

(***************************************************************************)
(* The recipient gets a notification twice only after a fault, or when a   *)
(* worker handled the job before Send committed the row.                   *)
(***************************************************************************)
NoDuplicateSend ==
  \A d \in Delivery : accepted[d] > 1 => faults > 0 \/ d \in missed

(***************************************************************************)
(* The same two causes are the only ones that overwrite a final status.    *)
(***************************************************************************)
FinalStatusStable ==
  [][\A d \in Delivery :
       row[d] \in Final /\ row'[d] # row[d] => faults > 0 \/ d \in missed]_vars

(***************************************************************************)
(* The pipeline implements the lifecycle of DeliveryLifecycle: the         *)
(* several-step Send, the redeliveries and the retries only show as its    *)
(* steps on the rows and the provider calls.                               *)
(***************************************************************************)
Lifecycle == INSTANCE DeliveryLifecycle WITH
  Notification <- Notification, Channel <- Channel, MaxDeliveryTries <- MaxDeliveryTries,
  row <- row, sends <- sends, accepted <- accepted
ImplementsLifecycle == Lifecycle!LifecycleSpec

(***************************************************************************)
(* Liveness.  A committed delivery whose own tenant and channel are        *)
(* eventually not paused any more is finished, unless a copy was dropped,  *)
(* its job was processed before the commit, or a consumer spins on a       *)
(* closed channel.                                                         *)
(***************************************************************************)
Settles ==
  \A d \in Delivery :
    (<>[](control[LaneOf(d)] # "paused"))
      => (Stored(d) ~> \/ row[d] \in Final
                       \/ d \in lost \cup missed
                       \/ \E c \in Consumer : pc[c] = "spin")

(***************************************************************************)
(* What the documentation says and the code does not do.                   *)
(***************************************************************************)
\* docs/architecture.md: rows are stored (step 4) before jobs are published
\* (step 5), so the provider is only called for a delivery that has its row.
StoredBeforeSend == \A d \in Delivery : sends[d] > 0 => Stored(d)

=============================================================================
