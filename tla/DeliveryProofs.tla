--------------------------- MODULE DeliveryProofs ---------------------------
(***************************************************************************)
(* Theorems about DeliveryPipeline, for any set of notifications,          *)
(* channels, tenants and worker processes, any limit on the tries and any  *)
(* number of faults.                                                       *)
(***************************************************************************)
EXTENDS DeliveryPipeline, TLAPS

(***************************************************************************)
(* A consumer holds a message exactly while it works on one, at a step     *)
(* that its own loop has.                                                  *)
(***************************************************************************)
LoopSteps(q) ==
  {"idle", "ack", "spin"} \cup
  (IF q = RetryQueue THEN {"route", "count"}
   ELSE IF q = DeadQueue THEN {"bury"}
   ELSE {"check", "paused", "stopped", "start", "provider", "record", "attempt", "retry"})

ConsumerOK(c) ==
  /\ pc[c] \in LoopSteps(QueueOf[c])
  /\ pc[c] \in {"idle", "spin"} <=> held[c] = NoJob
  /\ pc[c] = "idle" => c \in open

ConsumersOK == \A c \in Consumer : ConsumerOK(c)

-----------------------------------------------------------------------------
(***************************************************************************)
(* Facts about the helpers.                                                *)
(***************************************************************************)

\* A channel's queue is one of the queues, and neither of the special ones.
LEMMA ChannelQueueType ==
  ASSUME NEW ch \in Channel
  PROVE  channelQueue(ch) \in Queue \ {RetryQueue, DeadQueue}
BY DEF channelQueue, Queue, RetryQueue, DeadQueue

\* Publishing adds one copy of one job to one queue and changes nothing else.
LEMMA AddedFacts ==
  ASSUME TypeOK, NEW q \in Queue, NEW j \in Job
  PROVE  /\ Added(q, j) \in [Queue -> [Job -> Nat]]
         /\ \A p \in Queue, i \in Job :
              Added(q, j)[p][i] = IF p = q /\ i = j THEN queue[p][i] + 1 ELSE queue[p][i]
BY DEF TypeOK, Added

\* Taking a message removes one copy of one job and changes nothing else.
LEMMA RemovedFacts ==
  ASSUME TypeOK, NEW q \in Queue, NEW j \in Job, queue[q][j] > 0
  PROVE  /\ Removed(q, j) \in [Queue -> [Job -> Nat]]
         /\ \A p \in Queue, i \in Job :
              Removed(q, j)[p][i] = IF p = q /\ i = j THEN queue[p][i] - 1 ELSE queue[p][i]
BY DEF TypeOK, Removed

\* The next attempt of a job with room below the cap is a job of the delivery.
LEMMA NextAttemptFacts ==
  ASSUME NEW j \in Job, j.attempt < AttemptCap
  PROVE  /\ NextAttempt(j) \in Job
         /\ NextAttempt(j).delivery = j.delivery
         /\ NextAttempt(j).attempt = j.attempt + 1
BY PipelineAssumption DEF NextAttempt, Job, AttemptCap

\* Attempt++ turns an even attempt number odd and an odd one even, and two
\* times the provider calls cover an odd attempt number with one to spare.
LEMMA Parity ==
  ASSUME NEW a \in Nat
  PROVE  /\ a % 2 = 0 => (a + 1) % 2 = 1
         /\ a % 2 = 1 => (a + 1) % 2 = 0
         /\ \A s \in Nat : a % 2 = 1 /\ 2 * s >= a => 2 * s >= a + 1
OBVIOUS

\* An UPDATE keeps the rows well typed.
LEMMA UpdateStatusType ==
  ASSUME TypeOK, NEW d \in Delivery, NEW s \in Statuses, UpdateStatus(d, s)
  PROVE  row' \in [Delivery -> Statuses] /\ missed' \in SUBSET Delivery
BY DEF TypeOK, UpdateStatus

\* So does the fault counter stay in its range.
LEMMA FaultType ==
  ASSUME TypeOK, Fault \/ NoFault
  PROVE  faults' \in 0..MaxFaults
BY PipelineAssumption DEF TypeOK, Fault, NoFault

\* Moving a consumer to another step keeps the steps well typed.
LEMMA GotoType ==
  ASSUME TypeOK, NEW c \in Consumer, NEW step \in Steps, Goto(c, step)
  PROVE  pc' \in [Consumer -> Steps]
BY DEF TypeOK, Goto

\* The end of an iteration leaves a well-typed consumer.
LEMMA NextMessageType ==
  ASSUME TypeOK, NEW c \in Consumer, NextMessage(c)
  PROVE  /\ pc' \in [Consumer -> Steps]
         /\ held' \in [Consumer -> Job \cup {NoJob}]
         /\ result' \in [Consumer -> {"none", "sent", "failed"}]
         /\ open' \in SUBSET Consumer
<1>1. Goto(c, "idle") \/ Goto(c, "spin") BY DEF NextMessage
<1>2. pc' \in [Consumer -> Steps] BY <1>1, GotoType DEF Steps
<1> QED BY <1>2 DEF TypeOK, NextMessage

-----------------------------------------------------------------------------
(***************************************************************************)
(* The inductive invariant.                                                *)
(***************************************************************************)

\* Every two attempts of a job stand for one provider call; a worker that has
\* called the provider for the job it holds is one call ahead.
Called(c) == IF pc[c] \in {"record", "attempt", "retry"} THEN 2 ELSE 0

SendsCover ==
  /\ \A q \in Queue, j \in Job : queue[q][j] > 0 => 2 * sends[j.delivery] >= j.attempt
  /\ \A c \in Consumer : held[c] # NoJob =>
       2 * sends[held[c].delivery] >= held[c].attempt + Called(c)

ResultOK ==
  \A c \in Consumer :
    /\ pc[c] = "record" => result[c] # "none"
    /\ result[c] = "sent" => held[c] # NoJob /\ accepted[held[c].delivery] > 0

RowsOK ==
  \A d \in Delivery :
    /\ row[d] = "sent" => accepted[d] > 0
    /\ row[d] = "dead" => 2 * sends[d] >= MaxDeliveryTries + 1

TransactionOK ==
  \A d \in Delivery : api[d[1]] # "committed" => row[d] = "none"

IndInv ==
  /\ TypeOK
  /\ ConsumersOK
  /\ AttemptDiscipline
  /\ SendsCover
  /\ ResultOK
  /\ RowsOK
  /\ TransactionOK

\* The initial states satisfy the invariant.
LEMMA InitIndInv == Init => IndInv
<1> SUFFICES ASSUME Init PROVE IndInv OBVIOUS
<1> USE PipelineAssumption DEF Init
<1>1. TypeOK BY DEF TypeOK, Statuses, Steps, ControlStatus
<1>2. ConsumersOK BY DEF ConsumersOK, ConsumerOK, LoopSteps
<1>3. AttemptDiscipline BY DEF AttemptDiscipline
<1>4. SendsCover BY DEF SendsCover
<1>5. ResultOK /\ RowsOK /\ TransactionOK
  BY DEF ResultOK, RowsOK, TransactionOK, Delivery
<1> QED BY <1>1, <1>2, <1>3, <1>4, <1>5 DEF IndInv

\* What a consumer holds is a job that fits its queue.
LEMMA HeldFacts ==
  ASSUME IndInv, NEW c \in Consumer, held[c] # NoJob
  PROVE  /\ held[c] \in Job
         /\ held[c].delivery \in Delivery
         /\ held[c].attempt \in 0..AttemptCap
         /\ AttemptFits(QueueOf[c], held[c].attempt)
         /\ 2 * sends[held[c].delivery] >= held[c].attempt + Called(c)
BY DEF IndInv, TypeOK, AttemptDiscipline, SendsCover, Job

\* Every step changes the queues in one of four ways, and a job is only added
\* where its attempt number fits and the provider calls cover it.
QueueStep ==
  \/ queue' = queue
  \/ \E q \in Queue, j \in Job :
       /\ queue' = Added(q, j)
       /\ AttemptFits(q, j.attempt)
       /\ 2 * sends[j.delivery] >= j.attempt
  \/ \E q \in Queue, j \in Job : queue[q][j] > 0 /\ queue' = Removed(q, j)

\* Giving a held message back to its queue is such a change.
LEMMA RequeueStep ==
  ASSUME IndInv, NEW c \in Consumer, queue' = Requeued(c)
  PROVE  QueueStep
<1>1. CASE c \in open /\ held[c] # NoJob
  <2>1. queue' = Added(QueueOf[c], held[c]) BY <1>1 DEF Requeued
  <2>2. QueueOf[c] \in Queue /\ sends \in [Delivery -> Nat]
    BY PipelineAssumption DEF IndInv, TypeOK
  <2>3. 2 * sends[held[c].delivery] >= held[c].attempt
    BY <1>1, <2>2, HeldFacts DEF Called
  <2> QED BY <1>1, <2>1, <2>2, <2>3, HeldFacts DEF QueueStep
<1>2. CASE ~(c \in open /\ held[c] # NoJob)
  BY <1>2 DEF Requeued, QueueStep
<1> QED BY <1>1, <1>2

\* So does every action.
LEMMA NextQueueStep ==
  ASSUME IndInv, [Next]_vars
  PROVE  QueueStep
<1> USE PipelineAssumption
<1>0. sends \in [Delivery -> Nat] /\ Delivery = Notification \X Channel
      /\ MaxDeliveryTries \in Nat /\ AttemptCap = MaxDeliveryTries + 3
  BY DEF IndInv, TypeOK, Delivery, AttemptCap
<1>1. ASSUME NEW n \in Notification, NEW ch \in Channel, SendChannel(n, ch)
      PROVE  QueueStep
  <2> DEFINE j == [delivery |-> <<n, ch>>, attempt |-> 0]
  <2>1. j \in Job /\ j.attempt = 0 /\ sends[j.delivery] \in Nat
    BY <1>0 DEF Job, Delivery
  <2>2. AttemptFits(channelQueue(ch), 0)
    BY <1>0, ChannelQueueType DEF AttemptFits
  <2> QED BY <1>1, <2>1, <2>2, ChannelQueueType DEF QueueStep, SendChannel
<1>2. ASSUME NEW c \in Consumer, NEW j \in Job, Receive(c, j)
      PROVE  QueueStep
  BY <1>2 DEF Receive, QueueStep
<1>3. ASSUME NEW c \in Consumer, PublishRetry(c)
      PROVE  QueueStep
  <2>1. held[c] # NoJob /\ QueueOf[c] \notin {RetryQueue, DeadQueue} /\ Called(c) = 2
    BY <1>3 DEF PublishRetry, IndInv, ConsumersOK, ConsumerOK, LoopSteps, Called
  <2>2. /\ held[c] \in Job /\ held[c].delivery \in Delivery /\ held[c].attempt \in Nat
        /\ held[c].attempt % 2 = 0 /\ held[c].attempt <= MaxDeliveryTries
        /\ 2 * sends[held[c].delivery] >= held[c].attempt + 2
        /\ sends[held[c].delivery] \in Nat
    BY <2>1, <1>0, HeldFacts DEF AttemptFits
  <2> DEFINE j == NextAttempt(held[c])
  <2>3. j \in Job /\ j.delivery = held[c].delivery /\ j.attempt = held[c].attempt + 1
    BY <2>2, <1>0, NextAttemptFacts
  <2>4. AttemptFits(RetryQueue, j.attempt)
    <3>1. (held[c].attempt + 1) % 2 = 1 BY <2>2, Parity
    <3>2. j.attempt % 2 = 1 /\ j.attempt <= MaxDeliveryTries + 1
      BY <2>2, <2>3, <3>1, <1>0
    <3> QED BY <3>2 DEF AttemptFits, RetryQueue, DeadQueue
  <2>6. 2 * sends[j.delivery] >= j.attempt
    BY <2>2, <2>3
  <2>5. RetryQueue \in Queue BY DEF Queue
  <2> QED BY <1>3, <2>3, <2>4, <2>5, <2>6 DEF PublishRetry, AfterPublish, QueueStep
<1>4. ASSUME NEW c \in Consumer, RouteDead(c) \/ RouteAgain(c)
      PROVE  QueueStep
  <2>1. held[c] # NoJob /\ QueueOf[c] = RetryQueue
    BY <1>4 DEF RouteDead, RouteAgain, IndInv, ConsumersOK, ConsumerOK, LoopSteps
  <2>2. /\ held[c] \in Job /\ held[c].delivery \in Delivery /\ held[c].attempt \in Nat
        /\ held[c].attempt % 2 = 1 /\ held[c].attempt <= MaxDeliveryTries + 1
        /\ 2 * sends[held[c].delivery] >= held[c].attempt
        /\ sends[held[c].delivery] \in Nat
    BY <2>1, <1>0, HeldFacts DEF AttemptFits, Called
  <2>3. CASE RouteDead(c)
    <3>1. AttemptFits(DeadQueue, held[c].attempt)
      BY <2>2, <2>3, <1>0 DEF RouteDead, Exhausted, AttemptFits, DeadQueue, RetryQueue
    <3>2. DeadQueue \in Queue BY DEF Queue
    <3> QED BY <2>2, <2>3, <3>1, <3>2 DEF RouteDead, AfterPublish, QueueStep
  <2>4. CASE RouteAgain(c)
    <3> DEFINE j == NextAttempt(held[c])
               q == channelQueue(held[c].delivery[2])
    <3>1. j \in Job /\ j.delivery = held[c].delivery /\ j.attempt = held[c].attempt + 1
      BY <2>2, <1>0, NextAttemptFacts
    <3>2. q \in Queue \ {RetryQueue, DeadQueue}
      BY <2>2, <1>0, ChannelQueueType
    <3>3. AttemptFits(q, j.attempt) /\ 2 * sends[j.delivery] >= j.attempt
      <4>1. /\ (held[c].attempt + 1) % 2 = 0
            /\ 2 * sends[held[c].delivery] >= held[c].attempt + 1
        BY <2>2, Parity
      <4>2. held[c].attempt + 1 <= MaxDeliveryTries
        BY <2>2, <2>4, <1>0 DEF RouteAgain, Exhausted
      <4>3. j.attempt % 2 = 0 /\ j.attempt <= MaxDeliveryTries
        BY <3>1, <4>1, <4>2
      <4> QED BY <3>1, <3>2, <4>1, <4>3 DEF AttemptFits
    <3> QED BY <2>4, <3>1, <3>2, <3>3 DEF RouteAgain, AfterPublish, QueueStep, DeliveryOf
  <2> QED BY <1>4, <2>3, <2>4
<1>5. ASSUME NEW c \in Consumer,
             \/ CheckControl(c) \/ MarkPaused(c) \/ MarkStopped(c)
             \/ Crash(c) \/ LoseChannel(c)
      PROVE  QueueStep
  <2>1. queue' = queue \/ queue' = Requeued(c)
    BY <1>5 DEF CheckControl, MarkPaused, MarkStopped, Nack, Crash, LoseChannel
  <2> QED BY <2>1, RequeueStep DEF QueueStep
<1>6. ASSUME NEW q \in Queue, NEW j \in Job, BrokerDrop(q, j)
      PROVE  QueueStep
  BY <1>6 DEF BrokerDrop, QueueStep
<1>7. ASSUME NEW c \in Consumer,
             \/ Ack(c) \/ MarkSending(c) \/ ProviderSend(c) \/ RecordStatus(c)
             \/ RecordAttempt(c) \/ CountRetry(c) \/ MarkDead(c)
      PROVE  QueueStep
  BY <1>7 DEF Ack, MarkSending, ProviderSend, RecordStatus, RecordAttempt,
              CountRetry, MarkDead, QueueStep
<1>8. ASSUME NEW n \in Notification, SendBegin(n) \/ SendCommit(n) \/ SendAbort(n)
      PROVE  QueueStep
  BY <1>8 DEF SendBegin, SendCommit, SendAbort, QueueStep
<1>9. ASSUME NEW l \in ManagedLane, NEW s \in ControlStatus, UpdateQueueControl(l, s)
      PROVE  QueueStep
  BY <1>9 DEF UpdateQueueControl, QueueStep
<1>10. CASE UNCHANGED vars
  BY <1>10 DEF vars, QueueStep
<1> QED BY <1>1, <1>2, <1>3, <1>4, <1>5, <1>6, <1>7, <1>8, <1>9, <1>10 DEF Next, Send, Work

\* A step keeps the queues well formed and only a new job raises a count.
LEMMA QueueStepFacts ==
  ASSUME TypeOK, QueueStep
  PROVE  /\ queue' \in [Queue -> [Job -> Nat]]
         /\ \A q \in Queue, j \in Job : queue'[q][j] > 0 =>
              \/ queue[q][j] > 0
              \/ AttemptFits(q, j.attempt) /\ 2 * sends[j.delivery] >= j.attempt
<1>0. \A q \in Queue, j \in Job : queue[q][j] \in Nat BY DEF TypeOK
<1>1. CASE queue' = queue BY <1>1 DEF TypeOK
<1>2. ASSUME NEW q \in Queue, NEW j \in Job, queue' = Added(q, j),
             AttemptFits(q, j.attempt), 2 * sends[j.delivery] >= j.attempt
      PROVE  /\ queue' \in [Queue -> [Job -> Nat]]
             /\ \A p \in Queue, i \in Job : queue'[p][i] > 0 =>
                  \/ queue[p][i] > 0
                  \/ AttemptFits(p, i.attempt) /\ 2 * sends[i.delivery] >= i.attempt
  <2>1. /\ queue' \in [Queue -> [Job -> Nat]]
        /\ \A p \in Queue, i \in Job :
             queue'[p][i] = IF p = q /\ i = j THEN queue[p][i] + 1 ELSE queue[p][i]
    BY <1>2, AddedFacts
  <2> QED BY <1>0, <1>2, <2>1
<1>3. ASSUME NEW q \in Queue, NEW j \in Job, queue[q][j] > 0, queue' = Removed(q, j)
      PROVE  /\ queue' \in [Queue -> [Job -> Nat]]
             /\ \A p \in Queue, i \in Job : queue'[p][i] > 0 => queue[p][i] > 0
  <2>1. /\ queue' \in [Queue -> [Job -> Nat]]
        /\ \A p \in Queue, i \in Job :
             queue'[p][i] = IF p = q /\ i = j THEN queue[p][i] - 1 ELSE queue[p][i]
    BY <1>3, RemovedFacts
  <2> QED BY <1>0, <2>1
<1> QED BY <1>1, <1>2, <1>3 DEF QueueStep

\* Every step keeps the types.
LEMMA NextTypeOK ==
  ASSUME IndInv, [Next]_vars
  PROVE  TypeOK'
<1>0. TypeOK /\ queue' \in [Queue -> [Job -> Nat]]
  BY NextQueueStep, QueueStepFacts DEF IndInv
<1> USE <1>0, PipelineAssumption
<1>1. ASSUME NEW n \in Notification, Send(n) \/ SendAbort(n)
      PROVE  TypeOK'
  <2> USE DEF TypeOK, database, sender, workers, history
  <2>1. CASE SendBegin(n) BY <2>1 DEF SendBegin
  <2>2. ASSUME NEW ch \in Channel, SendChannel(n, ch) PROVE TypeOK'
    BY <2>2 DEF SendChannel
  <2>3. CASE SendCommit(n) BY <2>3 DEF SendCommit, Statuses
  <2>4. CASE SendAbort(n) BY <2>4, FaultType DEF SendAbort
  <2> QED BY <1>1, <2>1, <2>2, <2>3, <2>4 DEF Send
<1>2. ASSUME NEW c \in Consumer, NEW j \in Job, Receive(c, j)
      PROVE  TypeOK'
  BY <1>2 DEF TypeOK, Receive, Goto, FirstStep, Steps, database, sender, history
<1>3. ASSUME NEW c \in Consumer, Work(c)
      PROVE  TypeOK'
  <2>0. pc[c] \notin {"idle", "spin"} =>
          DeliveryOf(c) \in Delivery /\ held[c].attempt \in Nat
    BY HeldFacts DEF IndInv, ConsumersOK, ConsumerOK, DeliveryOf
  <2> USE <2>0, UpdateStatusType, FaultType, GotoType, NextMessageType
          DEF TypeOK, Steps, Statuses, database, sender, history
  <2>1. CASE Ack(c) BY <2>1 DEF Ack
  <2>2. CASE CheckControl(c)
    <3>1. LaneOf(DeliveryOf(c)) \in Lane
      BY <2>2 DEF CheckControl, LaneOf, Lane, Delivery
    <3>2. control[LaneOf(DeliveryOf(c))] \in ControlStatus BY <3>1
    <3> QED BY <2>2, <3>2 DEF CheckControl, Nack, ControlStatus
  <2>3. CASE MarkPaused(c) BY <2>3 DEF MarkPaused, Nack, GiveUp
  <2>4. CASE MarkStopped(c) BY <2>4 DEF MarkStopped, Nack
  <2>5. CASE MarkSending(c) BY <2>5 DEF MarkSending
  <2>6. CASE ProviderSend(c)
    <3>1. sends' \in [Delivery -> Nat] BY <2>6 DEF ProviderSend
    <3>2. accepted' \in [Delivery -> Nat] BY <2>6 DEF ProviderSend
    <3> QED BY <2>6, <3>1, <3>2 DEF ProviderSend
  <2>7. CASE RecordStatus(c)
    <3>1. row' \in [Delivery -> Statuses] /\ missed' \in SUBSET Delivery
      BY <2>7 DEF RecordStatus
    <3>2. retryCount' \in [Delivery -> Nat] BY <2>7 DEF RecordStatus
    <3> QED BY <2>7, <3>1, <3>2 DEF RecordStatus
  <2>8. CASE RecordAttempt(c)
    <3>1. attempts' \in [Delivery -> Nat] BY <2>8 DEF RecordAttempt
    <3>2. missed' \in SUBSET Delivery BY <2>8 DEF RecordAttempt
    <3>3. faults' \in 0..MaxFaults BY <2>8 DEF RecordAttempt
    <3> QED BY <2>8, <3>1, <3>2, <3>3 DEF RecordAttempt
  <2>9. CASE PublishRetry(c) BY <2>9 DEF PublishRetry, GiveUp
  <2>10. CASE RouteDead(c) BY <2>10 DEF RouteDead
  <2>11. CASE RouteAgain(c) BY <2>11 DEF RouteAgain
  <2>12. CASE CountRetry(c)
    <3>1. retryCount' \in [Delivery -> Nat] BY <2>12 DEF CountRetry
    <3> QED BY <2>12, <3>1 DEF CountRetry
  <2>13. CASE MarkDead(c) BY <2>13 DEF MarkDead
  <2> QED BY <1>3, <2>1, <2>2, <2>3, <2>4, <2>5, <2>6, <2>7, <2>8, <2>9, <2>10,
             <2>11, <2>12, <2>13 DEF Work
<1>4. ASSUME NEW l \in ManagedLane, NEW s \in ControlStatus, UpdateQueueControl(l, s)
      PROVE  TypeOK'
  BY <1>4 DEF TypeOK, UpdateQueueControl, sender, workers, history
<1>5. ASSUME NEW c \in Consumer, Crash(c) \/ LoseChannel(c)
      PROVE  TypeOK'
  <2> USE DEF TypeOK, database, sender, history
  <2>1. held[c] # NoJob => DeliveryOf(c) \in Delivery BY HeldFacts DEF DeliveryOf
  <2>2. faults' \in 0..MaxFaults BY <1>5, FaultType DEF Crash, LoseChannel
  <2>3. pc' \in [Consumer -> Steps] BY <1>5 DEF Crash, LoseChannel, Steps
  <2>4. CASE Crash(c) BY <2>4, <2>1, <2>2, <2>3 DEF Crash, GiveUp
  <2>5. CASE LoseChannel(c) BY <2>5, <2>2, <2>3 DEF LoseChannel
  <2> QED BY <1>5, <2>4, <2>5
<1>6. ASSUME NEW q \in Queue, NEW j \in Job, BrokerDrop(q, j)
      PROVE  TypeOK'
  BY <1>6 DEF TypeOK, BrokerDrop, Fault, Job, database, sender, workers
<1>7. CASE UNCHANGED vars
  BY <1>7 DEF TypeOK, vars, database, sender, workers, history
<1> QED BY <1>1, <1>2, <1>3, <1>4, <1>5, <1>6, <1>7 DEF Next

\* Every step keeps each consumer at a step of its loop, holding a message
\* exactly while it works on one.
LEMMA NextConsumersOK ==
  ASSUME IndInv, [Next]_vars
  PROVE  ConsumersOK'
<1>0. TypeOK /\ ConsumersOK /\ \A c \in Consumer : held[c] \in Job \cup {NoJob}
  BY DEF IndInv, TypeOK
<1> USE <1>0, PipelineAssumption DEF ConsumersOK, ConsumerOK
<1>1. ASSUME NEW c \in Consumer, NEW j \in Job, Receive(c, j)
      PROVE  ConsumersOK'
  BY <1>1 DEF TypeOK, Receive, Goto, FirstStep, LoopSteps, RetryQueue, DeadQueue
<1>2. ASSUME NEW c \in Consumer, Work(c)
      PROVE  ConsumersOK'
  <2> USE DEF TypeOK, Goto, LoopSteps
  <2>1. CASE Ack(c) BY <2>1 DEF Ack, NextMessage
  <2>2. CASE CheckControl(c)
    <3>1. held[c] # NoJob BY <2>2 DEF CheckControl
    <3>2. LaneOf(DeliveryOf(c)) \in Lane
      BY <3>1, HeldFacts DEF LaneOf, Lane, Delivery, DeliveryOf
    <3>3. control[LaneOf(DeliveryOf(c))] \in ControlStatus BY <3>2
    <3>4. QueueOf[c] \notin {RetryQueue, DeadQueue} BY <2>2 DEF CheckControl
    <3>5. CASE Nack(c) BY <3>5 DEF Nack, NextMessage
    <3>6. CASE ~Nack(c)
      <4>1. PICK step \in {"start", "paused", "stopped"} :
              pc' = [pc EXCEPT ![c] = step] /\ UNCHANGED <<held, open>>
        BY <2>2, <3>3, <3>6 DEF CheckControl, ControlStatus
      <4> QED BY <3>1, <3>4, <4>1
    <3> QED BY <3>5, <3>6
  <2>3. CASE MarkPaused(c) BY <2>3 DEF MarkPaused, Nack, NextMessage
  <2>4. CASE MarkStopped(c) BY <2>4 DEF MarkStopped, Nack, NextMessage
  <2>5. CASE MarkSending(c) BY <2>5 DEF MarkSending
  <2>6. CASE ProviderSend(c) BY <2>6 DEF ProviderSend
  <2>7. CASE RecordStatus(c) BY <2>7 DEF RecordStatus
  <2>8. CASE RecordAttempt(c) BY <2>8 DEF RecordAttempt
  <2>9. CASE PublishRetry(c) BY <2>9 DEF PublishRetry
  <2>10. CASE RouteDead(c) BY <2>10 DEF RouteDead
  <2>11. CASE RouteAgain(c) BY <2>11 DEF RouteAgain
  <2>12. CASE CountRetry(c) BY <2>12 DEF CountRetry
  <2>13. CASE MarkDead(c) BY <2>13 DEF MarkDead
  <2> QED BY <1>2, <2>1, <2>2, <2>3, <2>4, <2>5, <2>6, <2>7, <2>8, <2>9, <2>10,
             <2>11, <2>12, <2>13 DEF Work
<1>3. ASSUME NEW c \in Consumer, Crash(c) \/ LoseChannel(c)
      PROVE  ConsumersOK'
  BY <1>3 DEF TypeOK, Crash, LoseChannel, LoopSteps
<1>4. CASE UNCHANGED workers
  BY <1>4 DEF workers
<1>5. ASSUME NEW n \in Notification, Send(n) \/ SendAbort(n)
      PROVE  UNCHANGED workers
  BY <1>5 DEF Send, SendBegin, SendChannel, SendCommit, SendAbort
<1>6. ASSUME NEW l \in ManagedLane, NEW s \in ControlStatus, UpdateQueueControl(l, s)
      PROVE  UNCHANGED workers
  BY <1>6 DEF UpdateQueueControl
<1>7. ASSUME NEW q \in Queue, NEW j \in Job, BrokerDrop(q, j)
      PROVE  UNCHANGED workers
  BY <1>7 DEF BrokerDrop
<1>8. UNCHANGED vars => UNCHANGED workers BY DEF vars
<1> QED BY <1>1, <1>2, <1>3, <1>4, <1>5, <1>6, <1>7, <1>8 DEF Next

\* Provider calls are only ever added.
LEMMA HistoryGrows ==
  ASSUME IndInv, [Next]_vars
  PROVE  \A d \in Delivery : sends'[d] >= sends[d] /\ accepted'[d] >= accepted[d]
<1>0. sends \in [Delivery -> Nat] /\ accepted \in [Delivery -> Nat]
  BY DEF IndInv, TypeOK
<1>1. ASSUME NEW c \in Consumer, ProviderSend(c)
      PROVE  \A d \in Delivery : sends'[d] >= sends[d] /\ accepted'[d] >= accepted[d]
  BY <1>0, <1>1 DEF ProviderSend
<1>2. CASE UNCHANGED <<sends, accepted>> BY <1>0, <1>2
<1>3. ASSUME NEW c \in Consumer, Work(c), ~ProviderSend(c)
      PROVE  UNCHANGED <<sends, accepted>>
  BY <1>3 DEF Work, Ack, CheckControl, MarkPaused, MarkStopped, MarkSending,
      RecordStatus, RecordAttempt, PublishRetry, RouteDead, RouteAgain, CountRetry,
      MarkDead, history
<1>4. ASSUME NEW c \in Consumer, Crash(c) \/ LoseChannel(c) \/ \E j \in Job : Receive(c, j)
      PROVE  UNCHANGED <<sends, accepted>>
  BY <1>4 DEF Crash, LoseChannel, Receive, history
<1>5. ASSUME NEW n \in Notification, Send(n) \/ SendAbort(n)
      PROVE  UNCHANGED <<sends, accepted>>
  BY <1>5 DEF Send, SendBegin, SendChannel, SendCommit, SendAbort, history
<1>6. ASSUME NEW l \in ManagedLane, NEW s \in ControlStatus, UpdateQueueControl(l, s)
      PROVE  UNCHANGED <<sends, accepted>>
  BY <1>6 DEF UpdateQueueControl, history
<1>7. ASSUME NEW q \in Queue, NEW j \in Job, BrokerDrop(q, j)
      PROVE  UNCHANGED <<sends, accepted>>
  BY <1>7 DEF BrokerDrop
<1>8. UNCHANGED vars => UNCHANGED <<sends, accepted>> BY DEF vars, history
<1> QED BY <1>1, <1>2, <1>3, <1>4, <1>5, <1>6, <1>7, <1>8 DEF Next

\* A consumer gets a message only from its queue, and keeps it unchanged.
LEMMA HeldStep ==
  ASSUME IndInv, [Next]_vars, NEW c \in Consumer
  PROVE  \/ held'[c] = held[c]
         \/ held'[c] = NoJob
         \/ /\ held'[c] \in Job /\ queue[QueueOf[c]][held'[c]] > 0
            /\ pc'[c] \in {"check", "route", "bury"}
<1>0. held \in [Consumer -> Job \cup {NoJob}] /\ pc \in [Consumer -> Steps]
  BY DEF IndInv, TypeOK
<1>1. ASSUME NEW b \in Consumer, NEW j \in Job, Receive(b, j)
      PROVE  \/ held'[c] = held[c]
             \/ /\ held'[c] \in Job /\ queue[QueueOf[c]][held'[c]] > 0
                /\ pc'[c] \in {"check", "route", "bury"}
  BY <1>0, <1>1 DEF Receive, Goto, FirstStep
<1>2. ASSUME NEW b \in Consumer, Work(b) \/ Crash(b) \/ LoseChannel(b)
      PROVE  held'[c] = held[c] \/ held'[c] = NoJob
  BY <1>0, <1>2 DEF Work, Ack, CheckControl, MarkPaused, MarkStopped, MarkSending,
      ProviderSend, RecordStatus, RecordAttempt, PublishRetry, RouteDead, RouteAgain,
      CountRetry, MarkDead, Nack, NextMessage, Crash, LoseChannel
<1>3. ASSUME NEW n \in Notification, Send(n) \/ SendAbort(n)
      PROVE  held' = held
  BY <1>3 DEF Send, SendBegin, SendChannel, SendCommit, SendAbort, workers
<1>4. ASSUME NEW l \in ManagedLane, NEW s \in ControlStatus, UpdateQueueControl(l, s)
      PROVE  held' = held
  BY <1>4 DEF UpdateQueueControl, workers
<1>5. ASSUME NEW q \in Queue, NEW j \in Job, BrokerDrop(q, j)
      PROVE  held' = held
  BY <1>5 DEF BrokerDrop, workers
<1>6. UNCHANGED vars => held' = held BY DEF vars, workers
<1> QED BY <1>1, <1>2, <1>3, <1>4, <1>5, <1>6 DEF Next

\* Every step keeps the attempt numbers in their place.
LEMMA NextAttemptDiscipline ==
  ASSUME IndInv, [Next]_vars
  PROVE  AttemptDiscipline'
<1>0. AttemptDiscipline /\ QueueOf \in [Consumer -> Queue]
  BY PipelineAssumption DEF IndInv
<1>1. ASSUME NEW q \in Queue, NEW j \in Job, queue'[q][j] > 0
      PROVE  AttemptFits(q, j.attempt)
  BY <1>0, <1>1, NextQueueStep, QueueStepFacts DEF AttemptDiscipline, IndInv
<1>2. ASSUME NEW c \in Consumer, held'[c] # NoJob
      PROVE  AttemptFits(QueueOf[c], held'[c].attempt)
  BY <1>0, <1>2, HeldStep DEF AttemptDiscipline
<1> QED BY <1>1, <1>2 DEF AttemptDiscipline, AttemptFits

\* A worker is past the provider call only by having made it for what it holds.
LEMMA CalledStep ==
  ASSUME IndInv, [Next]_vars, NEW c \in Consumer,
         pc'[c] \in {"record", "attempt", "retry"}
  PROVE  /\ held'[c] = held[c]
         /\ ProviderSend(c) \/ pc[c] \in {"record", "attempt", "retry"}
<1>0. held \in [Consumer -> Job \cup {NoJob}] /\ pc \in [Consumer -> Steps]
  BY DEF IndInv, TypeOK
<1>1. ASSUME NEW b \in Consumer, NEW j \in Job, Receive(b, j)
      PROVE  held'[c] = held[c] /\ pc'[c] = pc[c]
  BY <1>0, <1>1 DEF Receive, Goto, FirstStep
<1>2. ASSUME NEW b \in Consumer, Work(b) \/ Crash(b) \/ LoseChannel(b), b # c
      PROVE  held'[c] = held[c] /\ pc'[c] = pc[c]
  BY <1>0, <1>2 DEF Work, Ack, CheckControl, MarkPaused, MarkStopped, MarkSending,
      ProviderSend, RecordStatus, RecordAttempt, PublishRetry, RouteDead, RouteAgain,
      CountRetry, MarkDead, Nack, NextMessage, Goto, Crash, LoseChannel
<1>3. CASE Work(c) \/ Crash(c) \/ LoseChannel(c)
  <2>1. CASE CheckControl(c)
    <3>1. held[c] # NoJob BY <2>1 DEF CheckControl, IndInv, ConsumersOK, ConsumerOK
    <3>2. LaneOf(DeliveryOf(c)) \in Lane
      BY <3>1, HeldFacts, PipelineAssumption DEF LaneOf, Lane, Delivery, DeliveryOf
    <3>3. control[LaneOf(DeliveryOf(c))] \in ControlStatus BY <3>2 DEF IndInv, TypeOK
    <3> QED BY <1>0, <2>1, <3>3
            DEF CheckControl, Nack, NextMessage, Goto, ControlStatus
  <2>2. CASE ~CheckControl(c)
    BY <1>0, <1>3, <2>2 DEF Work, Ack, MarkPaused, MarkStopped, MarkSending,
        ProviderSend, RecordStatus, RecordAttempt, PublishRetry, RouteDead, RouteAgain,
        CountRetry, MarkDead, Nack, NextMessage, Goto, Crash, LoseChannel
  <2> QED BY <2>1, <2>2
<1>4. ASSUME NEW n \in Notification, Send(n) \/ SendAbort(n)
      PROVE  UNCHANGED <<held, pc>>
  BY <1>4 DEF Send, SendBegin, SendChannel, SendCommit, SendAbort, workers
<1>5. ASSUME NEW l \in ManagedLane, NEW s \in ControlStatus, UpdateQueueControl(l, s)
      PROVE  UNCHANGED <<held, pc>>
  BY <1>5 DEF UpdateQueueControl, workers
<1>6. ASSUME NEW q \in Queue, NEW j \in Job, BrokerDrop(q, j)
      PROVE  UNCHANGED <<held, pc>>
  BY <1>6 DEF BrokerDrop, workers
<1>7. UNCHANGED vars => UNCHANGED <<held, pc>> BY DEF vars, workers
<1> QED BY <1>1, <1>2, <1>3, <1>4, <1>5, <1>6, <1>7 DEF Next

\* Every step keeps the provider calls ahead of the attempt numbers.
LEMMA NextSendsCover ==
  ASSUME IndInv, [Next]_vars
  PROVE  SendsCover'
<1>0. /\ SendsCover /\ TypeOK /\ TypeOK' /\ QueueOf \in [Consumer -> Queue]
      /\ \A d \in Delivery : sends[d] \in Nat /\ sends'[d] \in Nat
      /\ \A j \in Job : j.delivery \in Delivery /\ j.attempt \in Nat
  BY PipelineAssumption, NextTypeOK DEF IndInv, TypeOK, Job, AttemptCap
<1>1. ASSUME NEW q \in Queue, NEW j \in Job, queue'[q][j] > 0
      PROVE  2 * sends'[j.delivery] >= j.attempt
  <2>1. 2 * sends[j.delivery] >= j.attempt
    BY <1>0, <1>1, NextQueueStep, QueueStepFacts DEF SendsCover
  <2>2. sends'[j.delivery] >= sends[j.delivery] BY <1>0, HistoryGrows
  <2> QED BY <1>0, <2>1, <2>2
<1>2. ASSUME NEW c \in Consumer, held'[c] # NoJob
      PROVE  2 * sends'[held'[c].delivery] >= held'[c].attempt + Called(c)'
  <2> DEFINE d == held'[c].delivery
             a == held'[c].attempt
  <2>0. held'[c] \in Job /\ d \in Delivery /\ a \in Nat
    BY <1>0, <1>2 DEF TypeOK
  <2>1. sends[d] \in Nat /\ sends'[d] \in Nat /\ sends'[d] >= sends[d]
    BY <1>0, <2>0, HistoryGrows
  <2>2. 2 * sends[d] >= a
    <3>1. CASE held'[c] = held[c]
      BY <1>2, <2>0, <2>1, <3>1, HeldFacts DEF Called
    <3>2. CASE queue[QueueOf[c]][held'[c]] > 0
      BY <1>0, <2>0, <3>2 DEF SendsCover
    <3> QED BY <1>2, <3>1, <3>2, HeldStep
  <2>3. CASE pc'[c] \in {"record", "attempt", "retry"}
    <3>1. held'[c] = held[c] BY <2>3, CalledStep
    <3>2. CASE ProviderSend(c)
      <4>1. sends'[d] = sends[d] + 1
        BY <1>0, <2>0, <3>1, <3>2 DEF ProviderSend, DeliveryOf, TypeOK
      <4> QED BY <2>0, <2>1, <2>2, <2>3, <4>1 DEF Called
    <3>3. CASE pc[c] \in {"record", "attempt", "retry"}
      <4>1. 2 * sends[d] >= a + 2 BY <1>2, <3>1, <3>3, HeldFacts DEF Called
      <4> QED BY <2>0, <2>1, <2>3, <4>1 DEF Called
    <3> QED BY <2>3, <3>2, <3>3, CalledStep
  <2>4. CASE pc'[c] \notin {"record", "attempt", "retry"}
    BY <2>0, <2>1, <2>2, <2>4 DEF Called
  <2> QED BY <2>3, <2>4
<1> QED BY <1>1, <1>2 DEF SendsCover

\* Every step keeps the recorded result of a provider call truthful.
LEMMA NextResultOK ==
  ASSUME IndInv, [Next]_vars
  PROVE  ResultOK'
<1>0. /\ ResultOK /\ TypeOK
      /\ \A c \in Consumer : held[c] # NoJob => held[c].delivery \in Delivery
      /\ \A c \in Consumer : pc[c] \in {"idle", "spin"} <=> held[c] = NoJob
      /\ \A d \in Delivery : accepted[d] \in Nat /\ accepted'[d] \in Nat
      /\ \A d \in Delivery : accepted'[d] >= accepted[d]
  BY NextTypeOK, HistoryGrows, HeldFacts DEF IndInv, ConsumersOK, ConsumerOK, TypeOK
<1> USE <1>0, PipelineAssumption DEF ResultOK
<1>1. ASSUME NEW c \in Consumer, NEW j \in Job, Receive(c, j)
      PROVE  ResultOK'
  BY <1>1 DEF TypeOK, Receive, Goto, FirstStep, history
<1>2. ASSUME NEW c \in Consumer, ProviderSend(c)
      PROVE  ResultOK'
  <2>1. accepted'[held[c].delivery] > 0 \/ result'[c] = "failed"
    BY <1>2 DEF TypeOK, ProviderSend, DeliveryOf
  <2> QED BY <1>2, <2>1 DEF TypeOK, ProviderSend, Goto
<1>3. ASSUME NEW c \in Consumer, Work(c), ~ProviderSend(c)
      PROVE  ResultOK'
  <2> USE DEF TypeOK, Goto, Nack, NextMessage, history
  <2>1. CASE Ack(c) BY <2>1 DEF Ack
  <2>2. CASE CheckControl(c)
    <3>1. LaneOf(DeliveryOf(c)) \in Lane
      BY <2>2 DEF CheckControl, LaneOf, Lane, Delivery, DeliveryOf
    <3>2. control[LaneOf(DeliveryOf(c))] \in ControlStatus BY <3>1
    <3> QED BY <2>2, <3>2 DEF CheckControl, ControlStatus
  <2>3. CASE MarkPaused(c) BY <2>3 DEF MarkPaused
  <2>4. CASE MarkStopped(c) BY <2>4 DEF MarkStopped
  <2>5. CASE MarkSending(c) BY <2>5 DEF MarkSending
  <2>6. CASE RecordStatus(c) BY <2>6 DEF RecordStatus
  <2>7. CASE RecordAttempt(c) BY <2>7 DEF RecordAttempt
  <2>8. CASE PublishRetry(c) BY <2>8 DEF PublishRetry
  <2>9. CASE RouteDead(c) BY <2>9 DEF RouteDead
  <2>10. CASE RouteAgain(c) BY <2>10 DEF RouteAgain
  <2>11. CASE CountRetry(c) BY <2>11 DEF CountRetry
  <2>12. CASE MarkDead(c) BY <2>12 DEF MarkDead
  <2> QED BY <1>3, <2>1, <2>2, <2>3, <2>4, <2>5, <2>6, <2>7, <2>8, <2>9, <2>10,
             <2>11, <2>12 DEF Work
<1>4. ASSUME NEW c \in Consumer, Crash(c) \/ LoseChannel(c)
      PROVE  ResultOK'
  BY <1>4 DEF TypeOK, Crash, LoseChannel, history
<1>5. CASE UNCHANGED <<workers, accepted>> BY <1>5 DEF workers
<1>6. ASSUME NEW n \in Notification, Send(n) \/ SendAbort(n)
      PROVE  UNCHANGED <<workers, accepted>>
  BY <1>6 DEF Send, SendBegin, SendChannel, SendCommit, SendAbort, history
<1>7. ASSUME NEW l \in ManagedLane, NEW s \in ControlStatus, UpdateQueueControl(l, s)
      PROVE  UNCHANGED <<workers, accepted>>
  BY <1>7 DEF UpdateQueueControl, history
<1>8. ASSUME NEW q \in Queue, NEW j \in Job, BrokerDrop(q, j)
      PROVE  UNCHANGED <<workers, accepted>>
  BY <1>8 DEF BrokerDrop
<1>9. UNCHANGED vars => UNCHANGED <<workers, accepted>> BY DEF vars, history
<1> QED BY <1>1, <1>2, <1>3, <1>4, <1>5, <1>6, <1>7, <1>8, <1>9 DEF Next

\* What an UPDATE of a consumer writes, and when it may.
RowStep ==
  \/ row' = row
  \/ \E n \in Notification :
       /\ api[n] = "open" /\ api'[n] = "committed"
       /\ row' = [d \in Delivery |->
                    IF d[1] = n /\ d[2] \in channels[n] THEN "queued" ELSE row[d]]
  \/ \E d \in Delivery, s \in Statuses \ {"none"} :
       /\ row[d] # "none" /\ row' = [row EXCEPT ![d] = s]
       /\ s = "sent" => accepted[d] > 0
       /\ s = "dead" => 2 * sends[d] >= MaxDeliveryTries + 1

\* Every step changes the rows in one of these ways.
LEMMA NextRowStep ==
  ASSUME IndInv, [Next]_vars
  PROVE  RowStep
<1>0. /\ TypeOK /\ ResultOK
      /\ \A c \in Consumer : pc[c] \notin {"idle", "spin"} =>
           held[c] # NoJob /\ DeliveryOf(c) \in Delivery
  BY HeldFacts DEF IndInv, ConsumersOK, ConsumerOK, DeliveryOf
<1>1. ASSUME NEW d \in Delivery, NEW s \in Statuses \ {"none"}, UpdateStatus(d, s),
             s = "sent" => accepted[d] > 0,
             s = "dead" => 2 * sends[d] >= MaxDeliveryTries + 1
      PROVE  RowStep
  BY <1>1 DEF UpdateStatus, Stored, RowStep
<1>2. ASSUME NEW c \in Consumer, MarkPaused(c) \/ MarkStopped(c) \/ MarkSending(c)
      PROVE  RowStep
  <2>1. DeliveryOf(c) \in Delivery
    BY <1>0, <1>2 DEF MarkPaused, MarkStopped, MarkSending
  <2>2. row' = row \/ \E s \in {"queued", "blocked", "sending"} : UpdateStatus(DeliveryOf(c), s)
    BY <1>2 DEF MarkPaused, MarkStopped, MarkSending
  <2>3. CASE row' = row BY <2>3 DEF RowStep
  <2> QED BY <1>1, <2>1, <2>2, <2>3 DEF Statuses
<1>3. ASSUME NEW c \in Consumer, RecordStatus(c)
      PROVE  RowStep
  <2>1. /\ DeliveryOf(c) \in Delivery
        /\ result[c] \in {"sent", "failed"}
        /\ result[c] = "sent" => accepted[DeliveryOf(c)] > 0
    BY <1>0, <1>3 DEF RecordStatus, ResultOK, TypeOK, DeliveryOf
  <2>2. row' = row \/ UpdateStatus(DeliveryOf(c), result[c])
    BY <1>3 DEF RecordStatus
  <2>3. CASE row' = row BY <2>3 DEF RowStep
  <2> QED BY <1>1, <2>1, <2>2, <2>3 DEF Statuses
<1>4. ASSUME NEW c \in Consumer, MarkDead(c)
      PROVE  RowStep
  <2>1. DeliveryOf(c) \in Delivery /\ held[c] # NoJob /\ QueueOf[c] = DeadQueue
    BY <1>0, <1>4 DEF MarkDead, IndInv, ConsumersOK, ConsumerOK, LoopSteps
  <2>2. /\ held[c].attempt \in Nat /\ held[c].attempt % 2 = 1
        /\ held[c].attempt >= MaxDeliveryTries
        /\ 2 * sends[DeliveryOf(c)] >= held[c].attempt
        /\ sends[DeliveryOf(c)] \in Nat /\ MaxDeliveryTries \in Nat
    <3>1. AttemptFits(DeadQueue, held[c].attempt) /\ held[c].attempt \in 0..AttemptCap
          /\ 2 * sends[DeliveryOf(c)] >= held[c].attempt + Called(c)
      BY <2>1, HeldFacts DEF DeliveryOf
    <3>2. sends[DeliveryOf(c)] \in Nat /\ MaxDeliveryTries \in Nat /\ held[c].attempt \in Nat
      BY <1>0, <2>1, <3>1, PipelineAssumption DEF TypeOK
    <3>3. 2 * sends[DeliveryOf(c)] >= held[c].attempt BY <3>1, <3>2 DEF Called
    <3> QED BY <3>1, <3>2, <3>3 DEF AttemptFits, DeadQueue, RetryQueue
  <2>3. 2 * sends[DeliveryOf(c)] >= held[c].attempt + 1 BY <2>2, Parity
  <2>4. 2 * sends[DeliveryOf(c)] >= MaxDeliveryTries + 1 BY <2>2, <2>3
  <2>5. row' = row \/ UpdateStatus(DeliveryOf(c), "dead") BY <1>4 DEF MarkDead
  <2>6. CASE row' = row BY <2>6 DEF RowStep
  <2> QED BY <1>1, <2>1, <2>4, <2>5, <2>6 DEF Statuses
<1>5. ASSUME NEW n \in Notification, Send(n) \/ SendAbort(n)
      PROVE  RowStep
  BY <1>0, <1>5 DEF Send, SendBegin, SendChannel, SendCommit, SendAbort, database,
                    RowStep, TypeOK
<1>6. CASE row' = row BY <1>6 DEF RowStep
<1>7. ASSUME NEW c \in Consumer,
             \/ Ack(c) \/ CheckControl(c) \/ ProviderSend(c) \/ RecordAttempt(c)
             \/ PublishRetry(c) \/ RouteDead(c) \/ RouteAgain(c) \/ CountRetry(c)
             \/ Crash(c) \/ LoseChannel(c) \/ \E j \in Job : Receive(c, j)
      PROVE  row' = row
  BY <1>7 DEF Ack, CheckControl, ProviderSend, RecordAttempt, PublishRetry, RouteDead,
      RouteAgain, CountRetry, Crash, LoseChannel, Receive, database
<1>8. ASSUME NEW l \in ManagedLane, NEW s \in ControlStatus, UpdateQueueControl(l, s)
      PROVE  row' = row
  BY <1>8 DEF UpdateQueueControl
<1>9. ASSUME NEW q \in Queue, NEW j \in Job, BrokerDrop(q, j)
      PROVE  row' = row
  BY <1>9 DEF BrokerDrop, database
<1>10. UNCHANGED vars => row' = row BY DEF vars, database
<1> QED BY <1>2, <1>3, <1>4, <1>5, <1>6, <1>7, <1>8, <1>9, <1>10 DEF Next, Work

\* Every step keeps what the rows claim about the provider calls.
LEMMA NextRowsOK ==
  ASSUME IndInv, [Next]_vars
  PROVE  RowsOK'
<1>0. /\ RowsOK /\ RowStep /\ MaxDeliveryTries \in Nat
      /\ row \in [Delivery -> Statuses]
      /\ \A d \in Delivery : sends[d] \in Nat /\ accepted[d] \in Nat
      /\ \A d \in Delivery : sends'[d] \in Nat /\ accepted'[d] \in Nat
      /\ \A d \in Delivery : sends'[d] >= sends[d] /\ accepted'[d] >= accepted[d]
  BY PipelineAssumption, NextRowStep, NextTypeOK, HistoryGrows DEF IndInv, TypeOK
<1> SUFFICES ASSUME NEW d \in Delivery
             PROVE  /\ row'[d] = "sent" => accepted'[d] > 0
                    /\ row'[d] = "dead" => 2 * sends'[d] >= MaxDeliveryTries + 1
  BY DEF RowsOK
<1>1. /\ row'[d] = "sent" => accepted[d] > 0
      /\ row'[d] = "dead" => 2 * sends[d] >= MaxDeliveryTries + 1
  BY <1>0 DEF RowsOK, RowStep
<1> QED BY <1>0, <1>1

\* A committed call stays committed.
LEMMA ApiStep ==
  ASSUME IndInv, [Next]_vars, NEW n \in Notification, api[n] = "committed"
  PROVE  api'[n] = "committed"
<1>0. api \in [Notification -> {"new", "open", "committed", "aborted"}]
  BY DEF IndInv, TypeOK
<1>1. ASSUME NEW m \in Notification, Send(m) \/ SendAbort(m)
      PROVE  api'[n] = "committed"
  BY <1>0, <1>1 DEF Send, SendBegin, SendChannel, SendCommit, SendAbort
<1>2. ASSUME NEW c \in Consumer, Work(c)
      PROVE  api' = api
  BY <1>2 DEF Work, Ack, CheckControl, MarkPaused, MarkStopped, MarkSending,
      ProviderSend, RecordStatus, RecordAttempt, PublishRetry, RouteDead, RouteAgain,
      CountRetry, MarkDead, sender
<1>3. ASSUME NEW c \in Consumer, Crash(c) \/ LoseChannel(c) \/ \E j \in Job : Receive(c, j)
      PROVE  api' = api
  BY <1>3 DEF Crash, LoseChannel, Receive, sender
<1>4. ASSUME NEW l \in ManagedLane, NEW s \in ControlStatus, UpdateQueueControl(l, s)
      PROVE  api' = api
  BY <1>4 DEF UpdateQueueControl, sender
<1>5. ASSUME NEW q \in Queue, NEW j \in Job, BrokerDrop(q, j)
      PROVE  api' = api
  BY <1>5 DEF BrokerDrop, sender
<1>6. UNCHANGED vars => api' = api BY DEF vars, sender
<1> QED BY <1>1, <1>2, <1>3, <1>4, <1>5, <1>6 DEF Next

\* Every step keeps the rows of an uncommitted call invisible.
LEMMA NextTransactionOK ==
  ASSUME IndInv, [Next]_vars
  PROVE  TransactionOK'
<1>0. TransactionOK /\ RowStep /\ row \in [Delivery -> Statuses]
  BY NextRowStep DEF IndInv, TypeOK
<1> SUFFICES ASSUME NEW d \in Delivery, api'[d[1]] # "committed"
             PROVE  row'[d] = "none"
  BY DEF TransactionOK
<1>1. d[1] \in Notification BY DEF Delivery
<1>2. api[d[1]] # "committed" /\ row[d] = "none" BY <1>0, <1>1, ApiStep DEF TransactionOK
<1> QED BY <1>0, <1>2 DEF RowStep

\* The invariant is inductive.
LEMMA NextIndInv == IndInv /\ [Next]_vars => IndInv'
<1> SUFFICES ASSUME IndInv, [Next]_vars PROVE IndInv' OBVIOUS
<1> QED BY NextTypeOK, NextConsumersOK, NextAttemptDiscipline, NextSendsCover,
           NextResultOK, NextRowsOK, NextTransactionOK DEF IndInv

-----------------------------------------------------------------------------
\* The inductive invariant holds in every reachable state.
THEOREM Invariance == Spec => []IndInv
BY InitIndInv, NextIndInv, PTL DEF Spec

\* Type correctness: the stores, the queues and the workers' local state stay
\* well formed through crashes, redeliveries and early jobs.
THEOREM TypeCorrect == Spec => []TypeOK
<1>1. IndInv => TypeOK BY DEF IndInv
<1> QED BY <1>1, Invariance, PTL

\* The two Attempt++ (worker.go and retry/service.go) keep even attempt numbers
\* in the channel queues and odd ones in the retry and dead queues, and no
\* attempt number exceeds MaxDeliveryTries + 1.
THEOREM AttemptsInPlace == Spec => []AttemptDiscipline
<1>1. IndInv => AttemptDiscipline BY DEF IndInv
<1> QED BY <1>1, Invariance, PTL

\* RetryDeadLetters marks a delivery dead only after the provider was called
\* for it at least (MaxDeliveryTries + 1) / 2 times.
THEOREM DeadOnlyAfterRetries == Spec => []DeadAfterRetries
<1>1. IndInv => DeadAfterRetries BY DEF IndInv, RowsOK, DeadAfterRetries
<1> QED BY <1>1, Invariance, PTL

-----------------------------------------------------------------------------
(***************************************************************************)
(* Refinement: the rows and the provider calls change only as the          *)
(* lifecycle allows.                                                       *)
(***************************************************************************)

\* The counts of provider calls change only by a worker's call.
LEMMA ProviderOrNot ==
  ASSUME [Next]_vars
  PROVE  UNCHANGED <<sends, accepted>> \/ \E c \in Consumer : ProviderSend(c)
<1>1. ASSUME NEW c \in Consumer, Work(c), ~ProviderSend(c)
      PROVE  UNCHANGED <<sends, accepted>>
  BY <1>1 DEF Work, Ack, CheckControl, MarkPaused, MarkStopped, MarkSending,
      RecordStatus, RecordAttempt, PublishRetry, RouteDead, RouteAgain, CountRetry,
      MarkDead, history
<1>2. ASSUME NEW c \in Consumer, Crash(c) \/ LoseChannel(c) \/ \E j \in Job : Receive(c, j)
      PROVE  UNCHANGED <<sends, accepted>>
  BY <1>2 DEF Crash, LoseChannel, Receive, history
<1>3. ASSUME NEW n \in Notification, Send(n) \/ SendAbort(n)
      PROVE  UNCHANGED <<sends, accepted>>
  BY <1>3 DEF Send, SendBegin, SendChannel, SendCommit, SendAbort, history
<1>4. ASSUME NEW l \in ManagedLane, NEW s \in ControlStatus, UpdateQueueControl(l, s)
      PROVE  UNCHANGED <<sends, accepted>>
  BY <1>4 DEF UpdateQueueControl, history
<1>5. ASSUME NEW q \in Queue, NEW j \in Job, BrokerDrop(q, j)
      PROVE  UNCHANGED <<sends, accepted>>
  BY <1>5 DEF BrokerDrop
<1>6. UNCHANGED vars => UNCHANGED <<sends, accepted>> BY DEF vars, history
<1> QED BY <1>1, <1>2, <1>3, <1>4, <1>5, <1>6 DEF Next

\* For the lifecycle that is one call for one delivery.
LEMMA NextProviderStep ==
  ASSUME IndInv, [Next]_vars
  PROVE  \/ UNCHANGED <<sends, accepted>>
         \/ \E d \in Delivery : Lifecycle!CallProvider(d)
<1>1. ASSUME NEW c \in Consumer, ProviderSend(c)
      PROVE  \E d \in Delivery : Lifecycle!CallProvider(d)
  <2>1. DeliveryOf(c) \in Delivery
    BY <1>1, HeldFacts DEF ProviderSend, IndInv, ConsumersOK, ConsumerOK, DeliveryOf
  <2>2. Lifecycle!CallProvider(DeliveryOf(c))
    BY <1>1 DEF ProviderSend, Lifecycle!CallProvider, database
  <2> QED BY <2>1, <2>2
<1> QED BY <1>1, ProviderOrNot

\* Every step of the pipeline is a step of the lifecycle or leaves it alone.
LEMMA NextLifecycle ==
  ASSUME IndInv, [Next]_vars
  PROVE  [Lifecycle!LifecycleNext]_(Lifecycle!lifecycle)
<1>0. TransactionOK /\ RowStep /\ TypeOK BY NextRowStep DEF IndInv
<1>1. CASE \E d \in Delivery : Lifecycle!CallProvider(d)
  BY <1>1 DEF Lifecycle!LifecycleNext, Lifecycle!Delivery, Delivery
<1>2. CASE UNCHANGED <<sends, accepted>>
  <2>1. CASE row' = row BY <1>2, <2>1 DEF Lifecycle!lifecycle
  <2>2. ASSUME NEW n \in Notification, api[n] = "open",
               row' = [d \in Delivery |->
                         IF d[1] = n /\ d[2] \in channels[n] THEN "queued" ELSE row[d]]
        PROVE  Lifecycle!LifecycleNext
    <3>1. \A ch \in Channel : row[<<n, ch>>] = "none"
      BY <1>0, <2>2 DEF TransactionOK, Delivery
    <3>2. channels[n] \in SUBSET Channel BY <1>0 DEF TypeOK
    <3>3. Lifecycle!Accept(n, channels[n])
      BY <1>2, <2>2, <3>1 DEF Lifecycle!Accept, Lifecycle!Delivery, Delivery
    <3> QED BY <3>2, <3>3 DEF Lifecycle!LifecycleNext
  <2>3. ASSUME NEW d \in Delivery, NEW s \in Statuses \ {"none"}, row[d] # "none",
               row' = [row EXCEPT ![d] = s],
               s = "sent" => accepted[d] > 0,
               s = "dead" => 2 * sends[d] >= MaxDeliveryTries + 1
        PROVE  Lifecycle!LifecycleNext
    <3>1. s \in Lifecycle!Allowed(d) BY <2>3 DEF Lifecycle!Allowed, Statuses
    <3>2. Lifecycle!Report(d) BY <1>2, <2>3, <3>1 DEF Lifecycle!Report
    <3> QED BY <3>2 DEF Lifecycle!LifecycleNext, Lifecycle!Delivery, Delivery
  <2> QED BY <1>0, <2>1, <2>2, <2>3 DEF RowStep
<1> QED BY <1>1, <1>2, NextProviderStep

\* The pipeline implements the lifecycle, for every number of notifications,
\* channels, workers, replicas and faults.
THEOREM PipelineRefinesLifecycle == Spec => ImplementsLifecycle
<1>1. Init => Lifecycle!LifecycleInit
  BY DEF Init, Lifecycle!LifecycleInit, Lifecycle!Delivery, Delivery
<1>2. IndInv /\ [Next]_vars => [Lifecycle!LifecycleNext]_(Lifecycle!lifecycle)
  BY NextLifecycle
<1> QED BY <1>1, <1>2, Invariance, PTL DEF Spec, ImplementsLifecycle, Lifecycle!LifecycleSpec

-----------------------------------------------------------------------------
(***************************************************************************)
(* No delivery is stranded.  NotStranded is preserved given IndInv: a job  *)
(* that leaves a queue is in the hands of a consumer, and a consumer lets  *)
(* go of it only by finishing the delivery, by publishing or requeueing a  *)
(* job for it, or by losing it.                                            *)
(***************************************************************************)
Settled(d) == HasJob(d) \/ d \in lost \cup missed \/ row[d] \in Final

\* The provider accepted d and the INSERT of its attempt is the next statement.
Recording(d) == \E c \in Consumer : Holds(c, d) /\ pc[c] = "attempt"

\* What becomes of the work on a delivery.
Kept(d) ==
  \/ HasJob(d)
  \/ d \in lost \cup missed
  \/ row[d] \in {"blocked", "dead"}
  \/ row[d] = "sent" /\ Recording(d)

\* A published job is in a queue.
LEMMA AddedInQueue ==
  ASSUME TypeOK, NEW q \in Queue, NEW j \in Job, queue' = Added(q, j)
  PROVE  InQueue(j.delivery)'
<1>1. queue'[q][j] = queue[q][j] + 1 /\ queue[q][j] \in Nat
  BY AddedFacts DEF TypeOK
<1> QED BY <1>1 DEF InQueue

\* So is a message given back by a consumer whose channel is open.
LEMMA RequeuedInQueue ==
  ASSUME IndInv, NEW c \in Consumer, NEW d \in Delivery, c \in open, Holds(c, d),
         queue' = Requeued(c)
  PROVE  InQueue(d)'
<1>1. queue' = Added(QueueOf[c], held[c]) BY DEF Requeued, Holds
<1>2. PICK j \in Job : j = held[c] BY HeldFacts DEF Holds
<1>3. TypeOK /\ QueueOf[c] \in Queue BY PipelineAssumption DEF IndInv
<1>4. InQueue(j.delivery)' BY <1>1, <1>2, <1>3, AddedInQueue
<1> QED BY <1>2, <1>4 DEF Holds

\* A consumer's step leaves the other consumers alone.
LEMMA OthersUnchanged ==
  ASSUME IndInv, NEW b \in Consumer, NEW c \in Consumer, b # c,
         Work(b) \/ Crash(b) \/ LoseChannel(b) \/ \E j \in Job : Receive(b, j)
  PROVE  /\ pc'[c] = pc[c] /\ held'[c] = held[c] /\ result'[c] = result[c]
         /\ c \in open' <=> c \in open
<1>0. TypeOK BY DEF IndInv
<1>1. CASE Work(b)
  BY <1>0, <1>1 DEF TypeOK, Work, Ack, CheckControl, MarkPaused, MarkStopped, MarkSending,
      ProviderSend, RecordStatus, RecordAttempt, PublishRetry, RouteDead, RouteAgain,
      CountRetry, MarkDead, Nack, NextMessage, Goto
<1>2. CASE Crash(b) \/ LoseChannel(b) \/ \E j \in Job : Receive(b, j)
  BY <1>0, <1>2 DEF TypeOK, Crash, LoseChannel, Receive, Goto
<1> QED BY <1>1, <1>2

\* What was dropped or missed stays on record.
LEMMA MarksGrow ==
  ASSUME [Next]_vars
  PROVE  lost \subseteq lost' /\ missed \subseteq missed'
<1>1. ASSUME NEW c \in Consumer, Work(c)
      PROVE  lost \subseteq lost' /\ missed \subseteq missed'
  BY <1>1 DEF Work, Ack, CheckControl, MarkPaused, MarkStopped, MarkSending,
      ProviderSend, RecordStatus, RecordAttempt, PublishRetry, RouteDead, RouteAgain,
      CountRetry, MarkDead, GiveUp, UpdateStatus, history
<1>2. ASSUME NEW c \in Consumer, Crash(c) \/ LoseChannel(c) \/ \E j \in Job : Receive(c, j)
      PROVE  lost \subseteq lost' /\ missed \subseteq missed'
  BY <1>2 DEF Crash, LoseChannel, Receive, GiveUp, history
<1>3. ASSUME NEW n \in Notification, Send(n) \/ SendAbort(n)
      PROVE  lost' = lost /\ missed' = missed
  BY <1>3 DEF Send, SendBegin, SendChannel, SendCommit, SendAbort, history
<1>4. ASSUME NEW l \in ManagedLane, NEW s \in ControlStatus, UpdateQueueControl(l, s)
      PROVE  lost' = lost /\ missed' = missed
  BY <1>4 DEF UpdateQueueControl, history
<1>5. ASSUME NEW q \in Queue, NEW j \in Job, BrokerDrop(q, j)
      PROVE  lost \subseteq lost' /\ missed' = missed
  BY <1>5 DEF BrokerDrop
<1>6. UNCHANGED vars => lost' = lost /\ missed' = missed BY DEF vars, history
<1> QED BY <1>1, <1>2, <1>3, <1>4, <1>5, <1>6 DEF Next

\* A queued job stays queued, is taken by a consumer or is marked as lost.
LEMMA InQueueKept ==
  ASSUME IndInv, [Next]_vars, NEW d \in Delivery, InQueue(d)
  PROVE  Kept(d)'
<1>0. TypeOK /\ \A q \in Queue, j \in Job : queue[q][j] \in Nat BY DEF IndInv, TypeOK
<1>1. PICK q \in Queue, j \in Job : j.delivery = d /\ queue[q][j] > 0 BY DEF InQueue
<1>2. CASE queue' = queue BY <1>1, <1>2 DEF Kept, HasJob, InQueue
<1>3. ASSUME NEW p \in Queue, NEW i \in Job, queue' = Added(p, i)
      PROVE  Kept(d)'
  <2>0. queue'[q][j] = IF q = p /\ j = i THEN queue[q][j] + 1 ELSE queue[q][j]
    BY <1>0, <1>3, AddedFacts
  <2>1. queue'[q][j] > 0 BY <1>0, <1>1, <2>0
  <2> QED BY <1>1, <2>1 DEF Kept, HasJob, InQueue
<1>4. ASSUME NEW c \in Consumer, NEW i \in Job, Receive(c, i)
      PROVE  Kept(d)'
  <2>0. QueueOf[c] \in Queue BY PipelineAssumption
  <2>1. CASE i = j
    <3>1. /\ held'[c] = j /\ j # NoJob /\ c \in open'
          /\ pc'[c] \in {"check", "route", "bury"}
      BY <1>0, <1>4, <2>1, PipelineAssumption
         DEF Receive, Goto, FirstStep, TypeOK, IndInv, ConsumersOK, ConsumerOK
    <3>2. Carries(c, d)' BY <1>1, <3>1 DEF Carries, Holds
    <3> QED BY <3>2 DEF Kept, HasJob
  <2>2. CASE i # j
    <3>1. queue'[q][j] = queue[q][j] BY <1>0, <1>4, <2>0, <2>2, RemovedFacts DEF Receive
    <3> QED BY <1>1, <3>1 DEF Kept, HasJob, InQueue
  <2> QED BY <2>1, <2>2
<1>5. ASSUME NEW p \in Queue, NEW i \in Job, BrokerDrop(p, i)
      PROVE  Kept(d)'
  <2>1. CASE i = j BY <1>1, <1>5, <2>1 DEF BrokerDrop, Kept
  <2>2. CASE i # j
    <3>1. queue'[q][j] = queue[q][j] BY <1>0, <1>5, <2>2, RemovedFacts DEF BrokerDrop
    <3> QED BY <1>1, <3>1 DEF Kept, HasJob, InQueue
  <2> QED BY <2>1, <2>2
<1>6. ASSUME NEW c \in Consumer, Work(c) \/ Crash(c) \/ LoseChannel(c)
      PROVE  queue' = queue \/ \E p \in Queue, i \in Job : queue' = Added(p, i)
  <2>0. QueueOf[c] \in Queue /\ RetryQueue \in Queue /\ DeadQueue \in Queue
    BY PipelineAssumption DEF Queue
  <2>1. CASE queue' = Requeued(c)
    BY <2>0, <2>1, HeldFacts DEF Requeued
  <2>2. CASE PublishRetry(c) \/ RouteDead(c) \/ RouteAgain(c)
    <3>1. QueueStep BY NextQueueStep
    <3>2. held[c] # NoJob
      BY <2>2 DEF PublishRetry, RouteDead, RouteAgain, IndInv, ConsumersOK, ConsumerOK
    <3>3. held[c] \in Job /\ held[c].delivery \in Delivery /\ held[c].attempt < AttemptCap
      <4>1. MaxDeliveryTries \in Nat /\ held[c].attempt \in Nat
        BY <3>2, HeldFacts, PipelineAssumption
      <4>2. held[c].attempt <= MaxDeliveryTries + 1
        BY <3>2, <4>1, HeldFacts DEF AttemptFits
      <4> QED BY <3>2, <4>1, <4>2, HeldFacts DEF AttemptCap
    <3>4. NextAttempt(held[c]) \in Job BY <3>3, NextAttemptFacts
    <3>5. channelQueue(DeliveryOf(c)[2]) \in Queue
      BY <3>3, ChannelQueueType DEF Delivery, DeliveryOf
    <3> QED BY <2>0, <2>2, <3>3, <3>4, <3>5
            DEF PublishRetry, RouteDead, RouteAgain, AfterPublish
  <2>3. CASE ~(queue' = Requeued(c) \/ PublishRetry(c) \/ RouteDead(c) \/ RouteAgain(c))
    BY <1>6, <2>3 DEF Work, Ack, CheckControl, MarkPaused, MarkStopped, MarkSending,
      ProviderSend, RecordStatus, RecordAttempt, CountRetry, MarkDead, Nack, Crash,
      LoseChannel
  <2> QED BY <2>1, <2>2, <2>3
<1>7. ASSUME NEW n \in Notification, Send(n) \/ SendAbort(n)
      PROVE  queue' = queue \/ \E p \in Queue, i \in Job : queue' = Added(p, i)
  <2>1. CASE SendBegin(n) \/ SendCommit(n) \/ SendAbort(n)
    BY <2>1 DEF SendBegin, SendCommit, SendAbort
  <2>2. ASSUME NEW ch \in Channel, SendChannel(n, ch)
        PROVE  \E p \in Queue, i \in Job : queue' = Added(p, i)
    <3>1. [delivery |-> <<n, ch>>, attempt |-> 0] \in Job
      BY PipelineAssumption DEF Job, Delivery, AttemptCap
    <3> QED BY <2>2, <3>1, ChannelQueueType DEF SendChannel
  <2> QED BY <1>7, <2>1, <2>2 DEF Send
<1>8. ASSUME NEW l \in ManagedLane, NEW s \in ControlStatus, UpdateQueueControl(l, s)
      PROVE  queue' = queue
  BY <1>8 DEF UpdateQueueControl
<1>9. UNCHANGED vars => queue' = queue BY DEF vars
<1> QED BY <1>2, <1>3, <1>4, <1>5, <1>6, <1>7, <1>8, <1>9 DEF Next

\* A consumer that carries a delivery goes on carrying it, finishes it, gives
\* a job for it to the broker, or leaves a mark.
LEMMA CarriesKept ==
  ASSUME IndInv, [Next]_vars, NEW d \in Delivery, NEW c \in Consumer, Carries(c, d)
  PROVE  Kept(d)'
<1>0. /\ TypeOK /\ Holds(c, d) /\ held[c] # NoJob /\ DeliveryOf(c) = d
      /\ held[c] \in Job /\ held[c].attempt < AttemptCap
  <2>1. held[c] # NoJob /\ held[c].delivery = d BY DEF Carries, Holds
  <2>2. MaxDeliveryTries \in Nat /\ held[c] \in Job /\ held[c].attempt \in Nat
    BY <2>1, HeldFacts, PipelineAssumption
  <2>3. held[c].attempt <= MaxDeliveryTries + 1 BY <2>1, <2>2, HeldFacts DEF AttemptFits
  <2> QED BY <2>1, <2>2, <2>3 DEF IndInv, Holds, DeliveryOf, AttemptCap
<1>1. ASSUME UNCHANGED <<pc, held, result, open>> PROVE Kept(d)'
  BY <1>1 DEF Kept, HasJob, Carries, Holds
<1>2. ASSUME NEW b \in Consumer, b # c,
             Work(b) \/ Crash(b) \/ LoseChannel(b) \/ \E j \in Job : Receive(b, j)
      PROVE  Kept(d)'
  <2>1. /\ pc'[c] = pc[c] /\ held'[c] = held[c] /\ result'[c] = result[c]
        /\ c \in open' <=> c \in open
    BY <1>2, OthersUnchanged
  <2>2. Carries(c, d)' BY <2>1 DEF Carries, Holds
  <2> QED BY <2>2 DEF Kept, HasJob
<1>3. ASSUME NEW q \in Queue, NEW j \in Job, queue' = Added(q, j), j.delivery = d
      PROVE  Kept(d)'
  BY <1>0, <1>3, AddedInQueue DEF Kept, HasJob
<1>4. ASSUME c \in open, queue' = Requeued(c) PROVE Kept(d)'
  BY <1>0, <1>4, RequeuedInQueue DEF Kept, HasJob
<1>5. ASSUME NEW s \in {"blocked", "dead"}, UpdateStatus(d, s) PROVE Kept(d)'
  BY <1>0, <1>5 DEF UpdateStatus, Kept, TypeOK
<1>6. ASSUME held'[c] = held[c],
             \/ pc'[c] \in {"provider", "record", "retry"}
             \/ pc'[c] = "attempt" /\ result'[c] = "failed"
             \/ c \in open' /\ pc'[c] \in {"check", "paused", "stopped", "start", "route", "bury"}
      PROVE  Kept(d)'
  <2>1. Carries(c, d)' BY <1>0, <1>6 DEF Carries, Holds
  <2> QED BY <2>1 DEF Kept, HasJob
<1>7. CASE Work(c)
  <2>1. CASE CheckControl(c)
    <3>1. c \in open BY <2>1 DEF CheckControl, Carries
    <3>2. CASE Nack(c) BY <1>4, <3>1, <3>2 DEF Nack
    <3>3. CASE ~Nack(c)
      <4>1. control[LaneOf(d)] \in ControlStatus
        BY <1>0, PipelineAssumption DEF LaneOf, Lane, Delivery, TypeOK
      <4>2. pc'[c] \in {"start", "paused", "stopped"} /\ UNCHANGED <<held, open>>
        BY <1>0, <2>1, <3>3, <4>1 DEF CheckControl, Goto, ControlStatus, TypeOK
      <4> QED BY <1>6, <3>1, <4>2
    <3> QED BY <3>2, <3>3
  <2>2. CASE MarkPaused(c)
    <3>1. c \in open BY <2>2 DEF MarkPaused, Carries
    <3> QED BY <1>4, <2>2, <3>1 DEF MarkPaused, Nack
  <2>3. CASE MarkStopped(c)
    <3>1. c \in open BY <2>3 DEF MarkStopped, Carries
    <3>2. UpdateStatus(d, "blocked") \/ queue' = Requeued(c)
      BY <1>0, <2>3 DEF MarkStopped, Nack
    <3> QED BY <1>4, <1>5, <3>1, <3>2
  <2>4. CASE MarkSending(c) BY <1>0, <1>6, <2>4 DEF MarkSending, Goto, TypeOK
  <2>5. CASE ProviderSend(c) BY <1>0, <1>6, <2>5 DEF ProviderSend, Goto, TypeOK
  <2>6. CASE RecordStatus(c)
    <3>1. result[c] \in {"sent", "failed"} BY <2>6 DEF RecordStatus, IndInv, ResultOK, TypeOK
    <3>3. held' = held /\ result' = result BY <2>6 DEF RecordStatus
    <3>2. CASE UpdateStatus(d, result[c]) /\ pc'[c] = "attempt" /\ result[c] = "sent"
      <4>1. row'[d] = "sent" \/ d \in missed' BY <1>0, <3>2 DEF UpdateStatus, TypeOK
      <4>2. Recording(d)' BY <1>0, <3>2, <3>3 DEF Recording, Holds
      <4> QED BY <4>1, <4>2 DEF Kept
    <3>4. CASE pc'[c] = "retry" BY <1>6, <3>3, <3>4
    <3>5. CASE pc'[c] = "attempt" /\ result[c] = "failed" BY <1>6, <3>3, <3>5
    <3>6. \/ UpdateStatus(d, result[c]) /\ pc'[c] = "attempt"
          \/ pc'[c] = "retry"
      BY <1>0, <2>6 DEF RecordStatus, Goto, TypeOK
    <3> QED BY <3>1, <3>2, <3>4, <3>5, <3>6
  <2>7. CASE RecordAttempt(c)
    <3>1. result[c] = "failed" BY <2>7 DEF RecordAttempt, Carries
    <3>2. pc'[c] = "retry" /\ held' = held BY <1>0, <2>7, <3>1 DEF RecordAttempt, Goto, TypeOK
    <3> QED BY <1>6, <3>2
  <2>8. CASE PublishRetry(c)
    <3>1. CASE c \in open
      <4>1. PICK j \in Job : j = NextAttempt(held[c]) /\ j.delivery = d
        BY <1>0, NextAttemptFacts DEF DeliveryOf
      <4>2. queue' = Added(RetryQueue, j) /\ RetryQueue \in Queue
        BY <2>8, <3>1, <4>1 DEF PublishRetry, AfterPublish, Queue
      <4> QED BY <1>3, <4>1, <4>2
    <3>2. CASE c \notin open
      BY <1>0, <2>8, <3>2 DEF PublishRetry, GiveUp, Kept
    <3> QED BY <3>1, <3>2
  <2>9. CASE RouteDead(c)
    <3>1. c \in open BY <2>9 DEF RouteDead, Carries
    <3>2. PICK j \in Job : j = held[c] /\ j.delivery = d BY <1>0 DEF DeliveryOf
    <3>3. queue' = Added(DeadQueue, j) /\ DeadQueue \in Queue
      BY <2>9, <3>1, <3>2 DEF RouteDead, AfterPublish, Queue
    <3> QED BY <1>3, <3>2, <3>3
  <2>10. CASE RouteAgain(c)
    <3>1. c \in open BY <2>10 DEF RouteAgain, Carries
    <3>2. PICK j \in Job : j = NextAttempt(held[c]) /\ j.delivery = d
      BY <1>0, NextAttemptFacts DEF DeliveryOf
    <3>3. queue' = Added(channelQueue(d[2]), j) /\ channelQueue(d[2]) \in Queue
      BY <1>0, <2>10, <3>1, <3>2, ChannelQueueType DEF RouteAgain, AfterPublish, Delivery
    <3> QED BY <1>3, <3>2, <3>3
  <2>11. CASE MarkDead(c)
    <3>1. CASE UpdateStatus(d, "dead") BY <1>5, <3>1
    <3>2. CASE d \in lost' BY <3>2 DEF Kept
    <3> QED BY <1>0, <2>11, <3>1, <3>2 DEF MarkDead
  <2>12. ~Ack(c) /\ ~CountRetry(c) BY DEF Ack, CountRetry, Carries
  <2> QED BY <1>7, <2>1, <2>2, <2>3, <2>4, <2>5, <2>6, <2>7, <2>8, <2>9, <2>10,
             <2>11, <2>12 DEF Work
<1>8. CASE Crash(c)
  <2>1. CASE c \in open BY <1>4, <1>8, <2>1 DEF Crash
  <2>2. CASE c \notin open BY <1>0, <1>8, <2>2 DEF Crash, GiveUp, Kept
  <2> QED BY <2>1, <2>2
<1>9. CASE LoseChannel(c) BY <1>4, <1>9 DEF LoseChannel
<1>10. \A j \in Job : ~Receive(c, j)
  BY <1>0 DEF Receive, IndInv, ConsumersOK, ConsumerOK
<1>11. ASSUME NEW n \in Notification, Send(n) \/ SendAbort(n)
      PROVE  UNCHANGED <<pc, held, result, open>>
  BY <1>11 DEF Send, SendBegin, SendChannel, SendCommit, SendAbort, workers
<1>12. ASSUME NEW l \in ManagedLane, NEW s \in ControlStatus, UpdateQueueControl(l, s)
      PROVE  UNCHANGED <<pc, held, result, open>>
  BY <1>12 DEF UpdateQueueControl, workers
<1>13. ASSUME NEW q \in Queue, NEW j \in Job, BrokerDrop(q, j)
      PROVE  UNCHANGED <<pc, held, result, open>>
  BY <1>13 DEF BrokerDrop, workers
<1>14. UNCHANGED vars => UNCHANGED <<pc, held, result, open>> BY DEF vars, workers
<1> QED BY <1>1, <1>2, <1>7, <1>8, <1>9, <1>10, <1>11, <1>12, <1>13, <1>14 DEF Next

\* A final status is only overwritten by a consumer that carries the delivery
\* on, or that gives its copy back to the broker or loses it.
LEMMA FinalKept ==
  ASSUME IndInv, [Next]_vars, NEW d \in Delivery, row[d] \in Final
  PROVE  Settled(d)'
<1>0. TypeOK /\ row \in [Delivery -> Statuses] BY DEF IndInv, TypeOK
<1>1. CASE row'[d] = row[d] BY <1>1 DEF Settled
<1>2. ASSUME NEW c \in Consumer, row'[d] # row[d],
             MarkPaused(c) \/ MarkStopped(c) \/ MarkSending(c) \/ RecordStatus(c) \/ MarkDead(c)
      PROVE  Settled(d)'
  <2>0. held[c] # NoJob
    BY <1>2 DEF MarkPaused, MarkStopped, MarkSending, RecordStatus, MarkDead, IndInv,
                ConsumersOK, ConsumerOK
  <2>1. DeliveryOf(c) = d /\ Holds(c, d)
    <3>1. DeliveryOf(c) \in Delivery BY <2>0, HeldFacts DEF DeliveryOf
    <3>2. DeliveryOf(c) = d
      BY <1>0, <1>2, <3>1 DEF MarkPaused, MarkStopped, MarkSending, RecordStatus, MarkDead,
                              UpdateStatus
    <3> QED BY <2>0, <3>2 DEF Holds, DeliveryOf
  <2>2. ASSUME held'[c] = held[c],
               \/ pc'[c] \in {"provider", "retry"}
               \/ pc'[c] = "attempt" /\ result'[c] = "failed"
        PROVE  Settled(d)'
    <3>1. Carries(c, d)' BY <2>1, <2>2 DEF Carries, Holds
    <3> QED BY <3>1 DEF Settled, HasJob
  <2>3. ASSUME NEW s \in Final, UpdateStatus(d, s) PROVE Settled(d)'
    BY <1>0, <2>3 DEF UpdateStatus, Settled
  <2>4. CASE MarkPaused(c)
    <3>1. CASE c \in open
      BY <2>1, <2>4, <3>1, RequeuedInQueue DEF MarkPaused, Nack, Settled, HasJob
    <3>2. CASE c \notin open BY <2>0, <2>1, <2>4, <3>2 DEF MarkPaused, GiveUp, Settled
    <3> QED BY <3>1, <3>2
  <2>5. CASE MarkStopped(c) BY <1>2, <2>1, <2>3, <2>5 DEF MarkStopped, Final
  <2>6. CASE MarkSending(c) BY <1>0, <2>2, <2>6 DEF MarkSending, Goto, TypeOK
  <2>7. CASE RecordStatus(c)
    <3>1. result[c] \in {"sent", "failed"} BY <2>7 DEF RecordStatus, IndInv, ResultOK, TypeOK
    <3>2. CASE result[c] = "sent" BY <1>2, <2>1, <2>3, <2>7, <3>2 DEF RecordStatus, Final
    <3>3. CASE result[c] = "failed"
      <4>1. pc'[c] \in {"attempt", "retry"} /\ held' = held /\ result' = result
        BY <1>0, <2>7 DEF RecordStatus, Goto, TypeOK
      <4> QED BY <2>2, <3>3, <4>1
    <3> QED BY <3>1, <3>2, <3>3
  <2>8. CASE MarkDead(c) BY <1>2, <2>1, <2>3, <2>8 DEF MarkDead, Final
  <2> QED BY <1>2, <2>4, <2>5, <2>6, <2>7, <2>8
<1>3. ASSUME NEW n \in Notification, Send(n) \/ SendAbort(n)
      PROVE  row'[d] = row[d]
  <2>1. CASE SendCommit(n)
    <3>1. d[1] # n
      BY <2>1 DEF SendCommit, IndInv, TransactionOK, Final
    <3> QED BY <2>1, <3>1 DEF SendCommit
  <2>2. CASE ~SendCommit(n)
    BY <1>3, <2>2 DEF Send, SendBegin, SendChannel, SendAbort, database
  <2> QED BY <2>1, <2>2
<1>4. ASSUME NEW c \in Consumer,
             \/ Ack(c) \/ CheckControl(c) \/ ProviderSend(c) \/ RecordAttempt(c)
             \/ PublishRetry(c) \/ RouteDead(c) \/ RouteAgain(c) \/ CountRetry(c)
             \/ Crash(c) \/ LoseChannel(c) \/ \E j \in Job : Receive(c, j)
      PROVE  row' = row
  BY <1>4 DEF Ack, CheckControl, ProviderSend, RecordAttempt, PublishRetry, RouteDead,
      RouteAgain, CountRetry, Crash, LoseChannel, Receive, database
<1>5. ASSUME NEW l \in ManagedLane, NEW s \in ControlStatus, UpdateQueueControl(l, s)
      PROVE  row' = row
  BY <1>5 DEF UpdateQueueControl
<1>6. ASSUME NEW q \in Queue, NEW j \in Job, BrokerDrop(q, j)
      PROVE  row' = row
  BY <1>6 DEF BrokerDrop, database
<1>7. UNCHANGED vars => row' = row BY DEF vars, database
<1> QED BY <1>1, <1>2, <1>3, <1>4, <1>5, <1>6, <1>7 DEF Next, Work

\* A delivery gets published by putting its job in a queue.
LEMMA PublishedStep ==
  ASSUME IndInv, [Next]_vars, NEW d \in Delivery, d[2] \in published'[d[1]]
  PROVE  d[2] \in published[d[1]] \/ Settled(d)'
<1>0. /\ TypeOK /\ d[1] \in Notification /\ d[2] \in Channel /\ d = <<d[1], d[2]>>
      /\ published \in [Notification -> SUBSET Channel]
  BY DEF IndInv, TypeOK, Delivery
<1>1. CASE published' = published BY <1>1
<1>2. ASSUME NEW n \in Notification, NEW ch \in Channel, SendChannel(n, ch)
      PROVE  d[2] \in published[d[1]] \/ Settled(d)'
  <2>1. CASE n = d[1] /\ ch = d[2]
    <3> DEFINE j == [delivery |-> <<n, ch>>, attempt |-> 0]
    <3>1. j \in Job /\ j.delivery = d
      BY <1>0, <2>1, PipelineAssumption DEF Job, AttemptCap
    <3>2. InQueue(j.delivery)'
      BY <1>0, <1>2, <3>1, ChannelQueueType, AddedInQueue DEF SendChannel
    <3> QED BY <3>1, <3>2 DEF Settled, HasJob
  <2>2. CASE ~(n = d[1] /\ ch = d[2]) BY <1>0, <1>2, <2>2 DEF SendChannel
  <2> QED BY <2>1, <2>2
<1>3. ASSUME NEW n \in Notification, SendBegin(n) \/ SendCommit(n) \/ SendAbort(n)
      PROVE  published' = published
  BY <1>3 DEF SendBegin, SendCommit, SendAbort
<1>4. ASSUME NEW c \in Consumer, Work(c)
      PROVE  published' = published
  BY <1>4 DEF Work, Ack, CheckControl, MarkPaused, MarkStopped, MarkSending,
      ProviderSend, RecordStatus, RecordAttempt, PublishRetry, RouteDead, RouteAgain,
      CountRetry, MarkDead, sender
<1>5. ASSUME NEW c \in Consumer, Crash(c) \/ LoseChannel(c) \/ \E j \in Job : Receive(c, j)
      PROVE  published' = published
  BY <1>5 DEF Crash, LoseChannel, Receive, sender
<1>6. ASSUME NEW l \in ManagedLane, NEW s \in ControlStatus, UpdateQueueControl(l, s)
      PROVE  published' = published
  BY <1>6 DEF UpdateQueueControl, sender
<1>7. ASSUME NEW q \in Queue, NEW j \in Job, BrokerDrop(q, j)
      PROVE  published' = published
  BY <1>7 DEF BrokerDrop, sender
<1>8. UNCHANGED vars => published' = published BY DEF vars, sender
<1> QED BY <1>1, <1>2, <1>3, <1>4, <1>5, <1>6, <1>7, <1>8 DEF Next, Send

\* With IndInv, NotStranded is inductive.
LEMMA NextNotStranded ==
  ASSUME IndInv, NotStranded, [Next]_vars
  PROVE  NotStranded'
<1> SUFFICES ASSUME NEW d \in Delivery, d[2] \in published'[d[1]]
             PROVE  Settled(d)'
  BY DEF NotStranded, Settled
<1>1. CASE d[2] \in published[d[1]]
  <2>1. Settled(d) BY <1>1 DEF NotStranded, Settled
  <2>2. CASE InQueue(d) BY <2>2, InQueueKept DEF Kept, Settled, Final
  <2>3. CASE \E c \in Consumer : Carries(c, d) BY <2>3, CarriesKept DEF Kept, Settled, Final
  <2>4. CASE d \in lost \cup missed BY <2>4, MarksGrow DEF Settled
  <2>5. CASE row[d] \in Final BY <2>5, FinalKept
  <2> QED BY <2>1, <2>2, <2>3, <2>4, <2>5 DEF Settled, HasJob
<1> QED BY <1>1, PublishedStep

\* A published delivery that is not sent, blocked or dead always has a job in a
\* queue or a worker that will finish it or pass it on, except after a dropped
\* copy or a job that overtook Send's commit.
THEOREM NoDeliveryStranded == Spec => []NotStranded
<1>1. Init => NotStranded BY DEF Init, NotStranded, Delivery
<1>2. IndInv /\ NotStranded /\ [Next]_vars => NotStranded' BY NextNotStranded
<1> QED BY <1>1, <1>2, Invariance, PTL DEF Spec

-----------------------------------------------------------------------------
(***************************************************************************)
(* A delivery shown as sent.  Its attempt is recorded by the statement     *)
(* after the one that says sent; whatever keeps that statement from        *)
(* running leaves a job or a mark.                                         *)
(***************************************************************************)

Accounted(d) == attempts[d] > 0 \/ d \in lost \cup missed \/ HasJob(d) \/ Recording(d)

\* Recorded attempts are never removed.
LEMMA AttemptsStep ==
  ASSUME IndInv, [Next]_vars, NEW d \in Delivery
  PROVE  /\ attempts[d] \in Nat /\ attempts'[d] >= attempts[d]
<1>0. attempts \in [Delivery -> Nat] /\ attempts[d] \in Nat BY DEF IndInv, TypeOK
<1>1. CASE attempts' = attempts BY <1>0, <1>1
<1>2. ASSUME NEW c \in Consumer, RecordAttempt(c)
      PROVE  attempts'[d] >= attempts[d]
  <2>1. attempts' = attempts \/ attempts' = [attempts EXCEPT ![DeliveryOf(c)] = @ + 1]
    BY <1>2 DEF RecordAttempt
  <2> QED BY <1>0, <2>1
<1>3. ASSUME NEW c \in Consumer, Work(c), ~RecordAttempt(c)
      PROVE  attempts' = attempts
  BY <1>3 DEF Work, Ack, CheckControl, MarkPaused, MarkStopped, MarkSending, ProviderSend,
      RecordStatus, PublishRetry, RouteDead, RouteAgain, CountRetry, MarkDead, database
<1>4. ASSUME NEW c \in Consumer, Crash(c) \/ LoseChannel(c) \/ \E j \in Job : Receive(c, j)
      PROVE  attempts' = attempts
  BY <1>4 DEF Crash, LoseChannel, Receive, database
<1>5. ASSUME NEW n \in Notification, Send(n) \/ SendAbort(n)
      PROVE  attempts' = attempts
  BY <1>5 DEF Send, SendBegin, SendChannel, SendCommit, SendAbort, database
<1>6. ASSUME NEW l \in ManagedLane, NEW s \in ControlStatus, UpdateQueueControl(l, s)
      PROVE  attempts' = attempts
  BY <1>6 DEF UpdateQueueControl
<1>7. ASSUME NEW q \in Queue, NEW j \in Job, BrokerDrop(q, j)
      PROVE  attempts' = attempts
  BY <1>7 DEF BrokerDrop, database
<1>8. UNCHANGED vars => attempts' = attempts BY DEF vars, database
<1> QED BY <1>0, <1>1, <1>2, <1>3, <1>4, <1>5, <1>6, <1>7, <1>8 DEF Next

\* A worker about to record an attempt records it, retries, or leaves its
\* message to the broker or a mark.
LEMMA RecordingKept ==
  ASSUME IndInv, [Next]_vars, NEW d \in Delivery, NEW c \in Consumer,
         Holds(c, d), pc[c] = "attempt"
  PROVE  attempts'[d] > 0 \/ HasJob(d)' \/ d \in lost' \cup missed' \/ Recording(d)'
<1>0. TypeOK /\ held[c] # NoJob /\ DeliveryOf(c) = d BY DEF IndInv, Holds, DeliveryOf
<1>1. CASE pc'[c] = pc[c] /\ held'[c] = held[c]
  BY <1>1 DEF Recording, Holds
<1>2. CASE RecordAttempt(c)
  <2>1. CASE pc'[c] = "retry" /\ held'[c] = held[c]
    BY <2>1 DEF HasJob, Carries, Holds
  <2>2. CASE attempts' = [attempts EXCEPT ![d] = @ + 1]
    BY <1>0, <2>2 DEF TypeOK
  <2> QED BY <1>0, <1>2, <2>1, <2>2 DEF RecordAttempt, Goto, TypeOK
<1>3. CASE Work(c) /\ ~RecordAttempt(c)
  BY <1>3 DEF Work, Ack, CheckControl, MarkPaused, MarkStopped, MarkSending, ProviderSend,
      RecordStatus, PublishRetry, RouteDead, RouteAgain, CountRetry, MarkDead
<1>4. CASE Crash(c)
  <2>1. CASE c \in open BY <1>4, <2>1, RequeuedInQueue DEF Crash, HasJob
  <2>2. CASE c \notin open BY <1>0, <1>4, <2>2 DEF Crash, GiveUp
  <2> QED BY <2>1, <2>2
<1>5. CASE LoseChannel(c) BY <1>0, <1>1, <1>5 DEF LoseChannel, TypeOK
<1>6. \A j \in Job : ~Receive(c, j) BY DEF Receive
<1>7. ASSUME NEW b \in Consumer, b # c,
             Work(b) \/ Crash(b) \/ LoseChannel(b) \/ \E j \in Job : Receive(b, j)
      PROVE  pc'[c] = pc[c] /\ held'[c] = held[c]
  BY <1>7, OthersUnchanged
<1>8. ASSUME NEW n \in Notification, Send(n) \/ SendAbort(n)
      PROVE  UNCHANGED <<pc, held>>
  BY <1>8 DEF Send, SendBegin, SendChannel, SendCommit, SendAbort, workers
<1>9. ASSUME NEW l \in ManagedLane, NEW s \in ControlStatus, UpdateQueueControl(l, s)
      PROVE  UNCHANGED <<pc, held>>
  BY <1>9 DEF UpdateQueueControl, workers
<1>10. ASSUME NEW q \in Queue, NEW j \in Job, BrokerDrop(q, j)
      PROVE  UNCHANGED <<pc, held>>
  BY <1>10 DEF BrokerDrop, workers
<1>11. UNCHANGED vars => UNCHANGED <<pc, held>> BY DEF vars, workers
<1> QED BY <1>1, <1>2, <1>3, <1>4, <1>5, <1>6, <1>7, <1>8, <1>9, <1>10, <1>11 DEF Next

\* A row becomes sent only by a worker that goes on to record the attempt.
LEMMA BecomesSent ==
  ASSUME IndInv, [Next]_vars, NEW d \in Delivery, row[d] # "sent", row'[d] = "sent"
  PROVE  Recording(d)'
<1>0. TypeOK /\ row \in [Delivery -> Statuses] BY DEF IndInv, TypeOK
<1>1. ASSUME NEW c \in Consumer, RecordStatus(c)
      PROVE  Recording(d)'
  <2>1. held[c] # NoJob BY <1>1 DEF RecordStatus, IndInv, ConsumersOK, ConsumerOK
  <2>2. DeliveryOf(c) \in Delivery BY <2>1, HeldFacts DEF DeliveryOf
  <2>3. DeliveryOf(c) = d /\ pc'[c] = "attempt" /\ held'[c] = held[c]
    BY <1>0, <1>1, <2>2 DEF RecordStatus, UpdateStatus, Goto, TypeOK
  <2> QED BY <2>1, <2>3 DEF Recording, Holds, DeliveryOf
<1>2. ASSUME NEW c \in Consumer, Work(c), ~RecordStatus(c)
      PROVE  row' = row \/ \E x \in Delivery, s \in {"queued", "blocked", "sending", "dead"} :
                             row' = [row EXCEPT ![x] = s]
  <2>1. CASE MarkPaused(c) \/ MarkStopped(c) \/ MarkSending(c) \/ MarkDead(c)
    <3>1. held[c] # NoJob
      BY <2>1 DEF MarkPaused, MarkStopped, MarkSending, MarkDead, IndInv, ConsumersOK, ConsumerOK
    <3>2. DeliveryOf(c) \in Delivery BY <3>1, HeldFacts DEF DeliveryOf
    <3> QED BY <2>1, <3>2 DEF MarkPaused, MarkStopped, MarkSending, MarkDead, UpdateStatus
  <2>2. CASE ~(MarkPaused(c) \/ MarkStopped(c) \/ MarkSending(c) \/ MarkDead(c))
    BY <1>2, <2>2 DEF Work, Ack, CheckControl, ProviderSend, RecordAttempt, PublishRetry,
        RouteDead, RouteAgain, CountRetry, database
  <2> QED BY <2>1, <2>2
<1>3. ASSUME NEW c \in Consumer, Crash(c) \/ LoseChannel(c) \/ \E j \in Job : Receive(c, j)
      PROVE  row' = row
  BY <1>3 DEF Crash, LoseChannel, Receive, database
<1>4. ASSUME NEW n \in Notification, Send(n) \/ SendAbort(n)
      PROVE  row'[d] \in {row[d], "queued"}
  BY <1>4 DEF Send, SendBegin, SendChannel, SendCommit, SendAbort, database
<1>5. ASSUME NEW l \in ManagedLane, NEW s \in ControlStatus, UpdateQueueControl(l, s)
      PROVE  row' = row
  BY <1>5 DEF UpdateQueueControl
<1>6. ASSUME NEW q \in Queue, NEW j \in Job, BrokerDrop(q, j)
      PROVE  row' = row
  BY <1>6 DEF BrokerDrop, database
<1>7. UNCHANGED vars => row' = row BY DEF vars, database
<1> QED BY <1>0, <1>1, <1>2, <1>3, <1>4, <1>5, <1>6, <1>7 DEF Next

\* With IndInv, SentIsAccounted is inductive.
LEMMA NextSentIsAccounted ==
  ASSUME IndInv, SentIsAccounted, [Next]_vars
  PROVE  SentIsAccounted'
<1> SUFFICES ASSUME NEW d \in Delivery, row'[d] = "sent"
             PROVE  accepted'[d] > 0 /\ Accounted(d)'
  BY DEF SentIsAccounted, Recording, Accounted
<1>4. row'[d] = "sent" OBVIOUS
<1>1. accepted'[d] > 0 BY NextRowsOK DEF RowsOK
<1>2. CASE row[d] # "sent" BY <1>1, <1>2, BecomesSent DEF Accounted
<1>3. CASE row[d] = "sent"
  <2>1. Accounted(d) BY <1>3 DEF SentIsAccounted, Recording, Accounted
  <2>2. CASE attempts[d] > 0
    <3>1. attempts'[d] > 0
      <4>1. attempts[d] \in Nat /\ attempts'[d] >= attempts[d] BY AttemptsStep
      <4>2. attempts'[d] \in Nat BY NextTypeOK DEF TypeOK
      <4> QED BY <2>2, <4>1, <4>2
    <3> QED BY <1>1, <3>1 DEF Accounted
  <2>3. CASE d \in lost \cup missed BY <1>1, <2>3, MarksGrow DEF Accounted
  <2>4. CASE HasJob(d)
    <3>1. Kept(d)' BY <2>4, InQueueKept, CarriesKept DEF HasJob
    <3> QED BY <1>1, <1>4, <3>1 DEF Kept, Accounted
  <2>5. CASE Recording(d)
    <3>1. PICK c \in Consumer : Holds(c, d) /\ pc[c] = "attempt" BY <2>5 DEF Recording
    <3> QED BY <1>1, <3>1, RecordingKept DEF Accounted
  <2> QED BY <2>1, <2>2, <2>3, <2>4, <2>5 DEF Accounted
<1> QED BY <1>1, <1>2, <1>3

\* A delivery shown as sent was accepted by the provider, and its row in
\* delivery_attempts exists or is still to come, except after a dropped copy or
\* a job that overtook Send's commit.
THEOREM SentAccounted == Spec => []SentIsAccounted
<1>1. Init => SentIsAccounted BY DEF Init, SentIsAccounted
<1>2. IndInv /\ SentIsAccounted /\ [Next]_vars => SentIsAccounted' BY NextSentIsAccounted
<1> QED BY <1>1, <1>2, Invariance, PTL DEF Spec

-----------------------------------------------------------------------------
(***************************************************************************)
(* One copy.  Without a fault, and unless a worker overtook Send's commit, *)
(* a delivery has at most one job: in one queue, or with one worker that   *)
(* has neither passed it on nor finished it.  A copy that the provider has *)
(* accepted, or whose row is final, is never handed to anybody again.      *)
(***************************************************************************)
Live(c, d) == Holds(c, d) /\ pc[c] \notin {"ack", "count"}
Queued(q, j, d) == j.delivery = d /\ queue[q][j] > 0
Delivered(c) == pc[c] \in {"record", "attempt"} /\ result[c] = "sent"

OneCopy(d) ==
  /\ \A p, q \in Queue, i, j \in Job :
       Queued(p, i, d) /\ Queued(q, j, d) => p = q /\ i = j /\ queue[q][j] = 1
  /\ \A c \in Consumer : Live(c, d) => ~InQueue(d)
  /\ \A b, c \in Consumer : Live(b, d) /\ Live(c, d) => b = c

AcceptedEnds(d) ==
  \/ accepted[d] = 0
  \/ /\ accepted[d] = 1 /\ ~InQueue(d)
     /\ \A c \in Consumer : Live(c, d) => Delivered(c)

FinalEnds(d) ==
  row[d] \in Final =>
    /\ ~InQueue(d)
    /\ \A c \in Consumer : Live(c, d) => pc[c] = "attempt" /\ result[c] = "sent"

AttemptStored(d) ==
  \A c \in Consumer : Holds(c, d) /\ pc[c] = "attempt" => Stored(d)

Single(d) == OneCopy(d) /\ AcceptedEnds(d) /\ FinalEnds(d) /\ AttemptStored(d)

\* Only what Send has published is queued, held or sent.
CopiesPublished ==
  \A d \in Delivery :
    InQueue(d) \/ (\E c \in Consumer : Holds(c, d)) \/ accepted[d] > 0
      => d[2] \in published[d[1]]

Orderly ==
  faults = 0 => open = Consumer /\ \A d \in Delivery \ missed : Single(d)

CopyInv == IndInv /\ CopiesPublished /\ Orderly

\* The initial states have no copies.
LEMMA InitCopyInv == Init => CopyInv
<1> SUFFICES ASSUME Init PROVE CopyInv OBVIOUS
<1>1. IndInv BY InitIndInv
<1>2. \A d \in Delivery : ~InQueue(d) /\ accepted[d] = 0 /\ row[d] = "none"
  BY DEF Init, InQueue
<1>3. \A d \in Delivery, c \in Consumer : ~Holds(c, d) /\ ~Live(c, d)
  BY DEF Init, Holds, Live
<1>4. CopiesPublished BY <1>2, <1>3 DEF CopiesPublished
<1>5. ASSUME NEW d \in Delivery PROVE Single(d)
  <2>1. OneCopy(d) BY <1>2, <1>3 DEF OneCopy, Queued, InQueue
  <2>2. AcceptedEnds(d) /\ FinalEnds(d) /\ AttemptStored(d)
    BY <1>2, <1>3 DEF AcceptedEnds, FinalEnds, AttemptStored, Final
  <2> QED BY <2>1, <2>2 DEF Single
<1>6. Orderly BY <1>5 DEF Orderly, Init
<1> QED BY <1>1, <1>4, <1>6 DEF CopyInv

\* A worker with a live copy is the only one that has it.
LEMMA LiveAlone ==
  ASSUME NEW d \in Delivery, NEW c \in Consumer, Single(d), Live(c, d)
  PROVE  /\ ~InQueue(d) /\ \A b \in Consumer : Live(b, d) => b = c
         /\ accepted[d] = 0 \/ (accepted[d] = 1 /\ Delivered(c))
         /\ row[d] \in Final => pc[c] = "attempt" /\ result[c] = "sent"
<1>1. ~InQueue(d) /\ \A b \in Consumer : Live(b, d) => b = c BY DEF Single, OneCopy
<1>2. accepted[d] = 0 \/ (accepted[d] = 1 /\ Delivered(c)) BY DEF Single, AcceptedEnds
<1>3. row[d] \in Final => pc[c] = "attempt" /\ result[c] = "sent" BY DEF Single, FinalEnds
<1> QED BY <1>1, <1>2, <1>3

\* A step that leaves the copies of d and what is known of d alone, or only
\* ends copies.
LEMMA SingleFrame ==
  ASSUME NEW d \in Delivery, Single(d),
         \A q \in Queue, j \in Job : j.delivery = d => queue'[q][j] = queue[q][j],
         \A c \in Consumer :
           Live(c, d)' => Live(c, d) /\ pc'[c] = pc[c] /\ result'[c] = result[c],
         accepted'[d] = accepted[d],
         row'[d] = row[d] \/ row'[d] \notin Final,
         Stored(d) => Stored(d)'
  PROVE  Single(d)'
<1>1. InQueue(d)' => InQueue(d) BY DEF InQueue
<1>2. \A q \in Queue, j \in Job :
        Queued(q, j, d)' => Queued(q, j, d) /\ queue'[q][j] = queue[q][j]
  BY DEF Queued
<1>3. OneCopy(d)' BY <1>1, <1>2 DEF Single, OneCopy
<1>4. AcceptedEnds(d)' BY <1>1 DEF Single, AcceptedEnds, Delivered
<1>5. FinalEnds(d)' BY <1>1 DEF Single, FinalEnds
<1>6. AttemptStored(d)'
  <2> SUFFICES ASSUME NEW c \in Consumer, Holds(c, d)', pc'[c] = "attempt"
               PROVE  Stored(d)'
    BY DEF AttemptStored
  <2>1. Live(c, d)' BY DEF Live
  <2>2. Holds(c, d) /\ pc[c] = "attempt" BY <2>1 DEF Live
  <2> QED BY <2>2 DEF Single, AttemptStored
<1> QED BY <1>3, <1>4, <1>5, <1>6 DEF Single

\* A step of the only worker with a copy of d that publishes nothing.
LEMMA SingleWorker ==
  ASSUME NEW d \in Delivery, NEW c \in Consumer, ~InQueue(d), queue' = queue,
         \A b \in Consumer : Live(b, d)' => b = c,
         \/ accepted'[d] = 0
         \/ accepted'[d] = 1 /\ (Live(c, d)' => Delivered(c)'),
         row'[d] \in Final /\ Live(c, d)' => pc'[c] = "attempt" /\ result'[c] = "sent",
         Live(c, d)' /\ pc'[c] = "attempt" => Stored(d)'
  PROVE  Single(d)'
<1>1. ~InQueue(d)' BY DEF InQueue
<1>2. OneCopy(d)' BY <1>1 DEF OneCopy, Queued, InQueue
<1>3. AcceptedEnds(d)' BY <1>1 DEF AcceptedEnds
<1>4. FinalEnds(d)' BY <1>1 DEF FinalEnds
<1>5. AttemptStored(d)' BY DEF AttemptStored, Live
<1> QED BY <1>2, <1>3, <1>4, <1>5 DEF Single

\* A step that publishes the only copy of d.
LEMMA SinglePublish ==
  ASSUME TypeOK, NEW d \in Delivery, ~InQueue(d),
         NEW q \in Queue, NEW j \in Job, j.delivery = d, queue' = Added(q, j),
         \A c \in Consumer : ~Live(c, d)',
         accepted'[d] = 0, row'[d] \notin Final
  PROVE  Single(d)'
<1>0. \A p \in Queue, i \in Job :
        /\ queue'[p][i] = IF p = q /\ i = j THEN queue[p][i] + 1 ELSE queue[p][i]
        /\ queue[p][i] \in Nat
  BY AddedFacts DEF TypeOK
<1>1. \A p \in Queue, i \in Job : i.delivery = d => queue[p][i] = 0
  BY <1>0 DEF InQueue
<1>2. \A p \in Queue, i \in Job : Queued(p, i, d)' => p = q /\ i = j /\ queue'[p][i] = 1
  BY <1>0, <1>1 DEF Queued
<1>3. OneCopy(d)' BY <1>2 DEF OneCopy
<1>4. AcceptedEnds(d)' /\ FinalEnds(d)' BY DEF AcceptedEnds, FinalEnds
<1>5. AttemptStored(d)' BY DEF AttemptStored, Live
<1> QED BY <1>3, <1>4, <1>5 DEF Single

\* A row that is committed stays so.
LEMMA StoredKept ==
  ASSUME IndInv, [Next]_vars, NEW d \in Delivery, Stored(d)
  PROVE  Stored(d)'
<1>1. RowStep /\ row \in [Delivery -> Statuses] BY NextRowStep DEF IndInv, TypeOK
<1> QED BY <1>1 DEF RowStep, Stored

\* Without a fault so far there was none before.
LEMMA NoFaultYet ==
  ASSUME IndInv, [Next]_vars, faults' = 0
  PROVE  faults = 0 /\ ~Fault
<1>0. faults \in Nat BY PipelineAssumption DEF IndInv, TypeOK
<1>1. ~Fault BY <1>0 DEF Fault
<1>2. UNCHANGED vars \/ Next => faults' = faults
  <2>1. ASSUME NEW c \in Consumer, Work(c) PROVE faults' = faults
    BY <1>1, <2>1 DEF Work, Ack, CheckControl, MarkPaused, MarkStopped, MarkSending,
        ProviderSend, RecordStatus, RecordAttempt, PublishRetry, RouteDead, RouteAgain,
        CountRetry, MarkDead, NoFault
  <2>2. ASSUME NEW c \in Consumer, Crash(c) \/ LoseChannel(c) \/ \E j \in Job : Receive(c, j)
        PROVE  faults' = faults
    BY <1>1, <2>2 DEF Crash, LoseChannel, Receive
  <2>3. ASSUME NEW n \in Notification, Send(n) \/ SendAbort(n) PROVE faults' = faults
    BY <1>1, <2>3 DEF Send, SendBegin, SendChannel, SendCommit, SendAbort
  <2>4. ASSUME NEW l \in ManagedLane, NEW s \in ControlStatus, UpdateQueueControl(l, s)
        PROVE  faults' = faults
    BY <2>4 DEF UpdateQueueControl
  <2>5. ASSUME NEW q \in Queue, NEW j \in Job, BrokerDrop(q, j) PROVE faults' = faults
    BY <1>1, <2>5 DEF BrokerDrop
  <2>6. UNCHANGED vars => faults' = faults BY DEF vars
  <2> QED BY <2>1, <2>2, <2>3, <2>4, <2>5, <2>6 DEF Next
<1> QED BY <1>1, <1>2

\* Publishing a job of another delivery leaves the copies of d alone.
LEMMA AddedElsewhere ==
  ASSUME TypeOK, NEW d \in Delivery, NEW q \in Queue, NEW i \in Job, i.delivery # d,
         queue' = Added(q, i)
  PROVE  \A p \in Queue, j \in Job : j.delivery = d => queue'[p][j] = queue[p][j]
BY AddedFacts

\* A worker that holds a message passes on a job of its delivery.
LEMMA PassedOn ==
  ASSUME IndInv, NEW c \in Consumer, c \in open,
         PublishRetry(c) \/ RouteDead(c) \/ RouteAgain(c) \/ (MarkPaused(c) /\ ~Fault)
  PROVE  \E q \in Queue, j \in Job : queue' = Added(q, j) /\ j.delivery = DeliveryOf(c)
<1>0. held[c] # NoJob
  BY DEF PublishRetry, RouteDead, RouteAgain, MarkPaused, IndInv, ConsumersOK, ConsumerOK
<1>1. held[c] \in Job /\ held[c].delivery \in Delivery /\ held[c].attempt < AttemptCap
  <2>1. MaxDeliveryTries \in Nat /\ held[c].attempt \in Nat
    BY <1>0, HeldFacts, PipelineAssumption
  <2>2. held[c].attempt <= MaxDeliveryTries + 1
    BY <1>0, <2>1, HeldFacts DEF AttemptFits
  <2> QED BY <1>0, <2>1, <2>2, HeldFacts DEF AttemptCap
<1>2. NextAttempt(held[c]) \in Job /\ NextAttempt(held[c]).delivery = held[c].delivery
  BY <1>1, NextAttemptFacts
<1>3. /\ channelQueue(DeliveryOf(c)[2]) \in Queue /\ RetryQueue \in Queue
      /\ DeadQueue \in Queue /\ QueueOf[c] \in Queue
  BY <1>1, ChannelQueueType, PipelineAssumption DEF Delivery, DeliveryOf, Queue
<1>4. CASE PublishRetry(c)
  BY <1>2, <1>3, <1>4 DEF PublishRetry, AfterPublish, DeliveryOf
<1>5. CASE RouteDead(c) BY <1>1, <1>3, <1>5 DEF RouteDead, AfterPublish, DeliveryOf
<1>6. CASE RouteAgain(c) BY <1>2, <1>3, <1>6 DEF RouteAgain, AfterPublish, DeliveryOf
<1>7. CASE MarkPaused(c)
  BY <1>0, <1>1, <1>3, <1>7 DEF MarkPaused, Nack, Requeued, DeliveryOf
<1> QED BY <1>4, <1>5, <1>6, <1>7

\* A fault-free step of a worker on another delivery.
LEMMA WorkElsewhere ==
  ASSUME IndInv, [Next]_vars, open = Consumer, ~Fault, NEW d \in Delivery, Single(d),
         NEW c \in Consumer, Work(c), ~Holds(c, d)
  PROVE  Single(d)'
<1>0. /\ TypeOK /\ pc[c] \notin {"idle", "spin"} /\ held[c] # NoJob
      /\ DeliveryOf(c) \in Delivery /\ DeliveryOf(c) # d
  <2>1. pc[c] \notin {"idle", "spin"}
    BY DEF Work, Ack, CheckControl, MarkPaused, MarkStopped, MarkSending, ProviderSend,
        RecordStatus, RecordAttempt, PublishRetry, RouteDead, RouteAgain, CountRetry, MarkDead
  <2>2. held[c] # NoJob BY <2>1 DEF IndInv, ConsumersOK, ConsumerOK
  <2> QED BY <2>1, <2>2, HeldFacts DEF IndInv, Holds, DeliveryOf
<1>1. \A q \in Queue, j \in Job : j.delivery = d => queue'[q][j] = queue[q][j]
  <2>1. CASE PublishRetry(c) \/ RouteDead(c) \/ RouteAgain(c) \/ MarkPaused(c)
    BY <1>0, <2>1, PassedOn, AddedElsewhere
  <2>2. CASE ~(PublishRetry(c) \/ RouteDead(c) \/ RouteAgain(c) \/ MarkPaused(c))
    BY <2>2 DEF Work, Ack, CheckControl, MarkStopped, MarkSending,
        ProviderSend, RecordStatus, RecordAttempt, CountRetry, MarkDead
  <2> QED BY <2>1, <2>2
<1>2. ASSUME NEW b \in Consumer, Live(b, d)'
      PROVE  Live(b, d) /\ pc'[b] = pc[b] /\ result'[b] = result[b]
  <2>1. CASE b = c
    <3>1. held'[c] = held[c] \/ held'[c] = NoJob
      BY <1>0 DEF TypeOK, Work, Ack, CheckControl, MarkPaused, MarkStopped, MarkSending,
          ProviderSend, RecordStatus, RecordAttempt, PublishRetry, RouteDead, RouteAgain,
          CountRetry, MarkDead, Nack, NextMessage
    <3> QED BY <1>2, <2>1, <3>1 DEF Live, Holds
  <2>2. CASE b # c BY <1>2, <2>2, OthersUnchanged DEF Live, Holds
  <2> QED BY <2>1, <2>2
<1>3. accepted'[d] = accepted[d]
  BY <1>0 DEF TypeOK, Work, Ack, CheckControl, MarkPaused, MarkStopped, MarkSending,
      ProviderSend, RecordStatus, RecordAttempt, PublishRetry, RouteDead, RouteAgain,
      CountRetry, MarkDead, history
<1>4. row'[d] = row[d]
  BY <1>0 DEF TypeOK, Work, Ack, CheckControl, MarkPaused, MarkStopped, MarkSending,
      ProviderSend, RecordStatus, RecordAttempt, PublishRetry, RouteDead, RouteAgain,
      CountRetry, MarkDead, UpdateStatus, database
<1>5. Stored(d) => Stored(d)' BY StoredKept
<1> QED BY <1>1, <1>2, <1>3, <1>4, <1>5, SingleFrame

\* A fault-free step of the worker that has the copy.
LEMMA WorkOn ==
  ASSUME IndInv, [Next]_vars, open = Consumer, ~Fault, NEW d \in Delivery, Single(d),
         d \notin missed', NEW c \in Consumer, Work(c), Holds(c, d)
  PROVE  Single(d)'
<1>0. TypeOK /\ held[c] # NoJob /\ DeliveryOf(c) = d /\ c \in open
  BY DEF IndInv, Holds, DeliveryOf
<1>1. \A b \in Consumer : b # c => (Live(b, d)' <=> Live(b, d))
  BY OthersUnchanged DEF Live, Holds
<1>2. CASE Ack(c) \/ CountRetry(c)
  <2>1. ~Live(c, d)'
    BY <1>0, <1>2 DEF Live, Holds, Ack, CountRetry, NextMessage, Goto, TypeOK
  <2>2. /\ \A q \in Queue, j \in Job : j.delivery = d => queue'[q][j] = queue[q][j]
        /\ accepted'[d] = accepted[d] /\ row'[d] = row[d]
    BY <1>2 DEF Ack, CountRetry, database, history
  <2>3. \A b \in Consumer :
          Live(b, d)' => Live(b, d) /\ pc'[b] = pc[b] /\ result'[b] = result[b]
    BY <1>1, <2>1, OthersUnchanged
  <2> QED BY <2>2, <2>3, StoredKept, SingleFrame
<1>3. CASE ~(Ack(c) \/ CountRetry(c))
  <2>0. Live(c, d)
    BY <1>3 DEF Live, Work, CheckControl, MarkPaused, MarkStopped, MarkSending,
        ProviderSend, RecordStatus, RecordAttempt, PublishRetry, RouteDead, RouteAgain, MarkDead
  <2>1. /\ ~InQueue(d)
        /\ accepted[d] = 0 \/ (accepted[d] = 1 /\ Delivered(c))
        /\ row[d] \in Final => pc[c] = "attempt" /\ result[c] = "sent"
        /\ \A b \in Consumer : Live(b, d)' => b = c
    BY <1>1, <2>0, LiveAlone
  <2>2. CASE PublishRetry(c) \/ RouteDead(c) \/ RouteAgain(c) \/ MarkPaused(c)
    <3>1. PICK q \in Queue, j \in Job : queue' = Added(q, j) /\ j.delivery = d
      BY <1>0, <2>2, PassedOn
    <3>2. ~Live(c, d)'
      BY <1>0, <2>2 DEF Live, Holds, PublishRetry, RouteDead, RouteAgain, MarkPaused, Nack,
                        NextMessage, Goto, TypeOK
    <3>3. accepted'[d] = 0
      BY <2>1, <2>2 DEF Delivered, PublishRetry, RouteDead, RouteAgain, MarkPaused, history
    <3>4. row'[d] \notin Final
      BY <1>0, <2>1, <2>2 DEF PublishRetry, RouteDead, RouteAgain, MarkPaused, UpdateStatus,
                              Final, TypeOK, database
    <3> QED BY <1>0, <2>1, <3>1, <3>2, <3>3, <3>4, SinglePublish
  <2>3. CASE CheckControl(c)
    <3>1. control[LaneOf(d)] \in ControlStatus
      BY <1>0, PipelineAssumption DEF LaneOf, Lane, Delivery, TypeOK
    <3>2. /\ pc'[c] \in {"start", "paused", "stopped"} /\ queue' = queue
          /\ row' = row /\ accepted' = accepted /\ pc[c] = "check"
      BY <1>0, <2>3, <3>1 DEF CheckControl, Goto, ControlStatus, TypeOK, database, history
    <3> QED BY <2>1, <3>2, SingleWorker DEF Delivered
  <2>4. CASE MarkStopped(c) \/ MarkDead(c)
    <3>1. /\ pc'[c] = "ack" /\ queue' = queue /\ accepted' = accepted
          /\ pc[c] \in {"stopped", "bury"}
      BY <1>0, <2>4 DEF MarkStopped, MarkDead, Goto, TypeOK
    <3>2. ~Live(c, d)' BY <3>1 DEF Live
    <3> QED BY <2>1, <3>1, <3>2, SingleWorker DEF Delivered
  <2>5. CASE MarkSending(c)
    <3>1. /\ pc'[c] = "provider" /\ queue' = queue /\ accepted' = accepted /\ pc[c] = "start"
          /\ row'[d] \notin Final
      BY <1>0, <2>1, <2>5 DEF MarkSending, Goto, TypeOK, UpdateStatus, Final
    <3> QED BY <2>1, <3>1, SingleWorker DEF Delivered
  <2>6. CASE ProviderSend(c)
    <3>1. /\ pc'[c] = "record" /\ queue' = queue /\ pc[c] = "provider" /\ row' = row
          /\ \/ accepted'[d] = accepted[d]
             \/ accepted'[d] = accepted[d] + 1 /\ result'[c] = "sent"
      BY <1>0, <2>6 DEF ProviderSend, Goto, TypeOK, database
    <3>2. accepted[d] = 0 BY <2>1, <3>1 DEF Delivered
    <3> QED BY <2>1, <3>1, <3>2, SingleWorker DEF Delivered
  <2>7. CASE RecordStatus(c)
    <3>1. /\ pc'[c] = "attempt" /\ queue' = queue /\ pc[c] = "record"
          /\ UpdateStatus(d, result[c]) /\ result' = result /\ accepted' = accepted
      BY <1>0, <2>7 DEF RecordStatus, Goto, TypeOK
    <3>2. result[c] \in {"sent", "failed"} BY <2>7 DEF RecordStatus, IndInv, ResultOK, TypeOK
    <3>3. Stored(d)' /\ row'[d] = result[c] BY <1>0, <3>1, <3>2 DEF UpdateStatus, Stored, TypeOK
    <3> QED BY <2>1, <3>1, <3>2, <3>3, SingleWorker DEF Delivered, Final
  <2>8. CASE RecordAttempt(c)
    <3>1. /\ pc'[c] = (IF result[c] = "failed" THEN "retry" ELSE "ack")
          /\ queue' = queue /\ pc[c] = "attempt" /\ row' = row /\ accepted' = accepted
      BY <1>0, <2>8 DEF RecordAttempt, Goto, TypeOK
    <3>2. CASE result[c] = "failed"
      BY <2>1, <3>1, <3>2, SingleWorker DEF Delivered
    <3>3. CASE result[c] # "failed"
      <4>1. ~Live(c, d)' BY <3>1, <3>3 DEF Live
      <4> QED BY <2>1, <3>1, <4>1, SingleWorker
    <3> QED BY <3>2, <3>3
  <2> QED BY <1>3, <2>2, <2>3, <2>4, <2>5, <2>6, <2>7, <2>8 DEF Work
<1> QED BY <1>2, <1>3

\* Receiving the copy of d moves it from its queue to one worker.
LEMMA ReceiveSingle ==
  ASSUME IndInv, [Next]_vars, NEW d \in Delivery, Single(d),
         NEW c \in Consumer, NEW j \in Job, Receive(c, j)
  PROVE  Single(d)'
<1>0. /\ TypeOK /\ QueueOf[c] \in Queue /\ j # NoJob /\ queue[QueueOf[c]][j] > 0
      /\ \A q \in Queue, i \in Job :
           /\ queue[q][i] \in Nat
           /\ queue'[q][i] = IF q = QueueOf[c] /\ i = j THEN queue[q][i] - 1 ELSE queue[q][i]
      /\ accepted' = accepted /\ row' = row
  <2>1. TypeOK /\ QueueOf[c] \in Queue /\ j # NoJob BY PipelineAssumption DEF IndInv
  <2>2. queue[QueueOf[c]][j] > 0 /\ queue' = Removed(QueueOf[c], j) BY DEF Receive
  <2>3. accepted' = accepted /\ row' = row BY DEF Receive, history, database
  <2>4. \A q \in Queue, i \in Job : queue[q][i] \in Nat BY <2>1 DEF TypeOK
  <2> QED BY <2>1, <2>2, <2>3, <2>4, RemovedFacts
<1>1. held'[c] = j /\ pc'[c] \in {"check", "route", "bury"}
  BY <1>0 DEF Receive, Goto, FirstStep, TypeOK
<1>2. \A b \in Consumer : b # c =>
        /\ Live(b, d)' <=> Live(b, d)
        /\ pc'[b] = pc[b] /\ result'[b] = result[b]
  BY OthersUnchanged DEF Live, Holds
<1>3. CASE j.delivery = d
  <2>1. InQueue(d) /\ Queued(QueueOf[c], j, d) BY <1>0, <1>3 DEF InQueue, Queued
  <2>2. /\ accepted[d] = 0 /\ row[d] \notin Final
        /\ \A b \in Consumer : ~Live(b, d)
        /\ queue[QueueOf[c]][j] = 1
        /\ \A q \in Queue, i \in Job : Queued(q, i, d) => q = QueueOf[c] /\ i = j
    BY <1>0, <2>1 DEF Single, OneCopy, AcceptedEnds, FinalEnds
  <2>3. \A q \in Queue, i \in Job : ~Queued(q, i, d)' BY <1>0, <2>2 DEF Queued
  <2>4. ~InQueue(d)' BY <2>3 DEF InQueue, Queued
  <2>5. \A b \in Consumer : Live(b, d)' => b = c BY <1>2, <2>2
  <2>6. OneCopy(d)' BY <2>3, <2>4, <2>5 DEF OneCopy
  <2>7. AcceptedEnds(d)' /\ FinalEnds(d)' BY <1>0, <2>2 DEF AcceptedEnds, FinalEnds
  <2>8. AttemptStored(d)' BY <1>1, <2>5 DEF AttemptStored, Live
  <2> QED BY <2>6, <2>7, <2>8 DEF Single
<1>4. CASE j.delivery # d
  <2>1. ~Live(c, d)' BY <1>1, <1>4 DEF Live, Holds
  <2>2. \A q \in Queue, i \in Job : i.delivery = d => queue'[q][i] = queue[q][i]
    BY <1>0, <1>4
  <2> QED BY <1>0, <1>2, <2>1, <2>2, StoredKept, SingleFrame
<1> QED BY <1>3, <1>4

\* Send publishes the first copy of a delivery.
LEMMA SendSingle ==
  ASSUME CopyInv, [Next]_vars, NEW d \in Delivery, Single(d),
         NEW n \in Notification, NEW ch \in Channel, SendChannel(n, ch)
  PROVE  Single(d)'
<1> DEFINE j == [delivery |-> <<n, ch>>, attempt |-> 0]
<1>0. /\ IndInv /\ TypeOK /\ j \in Job /\ j.delivery = <<n, ch>>
      /\ channelQueue(ch) \in Queue /\ queue' = Added(channelQueue(ch), j)
      /\ row' = row /\ accepted' = accepted /\ UNCHANGED <<pc, held, result>>
  BY ChannelQueueType, PipelineAssumption
     DEF CopyInv, IndInv, SendChannel, Job, Delivery, AttemptCap, database, workers, history
<1>1. \A c \in Consumer : Live(c, d)' <=> Live(c, d) BY <1>0 DEF Live, Holds
<1>2. CASE d = <<n, ch>>
  <2>1. d[2] \notin published[d[1]] BY <1>2 DEF SendChannel
  <2>2. /\ ~InQueue(d) /\ \A c \in Consumer : ~Holds(c, d)
        /\ accepted[d] = 0
    BY <1>0, <2>1 DEF CopyInv, CopiesPublished, TypeOK
  <2>3. row[d] = "none" BY <1>0, <1>2 DEF IndInv, TransactionOK, SendChannel
  <2> QED BY <1>0, <1>1, <1>2, <2>2, <2>3, SinglePublish DEF Live, Final
<1>3. CASE d # <<n, ch>>
  <2>1. \A p \in Queue, i \in Job : i.delivery = d => queue'[p][i] = queue[p][i]
    BY <1>0, <1>3, AddedElsewhere
  <2> QED BY <1>0, <1>1, <2>1, StoredKept, SingleFrame
<1> QED BY <1>2, <1>3

\* Without a fault every AMQP channel is open and every delivery has one copy.
LEMMA NextOrderly ==
  ASSUME CopyInv, [Next]_vars
  PROVE  Orderly'
<1> SUFFICES ASSUME faults' = 0
             PROVE  open' = Consumer /\ \A d \in Delivery \ missed' : Single(d)'
  BY DEF Orderly
<1>0. IndInv /\ faults = 0 /\ ~Fault /\ open = Consumer BY NoFaultYet DEF CopyInv, Orderly
<1>1. open' = Consumer
  <2>1. ASSUME NEW c \in Consumer, Work(c) PROVE open' = open
    BY <2>1 DEF Work, Ack, CheckControl, MarkPaused, MarkStopped, MarkSending, ProviderSend,
        RecordStatus, RecordAttempt, PublishRetry, RouteDead, RouteAgain, CountRetry,
        MarkDead, Nack, NextMessage
  <2>2. ASSUME NEW c \in Consumer, NEW j \in Job, Receive(c, j) PROVE open' = open
    BY <2>2 DEF Receive
  <2>3. ASSUME NEW n \in Notification, Send(n) \/ SendAbort(n) PROVE open' = open
    BY <2>3 DEF Send, SendBegin, SendChannel, SendCommit, SendAbort, workers
  <2>4. ASSUME NEW l \in ManagedLane, NEW s \in ControlStatus, UpdateQueueControl(l, s)
        PROVE  open' = open
    BY <2>4 DEF UpdateQueueControl, workers
  <2>5. UNCHANGED vars => open' = open BY DEF vars, workers
  <2>6. \A c \in Consumer : ~Crash(c) /\ ~LoseChannel(c) BY <1>0 DEF Crash, LoseChannel
  <2>7. \A q \in Queue, j \in Job : ~BrokerDrop(q, j) BY <1>0 DEF BrokerDrop
  <2> QED BY <1>0, <2>1, <2>2, <2>3, <2>4, <2>5, <2>6, <2>7 DEF Next
<1>2. ASSUME NEW d \in Delivery, d \notin missed'
      PROVE  Single(d)'
  <2>0. Single(d) BY <1>0, <1>2, MarksGrow DEF CopyInv, Orderly
  <2>1. ASSUME NEW c \in Consumer, Work(c) PROVE Single(d)'
    BY <1>0, <1>2, <2>0, <2>1, WorkOn, WorkElsewhere
  <2>2. ASSUME NEW c \in Consumer, NEW j \in Job, Receive(c, j) PROVE Single(d)'
    BY <1>0, <2>0, <2>2, ReceiveSingle
  <2>3. ASSUME NEW n \in Notification, NEW ch \in Channel, SendChannel(n, ch)
        PROVE  Single(d)'
    BY <2>0, <2>3, SendSingle
  <2>4. ASSUME UNCHANGED <<queue, pc, held, result, accepted>>,
               row'[d] = row[d] \/ row'[d] = "queued"
        PROVE  Single(d)'
    <3>1. \A c \in Consumer : Live(c, d)' <=> Live(c, d) BY <2>4 DEF Live, Holds
    <3>2. row'[d] = row[d] \/ row'[d] \notin Final BY <2>4 DEF Final
    <3> QED BY <1>0, <2>0, <2>4, <3>1, <3>2, StoredKept, SingleFrame
  <2>5. ASSUME NEW n \in Notification, SendBegin(n) \/ SendCommit(n) PROVE Single(d)'
    BY <2>4, <2>5 DEF SendBegin, SendCommit, database, workers, history
  <2>6. ASSUME NEW l \in ManagedLane, NEW s \in ControlStatus, UpdateQueueControl(l, s)
        PROVE  Single(d)'
    BY <2>4, <2>6 DEF UpdateQueueControl, workers, history
  <2>7. UNCHANGED vars => Single(d)' BY <2>4 DEF vars, database, workers, history
  <2>8. \A n \in Notification : ~SendAbort(n) BY <1>0 DEF SendAbort
  <2>9. \A c \in Consumer : ~Crash(c) /\ ~LoseChannel(c) BY <1>0 DEF Crash, LoseChannel
  <2>10. \A q \in Queue, j \in Job : ~BrokerDrop(q, j) BY <1>0 DEF BrokerDrop
  <2> QED BY <2>1, <2>2, <2>3, <2>5, <2>6, <2>7, <2>8, <2>9, <2>10 DEF Next, Send
<1> QED BY <1>1, <1>2

\* A job is queued by Send or by a worker that holds a job of the delivery.
LEMMA QueueOrigin ==
  ASSUME IndInv, [Next]_vars, NEW d \in Delivery, InQueue(d)', ~InQueue(d)
  PROVE  \/ \E c \in Consumer : Holds(c, d)
         \/ d[2] \in published'[d[1]]
<1>0. TypeOK /\ \A q \in Queue, i \in Job : queue[q][i] \in Nat BY DEF IndInv, TypeOK
<1>1. queue' # queue BY DEF InQueue
<1>2. ASSUME NEW q \in Queue, NEW j \in Job, queue' = Added(q, j)
      PROVE  j.delivery = d
  BY <1>0, <1>2, AddedElsewhere DEF InQueue
<1>3. ASSUME NEW q \in Queue, NEW j \in Job, queue[q][j] > 0, queue' = Removed(q, j)
      PROVE  FALSE
  BY <1>0, <1>3, RemovedFacts DEF InQueue
<1>4. ASSUME NEW c \in Consumer, Work(c) \/ Crash(c) \/ LoseChannel(c)
      PROVE  Holds(c, d)
  <2>0. /\ QueueOf[c] \in Queue /\ RetryQueue \in Queue /\ DeadQueue \in Queue
        /\ held[c] # NoJob => held[c] \in Job /\ channelQueue(DeliveryOf(c)[2]) \in Queue
    BY HeldFacts, ChannelQueueType, PipelineAssumption DEF Queue, DeliveryOf, Delivery
  <2>1. CASE queue' = Requeued(c)
    BY <1>1, <1>2, <2>0, <2>1 DEF Requeued, Holds
  <2>2. CASE PublishRetry(c) \/ RouteDead(c) \/ RouteAgain(c)
    <3>1. held[c] # NoJob
      BY <2>2 DEF PublishRetry, RouteDead, RouteAgain, IndInv, ConsumersOK, ConsumerOK
    <3>2. c \in open
      BY <1>1, <2>2 DEF PublishRetry, RouteDead, RouteAgain, AfterPublish
    <3>3. \E q \in Queue, j \in Job : queue' = Added(q, j) /\ j.delivery = DeliveryOf(c)
      BY <2>2, <3>2, PassedOn
    <3> QED BY <1>2, <3>1, <3>3 DEF Holds, DeliveryOf
  <2>3. CASE ~(queue' = Requeued(c) \/ PublishRetry(c) \/ RouteDead(c) \/ RouteAgain(c))
    BY <1>1, <1>4, <2>3 DEF Work, Ack, CheckControl, MarkPaused, MarkStopped, MarkSending,
      ProviderSend, RecordStatus, RecordAttempt, CountRetry, MarkDead, Nack, Crash, LoseChannel
  <2> QED BY <2>1, <2>2, <2>3
<1>5. ASSUME NEW c \in Consumer, NEW j \in Job, Receive(c, j) PROVE FALSE
  BY <1>3, <1>5, PipelineAssumption DEF Receive
<1>6. ASSUME NEW q \in Queue, NEW j \in Job, BrokerDrop(q, j) PROVE FALSE
  BY <1>3, <1>6 DEF BrokerDrop
<1>7. ASSUME NEW n \in Notification, NEW ch \in Channel, SendChannel(n, ch)
      PROVE  d[2] \in published'[d[1]]
  <2> DEFINE j == [delivery |-> <<n, ch>>, attempt |-> 0]
  <2>1. j \in Job /\ j.delivery = <<n, ch>> /\ channelQueue(ch) \in Queue
    BY ChannelQueueType, PipelineAssumption DEF Job, Delivery, AttemptCap
  <2>2. d = <<n, ch>> BY <1>2, <1>7, <2>1 DEF SendChannel
  <2> QED BY <1>0, <1>7, <2>2 DEF SendChannel, TypeOK
<1>8. ASSUME NEW n \in Notification, SendBegin(n) \/ SendCommit(n) \/ SendAbort(n)
      PROVE  queue' = queue
  BY <1>8 DEF SendBegin, SendCommit, SendAbort
<1>9. ASSUME NEW l \in ManagedLane, NEW s \in ControlStatus, UpdateQueueControl(l, s)
      PROVE  queue' = queue
  BY <1>9 DEF UpdateQueueControl
<1>10. UNCHANGED vars => queue' = queue BY DEF vars
<1> QED BY <1>1, <1>4, <1>5, <1>6, <1>7, <1>8, <1>9, <1>10 DEF Next, Send

\* What is published stays so.
LEMMA PublishedGrows ==
  ASSUME IndInv, [Next]_vars, NEW n \in Notification
  PROVE  published[n] \subseteq published'[n]
<1>0. published \in [Notification -> SUBSET Channel] BY DEF IndInv, TypeOK
<1>1. ASSUME NEW m \in Notification, Send(m) \/ SendAbort(m)
      PROVE  published[n] \subseteq published'[n]
  BY <1>0, <1>1 DEF Send, SendBegin, SendChannel, SendCommit, SendAbort
<1>2. ASSUME NEW c \in Consumer, Work(c) PROVE published' = published
  BY <1>2 DEF Work, Ack, CheckControl, MarkPaused, MarkStopped, MarkSending,
      ProviderSend, RecordStatus, RecordAttempt, PublishRetry, RouteDead, RouteAgain,
      CountRetry, MarkDead, sender
<1>3. ASSUME NEW c \in Consumer, Crash(c) \/ LoseChannel(c) \/ \E j \in Job : Receive(c, j)
      PROVE  published' = published
  BY <1>3 DEF Crash, LoseChannel, Receive, sender
<1>4. ASSUME NEW l \in ManagedLane, NEW s \in ControlStatus, UpdateQueueControl(l, s)
      PROVE  published' = published
  BY <1>4 DEF UpdateQueueControl, sender
<1>5. ASSUME NEW q \in Queue, NEW j \in Job, BrokerDrop(q, j) PROVE published' = published
  BY <1>5 DEF BrokerDrop, sender
<1>6. UNCHANGED vars => published' = published BY DEF vars, sender
<1> QED BY <1>1, <1>2, <1>3, <1>4, <1>5, <1>6 DEF Next

\* Every step keeps the copies and the provider calls to what was published.
LEMMA NextCopiesPublished ==
  ASSUME IndInv, CopiesPublished, [Next]_vars
  PROVE  CopiesPublished'
<1> SUFFICES ASSUME NEW d \in Delivery,
                    InQueue(d)' \/ (\E c \in Consumer : Holds(c, d)') \/ accepted'[d] > 0
             PROVE  d[2] \in published'[d[1]]
  BY DEF CopiesPublished
<1>0. d[1] \in Notification BY DEF Delivery
<1>1. d[2] \in published[d[1]] => d[2] \in published'[d[1]] BY <1>0, PublishedGrows
<1>2. CASE InQueue(d)' BY <1>1, <1>2, QueueOrigin DEF CopiesPublished
<1>3. ASSUME NEW c \in Consumer, Holds(c, d)' PROVE d[2] \in published'[d[1]]
  <2>1. Holds(c, d) \/ InQueue(d)
    BY <1>3, HeldStep, PipelineAssumption DEF Holds, InQueue
  <2> QED BY <1>1, <2>1 DEF CopiesPublished
<1>4. CASE accepted'[d] > 0
  <2>1. CASE accepted'[d] = accepted[d] BY <1>1, <1>4, <2>1 DEF CopiesPublished
  <2>2. ASSUME NEW c \in Consumer, ProviderSend(c), accepted'[d] # accepted[d]
        PROVE  Holds(c, d)
    <3>1. held[c] # NoJob BY <2>2 DEF ProviderSend, IndInv, ConsumersOK, ConsumerOK
    <3>2. DeliveryOf(c) = d BY <2>2 DEF ProviderSend, IndInv, TypeOK
    <3> QED BY <3>1, <3>2 DEF Holds, DeliveryOf
  <2>3. UNCHANGED <<sends, accepted>> \/ \E c \in Consumer : ProviderSend(c)
    BY ProviderOrNot
  <2> QED BY <1>1, <2>1, <2>2, <2>3 DEF CopiesPublished
<1> QED BY <1>2, <1>3, <1>4

\* The invariant is inductive.
LEMMA NextCopyInv == CopyInv /\ [Next]_vars => CopyInv'
BY NextIndInv, NextCopiesPublished, NextOrderly DEF CopyInv

\* It holds in every reachable state.
THEOREM CopyInvariance == Spec => []CopyInv
BY InitCopyInv, NextCopyInv, PTL DEF Spec

\* The recipient gets a notification twice only after a crash, a lost channel
\* or a failed statement, or when a worker overtook Send's commit: replicas,
\* pauses, retries and requeueing alone never duplicate a job.
THEOREM SentOnce == Spec => []NoDuplicateSend
<1>1. CopyInv => NoDuplicateSend
  <2> SUFFICES ASSUME CopyInv, NEW d \in Delivery, accepted[d] > 1, faults = 0, d \notin missed
               PROVE  FALSE
    BY DEF NoDuplicateSend, CopyInv, IndInv, TypeOK
  <2>1. AcceptedEnds(d) BY DEF CopyInv, Orderly, Single
  <2> QED BY <2>1 DEF AcceptedEnds
<1> QED BY <1>1, CopyInvariance, PTL

\* A worker or Send that overwrites a final status had a second copy.
LEMMA FinalOverwritten ==
  ASSUME CopyInv, [Next]_vars, NEW d \in Delivery, row[d] \in Final, row'[d] # row[d]
  PROVE  faults > 0 \/ d \in missed
<1>0. IndInv /\ TypeOK /\ faults \in Nat /\ row \in [Delivery -> Statuses]
  BY PipelineAssumption DEF CopyInv, IndInv, TypeOK
<1>1. ASSUME NEW c \in Consumer,
             MarkPaused(c) \/ MarkStopped(c) \/ MarkSending(c) \/ RecordStatus(c) \/ MarkDead(c)
      PROVE  faults > 0 \/ d \in missed
  <2>1. pc[c] \in {"paused", "stopped", "start", "record", "bury"}
    BY <1>1 DEF MarkPaused, MarkStopped, MarkSending, RecordStatus, MarkDead
  <2>2. held[c] # NoJob BY <1>0, <2>1 DEF IndInv, ConsumersOK, ConsumerOK
  <2>3. DeliveryOf(c) = d
    BY <1>0, <1>1 DEF MarkPaused, MarkStopped, MarkSending, RecordStatus, MarkDead, UpdateStatus
  <2>4. Live(c, d) /\ pc[c] # "attempt" BY <2>1, <2>2, <2>3 DEF Live, Holds, DeliveryOf
  <2>5. ~FinalEnds(d) BY <2>4 DEF FinalEnds
  <2>6. faults = 0 => d \in missed BY <2>5 DEF CopyInv, Orderly, Single
  <2> QED BY <1>0, <2>6
<1>2. ASSUME NEW n \in Notification, Send(n) \/ SendAbort(n) PROVE row'[d] = row[d]
  <2>1. CASE SendCommit(n)
    <3>1. d[1] # n BY <1>0, <2>1 DEF SendCommit, IndInv, TransactionOK, Final
    <3> QED BY <2>1, <3>1 DEF SendCommit
  <2>2. CASE ~SendCommit(n)
    BY <1>2, <2>2 DEF Send, SendBegin, SendChannel, SendAbort, database
  <2> QED BY <2>1, <2>2
<1>3. ASSUME NEW c \in Consumer,
             \/ Ack(c) \/ CheckControl(c) \/ ProviderSend(c) \/ RecordAttempt(c)
             \/ PublishRetry(c) \/ RouteDead(c) \/ RouteAgain(c) \/ CountRetry(c)
             \/ Crash(c) \/ LoseChannel(c) \/ \E j \in Job : Receive(c, j)
      PROVE  row' = row
  BY <1>3 DEF Ack, CheckControl, ProviderSend, RecordAttempt, PublishRetry, RouteDead,
      RouteAgain, CountRetry, Crash, LoseChannel, Receive, database
<1>4. ASSUME NEW l \in ManagedLane, NEW s \in ControlStatus, UpdateQueueControl(l, s)
      PROVE  row' = row
  BY <1>4 DEF UpdateQueueControl
<1>5. ASSUME NEW q \in Queue, NEW j \in Job, BrokerDrop(q, j)
      PROVE  row' = row
  BY <1>5 DEF BrokerDrop, database
<1>6. UNCHANGED vars => row' = row BY DEF vars, database
<1> QED BY <1>1, <1>2, <1>3, <1>4, <1>5, <1>6 DEF Next, Work

\* Sent, blocked and dead are final: a step overwrites them only after a fault
\* or for a job that overtook Send's commit.
THEOREM FinalIsStable == Spec => FinalStatusStable
<1>1. CopyInv /\ [Next]_vars =>
        [\A d \in Delivery :
           row[d] \in Final /\ row'[d] # row[d] => faults > 0 \/ d \in missed]_vars
  BY FinalOverwritten
<1> QED BY <1>1, CopyInvariance, PTL DEF Spec, FinalStatusStable

=============================================================================
