----------------------------- MODULE Scheduler ------------------------------
(***************************************************************************)
(* Scheduled notifications.  Send stores a notification with a row of      *)
(* scheduled_jobs in one transaction; the scheduler processes              *)
(* (worker.RunScheduler) run a pass of RouteDueScheduled on every tick: it *)
(* selects the due pending jobs, and for each of them inserts a delivery   *)
(* row and publishes a job per channel, then marks the job 'queued'.       *)
(*                                                                         *)
(* Nothing ties these statements together: each commits on its own, the    *)
(* selection is not locked (no FOR UPDATE) and is a snapshot, and any      *)
(* error ends the pass.  Several scheduler processes may run.              *)
(***************************************************************************)
EXTENDS Naturals, FiniteSets

CONSTANTS
  Notification,  \* notifications that may be scheduled
  Channel,       \* channel names
  Process,       \* scheduler processes
  DueAt,         \* scheduled_jobs.due_at of each notification
  BatchLimit,    \* LIMIT of the selection (100)
  MaxTime,       \* bound: the clock stops here
  RowCap,        \* bound: delivery rows are counted up to this number
  MaxFaults,     \* bound: crashes, lost channels, failed statements
  None           \* no notification or channel at hand

ASSUME SchedulerAssumption ==
  /\ DueAt \in [Notification -> Nat]
  /\ BatchLimit \in Nat \ {0}
  /\ MaxTime \in Nat
  /\ RowCap \in Nat
  /\ MaxFaults \in Nat
  /\ IsFiniteSet(Process)
  /\ None \notin Notification \cup Channel

VARIABLES
  job,       \* scheduled_jobs.status, "none" when there is no row
  channels,  \* notifications.channels
  now,       \* the database's clock
  rows,      \* delivery rows inserted for each notification and channel
  published, \* delivery jobs published for each notification and channel
  pc,        \* where each process is: between passes or inside one
  batch,     \* rows of the selection the pass has not come to yet
  current,   \* the job the pass is routing
  todo,      \* its channels still to do
  at,        \* the channel whose delivery row was just inserted
  open,      \* processes whose AMQP channel is open
  overlap,   \* history: jobs two passes had at the same time
  faults     \* faults so far

tables == <<job, channels, rows, published>>
pass   == <<pc, batch, current, todo, at>>
vars   == <<tables, now, pass, open, overlap, faults>>

TypeOK ==
  /\ job       \in [Notification -> {"none", "pending", "queued"}]
  /\ channels  \in [Notification -> SUBSET Channel]
  /\ now       \in Nat
  /\ rows      \in [Notification \X Channel -> Nat]
  /\ published \in [Notification \X Channel -> Nat]
  /\ pc        \in [Process -> {"idle", "next", "channel", "publish"}]
  /\ batch     \in [Process -> SUBSET Notification]
  /\ current   \in [Process -> Notification \cup {None}]
  /\ todo      \in [Process -> SUBSET Channel]
  /\ at        \in [Process -> Channel \cup {None}]
  /\ open      \in SUBSET Process
  /\ overlap   \in SUBSET Notification
  /\ faults    \in 0..MaxFaults

Init ==
  /\ job       = [n \in Notification |-> "none"]
  /\ channels  = [n \in Notification |-> {}]
  /\ now       = 0
  /\ rows      = [d \in Notification \X Channel |-> 0]
  /\ published = [d \in Notification \X Channel |-> 0]
  /\ pc        = [p \in Process |-> "idle"]
  /\ batch     = [p \in Process |-> {}]
  /\ current   = [p \in Process |-> None]
  /\ todo      = [p \in Process |-> {}]
  /\ at        = [p \in Process |-> None]
  /\ open      = Process
  /\ overlap   = {}
  /\ faults    = 0

Fault   == faults < MaxFaults /\ faults' = faults + 1
NoFault == UNCHANGED faults

-----------------------------------------------------------------------------
\* Send with schedule.type = "scheduled": one transaction, nothing published.
Schedule(n) ==
  /\ job[n] = "none"
  /\ job' = [job EXCEPT ![n] = "pending"]
  /\ \E chs \in SUBSET Channel \ {{}} : channels' = [channels EXCEPT ![n] = chs]
  /\ UNCHANGED <<rows, published, now, pass, open, overlap, faults>>

Tick ==
  /\ now < MaxTime
  /\ now' = now + 1
  /\ UNCHANGED <<tables, pass, open, overlap, faults>>

Due(n) == job[n] = "pending" /\ DueAt[n] <= now

\* Mutant: due_at is compared with the current tick instead of any earlier one.
SelectionThisTick(b) ==
  LET DueNow(n) == Due(n) /\ DueAt[n] = now
  IN /\ \A n \in b : DueNow(n)
     /\ Cardinality(b) <= BatchLimit
     /\ \A n \in Notification \ b : DueNow(n) => Cardinality(b) = BatchLimit

\* What the selection may return: the BatchLimit due jobs with the least due_at.
Selection(b) ==
  /\ \A n \in b : Due(n)
  /\ Cardinality(b) <= BatchLimit
  /\ \A n \in Notification \ b : Due(n) =>
       /\ Cardinality(b) = BatchLimit
       /\ \A m \in b : DueAt[m] <= DueAt[n]

\* The jobs process q has selected and not finished.
InHand(q) == batch[q] \cup ({current[q]} \ {None})

StartPass(p) ==
  /\ pc[p] = "idle"
  /\ \E b \in SUBSET Notification \ {{}} :
       /\ Selection(b)
       /\ batch' = [batch EXCEPT ![p] = b]
       /\ overlap' = overlap \cup {n \in b : \E q \in Process \ {p} : n \in InHand(q)}
  /\ pc' = [pc EXCEPT ![p] = "next"]
  /\ UNCHANGED <<tables, now, current, todo, at, open, faults>>

EndPass(p) ==
  /\ pc'      = [pc      EXCEPT ![p] = "idle"]
  /\ batch'   = [batch   EXCEPT ![p] = {}]
  /\ current' = [current EXCEPT ![p] = None]
  /\ todo'    = [todo    EXCEPT ![p] = {}]
  /\ at'      = [at      EXCEPT ![p] = None]

\* rows.Next: the next job by due_at, or the end of the pass.
NextJob(p) ==
  /\ pc[p] = "next"
  /\ \/ /\ \E n \in batch[p] :
             /\ \A m \in batch[p] : DueAt[n] <= DueAt[m]
             /\ current' = [current EXCEPT ![p] = n]
             /\ batch'   = [batch EXCEPT ![p] = @ \ {n}]
             /\ todo'    = [todo EXCEPT ![p] = channels[n]]
        /\ pc' = [pc EXCEPT ![p] = "channel"]
        /\ UNCHANGED at
     \/ batch[p] = {} /\ EndPass(p)
  /\ UNCHANGED <<tables, now, open, overlap, faults>>

\* An error of any statement, of rows.Next or of the context: return err.
PassFails(p) ==
  /\ pc[p] # "idle"
  /\ Fault
  /\ EndPass(p)
  /\ UNCHANGED <<tables, now, open, overlap>>

\* INSERT INTO notification_deliveries, committed at once.
InsertDelivery(p) ==
  /\ pc[p] = "channel"
  /\ \E ch \in todo[p] :
       /\ rows' = [rows EXCEPT ![<<current[p], ch>>] = IF @ < RowCap THEN @ + 1 ELSE @]
       /\ at' = [at EXCEPT ![p] = ch]
  /\ pc' = [pc EXCEPT ![p] = "publish"]
  /\ UNCHANGED <<job, channels, published, now, batch, current, todo, open, overlap, faults>>

\* Mutant: the error of Publish is logged and the loop goes on.
PublishJobUnchecked(p) ==
  /\ pc[p] = "publish"
  /\ IF p \in open
       THEN published' = [published EXCEPT ![<<current[p], at[p]>>] = @ + 1]
       ELSE UNCHANGED published
  /\ todo' = [todo EXCEPT ![p] = @ \ {at[p]}]
  /\ at'   = [at EXCEPT ![p] = None]
  /\ pc'   = [pc EXCEPT ![p] = "channel"]
  /\ UNCHANGED <<job, channels, rows, now, batch, current, open, overlap, faults>>

\* EnsureControl, then Publish, which fails on a closed AMQP channel.
PublishJob(p) ==
  /\ pc[p] = "publish"
  /\ \/ /\ p \in open
        /\ published' = [published EXCEPT ![<<current[p], at[p]>>] = @ + 1]
        /\ todo' = [todo EXCEPT ![p] = @ \ {at[p]}]
        /\ at'   = [at EXCEPT ![p] = None]
        /\ pc'   = [pc EXCEPT ![p] = "channel"]
        /\ UNCHANGED <<batch, current>>
     \/ /\ p \notin open
        /\ EndPass(p)
        /\ UNCHANGED published
  /\ UNCHANGED <<job, channels, rows, now, open, overlap, faults>>

\* Mutant: the pass leaves the job after its first channel.
MarkQueuedEarly(p) ==
  /\ pc[p] = "publish"
  /\ job'     = [job EXCEPT ![current[p]] = "queued"]
  /\ current' = [current EXCEPT ![p] = None]
  /\ pc'      = [pc EXCEPT ![p] = "next"]
  /\ UNCHANGED <<channels, rows, published, now, batch, todo, at, open, overlap, faults>>

\* Mutant: the job is never marked.
MarkQueuedForgotten(p) ==
  /\ pc[p] = "channel"
  /\ todo[p] = {}
  /\ current' = [current EXCEPT ![p] = None]
  /\ pc'      = [pc EXCEPT ![p] = "next"]
  /\ UNCHANGED <<tables, now, batch, todo, at, open, overlap, faults>>

\* UPDATE scheduled_jobs SET status = 'queued', whatever the status is by now.
MarkQueued(p) ==
  /\ pc[p] = "channel"
  /\ todo[p] = {}
  /\ job'     = [job EXCEPT ![current[p]] = "queued"]
  /\ current' = [current EXCEPT ![p] = None]
  /\ pc'      = [pc EXCEPT ![p] = "next"]
  /\ UNCHANGED <<channels, rows, published, now, batch, todo, at, open, overlap, faults>>

-----------------------------------------------------------------------------
\* The process dies and is started again.
Crash(p) ==
  /\ Fault
  /\ EndPass(p)
  /\ open' = open \cup {p}
  /\ UNCHANGED <<tables, now, overlap>>

\* The AMQP channel closes; RunScheduler never reconnects.
LoseChannel(p) ==
  /\ p \in open
  /\ Fault
  /\ open' = open \ {p}
  /\ UNCHANGED <<tables, now, pass, overlap>>

Pass(p) == NextJob(p) \/ InsertDelivery(p) \/ PublishJob(p) \/ MarkQueued(p)

Next ==
  \/ \E n \in Notification : Schedule(n)
  \/ Tick
  \/ \E p \in Process : StartPass(p) \/ Pass(p) \/ PassFails(p)
  \/ \E p \in Process : Crash(p) \/ LoseChannel(p)

Spec == Init /\ [][Next]_vars

\* The ticker starts passes for ever and a pass waits on no other process.
FairSpec == Spec /\ \A p \in Process : WF_vars(StartPass(p) \/ Pass(p))

-----------------------------------------------------------------------------
(***************************************************************************)
(* A job is marked 'queued' only after a delivery job was published for    *)
(* every channel of the notification, whatever passes failed on the way.   *)
(***************************************************************************)
QueuedMeansPublished ==
  \A n \in Notification : job[n] = "queued" =>
    \A ch \in channels[n] : published[<<n, ch>>] > 0

(***************************************************************************)
(* A channel is published twice only after a fault or when two passes had  *)
(* selected the job at the same time: the selection takes no lock.         *)
(***************************************************************************)
NoDuplicateJob ==
  \A n \in Notification, ch \in Channel :
    published[<<n, ch>>] > 1 => faults > 0 \/ n \in overlap

\* The processes that have inserted a delivery row and are about to publish its job.
Publishing(n, ch) == {p \in Process : pc[p] = "publish" /\ current[p] = n /\ at[p] = ch}

(***************************************************************************)
(* Without a fault every delivery row has its published job or a pass is   *)
(* about to publish it: no row is left 'queued' with no job behind it, and *)
(* no job is published without its row.  Rows are counted up to RowCap.    *)
(***************************************************************************)
RowsHaveJobs ==
  faults = 0 =>
    \A n \in Notification, ch \in Channel :
      LET jobs == published[<<n, ch>>] + Cardinality(Publishing(n, ch))
      IN rows[<<n, ch>>] = IF jobs < RowCap THEN jobs ELSE RowCap

\* Every due job is queued in the end if some scheduler keeps its AMQP channel,
\* however many jobs are due at once and although a failed pass starts over.
DueIsQueued ==
  (<>[](open # {})) =>
    \A n \in Notification : Due(n) ~> job[n] = "queued"
=============================================================================
