-------------------------- MODULE SchedulerProofs ---------------------------
(***************************************************************************)
(* Theorems about Scheduler, for any number of notifications, channels,    *)
(* scheduler processes and faults, any due times and any batch limit.      *)
(***************************************************************************)
EXTENDS Scheduler, FiniteSetTheorems, TLAPS

(***************************************************************************)
(* The inductive invariant: a pass only works on stored jobs, and the      *)
(* channels of its current job that it has ticked off are published.       *)
(***************************************************************************)
PassOK(p) ==
  /\ \A n \in batch[p] : job[n] # "none"
  /\ pc[p] \in {"idle", "next"} => current[p] = None
  /\ pc[p] \in {"channel", "publish"} =>
       /\ current[p] \in Notification
       /\ job[current[p]] # "none"
       /\ \A ch \in channels[current[p]] \ todo[p] : published[<<current[p], ch>>] > 0
  /\ pc[p] = "publish" => at[p] \in Channel

PassesOK == \A p \in Process : PassOK(p)

IndInv == TypeOK /\ PassesOK /\ QueuedMeansPublished

LEMMA EndPassType ==
  ASSUME TypeOK, NEW p \in Process, EndPass(p)
  PROVE  /\ pc' \in [Process -> {"idle", "next", "channel", "publish"}]
         /\ batch' \in [Process -> SUBSET Notification]
         /\ current' \in [Process -> Notification \cup {None}]
         /\ todo' \in [Process -> SUBSET Channel]
         /\ at' \in [Process -> Channel \cup {None}]
BY DEF TypeOK, EndPass

\* Publishing counts one more job for one channel of one notification.
LEMMA PublishFacts ==
  ASSUME TypeOK, NEW n \in Notification, NEW ch \in Channel,
         published' = [published EXCEPT ![<<n, ch>>] = @ + 1]
  PROVE  /\ published' \in [Notification \X Channel -> Nat]
         /\ \A m \in Notification, c \in Channel : published'[<<m, c>>] =
              IF m = n /\ c = ch THEN published[<<m, c>>] + 1 ELSE published[<<m, c>>]
<1>1. <<n, ch>> \in Notification \X Channel /\ published \in [Notification \X Channel -> Nat]
  BY DEF TypeOK
<1>2. \A d \in Notification \X Channel :
        published'[d] = IF d = <<n, ch>> THEN published[d] + 1 ELSE published[d]
  BY <1>1
<1>3. \A m \in Notification, c \in Channel : <<m, c>> \in Notification \X Channel
  OBVIOUS
<1>4. published' \in [Notification \X Channel -> Nat] BY <1>1
<1> QED BY <1>2, <1>3, <1>4

\* Where a pass publishes, it has a notification and a channel at hand.
LEMMA PublishStep ==
  ASSUME IndInv, NEW p \in Process, PublishJob(p), p \in open
  PROVE  /\ current[p] \in Notification /\ at[p] \in Channel
         /\ published' \in [Notification \X Channel -> Nat]
         /\ \A m \in Notification, c \in Channel : published'[<<m, c>>] =
              IF m = current[p] /\ c = at[p]
                THEN published[<<m, c>>] + 1 ELSE published[<<m, c>>]
<1>1. /\ TypeOK /\ current[p] \in Notification /\ at[p] \in Channel
      /\ published' = [published EXCEPT ![<<current[p], at[p]>>] = @ + 1]
  BY DEF IndInv, PassesOK, PassOK, PublishJob
<1>2. PICK n \in Notification, ch \in Channel : n = current[p] /\ ch = at[p] BY <1>1
<1>3. published' = [published EXCEPT ![<<n, ch>>] = @ + 1] BY <1>1, <1>2
<1>4. /\ published' \in [Notification \X Channel -> Nat]
      /\ \A m \in Notification, c \in Channel : published'[<<m, c>>] =
           IF m = n /\ c = ch THEN published[<<m, c>>] + 1 ELSE published[<<m, c>>]
  BY <1>1, <1>3, PublishFacts
<1> QED BY <1>1, <1>2, <1>4

\* Every step keeps the types.
LEMMA NextTypeOK ==
  ASSUME IndInv, [Next]_vars
  PROVE  TypeOK'
<1>0. TypeOK /\ PassesOK BY DEF IndInv
<1> USE <1>0, SchedulerAssumption DEF tables, pass
<1>1. ASSUME NEW n \in Notification, Schedule(n) PROVE TypeOK'
  BY <1>1 DEF TypeOK, Schedule
<1>2. CASE Tick BY <1>2 DEF TypeOK, Tick
<1>3. ASSUME NEW p \in Process, StartPass(p) PROVE TypeOK'
  BY <1>3 DEF TypeOK, StartPass
<1>4. ASSUME NEW p \in Process, NextJob(p) PROVE TypeOK'
  <2>1. CASE EndPass(p) BY <1>4, <2>1, EndPassType DEF TypeOK, NextJob
  <2>2. CASE ~EndPass(p)
    <3>1. PICK n \in batch[p] :
            /\ current' = [current EXCEPT ![p] = n]
            /\ batch'   = [batch EXCEPT ![p] = @ \ {n}]
            /\ todo'    = [todo EXCEPT ![p] = channels[n]]
      BY <1>4, <2>2 DEF NextJob
    <3>2. n \in Notification BY <3>1 DEF TypeOK
    <3>3. /\ current' \in [Process -> Notification \cup {None}]
          /\ batch' \in [Process -> SUBSET Notification]
          /\ todo' \in [Process -> SUBSET Channel]
      BY <3>1, <3>2 DEF TypeOK
    <3>4. pc' = [pc EXCEPT ![p] = "channel"] /\ UNCHANGED at BY <1>4, <2>2 DEF NextJob
    <3> QED BY <1>4, <3>3, <3>4 DEF TypeOK, NextJob
  <2> QED BY <2>1, <2>2
<1>5. ASSUME NEW p \in Process, PassFails(p) \/ Crash(p) PROVE TypeOK'
  <2>1. EndPass(p) /\ Fault BY <1>5 DEF PassFails, Crash
  <2>2. faults' \in 0..MaxFaults BY <2>1 DEF TypeOK, Fault
  <2> QED BY <1>5, <2>1, <2>2, EndPassType DEF TypeOK, PassFails, Crash
<1>6. ASSUME NEW p \in Process, InsertDelivery(p) PROVE TypeOK'
  <2>1. rows' \in [Notification \X Channel -> Nat]
    <3>1. current[p] \in Notification BY <1>6 DEF InsertDelivery, PassesOK, PassOK
    <3>2. PICK ch \in todo[p] :
            rows' = [rows EXCEPT ![<<current[p], ch>>] = IF @ < RowCap THEN @ + 1 ELSE @]
      BY <1>6 DEF InsertDelivery
    <3>3. <<current[p], ch>> \in Notification \X Channel BY <3>1 DEF TypeOK
    <3> QED BY <3>2, <3>3 DEF TypeOK
  <2> QED BY <1>6, <2>1 DEF TypeOK, InsertDelivery
<1>7. ASSUME NEW p \in Process, PublishJob(p) PROVE TypeOK'
  <2>1. CASE p \in open
    <3>1. published' \in [Notification \X Channel -> Nat]
      BY <1>7, <2>1, PublishStep
    <3>2. /\ todo' = [todo EXCEPT ![p] = @ \ {at[p]}]
          /\ at'   = [at EXCEPT ![p] = None]
          /\ pc'   = [pc EXCEPT ![p] = "channel"]
          /\ UNCHANGED <<batch, current>>
          /\ UNCHANGED <<job, channels, rows, now, open, overlap, faults>>
      BY <1>7, <2>1 DEF PublishJob
    <3>3. todo' \in [Process -> SUBSET Channel] BY <3>2 DEF TypeOK
    <3> QED BY <3>1, <3>2, <3>3 DEF TypeOK
  <2>2. CASE p \notin open BY <1>7, <2>2, EndPassType DEF TypeOK, PublishJob
  <2> QED BY <2>1, <2>2
<1>8. ASSUME NEW p \in Process, MarkQueued(p) PROVE TypeOK'
  BY <1>8 DEF TypeOK, MarkQueued
<1>9. ASSUME NEW p \in Process, LoseChannel(p) PROVE TypeOK'
  BY <1>9 DEF TypeOK, LoseChannel, Fault
<1>10. CASE UNCHANGED vars BY <1>10 DEF TypeOK, vars
<1> QED BY <1>1, <1>2, <1>3, <1>4, <1>5, <1>6, <1>7, <1>8, <1>9, <1>10 DEF Next, Pass

\* A step other than Schedule keeps every job's row and channels, and no step
\* takes back a published job.
LEMMA TablesStep ==
  ASSUME IndInv, [Next]_vars, NEW n \in Notification, job[n] # "none"
  PROVE  /\ job'[n] # "none" /\ channels'[n] = channels[n]
         /\ \A ch \in Channel : published'[<<n, ch>>] >= published[<<n, ch>>]
<1>0. TypeOK /\ \A ch \in Channel : published[<<n, ch>>] \in Nat BY DEF IndInv, TypeOK
<1>1. ASSUME NEW m \in Notification, Schedule(m)
      PROVE  job'[n] # "none" /\ channels'[n] = channels[n] /\ published' = published
  BY <1>0, <1>1 DEF TypeOK, Schedule
<1>2. ASSUME NEW p \in Process, PublishJob(p)
      PROVE  /\ UNCHANGED <<job, channels>>
             /\ \A ch \in Channel : published'[<<n, ch>>] >= published[<<n, ch>>]
  <2>1. CASE p \in open
    <3>1. \A ch \in Channel : published'[<<n, ch>>] =
            IF n = current[p] /\ ch = at[p] THEN published[<<n, ch>>] + 1 ELSE published[<<n, ch>>]
      BY <1>0, <1>2, <2>1, PublishStep
    <3> QED BY <1>0, <1>2, <3>1 DEF PublishJob
  <2>2. CASE p \notin open BY <1>0, <1>2, <2>2 DEF PublishJob
  <2> QED BY <2>1, <2>2
<1>3. ASSUME NEW p \in Process, MarkQueued(p)
      PROVE  job'[n] # "none" /\ UNCHANGED <<channels, published>>
  BY <1>0, <1>3 DEF TypeOK, MarkQueued
<1>4. ASSUME NEW p \in Process,
             \/ StartPass(p) \/ NextJob(p) \/ PassFails(p) \/ InsertDelivery(p)
             \/ Crash(p) \/ LoseChannel(p)
      PROVE  UNCHANGED <<job, channels, published>>
  BY <1>4 DEF StartPass, NextJob, PassFails, InsertDelivery, Crash, LoseChannel, tables
<1>5. Tick \/ UNCHANGED vars => UNCHANGED <<job, channels, published>>
  BY DEF Tick, vars, tables
<1> QED BY <1>0, <1>1, <1>2, <1>3, <1>4, <1>5 DEF Next, Pass

\* What a pass had in hand stays consistent while another process moves.
LEMMA OtherPassKept ==
  ASSUME IndInv, [Next]_vars, NEW p \in Process,
         UNCHANGED <<pc[p], batch[p], current[p], todo[p], at[p]>>
  PROVE  PassOK(p)'
<1>0. TypeOK /\ PassOK(p) BY DEF IndInv, PassesOK
<1>1. \A n \in batch[p] : n \in Notification BY <1>0 DEF TypeOK
<1>2. CASE pc[p] \in {"channel", "publish"}
  <2>1. /\ current[p] \in Notification /\ job[current[p]] # "none"
        /\ \A ch \in channels[current[p]] \ todo[p] : published[<<current[p], ch>>] > 0
    BY <1>0, <1>2 DEF PassOK
  <2>2. /\ job'[current[p]] # "none" /\ channels'[current[p]] = channels[current[p]]
        /\ \A ch \in Channel : published'[<<current[p], ch>>] >= published[<<current[p], ch>>]
    BY <2>1, TablesStep
  <2>3. /\ channels[current[p]] \subseteq Channel
        /\ \A ch \in Channel : published[<<current[p], ch>>] \in Nat
        /\ \A ch \in Channel : published'[<<current[p], ch>>] \in Nat
    BY <2>1, <1>0, NextTypeOK DEF TypeOK
  <2>4. \A ch \in channels'[current[p]] \ todo[p] : published'[<<current[p], ch>>] > 0
    BY <2>1, <2>2, <2>3
  <2> QED BY <1>0, <1>1, <1>2, <2>1, <2>2, <2>4, TablesStep DEF PassOK
<1>3. CASE pc[p] \notin {"channel", "publish"}
  BY <1>0, <1>1, <1>3, TablesStep DEF PassOK
<1> QED BY <1>2, <1>3

\* Every step keeps the passes consistent.
LEMMA NextPassesOK ==
  ASSUME IndInv, [Next]_vars
  PROVE  PassesOK'
<1> SUFFICES ASSUME NEW p \in Process PROVE PassOK(p)' BY DEF PassesOK
<1>0. TypeOK /\ PassOK(p) BY DEF IndInv, PassesOK
<1>1. CASE UNCHANGED <<pc[p], batch[p], current[p], todo[p], at[p]>>
  BY <1>1, OtherPassKept
<1>2. CASE StartPass(p)
  <2>1. PICK b \in SUBSET Notification : Selection(b) /\ batch' = [batch EXCEPT ![p] = b]
    BY <1>2 DEF StartPass
  <2>2. \A n \in b : job[n] # "none" BY <2>1 DEF Selection, Due
  <2>3. pc'[p] = "next" /\ batch'[p] = b /\ current'[p] = None /\ job' = job
    BY <1>0, <1>2, <2>1 DEF StartPass, TypeOK, PassOK, tables
  <2> QED BY <2>2, <2>3 DEF PassOK
<1>3. CASE EndPass(p)
  <2>1. batch'[p] = {} /\ pc'[p] = "idle" /\ current'[p] = None
    BY <1>0, <1>3 DEF EndPass, TypeOK
  <2> QED BY <2>1 DEF PassOK
<1>4. CASE NextJob(p) /\ ~EndPass(p)
  <2>1. PICK n \in batch[p] :
          /\ current' = [current EXCEPT ![p] = n]
          /\ batch'   = [batch EXCEPT ![p] = @ \ {n}]
          /\ todo'    = [todo EXCEPT ![p] = channels[n]]
    BY <1>4 DEF NextJob
  <2>2. /\ n \in Notification /\ job[n] # "none"
        /\ current'[p] = n /\ batch'[p] = batch[p] \ {n} /\ todo'[p] = channels[n]
        /\ pc'[p] = "channel" /\ UNCHANGED <<job, channels, published>>
    BY <1>0, <1>4, <2>1 DEF NextJob, TypeOK, PassOK, tables
  <2> QED BY <1>0, <2>2 DEF PassOK
<1>5. CASE InsertDelivery(p)
  <2>1. PICK ch \in todo[p] : at' = [at EXCEPT ![p] = ch] BY <1>5 DEF InsertDelivery
  <2>2. /\ ch \in Channel /\ at'[p] = ch /\ pc'[p] = "publish"
        /\ UNCHANGED <<job, channels, published, batch, current, todo>>
    BY <1>0, <1>5, <2>1 DEF InsertDelivery, TypeOK
  <2> QED BY <1>0, <1>5, <2>2 DEF PassOK, InsertDelivery
<1>6. CASE PublishJob(p) /\ ~EndPass(p)
  <2>1. /\ current[p] \in Notification /\ at[p] \in Channel /\ job[current[p]] # "none"
        /\ \A ch \in channels[current[p]] \ todo[p] : published[<<current[p], ch>>] > 0
    BY <1>0, <1>6 DEF PublishJob, PassOK
  <2>2. /\ todo'[p] = todo[p] \ {at[p]} /\ pc'[p] = "channel"
        /\ UNCHANGED <<job, channels, batch, current>>
    BY <1>0, <1>6 DEF PublishJob, TypeOK
  <2>3. \A ch \in Channel : published[<<current[p], ch>>] \in Nat BY <1>0, <2>1 DEF TypeOK
  <2>4. \A ch \in Channel : published'[<<current[p], ch>>] =
           IF ch = at[p] THEN published[<<current[p], ch>>] + 1 ELSE published[<<current[p], ch>>]
    <3>1. p \in open BY <1>6 DEF PublishJob
    <3> QED BY <1>0, <1>6, <2>1, <3>1, PublishStep
  <2>5. \A ch \in channels[current[p]] \ todo'[p] : published'[<<current[p], ch>>] > 0
    BY <1>0, <2>1, <2>2, <2>3, <2>4 DEF TypeOK
  <2> QED BY <1>0, <2>1, <2>2, <2>5 DEF PassOK
<1>7. CASE MarkQueued(p)
  <2>1. /\ pc'[p] = "next" /\ current'[p] = None /\ batch' = batch
        /\ \A n \in Notification : job[n] # "none" => job'[n] # "none"
    BY <1>0, <1>7 DEF MarkQueued, TypeOK
  <2> QED BY <1>0, <2>1 DEF PassOK, TypeOK
<1>8. ASSUME NEW q \in Process, q # p,
             \/ StartPass(q) \/ Pass(q) \/ PassFails(q) \/ Crash(q) \/ LoseChannel(q)
      PROVE  UNCHANGED <<pc[p], batch[p], current[p], todo[p], at[p]>>
  BY <1>0, <1>8 DEF TypeOK, StartPass, Pass, NextJob, InsertDelivery, PublishJob, MarkQueued,
                    PassFails, Crash, LoseChannel, EndPass, pass
<1>9. ASSUME Tick \/ LoseChannel(p) \/ (\E n \in Notification : Schedule(n)) \/ UNCHANGED vars
      PROVE  UNCHANGED <<pc[p], batch[p], current[p], todo[p], at[p]>>
  BY <1>9 DEF Tick, LoseChannel, Schedule, vars, pass
<1>10. PassFails(p) \/ Crash(p) => EndPass(p) BY DEF PassFails, Crash
<1> QED BY <1>1, <1>2, <1>3, <1>4, <1>5, <1>6, <1>7, <1>8, <1>9, <1>10 DEF Next, Pass

\* Every step keeps the queued jobs published.
LEMMA NextQueuedMeansPublished ==
  ASSUME IndInv, [Next]_vars
  PROVE  QueuedMeansPublished'
<1> SUFFICES ASSUME NEW n \in Notification, job'[n] = "queued",
                    NEW ch \in channels'[n]
             PROVE  published'[<<n, ch>>] > 0
  BY DEF QueuedMeansPublished
<1>0. TypeOK /\ TypeOK' /\ QueuedMeansPublished /\ PassesOK BY NextTypeOK DEF IndInv
<1>1. CASE job[n] = "queued"
  <2>1. ch \in channels[n] /\ ch \in Channel BY <1>0, <1>1, TablesStep DEF TypeOK
  <2>2. published[<<n, ch>>] > 0 /\ published'[<<n, ch>>] >= published[<<n, ch>>]
    BY <1>0, <1>1, <2>1, TablesStep DEF QueuedMeansPublished
  <2>3. published[<<n, ch>>] \in Nat /\ published'[<<n, ch>>] \in Nat
    BY <1>0, <2>1 DEF TypeOK
  <2> QED BY <2>2, <2>3
<1>2. ASSUME NEW p \in Process, MarkQueued(p), job[n] # "queued"
      PROVE  published'[<<n, ch>>] > 0
  <2>1. n = current[p] BY <1>0, <1>2 DEF MarkQueued, TypeOK
  <2>2. \A c \in channels[n] : published[<<n, c>>] > 0
    BY <1>0, <1>2, <2>1 DEF MarkQueued, PassesOK, PassOK
  <2> QED BY <1>2, <2>2 DEF MarkQueued
<1>3. ASSUME NEW m \in Notification, Schedule(m) PROVE job[n] = "queued"
  BY <1>0, <1>3 DEF Schedule, TypeOK
<1>4. ASSUME NEW p \in Process,
             \/ StartPass(p) \/ NextJob(p) \/ PassFails(p) \/ InsertDelivery(p)
             \/ PublishJob(p) \/ Crash(p) \/ LoseChannel(p)
      PROVE  job' = job
  BY <1>4 DEF StartPass, NextJob, PassFails, InsertDelivery, PublishJob, Crash, LoseChannel,
              tables
<1>5. Tick \/ UNCHANGED vars => job' = job BY DEF Tick, vars, tables
<1> QED BY <1>1, <1>2, <1>3, <1>4, <1>5 DEF Next, Pass

LEMMA Inductive == IndInv /\ [Next]_vars => IndInv'
<1> SUFFICES ASSUME IndInv, [Next]_vars PROVE IndInv' OBVIOUS
<1> QED BY NextTypeOK, NextPassesOK, NextQueuedMeansPublished DEF IndInv

LEMMA InitInductive == Init => IndInv
<1> SUFFICES ASSUME Init PROVE IndInv OBVIOUS
<1>1. TypeOK BY SchedulerAssumption DEF Init, TypeOK
<1>2. PassesOK /\ QueuedMeansPublished BY DEF Init, PassesOK, PassOK, QueuedMeansPublished
<1> QED BY <1>1, <1>2 DEF IndInv

\* The jobs, the delivery rows and the passes' local state stay well formed.
THEOREM SchedulerTypeCorrect == Spec => []TypeOK
<1>1. IndInv => TypeOK BY DEF IndInv
<1> QED BY <1>1, InitInductive, Inductive, PTL DEF Spec

\* A scheduled job marked 'queued' has a published delivery job for each of its
\* channels, with any number of overlapping, failing and crashing passes.
THEOREM QueuedJobsArePublished == Spec => []QueuedMeansPublished
<1>1. IndInv => QueuedMeansPublished BY DEF IndInv
<1> QED BY <1>1, InitInductive, Inductive, PTL DEF Spec

-----------------------------------------------------------------------------
(***************************************************************************)
(* One pass at a time: as long as nothing failed, a job that no two passes *)
(* had in hand together is in the hands of one pass at most, is pending    *)
(* there, and what that pass still has to publish was never published.     *)
(***************************************************************************)
Routed(n) ==
  /\ \A p, q \in Process : n \in InHand(p) /\ n \in InHand(q) => p = q
  /\ \A p \in Process : n \in InHand(p) => job[n] = "pending"
  /\ \A ch \in Channel : published[<<n, ch>>] <= 1
  /\ job[n] # "queued" /\ (\A p \in Process : n \notin InHand(p)) =>
       \A ch \in Channel : published[<<n, ch>>] = 0
  /\ \A p \in Process : n \in batch[p] =>
       current[p] # n /\ \A ch \in Channel : published[<<n, ch>>] = 0
  /\ \A p \in Process : current[p] = n => \A ch \in todo[p] : published[<<n, ch>>] = 0

\* Without a fault every AMQP channel is open; an idle process has nothing in hand.
Orderly ==
  /\ faults = 0 => open = Process
  /\ \A p \in Process : pc[p] = "idle" => batch[p] = {}
  /\ \A p \in Process : pc[p] = "publish" => at[p] \in todo[p]

RoutedOnce == faults = 0 => \A n \in Notification \ overlap : Routed(n)

OnceInv == IndInv /\ Orderly /\ RoutedOnce

LEMMA OrderlyStep == ASSUME OnceInv, [Next]_vars PROVE Orderly'
<1>0. TypeOK /\ Orderly /\ faults \in Nat BY SchedulerAssumption DEF OnceInv, IndInv, TypeOK
<1> USE <1>0 DEF tables, pass
<1>1. ASSUME NEW n \in Notification, Schedule(n) PROVE Orderly' BY <1>1 DEF Schedule, Orderly
<1>2. CASE Tick BY <1>2 DEF Tick, Orderly
<1>3. ASSUME NEW p \in Process, StartPass(p) PROVE Orderly' BY <1>3 DEF StartPass, Orderly, TypeOK
<1>4. ASSUME NEW p \in Process, NextJob(p) PROVE Orderly' BY <1>4 DEF NextJob, EndPass, Orderly, TypeOK
<1>5. ASSUME NEW p \in Process, InsertDelivery(p) PROVE Orderly'
  BY <1>5 DEF InsertDelivery, Orderly, TypeOK
<1>6. ASSUME NEW p \in Process, PublishJob(p) PROVE Orderly'
  BY <1>6 DEF PublishJob, EndPass, Orderly, TypeOK
<1>7. ASSUME NEW p \in Process, MarkQueued(p) PROVE Orderly' BY <1>7 DEF MarkQueued, Orderly, TypeOK
<1>8. ASSUME NEW p \in Process, PassFails(p) \/ Crash(p) PROVE Orderly'
  BY <1>8 DEF PassFails, Crash, Fault, EndPass, Orderly, TypeOK
<1>9. ASSUME NEW p \in Process, LoseChannel(p) PROVE Orderly' BY <1>9 DEF LoseChannel, Fault, Orderly
<1>10. CASE UNCHANGED vars BY <1>10 DEF vars, Orderly
<1> QED BY <1>1, <1>2, <1>3, <1>4, <1>5, <1>6, <1>7, <1>8, <1>9, <1>10 DEF Next, Pass

\* A step that changes neither the passes nor what they publish.
LEMMA RoutedKept ==
  ASSUME NEW n, Routed(n), UNCHANGED <<batch, current, todo, published>>,
         job'[n] = job[n] \/ (job[n] = "none" /\ job'[n] = "pending")
  PROVE  Routed(n)'
BY DEF Routed, InHand

LEMMA StartRouted ==
  ASSUME OnceInv, faults = 0, NEW p \in Process, StartPass(p), NEW n \in Notification \ overlap'
  PROVE  Routed(n)'
<1>1. TypeOK /\ Orderly /\ PassesOK BY DEF OnceInv, IndInv
<1>2. PICK b \in SUBSET Notification :
        /\ Selection(b)
        /\ batch' = [batch EXCEPT ![p] = b]
        /\ overlap' = overlap \cup {m \in b : \E q \in Process \ {p} : m \in InHand(q)}
  BY DEF StartPass
<1>3. Routed(n) BY <1>2 DEF OnceInv, RoutedOnce
<1>4. UNCHANGED <<job, published, current, todo>> BY DEF StartPass, tables
<1>5. batch[p] = {} /\ current[p] = None BY <1>1 DEF StartPass, Orderly, PassesOK, PassOK
<1>6. /\ \A q \in Process : q # p => batch'[q] = batch[q] /\ InHand(q)' = InHand(q)
      /\ batch'[p] = b /\ InHand(p)' = b
  BY <1>1, <1>2, <1>4, <1>5 DEF TypeOK, InHand
<1>7. CASE n \in b
  <2>1. job[n] = "pending" BY <1>2, <1>7 DEF Selection, Due
  <2>2. \A q \in Process : q # p => n \notin InHand(q) BY <1>2, <1>7
  <2>3. n \notin InHand(p) BY <1>5 DEF InHand
  <2>4. \A ch \in Channel : published[<<n, ch>>] = 0 BY <1>3, <2>1, <2>2, <2>3 DEF Routed
  <2>5. \A q \in Process : current[q] # n
    <3>1. n # None BY SchedulerAssumption
    <3> QED BY <2>2, <2>3, <3>1 DEF InHand
  <2>6. \A q \in Process : n \in InHand(q)' => q = p BY <1>6, <2>2
  <2>7. \A q \in Process : n \in batch'[q] => current'[q] # n BY <1>4, <2>5
  <2>8. \A ch \in Channel : published'[<<n, ch>>] = 0 /\ published'[<<n, ch>>] <= 1 BY <1>4, <2>4
  <2>9. job'[n] = "pending" /\ \A q \in Process : current'[q] # n BY <1>4, <2>1, <2>5
  <2> QED BY <2>6, <2>8, <2>9 DEF Routed
<1>8. CASE n \notin b
  <2>1. n \notin InHand(p) /\ n \notin InHand(p)' BY <1>5, <1>6, <1>8, SchedulerAssumption DEF InHand
  <2>2. \A q \in Process : n \in InHand(q)' <=> n \in InHand(q) BY <1>6, <2>1
  <2>3. \A q \in Process : n \in batch'[q] => n \in batch[q] BY <1>6, <1>8
  <2> QED BY <1>3, <1>4, <2>2, <2>3 DEF Routed
<1> QED BY <1>7, <1>8

LEMMA NextRouted ==
  ASSUME OnceInv, faults = 0, NEW p \in Process, NextJob(p), NEW n \in Notification \ overlap'
  PROVE  Routed(n)'
<1>1. TypeOK /\ current[p] = None BY DEF OnceInv, IndInv, PassesOK, PassOK, NextJob
<1>2. UNCHANGED <<job, published>> /\ overlap' = overlap BY DEF NextJob, tables
<1>3. Routed(n) BY <1>2 DEF OnceInv, RoutedOnce
<1>4. CASE batch[p] = {} /\ EndPass(p)
  <2>1. batch' = [batch EXCEPT ![p] = {}] /\ current' = [current EXCEPT ![p] = None]
        /\ todo' = [todo EXCEPT ![p] = {}]
    BY <1>4 DEF EndPass
  <2>2. batch' = batch /\ current' = current BY <1>1, <1>4, <2>1 DEF TypeOK
  <2>3. \A q \in Process : todo'[q] \subseteq todo[q] BY <1>1, <2>1 DEF TypeOK
  <2> QED BY <1>2, <1>3, <2>2, <2>3 DEF Routed, InHand
<1>5. ASSUME NEW m \in batch[p],
             current' = [current EXCEPT ![p] = m], batch' = [batch EXCEPT ![p] = @ \ {m}],
             todo' = [todo EXCEPT ![p] = channels[m]]
      PROVE  Routed(n)'
  <2>0. m \in Notification /\ m # None /\ channels[m] \subseteq Channel
    BY <1>1, SchedulerAssumption DEF TypeOK
  <2>1. /\ \A q \in Process : q # p => batch'[q] = batch[q] /\ current'[q] = current[q] /\ todo'[q] = todo[q]
        /\ batch'[p] = batch[p] \ {m} /\ current'[p] = m /\ todo'[p] = channels[m]
    BY <1>1, <1>5 DEF TypeOK
  <2>2. \A q \in Process : InHand(q)' = InHand(q) BY <1>1, <2>0, <2>1 DEF InHand
  <2>3. \A q \in Process : n \in batch'[q] =>
          current'[q] # n /\ \A ch \in Channel : published'[<<n, ch>>] = 0
    BY <1>2, <1>3, <2>1 DEF Routed
  <2>4. \A q \in Process : current'[q] = n => \A ch \in todo'[q] : published'[<<n, ch>>] = 0
    BY <1>2, <1>3, <2>0, <2>1 DEF Routed
  <2>5. /\ \A q, r \in Process : n \in InHand(q) /\ n \in InHand(r) => q = r
        /\ \A q \in Process : n \in InHand(q) => job[n] = "pending"
        /\ \A ch \in Channel : published[<<n, ch>>] <= 1
        /\ job[n] # "queued" /\ (\A q \in Process : n \notin InHand(q)) =>
             \A ch \in Channel : published[<<n, ch>>] = 0
    BY <1>3 DEF Routed
  <2> QED BY <1>2, <2>2, <2>3, <2>4, <2>5 DEF Routed
<1> QED BY <1>4, <1>5 DEF NextJob

LEMMA PublishRouted ==
  ASSUME OnceInv, faults = 0, NEW p \in Process, PublishJob(p), NEW n \in Notification \ overlap'
  PROVE  Routed(n)'
<1>1. TypeOK /\ IndInv /\ p \in open /\ at[p] \in todo[p] BY DEF OnceInv, IndInv, Orderly, PublishJob
<1>2. UNCHANGED <<job, batch, current>> /\ overlap' = overlap /\ todo' = [todo EXCEPT ![p] = @ \ {at[p]}]
  BY <1>1 DEF PublishJob
<1>3. Routed(n) BY <1>2 DEF OnceInv, RoutedOnce
<1>4. /\ current[p] \in Notification /\ at[p] \in Channel
      /\ \A m \in Notification, c \in Channel : published'[<<m, c>>] =
           IF m = current[p] /\ c = at[p] THEN published[<<m, c>>] + 1 ELSE published[<<m, c>>]
  BY <1>1, PublishStep
<1>5. \A q \in Process : InHand(q)' = InHand(q) BY <1>2 DEF InHand
<1>6. \A q \in Process : todo'[q] \subseteq todo[q] /\ todo[q] \subseteq Channel BY <1>1, <1>2 DEF TypeOK
<1>7. at[p] \notin todo'[p] BY <1>1, <1>2 DEF TypeOK
<1>8. CASE n # current[p]
  <2>1. \A ch \in Channel : published'[<<n, ch>>] = published[<<n, ch>>] BY <1>4, <1>8
  <2> QED BY <1>2, <1>3, <1>5, <1>6, <2>1 DEF Routed
<1>9. CASE n = current[p]
  <2>1. n \in InHand(p) BY <1>9, SchedulerAssumption DEF InHand
  <2>2. \A q \in Process : n \in InHand(q) => q = p BY <1>3, <2>1 DEF Routed
  <2>3. job[n] = "pending" BY <1>3, <2>1 DEF Routed
  <2>4. \A q \in Process : n \notin batch[q]
    <3>1. n \notin batch[p] BY <1>3, <1>9 DEF Routed
    <3>2. \A q \in Process : n \in batch[q] => n \in InHand(q) BY DEF InHand
    <3> QED BY <2>2, <3>1, <3>2
  <2>5. published[<<n, at[p]>>] = 0 BY <1>1, <1>3, <1>9 DEF Routed
  <2>6. \A ch \in Channel : published'[<<n, ch>>] <= 1 BY <1>3, <1>4, <2>5 DEF Routed
  <2>7. \A q \in Process : current[q] = n => q = p
    BY <2>2, SchedulerAssumption DEF InHand
  <2>8. \A ch \in todo'[p] : published'[<<n, ch>>] = 0 BY <1>3, <1>4, <1>6, <1>7, <1>9 DEF Routed
  <2>9. /\ \A q \in Process : n \in InHand(q)' => q = p
        /\ n \in InHand(p)' /\ job'[n] = "pending"
        /\ \A q \in Process : n \notin batch'[q]
        /\ \A q \in Process : current'[q] = n => q = p
    BY <1>2, <1>5, <2>1, <2>2, <2>3, <2>4, <2>7
  <2> QED BY <2>6, <2>8, <2>9 DEF Routed
<1> QED BY <1>8, <1>9

LEMMA MarkRouted ==
  ASSUME OnceInv, faults = 0, NEW p \in Process, MarkQueued(p), NEW n \in Notification \ overlap'
  PROVE  Routed(n)'
<1>1. TypeOK /\ current[p] \in Notification BY DEF OnceInv, IndInv, PassesOK, PassOK, MarkQueued
<1>2. UNCHANGED <<published, batch, todo>> /\ overlap' = overlap
      /\ job' = [job EXCEPT ![current[p]] = "queued"] /\ current' = [current EXCEPT ![p] = None]
  BY DEF MarkQueued
<1>3. Routed(n) /\ n # None BY <1>2, SchedulerAssumption DEF OnceInv, RoutedOnce
<1>4. /\ \A q \in Process : q # p => current'[q] = current[q] /\ InHand(q)' = InHand(q)
      /\ current'[p] = None /\ InHand(p)' = batch[p] \ {}
      /\ InHand(p) = batch[p] \cup {current[p]}
  BY <1>1, <1>2, SchedulerAssumption DEF TypeOK, InHand
<1>5. CASE n # current[p]
  <2>1. job'[n] = job[n] BY <1>1, <1>2, <1>5 DEF TypeOK
  <2>2. \A q \in Process : n \in InHand(q)' <=> n \in InHand(q) BY <1>4, <1>5
  <2>3. \A q \in Process : current'[q] = n <=> current[q] = n BY <1>3, <1>4, <1>5
  <2> QED BY <1>2, <1>3, <2>1, <2>2, <2>3 DEF Routed
<1>6. CASE n = current[p]
  <2>1. job'[n] = "queued" BY <1>1, <1>2, <1>6 DEF TypeOK
  <2>2. \A q \in Process : n \in InHand(q) => q = p BY <1>3, <1>4, <1>6 DEF Routed
  <2>3. n \notin batch[p] BY <1>3, <1>6 DEF Routed
  <2>4. \A q \in Process : n \notin InHand(q)' BY <1>4, <2>2, <2>3
  <2>5. \A q \in Process : n \notin batch'[q] /\ current'[q] # n
    BY <1>3, <2>4 DEF InHand
  <2> QED BY <1>2, <1>3, <2>1, <2>4, <2>5 DEF Routed
<1> QED BY <1>5, <1>6

LEMMA RoutedOnceStep == ASSUME OnceInv, [Next]_vars PROVE RoutedOnce'
<1>0. TypeOK /\ RoutedOnce /\ faults \in Nat BY SchedulerAssumption DEF OnceInv, IndInv, TypeOK
<1> USE <1>0
<1>1. ASSUME NEW m \in Notification, Schedule(m) PROVE RoutedOnce'
  <2> SUFFICES ASSUME faults' = 0, NEW n \in Notification \ overlap' PROVE Routed(n)' BY DEF RoutedOnce
  <2>1. UNCHANGED <<batch, current, todo, published, overlap, faults>>
        /\ job' = [job EXCEPT ![m] = "pending"] /\ job[m] = "none"
    BY <1>1 DEF Schedule, pass
  <2>2. job'[n] = job[n] \/ (job[n] = "none" /\ job'[n] = "pending") BY <2>1 DEF TypeOK
  <2>3. Routed(n) BY <2>1 DEF RoutedOnce
  <2> QED BY <2>1, <2>2, <2>3, RoutedKept
<1>2. ASSUME NEW p \in Process, InsertDelivery(p) PROVE RoutedOnce'
  <2> SUFFICES ASSUME faults' = 0, NEW n \in Notification \ overlap' PROVE Routed(n)' BY DEF RoutedOnce
  <2>1. UNCHANGED <<batch, current, todo, published, overlap, faults, job>> BY <1>2 DEF InsertDelivery
  <2>2. Routed(n) BY <2>1 DEF RoutedOnce
  <2> QED BY <2>1, <2>2, RoutedKept
<1>3. CASE Tick \/ UNCHANGED vars
  <2> SUFFICES ASSUME faults' = 0, NEW n \in Notification \ overlap' PROVE Routed(n)' BY DEF RoutedOnce
  <2>1. UNCHANGED <<batch, current, todo, published, overlap, faults, job>>
    BY <1>3 DEF Tick, vars, tables, pass
  <2>2. Routed(n) BY <2>1 DEF RoutedOnce
  <2> QED BY <2>1, <2>2, RoutedKept
<1>4. ASSUME NEW p \in Process, StartPass(p) \/ NextJob(p) \/ PublishJob(p) \/ MarkQueued(p)
      PROVE  RoutedOnce'
  <2> SUFFICES ASSUME faults' = 0, NEW n \in Notification \ overlap' PROVE Routed(n)' BY DEF RoutedOnce
  <2>1. faults = 0 BY <1>4 DEF StartPass, NextJob, PublishJob, MarkQueued
  <2> QED BY <1>4, <2>1, StartRouted, NextRouted, PublishRouted, MarkRouted
<1>5. ASSUME NEW p \in Process, PassFails(p) \/ Crash(p) \/ LoseChannel(p) PROVE RoutedOnce'
  <2>1. faults' # 0 BY <1>5 DEF PassFails, Crash, LoseChannel, Fault
  <2> QED BY <2>1 DEF RoutedOnce
<1> QED BY <1>1, <1>2, <1>3, <1>4, <1>5 DEF Next, Pass

LEMMA InitOnce == Init => OnceInv
<1> SUFFICES ASSUME Init PROVE OnceInv OBVIOUS
<1>1. Orderly BY DEF Init, Orderly
<1>2. RoutedOnce BY SchedulerAssumption DEF Init, RoutedOnce, Routed, InHand
<1> QED BY <1>1, <1>2, InitInductive DEF OnceInv

LEMMA OnceInductive == OnceInv /\ [Next]_vars => OnceInv'
<1> SUFFICES ASSUME OnceInv, [Next]_vars PROVE OnceInv' OBVIOUS
<1>1. IndInv' BY Inductive DEF OnceInv
<1> QED BY <1>1, OrderlyStep, RoutedOnceStep DEF OnceInv

\* The selection of RouteDueScheduled takes no lock, and yet a channel is
\* published twice only after a fault or when two passes had the job in hand at
\* once, for any number of schedulers and jobs.
THEOREM JobsPublishedOnce == Spec => []NoDuplicateJob
<1>1. OnceInv => NoDuplicateJob
  <2> SUFFICES ASSUME OnceInv, NEW n \in Notification, NEW ch \in Channel, published[<<n, ch>>] > 1,
                      ~(faults > 0), n \notin overlap
               PROVE  FALSE
    BY DEF NoDuplicateJob
  <2>1. faults = 0 BY SchedulerAssumption DEF OnceInv, IndInv, TypeOK
  <2>2. Routed(n) BY <2>1 DEF OnceInv, RoutedOnce
  <2>3. published[<<n, ch>>] <= 1 /\ published[<<n, ch>>] \in Nat
    BY <2>2 DEF Routed, OnceInv, IndInv, TypeOK
  <2> QED BY <2>3
<1> QED BY <1>1, InitOnce, OnceInductive, PTL DEF Spec

-----------------------------------------------------------------------------
(***************************************************************************)
(* Rows and jobs: an insertion adds one to the rows and one process to     *)
(* those about to publish, and a publication moves one from them to the    *)
(* published jobs.  Without a fault nothing else moves either.             *)
(***************************************************************************)
LEMMA PublishingFinite ==
  ASSUME NEW n, NEW ch
  PROVE  IsFiniteSet(Publishing(n, ch)) /\ Cardinality(Publishing(n, ch)) \in Nat
<1>1. IsFiniteSet(Process) BY SchedulerAssumption
<1>2. IsFiniteSet(Publishing(n, ch)) BY <1>1, FS_Subset DEF Publishing
<1> QED BY <1>2, FS_CardinalityType

\* A step after which the same processes are about to publish the same jobs.
LEMMA RowsKept ==
  ASSUME RowsHaveJobs, UNCHANGED <<rows, published>>, faults' = 0 => faults = 0,
         \A n \in Notification, ch \in Channel : Publishing(n, ch)' = Publishing(n, ch)
  PROVE  RowsHaveJobs'
BY DEF RowsHaveJobs

LEMMA InsertKeepsRows ==
  ASSUME IndInv, RowsHaveJobs, NEW p \in Process, InsertDelivery(p)
  PROVE  RowsHaveJobs'
<1>1. TypeOK /\ pc[p] = "channel" /\ current[p] \in Notification
  BY DEF IndInv, PassesOK, PassOK, InsertDelivery
<1>2. PICK c \in todo[p] :
        /\ rows' = [rows EXCEPT ![<<current[p], c>>] = IF @ < RowCap THEN @ + 1 ELSE @]
        /\ at' = [at EXCEPT ![p] = c]
  BY DEF InsertDelivery
<1>3. PICK m \in Notification : m = current[p] BY <1>1
<1>4. c \in Channel BY <1>1 DEF TypeOK
<1>5. UNCHANGED <<published, current, faults>> /\ pc' = [pc EXCEPT ![p] = "publish"]
  BY DEF InsertDelivery
<1> SUFFICES ASSUME faults = 0, NEW n \in Notification, NEW ch \in Channel
             PROVE  LET jobs == published[<<n, ch>>] + Cardinality(Publishing(n, ch)')
                    IN rows'[<<n, ch>>] = IF jobs < RowCap THEN jobs ELSE RowCap
  BY <1>5 DEF RowsHaveJobs
<1>6. rows[<<n, ch>>] = IF published[<<n, ch>>] + Cardinality(Publishing(n, ch)) < RowCap
                         THEN published[<<n, ch>>] + Cardinality(Publishing(n, ch)) ELSE RowCap
  BY DEF RowsHaveJobs
<1>7. /\ published[<<n, ch>>] \in Nat /\ RowCap \in Nat
      /\ IsFiniteSet(Publishing(n, ch)) /\ Cardinality(Publishing(n, ch)) \in Nat
  <2>1. <<n, ch>> \in Notification \X Channel OBVIOUS
  <2> QED BY <1>1, <2>1, PublishingFinite, SchedulerAssumption DEF TypeOK
<1>8. /\ pc'[p] = "publish" /\ at'[p] = c
      /\ \A q \in Process : q # p => pc'[q] = pc[q] /\ at'[q] = at[q]
  BY <1>1, <1>2, <1>5 DEF TypeOK
<1>9. rows'[<<n, ch>>] = IF <<n, ch>> = <<m, c>>
                          THEN IF rows[<<n, ch>>] < RowCap THEN rows[<<n, ch>>] + 1 ELSE rows[<<n, ch>>]
                          ELSE rows[<<n, ch>>]
  <2>1. <<n, ch>> \in Notification \X Channel /\ rows \in [Notification \X Channel -> Nat]
    BY <1>1 DEF TypeOK
  <2>2. rows' = [rows EXCEPT ![<<m, c>>] = IF @ < RowCap THEN @ + 1 ELSE @] BY <1>2, <1>3
  <2> QED BY <2>1, <2>2
<1>10. CASE n = m /\ ch = c
  <2>1. p \notin Publishing(n, ch) BY <1>1 DEF Publishing
  <2>2. Publishing(n, ch)' = Publishing(n, ch) \cup {p}
    BY <1>1, <1>3, <1>5, <1>8, <1>10 DEF Publishing
  <2>3. Cardinality(Publishing(n, ch)') = Cardinality(Publishing(n, ch)) + 1
    BY <1>7, <2>1, <2>2, FS_AddElement
  <2> QED BY <1>6, <1>7, <1>9, <1>10, <2>3
<1>11. CASE ~(n = m /\ ch = c)
  <2>1. Publishing(n, ch)' = Publishing(n, ch) BY <1>1, <1>3, <1>5, <1>8, <1>11 DEF Publishing
  <2>2. rows'[<<n, ch>>] = rows[<<n, ch>>] BY <1>9, <1>11
  <2> QED BY <1>6, <2>1, <2>2
<1> QED BY <1>10, <1>11

LEMMA PublishKeepsRows ==
  ASSUME OnceInv, RowsHaveJobs, NEW p \in Process, PublishJob(p)
  PROVE  RowsHaveJobs'
<1>1. IndInv /\ TypeOK /\ Orderly /\ pc[p] = "publish" BY DEF OnceInv, IndInv, PublishJob
<1>2. rows' = rows /\ faults' = faults BY DEF PublishJob
<1> SUFFICES ASSUME faults = 0, NEW n \in Notification, NEW ch \in Channel
             PROVE  LET jobs == published'[<<n, ch>>] + Cardinality(Publishing(n, ch)')
                    IN rows[<<n, ch>>] = IF jobs < RowCap THEN jobs ELSE RowCap
  BY <1>2 DEF RowsHaveJobs
<1>3. p \in open BY <1>1 DEF Orderly
<1>4. UNCHANGED current /\ pc' = [pc EXCEPT ![p] = "channel"] /\ at' = [at EXCEPT ![p] = None]
  BY <1>3 DEF PublishJob
<1>5. /\ current[p] \in Notification /\ at[p] \in Channel
      /\ published'[<<n, ch>>] = IF n = current[p] /\ ch = at[p]
           THEN published[<<n, ch>>] + 1 ELSE published[<<n, ch>>]
  BY <1>1, <1>3, PublishStep
<1>6. rows[<<n, ch>>] = IF published[<<n, ch>>] + Cardinality(Publishing(n, ch)) < RowCap
                         THEN published[<<n, ch>>] + Cardinality(Publishing(n, ch)) ELSE RowCap
  BY DEF RowsHaveJobs
<1>7. /\ published[<<n, ch>>] \in Nat
      /\ IsFiniteSet(Publishing(n, ch)) /\ Cardinality(Publishing(n, ch)) \in Nat
  <2>1. <<n, ch>> \in Notification \X Channel OBVIOUS
  <2> QED BY <1>1, <2>1, PublishingFinite DEF TypeOK
<1>8. pc'[p] = "channel" /\ \A q \in Process : q # p => pc'[q] = pc[q] /\ at'[q] = at[q]
  BY <1>1, <1>4 DEF TypeOK
<1>9. CASE n = current[p] /\ ch = at[p]
  <2>1. p \in Publishing(n, ch) BY <1>1, <1>9 DEF Publishing
  <2>2. Publishing(n, ch)' = Publishing(n, ch) \ {p} BY <1>4, <1>8 DEF Publishing
  <2>3. Cardinality(Publishing(n, ch)') = Cardinality(Publishing(n, ch)) - 1
    BY <1>7, <2>1, <2>2, FS_RemoveElement
  <2>4. published'[<<n, ch>>] + Cardinality(Publishing(n, ch)')
          = published[<<n, ch>>] + Cardinality(Publishing(n, ch))
    BY <1>5, <1>7, <1>9, <2>3
  <2> QED BY <1>6, <2>4
<1>10. CASE ~(n = current[p] /\ ch = at[p])
  <2>1. Publishing(n, ch)' = Publishing(n, ch) BY <1>4, <1>8, <1>10 DEF Publishing
  <2>2. published'[<<n, ch>>] = published[<<n, ch>>] BY <1>5, <1>10
  <2> QED BY <1>6, <2>1, <2>2
<1> QED BY <1>9, <1>10

LEMMA RowsHaveJobsStep == ASSUME OnceInv, RowsHaveJobs, [Next]_vars PROVE RowsHaveJobs'
<1>0. TypeOK /\ IndInv /\ faults \in Nat BY SchedulerAssumption DEF OnceInv, IndInv, TypeOK
<1> USE <1>0
<1>1. CASE (\E n \in Notification : Schedule(n)) \/ Tick \/ UNCHANGED vars
  <2>1. UNCHANGED <<rows, published, faults, pc, current, at>>
    BY <1>1 DEF Schedule, Tick, vars, tables, pass
  <2>2. \A n \in Notification, ch \in Channel : Publishing(n, ch)' = Publishing(n, ch)
    BY <2>1 DEF Publishing
  <2> QED BY <2>1, <2>2, RowsKept
<1>2. ASSUME NEW p \in Process, StartPass(p) \/ NextJob(p) \/ MarkQueued(p) PROVE RowsHaveJobs'
  <2>1. UNCHANGED <<rows, published, faults>> /\ pc[p] # "publish" /\ pc'[p] # "publish"
    BY <1>2 DEF StartPass, NextJob, MarkQueued, EndPass, tables, TypeOK
  <2>2. \A q \in Process : q # p => pc'[q] = pc[q] /\ current'[q] = current[q] /\ at'[q] = at[q]
    BY <1>2 DEF StartPass, NextJob, MarkQueued, EndPass, TypeOK
  <2>3. \A n \in Notification, ch \in Channel : Publishing(n, ch)' = Publishing(n, ch)
    BY <2>1, <2>2 DEF Publishing
  <2> QED BY <2>1, <2>3, RowsKept
<1>3. ASSUME NEW p \in Process, PassFails(p) \/ Crash(p) \/ LoseChannel(p) PROVE RowsHaveJobs'
  <2>1. faults' # 0 BY <1>3 DEF PassFails, Crash, LoseChannel, Fault
  <2> QED BY <2>1 DEF RowsHaveJobs
<1> QED BY <1>1, <1>2, <1>3, InsertKeepsRows, PublishKeepsRows DEF Next, Pass

\* RouteDueScheduled commits a delivery row before it publishes its job; without a
\* fault the rows of every channel are exactly the published jobs and those that a
\* pass is about to publish, however many passes route the same notification.
THEOREM RowsMatchJobs == Spec => []RowsHaveJobs
<1>1. Init => OnceInv /\ RowsHaveJobs
  <2> SUFFICES ASSUME Init PROVE RowsHaveJobs BY InitOnce
  <2> SUFFICES ASSUME NEW n \in Notification, NEW ch \in Channel
               PROVE  LET jobs == published[<<n, ch>>] + Cardinality(Publishing(n, ch))
                      IN rows[<<n, ch>>] = IF jobs < RowCap THEN jobs ELSE RowCap
    BY DEF RowsHaveJobs
  <2>1. Publishing(n, ch) = {} BY DEF Init, Publishing
  <2>2. Cardinality(Publishing(n, ch)) = 0 BY <2>1, FS_EmptySet
  <2>3. <<n, ch>> \in Notification \X Channel OBVIOUS
  <2>4. rows[<<n, ch>>] = 0 /\ published[<<n, ch>>] = 0 BY <2>3 DEF Init
  <2> QED BY <2>2, <2>4, SchedulerAssumption
<1>2. OnceInv /\ RowsHaveJobs /\ [Next]_vars => (OnceInv /\ RowsHaveJobs)'
  BY OnceInductive, RowsHaveJobsStep
<1> QED BY <1>1, <1>2, PTL DEF Spec
=============================================================================
