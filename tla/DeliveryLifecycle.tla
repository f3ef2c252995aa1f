------------------------- MODULE DeliveryLifecycle --------------------------
(***************************************************************************)
(* What the delivery pipeline promises to someone who reads the database   *)
(* and counts provider calls, with queues, workers and retries left out:   *)
(*   - the rows of a notification appear all at once, as 'queued', and     *)
(*     never disappear;                                                    *)
(*   - a row says 'sent' only if the provider accepted the delivery;       *)
(*   - a row says 'dead' only after enough provider calls.                 *)
(* The provider may be called for a delivery that has no row: the job is   *)
(* published before the rows are committed.                                *)
(***************************************************************************)
EXTENDS Naturals

CONSTANTS Notification, Channel, MaxDeliveryTries

VARIABLES row, sends, accepted

lifecycle == <<row, sends, accepted>>

Delivery == Notification \X Channel

LifecycleInit ==
  /\ row      = [d \in Delivery |-> "none"]
  /\ sends    = [d \in Delivery |-> 0]
  /\ accepted = [d \in Delivery |-> 0]

Accept(n, chs) ==
  /\ \A ch \in Channel : row[<<n, ch>>] = "none"
  /\ row' = [d \in Delivery |-> IF d[1] = n /\ d[2] \in chs THEN "queued" ELSE row[d]]
  /\ UNCHANGED <<sends, accepted>>

CallProvider(d) ==
  /\ sends' = [sends EXCEPT ![d] = @ + 1]
  /\ accepted' = accepted \/ accepted' = [accepted EXCEPT ![d] = @ + 1]
  /\ UNCHANGED row

Allowed(d) ==
  {"queued", "sending", "failed", "blocked"}
    \cup {s \in {"sent"} : accepted[d] > 0}
    \cup {s \in {"dead"} : 2 * sends[d] >= MaxDeliveryTries + 1}

Report(d) ==
  /\ row[d] # "none"
  /\ \E s \in Allowed(d) : row' = [row EXCEPT ![d] = s]
  /\ UNCHANGED <<sends, accepted>>

LifecycleNext ==
  \/ \E n \in Notification, chs \in SUBSET Channel : Accept(n, chs)
  \/ \E d \in Delivery : CallProvider(d) \/ Report(d)

LifecycleSpec == LifecycleInit /\ [][LifecycleNext]_lifecycle

=============================================================================
