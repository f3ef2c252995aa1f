----------------------------- MODULE MCDelivery -----------------------------
(***************************************************************************)
(* Small instances of DeliveryPipeline for TLC.                            *)
(***************************************************************************)
EXTENDS DeliveryPipeline, TLC

CONSTANTS n1, t1, e1, e2, r1, k1

OneTenant == [n \in Notification |-> t1]
Queues == (e1 :> "email" @@ e2 :> "email" @@ r1 :> RetryQueue @@ k1 :> DeadQueue)
MCQueueOf == [c \in Consumer |-> Queues[c]]
AllLanes == Lane
ReplicaSymmetry == Permutations({e1, e2} \cap Consumer)
=============================================================================
