------------------------- MODULE TransferLifecycle -------------------------
(***************************************************************************)
(* What the transfer engine promises the queue panel: the sequence of      *)
(* `transfer://update` events each transfer produces (enum Update in       *)
(* transfer.rs).  The front end keys its rows, its tally and its desktop   *)
(* notification on this order.  TransferQueue implements it.  Progress     *)
(* events carry no state and are left out.                                 *)
(***************************************************************************)
EXTENDS Naturals

CONSTANTS MaxJobs,       \* how many transfers are enqueued in a behaviour
          MAX_RETRIES    \* automatic retries of one transfer

Jobs == 1 .. MaxJobs

Running  == {"Start", "Retry"}
Terminal == {"Done", "Cancelled", "Error"}
Event    == {"none", "Queued"} \union Running \union Terminal

VARIABLES shown,     \* the last event emitted for each transfer
          attempt    \* how many retries each transfer has announced

lifecycleVars == <<shown, attempt>>

Init == /\ shown   = [j \in Jobs |-> "none"]
        /\ attempt = [j \in Jobs |-> 0]

(* Ids are handed out in order, each announced once. *)
Submit(j) == /\ shown[j] = "none"
             /\ \A i \in 1 .. (j - 1) : shown[i] # "none"
             /\ shown' = [shown EXCEPT ![j] = "Queued"]
             /\ UNCHANGED attempt

Begin(j) == /\ shown[j] = "Queued"
            /\ shown' = [shown EXCEPT ![j] = "Start"]
            /\ UNCHANGED attempt

Retry(j) == /\ shown[j] \in Running
            /\ attempt[j] < MAX_RETRIES
            /\ shown'   = [shown EXCEPT ![j] = "Retry"]
            /\ attempt' = [attempt EXCEPT ![j] = @ + 1]

(* A transfer that never started can only be cancelled. *)
Settle(j) == /\ \/ /\ shown[j] = "Queued"
                   /\ shown' = [shown EXCEPT ![j] = "Cancelled"]
                \/ /\ shown[j] \in Running
                   /\ \E e \in Terminal : shown' = [shown EXCEPT ![j] = e]
             /\ UNCHANGED attempt

Next == \E j \in Jobs : Submit(j) \/ Begin(j) \/ Retry(j) \/ Settle(j)

(* Every announced transfer settles: nothing else is promised about time. *)
EveryTransferSettles ==
    \A j \in Jobs : (shown[j] = "Queued") ~> (shown[j] \in Terminal)

Safety == Init /\ [][Next]_lifecycleVars
Spec   == Safety /\ EveryTransferSettles
=============================================================================
