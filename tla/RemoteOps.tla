----------------------------- MODULE RemoteOps ------------------------------
(***************************************************************************)
(* Operations on a remote: each is asked of a back end by a task of its    *)
(* own, may fail because the connection is gone, and is then made once     *)
(* more on another.  FtpControl and SftpSession say how.                   *)
(***************************************************************************)
EXTENDS Integers, Sequences, FiniteSets

CONSTANTS Tasks,              \* that call the back end
          None,
          MaxOps, MaxFaults   \* bounds on operations and on losses

ASSUME OpsAssumption == MaxOps \in Nat /\ MaxFaults \in Nat /\ None \notin Tasks

VARIABLES pc, kind,   \* of each task, and of the operation it makes
          asked,      \* operations so far
          faults

opVars == <<pc, kind, asked, faults>>

OpsInit == /\ pc = [t \in Tasks |-> "idle"]
           /\ kind = [t \in Tasks |-> None]
           /\ asked = 0
           /\ faults = 0

Goto(t, label) == pc' = [pc EXCEPT ![t] = label]

Asks(t, k, label) == /\ pc[t] = "idle"
                     /\ asked < MaxOps
                     /\ asked' = asked + 1
                     /\ kind' = [kind EXCEPT ![t] = k]
                     /\ Goto(t, label)
                     /\ UNCHANGED faults

Goes(t, label) == Goto(t, label) /\ UNCHANGED <<kind, asked, faults>>

(* The caller has its answer, good or bad. *)
Ends(t) == /\ Goto(t, "idle")
           /\ kind' = [kind EXCEPT ![t] = None]
           /\ UNCHANGED <<asked, faults>>

Fault == /\ faults < MaxFaults
         /\ faults' = faults + 1
         /\ UNCHANGED <<pc, kind, asked>>

(* A walk that ends early aborts the listings it has in flight. *)
Abortable(t) == pc[t] # "idle" /\ kind[t] = "list"
=============================================================================
