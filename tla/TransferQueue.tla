--------------------------- MODULE TransferQueue ---------------------------
(***************************************************************************)
(* The transfer engine of src-tauri/src/transfer.rs: the unbounded channel *)
(* the commands send requests into, the dispatcher task that pulls them in *)
(* order and gates each one on the limits, one run_one task per started    *)
(* transfer, the cancel set and set_limits.                                *)
(*                                                                         *)
(* Threads: the commands are synchronous and run one at a time on the main *)
(* thread; the dispatcher and every run_one task run concurrently with it  *)
(* and with each other.  Every atomic counter operation that another       *)
(* thread may observe half-way is a step of its own.  What one attempt     *)
(* does with bytes is module TransferRun; here an attempt opens, copies,   *)
(* performs its last guarded operation, and succeeds or fails.             *)
(*                                                                         *)
(* An operator named Action_Fault is the action with a plausible bug in    *)
(* it; no specification uses it, it shows which property notices the bug.  *)
(***************************************************************************)
EXTENDS Integers, Sequences, FiniteSets

CONSTANTS MaxJobs,          \* bound: transfers enqueued in a behaviour
          Connections,      \* connection ids, never reused
          SftpConnections,  \* those whose backend is SFTP
          LimitChoices,     \* arguments set_limits may be called with
          MaxSets,          \* bound: calls of set_limits
          MAX_RETRIES

Direction == {"Download", "Upload"}
Pool      == {"plain", "sftp"}
Gate      == Pool \union Direction    \* one active counter and one limit each
Jobs      == 1 .. MaxJobs

ASSUME QueueAssumption ==
    /\ MaxJobs \in Nat
    /\ MaxSets \in Nat
    /\ MAX_RETRIES \in Nat
    /\ SftpConnections \subseteq Connections
    /\ LimitChoices \subseteq [Gate -> Nat]

VARIABLES
    connected,  \* the keys of the shared connections map
    request,    \* the request sent under each id: its direction and connection
    next_id,
    rx,         \* the channel, oldest first
    cancel,     \* ids the user has asked to cancel
    limits, active, permit,   \* struct Limits; permit is slot_freed's stored permit
    main,       \* the main thread: idle, or part-way through Limits::set
    sets,       \* set_limits calls so far
    disp,       \* the dispatcher task
    pc,         \* where each transfer is
    is_sftp,    \* the pool each run_one task was started under
    attempt, result, shown    \* run_one's locals and the last event emitted

queueVars  == <<request, next_id, rx>>
limitVars  == <<limits, active, permit>>
mainVars   == <<main, sets>>
workerVars == <<pc, is_sftp, attempt, result, shown>>
vars == <<connected, queueVars, cancel, limitVars, mainVars, disp, workerVars>>

Terminal == {"Done", "Cancelled", "Error"}
PoolOf(sftp) == IF sftp THEN "sftp" ELSE "plain"
NoId == 0

DefaultLimits == [g \in Gate |-> CASE g = "plain" -> 2
                                   [] g = "sftp"  -> 4
                                   [] OTHER       -> 0]

(* The dispatcher between two jobs, and the main thread between commands. *)
AtRecv == [pc |-> "recv", id |-> NoId, sftp |-> FALSE, pool_max |-> 0, dir_max |-> 0]
Idle   == [pc |-> "idle", arg |-> DefaultLimits]

Init == /\ connected = Connections
        /\ request \in [Jobs -> [dir : Direction, conn : Connections]]
        /\ next_id = 1
        /\ rx = <<>>
        /\ cancel = {}
        /\ limits = DefaultLimits
        /\ active = [g \in Gate |-> 0]
        /\ permit = FALSE
        /\ main = Idle
        /\ sets = 0
        /\ disp = AtRecv
        /\ pc = [j \in Jobs |-> "none"]
        /\ is_sftp = [j \in Jobs |-> FALSE]
        /\ attempt = [j \in Jobs |-> 0]
        /\ result = [j \in Jobs |-> "none"]
        /\ shown = [j \in Jobs |-> "none"]

Emit(j, event) == shown' = [shown EXCEPT ![j] = event]
Goto(j, label) == pc' = [pc EXCEPT ![j] = label]

-----------------------------------------------------------------------------
(* The commands, on the main thread. *)

Enqueue == /\ main.pc = "idle"
           /\ next_id <= MaxJobs
           /\ next_id' = next_id + 1
           /\ Emit(next_id, "Queued")
           /\ rx' = Append(rx, next_id)
           /\ Goto(next_id, "sent")
           /\ UNCHANGED <<connected, request, cancel, limitVars, mainVars, disp,
                          is_sftp, attempt, result>>

(* The panel may ask at any time, also just after the transfer has ended. *)
Cancel(j) == /\ main.pc = "idle"
             /\ j < next_id
             /\ cancel' = cancel \union {j}
             /\ UNCHANGED <<connected, queueVars, limitVars, mainVars, disp, workerVars>>

Disconnect(c) == /\ c \in connected
                 /\ connected' = connected \ {c}
                 /\ UNCHANGED <<queueVars, cancel, limitVars, mainVars, disp, workerVars>>

SetPoolLimits_KeepsZero(arg) ==
    /\ main.pc = "idle"
    /\ sets < MaxSets
    /\ sets' = sets + 1
    /\ limits' = [g \in Gate |-> IF g \in Pool THEN arg[g] ELSE limits[g]]
    /\ main' = [pc |-> "set_dir", arg |-> arg]
    /\ UNCHANGED <<connected, queueVars, cancel, active, permit, disp, workerVars>>

(* Limits::set stores the two pool sizes (at least 1), then the two        *)
(* direction caps, then notifies: the dispatcher may look in between.      *)
SetPoolLimits(arg) ==
    /\ main.pc = "idle"
    /\ sets < MaxSets
    /\ sets' = sets + 1
    /\ limits' = [g \in Gate |-> IF g \notin Pool THEN limits[g]
                                 ELSE IF arg[g] = 0 THEN 1 ELSE arg[g]]
    /\ main' = [pc |-> "set_dir", arg |-> arg]
    /\ UNCHANGED <<connected, queueVars, cancel, active, permit, disp, workerVars>>

SetDirLimits ==
    /\ main.pc = "set_dir"
    /\ limits' = [g \in Gate |-> IF g \in Direction THEN main.arg[g] ELSE limits[g]]
    /\ main' = [Idle EXCEPT !.pc = "set_notify"]
    /\ UNCHANGED <<connected, queueVars, cancel, active, permit, sets, disp, workerVars>>

SetNotify ==
    /\ main.pc = "set_notify"
    /\ permit' = TRUE
    /\ main' = Idle
    /\ UNCHANGED <<connected, queueVars, cancel, limits, active, sets, disp, workerVars>>

-----------------------------------------------------------------------------
(* The dispatcher task. *)

Recv_NewestFirst ==
    /\ disp.pc = "recv"
    /\ rx # <<>>
    /\ disp' = [disp EXCEPT !.pc = "kind", !.id = rx[Len(rx)]]
    /\ rx' = SubSeq(rx, 1, Len(rx) - 1)
    /\ UNCHANGED <<connected, request, next_id, cancel, limitVars, mainVars, workerVars>>

Recv == /\ disp.pc = "recv"
        /\ rx # <<>>
        /\ disp' = [disp EXCEPT !.pc = "kind", !.id = Head(rx)]
        /\ rx' = Tail(rx)
        /\ UNCHANGED <<connected, request, next_id, cancel, limitVars, mainVars, workerVars>>

(* The pool is chosen when the job reaches the head of the queue; a job    *)
(* whose connection has vanished gates as non-SFTP.                        *)
LookupKind ==
    /\ disp.pc = "kind"
    /\ disp' = [disp EXCEPT !.pc = "test_pool",
                            !.sftp = request[disp.id].conn \in connected \intersect SftpConnections]
    /\ UNCHANGED <<connected, queueVars, cancel, limitVars, mainVars, workerVars>>

TestPool_OffByOne ==
    /\ disp.pc = "test_pool"
    /\ LET p == PoolOf(disp.sftp) IN
       disp' = [disp EXCEPT !.pc = IF active[p] <= limits[p] THEN "test_dir" ELSE "full",
                            !.pool_max = limits[p]]
    /\ UNCHANGED <<connected, queueVars, cancel, limitVars, mainVars, workerVars>>

(* has_slot reads the pool's counter and limit, then the direction's. *)
TestPool ==
    /\ disp.pc = "test_pool"
    /\ LET p == PoolOf(disp.sftp) IN
       disp' = [disp EXCEPT !.pc = IF active[p] < limits[p] THEN "test_dir" ELSE "full",
                            !.pool_max = limits[p]]
    /\ UNCHANGED <<connected, queueVars, cancel, limitVars, mainVars, workerVars>>

TestDirection ==
    /\ disp.pc = "test_dir"
    /\ LET d == request[disp.id].dir IN
       disp' = [disp EXCEPT !.pc = IF limits[d] = 0 \/ active[d] < limits[d]
                                   THEN "acquire" ELSE "full",
                            !.dir_max = limits[d]]
    /\ UNCHANGED <<connected, queueVars, cancel, limitVars, mainVars, workerVars>>

(* slot_freed.notified().await: with no permit stored the task registers   *)
(* and sleeps; Notify stores at most one permit for it.                    *)
Waits ==
    /\ disp.pc = "full"
    /\ ~permit
    /\ disp' = [disp EXCEPT !.pc = "wait"]
    /\ UNCHANGED <<connected, queueVars, cancel, limitVars, mainVars, workerVars>>

Notified ==
    /\ disp.pc \in {"full", "wait"}
    /\ permit
    /\ permit' = FALSE
    /\ disp' = [disp EXCEPT !.pc = "test_pool", !.pool_max = 0, !.dir_max = 0]
    /\ UNCHANGED <<connected, queueVars, cancel, limits, active, mainVars, workerVars>>

Acquire ==
    /\ disp.pc = "acquire"
    /\ LET j == disp.id IN
       /\ active' = [g \in Gate |-> IF g \in {PoolOf(disp.sftp), request[j].dir}
                                    THEN active[g] + 1 ELSE active[g]]
       /\ is_sftp' = [is_sftp EXCEPT ![j] = disp.sftp]
       /\ Goto(j, "spawned")
    /\ disp' = AtRecv
    /\ UNCHANGED <<connected, queueVars, cancel, limits, permit, mainVars, attempt, result, shown>>

-----------------------------------------------------------------------------
(* run_one, one task per started transfer. *)

StartCancelled_KeepsSlot(j) ==
    /\ pc[j] = "spawned"
    /\ j \in cancel
    /\ cancel' = cancel \ {j}
    /\ Emit(j, "Cancelled")
    /\ Goto(j, "ended")
    /\ UNCHANGED <<connected, queueVars, limitVars, mainVars, disp, is_sftp, attempt, result>>

(* Cancelled while it sat in the queue: no Start is emitted. *)
StartCancelled(j) ==
    /\ pc[j] = "spawned"
    /\ j \in cancel
    /\ cancel' = cancel \ {j}
    /\ Emit(j, "Cancelled")
    /\ Goto(j, "rel_pool")
    /\ UNCHANGED <<connected, queueVars, limitVars, mainVars, disp, is_sftp, attempt, result>>

Start(j) ==
    /\ pc[j] = "spawned"
    /\ j \notin cancel
    /\ Emit(j, "Start")
    /\ Goto(j, "open")
    /\ UNCHANGED <<connected, queueVars, cancel, limitVars, mainVars, disp,
                   is_sftp, attempt, result>>

(* The attempt has the connection and both files open.  Opening is not     *)
(* guarded: a cancel request is not looked at here.                        *)
Opened(j) ==
    /\ pc[j] = "open"
    /\ request[j].conn \in connected
    /\ Goto(j, "copy")
    /\ UNCHANGED <<connected, queueVars, cancel, limitVars, mainVars, disp,
                   is_sftp, attempt, result, shown>>

(* The last guarded operation (flush and shutdown) passes its cancel check. *)
LastCheck(j) ==
    /\ pc[j] = "copy"
    /\ j \notin cancel
    /\ Goto(j, "last")
    /\ UNCHANGED <<connected, queueVars, cancel, limitVars, mainVars, disp,
                   is_sftp, attempt, result, shown>>

Break(j, outcome) == /\ result' = [result EXCEPT ![j] = outcome]
                     /\ Goto(j, "finish")

AttemptDone(j) ==
    /\ pc[j] = "last"
    /\ Break(j, "Done")
    /\ UNCHANGED <<connected, queueVars, cancel, limitVars, mainVars, disp,
                   is_sftp, attempt, shown>>

(* guarded sees the request, before or while an operation runs. *)
AttemptCancelled(j) ==
    /\ pc[j] \in {"copy", "last"}
    /\ j \in cancel
    /\ Break(j, "Cancelled")
    /\ UNCHANGED <<connected, queueVars, cancel, limitVars, mainVars, disp,
                   is_sftp, attempt, shown>>

AttemptRetries_OffByOne(j) ==
    /\ pc[j] \in {"open", "copy", "last"}
    /\ attempt[j] <= MAX_RETRIES
    /\ attempt' = [attempt EXCEPT ![j] = @ + 1]
    /\ Emit(j, "Retry")
    /\ Goto(j, "backoff")
    /\ UNCHANGED <<connected, queueVars, cancel, limitVars, mainVars, disp, is_sftp, result>>

(* An error is_retryable accepts; the "connection gone" error is not one. *)
AttemptRetries(j) ==
    /\ pc[j] \in {"open", "copy", "last"}
    /\ pc[j] = "open" => request[j].conn \in connected
    /\ attempt[j] < MAX_RETRIES
    /\ attempt' = [attempt EXCEPT ![j] = @ + 1]
    /\ Emit(j, "Retry")
    /\ Goto(j, "backoff")
    /\ UNCHANGED <<connected, queueVars, cancel, limitVars, mainVars, disp, is_sftp, result>>

(* A permanent error (also NotConnected), or no retry left. *)
AttemptFails(j) ==
    /\ pc[j] \in {"open", "copy", "last"}
    /\ Break(j, "Error")
    /\ UNCHANGED <<connected, queueVars, cancel, limitVars, mainVars, disp,
                   is_sftp, attempt, shown>>

BackoffEnds_ForgetsCancel(j) ==
    /\ pc[j] = "backoff"
    /\ cancel' = cancel \ {j}
    /\ Goto(j, "open")
    /\ UNCHANGED <<connected, queueVars, limitVars, mainVars, disp, is_sftp, attempt, result, shown>>

BackoffEnds(j) ==
    /\ pc[j] = "backoff"
    /\ IF j \in cancel
       THEN cancel' = cancel \ {j} /\ Break(j, "Cancelled")
       ELSE Goto(j, "open") /\ UNCHANGED <<cancel, result>>
    /\ UNCHANGED <<connected, queueVars, limitVars, mainVars, disp, is_sftp, attempt, shown>>

Finish(j) ==
    /\ pc[j] = "finish"
    /\ cancel' = cancel \ {j}
    /\ Emit(j, result[j])
    /\ Goto(j, "rel_pool")
    /\ UNCHANGED <<connected, queueVars, limitVars, mainVars, disp, is_sftp, attempt, result>>

ReleasePool_LooksKindUpAgain(j) ==
    /\ pc[j] = "rel_pool"
    /\ LET sftp == request[j].conn \in connected \intersect SftpConnections IN
       active' = [active EXCEPT ![PoolOf(sftp)] = @ - 1]
    /\ Goto(j, "rel_dir")
    /\ UNCHANGED <<connected, queueVars, cancel, limits, permit, mainVars, disp,
                   is_sftp, attempt, result, shown>>

(* Limits::release: the pool's counter, the direction's, then the wakeup. *)
ReleasePool(j) ==
    /\ pc[j] = "rel_pool"
    /\ active' = [active EXCEPT ![PoolOf(is_sftp[j])] = @ - 1]
    /\ Goto(j, "rel_dir")
    /\ UNCHANGED <<connected, queueVars, cancel, limits, permit, mainVars, disp,
                   is_sftp, attempt, result, shown>>

ReleaseDirection(j) ==
    /\ pc[j] = "rel_dir"
    /\ active' = [active EXCEPT ![request[j].dir] = @ - 1]
    /\ Goto(j, "notify")
    /\ UNCHANGED <<connected, queueVars, cancel, limits, permit, mainVars, disp,
                   is_sftp, attempt, result, shown>>

NotifyFreed_WakesSleeperOnly(j) ==
    /\ pc[j] = "notify"
    /\ permit' = (permit \/ disp.pc = "wait")
    /\ Goto(j, "ended")
    /\ UNCHANGED <<connected, queueVars, cancel, limits, active, mainVars, disp,
                   is_sftp, attempt, result, shown>>

NotifyFreed(j) ==
    /\ pc[j] = "notify"
    /\ permit' = TRUE
    /\ Goto(j, "ended")
    /\ UNCHANGED <<connected, queueVars, cancel, limits, active, mainVars, disp,
                   is_sftp, attempt, result, shown>>

-----------------------------------------------------------------------------
Commands == \/ Enqueue
            \/ \E j \in Jobs : Cancel(j)
            \/ \E c \in Connections : Disconnect(c)
            \/ \E arg \in LimitChoices : SetPoolLimits(arg)

SetContinues == SetDirLimits \/ SetNotify

Dispatcher == Recv \/ LookupKind \/ TestPool \/ TestDirection \/ Waits \/ Notified \/ Acquire

RunOne(j) == \/ StartCancelled(j) \/ Start(j)
             \/ Opened(j) \/ LastCheck(j)
             \/ AttemptDone(j) \/ AttemptCancelled(j) \/ AttemptRetries(j) \/ AttemptFails(j)
             \/ BackoffEnds(j) \/ Finish(j)
             \/ ReleasePool(j) \/ ReleaseDirection(j) \/ NotifyFreed(j)

Next == \/ Commands
        \/ SetContinues
        \/ Dispatcher
        \/ \E j \in Jobs : RunOne(j)

(* What the code sees to: the runtime keeps polling its tasks, a started   *)
(* command finishes, and every guarded operation of a copy ends within     *)
(* STALL_TIMEOUT.  The user owes nothing.                                  *)
Fairness == /\ WF_vars(SetContinues)
            /\ WF_vars(Dispatcher)
            /\ \A j \in Jobs : WF_vars(pc[j] # "open" /\ RunOne(j))

(* Assumed: whatever an attempt opens answers, or fails.  The opens are    *)
(* not guarded, and an SSH handshake (sftp.rs:195) or a request to an      *)
(* object store (cloud.rs:88) has no timeout: where one stays silent, its  *)
(* transfer keeps its slot and looks at no cancel request.                 *)
OpensEnd == \A j \in Jobs : WF_vars(pc[j] = "open" /\ RunOne(j))

Spec     == Init /\ [][Next]_vars
FairSpec == Spec /\ Fairness /\ OpensEnd
-----------------------------------------------------------------------------
(* Properties. *)

JobPc == {"none", "sent", "spawned", "open", "copy", "last", "backoff", "finish",
          "rel_pool", "rel_dir", "notify", "ended"}

DispRecord == [pc : {"recv", "kind", "test_pool", "test_dir", "full", "wait", "acquire"},
               id : Jobs \union {NoId}, sftp : BOOLEAN, pool_max : Nat, dir_max : Nat]

(* Every variable stays in its type; a counter that ever went below zero   *)
(* would wrap (AtomicUsize) and close its gate for good.                   *)
TypeOK ==
    /\ connected \subseteq Connections
    /\ request \in [Jobs -> [dir : Direction, conn : Connections]]
    /\ next_id \in 1 .. (MaxJobs + 1)
    /\ rx \in Seq(Jobs)
    /\ cancel \subseteq Jobs
    /\ limits \in [Gate -> Nat]
    /\ active \in [Gate -> Nat]
    /\ permit \in BOOLEAN
    /\ main \in [pc : {"idle", "set_dir", "set_notify"}, arg : [Gate -> Nat]]
    /\ sets \in Nat
    /\ disp \in DispRecord
    /\ pc \in [Jobs -> JobPc]
    /\ is_sftp \in [Jobs -> BOOLEAN]
    /\ attempt \in [Jobs -> 0 .. MAX_RETRIES]
    /\ result \in [Jobs -> Terminal \union {"none"}]
    /\ shown \in [Jobs -> {"none", "Queued", "Start", "Retry"} \union Terminal]

PoolHeld == JobPc \ {"none", "sent", "rel_dir", "notify", "ended"}
DirHeld  == PoolHeld \union {"rel_dir"}
Holders(g) == IF g \in Pool
              THEN {j \in Jobs : pc[j] \in PoolHeld /\ PoolOf(is_sftp[j]) = g}
              ELSE {j \in Jobs : pc[j] \in DirHeld /\ request[j].dir = g}

(* Every counter of Limits equals the number of transfers that hold a slot *)
(* of it, whatever disconnects and limit changes happen meanwhile: no slot *)
(* leaks and none is given back twice.                                     *)
SlotConservation == \A g \in Gate : active[g] = Cardinality(Holders(g))

GateOpen == LET d == request[disp.id].dir
                p == PoolOf(disp.sftp)
            IN /\ active[p] < limits[p]
               /\ limits[d] = 0 \/ active[d] < limits[d]

(* The dispatcher never sleeps through a free slot: while it waits with no *)
(* permit stored, either its gate is closed, or a thread that has already  *)
(* moved a counter or a limit has still to notify.                         *)
NoLostWakeup ==
    (disp.pc \in {"full", "wait"} /\ ~permit) =>
        \/ ~GateOpen
        \/ main.pc \in {"set_dir", "set_notify"}
        \/ \E j \in Jobs : pc[j] \in {"rel_dir", "notify"}

(* Testing a gate and taking the slot are separate steps, yet a transfer   *)
(* only ever starts within the limits has_slot read for it.                *)
StartsWithinLimits ==
    [][\A g \in Gate : active'[g] > active[g] =>
          IF g \in Pool THEN active'[g] <= disp.pool_max
                        ELSE disp.dir_max = 0 \/ active'[g] <= disp.dir_max]_vars

(* Transfers take their slots in the order they were enqueued, whatever    *)
(* pool each needs.                                                        *)
StartsInOrder ==
    \A i, j \in Jobs : (i < j /\ pc[j] \notin {"none", "sent"}) => pc[i] \notin {"none", "sent"}

(* A cancel request made before the last operation of a transfer is under  *)
(* way is kept until the transfer ends, and it never ends as Done: no      *)
(* retry, backoff or queueing consumes the request unanswered.             *)
CancelIsKept ==
    [][\A j \in cancel : pc[j] \in {"sent", "spawned", "open", "copy", "backoff"} =>
          /\ j \in cancel' \/ "Cancelled" \in {result'[j], shown'[j]}
          /\ pc'[j] # "last"
          /\ pc[j] = "spawned" => shown'[j] # "Start"]_vars

(* The events emitted for every transfer follow the lifecycle the panel    *)
(* relies on; and every announced transfer settles, provided that every    *)
(* open ends (OpensEnd).                                                   *)
Lifecycle == INSTANCE TransferLifecycle
                 WITH shown <- shown, attempt <- attempt,
                      MaxJobs <- MaxJobs, MAX_RETRIES <- MAX_RETRIES
LifecycleSafety   == Lifecycle!Safety
EveryTransferSettles == Lifecycle!EveryTransferSettles
=============================================================================
