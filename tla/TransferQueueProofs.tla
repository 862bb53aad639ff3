------------------------ MODULE TransferQueueProofs ------------------------
(***************************************************************************)
(* The safety of the transfer engine, for every number of jobs, every set  *)
(* of connections and every sequence of limit changes.                     *)
(*                                                                         *)
(* The inductive invariant has five parts: Types (the type invariant, with *)
(* counters that are only known to be integers), QueueOrder (which jobs    *)
(* are still queued is determined by next_id and the channel's length),    *)
(* SlotConservation, Rows (the event last emitted agrees with where the    *)
(* task is) and Tested (what has_slot read stays true until the slot is    *)
(* taken).  That a counter never goes below zero, the last part of TypeOK, *)
(* only follows once the counters are known to be cardinalities.           *)
(***************************************************************************)
EXTENDS TransferQueue, FiniteSetTheorems, TLAPS

Types == /\ connected \subseteq Connections
         /\ request \in [Jobs -> [dir : Direction, conn : Connections]]
         /\ next_id \in 1 .. (MaxJobs + 1)
         /\ rx \in Seq(Jobs)
         /\ cancel \subseteq Jobs
         /\ limits \in [Gate -> Nat]
         /\ active \in [Gate -> Int]
         /\ permit \in BOOLEAN
         /\ main \in [pc : {"idle", "set_dir", "set_notify"}, arg : [Gate -> Nat]]
         /\ sets \in Nat
         /\ disp \in DispRecord
         /\ disp.pc # "recv" => disp.id \in Jobs
         /\ pc \in [Jobs -> JobPc]
         /\ is_sftp \in [Jobs -> BOOLEAN]
         /\ attempt \in [Jobs -> 0 .. MAX_RETRIES]
         /\ result \in [Jobs -> Terminal \union {"none"}]
         /\ shown \in [Jobs -> {"none", "Queued", "Start", "Retry"} \union Terminal]

(* The oldest job that has not been started. *)
FirstWaiting == next_id - Len(rx) - (IF disp.pc = "recv" THEN 0 ELSE 1)

QueueOrder ==
    /\ FirstWaiting >= 1
    /\ \A i \in 1 .. Len(rx) : rx[i] = next_id - Len(rx) + i - 1
    /\ disp.pc # "recv" => disp.id = FirstWaiting
    /\ \A j \in Jobs : /\ pc[j] = "none" <=> j >= next_id
                       /\ pc[j] = "sent" <=> (FirstWaiting <= j /\ j < next_id)

Rows == \A j \in Jobs :
    /\ pc[j] = "none" <=> shown[j] = "none"
    /\ pc[j] \in {"sent", "spawned"} <=> shown[j] = "Queued"
    /\ pc[j] \in {"open", "copy", "last", "backoff", "finish"} <=> shown[j] \in {"Start", "Retry"}
    /\ pc[j] = "finish" => result[j] \in Terminal

(* What the dispatcher read in has_slot is still true when it acts on it:  *)
(* only the dispatcher itself raises a counter.                            *)
Tested == LET p == PoolOf(disp.sftp)
              d == request[disp.id].dir
          IN /\ disp.pc \in {"test_dir", "acquire"} => active[p] < disp.pool_max
             /\ disp.pc = "acquire" => disp.dir_max = 0 \/ active[d] < disp.dir_max

IInv == Types /\ QueueOrder /\ SlotConservation /\ Rows /\ Tested
-----------------------------------------------------------------------------
(* The default limits are limits. *)
LEMMA DefaultLimitsType == DefaultLimits \in [Gate -> Nat]
  <1>1. ASSUME NEW g \in Gate
        PROVE  (CASE g = "plain" -> 2 [] g = "sftp" -> 4 [] OTHER -> 0) \in Nat
    BY DEF Gate, Pool, Direction
  <1>2. QED
    BY <1>1, Zenon DEF DefaultLimits

(* The types hold initially. *)
LEMMA TypesInit == Init => Types
  <1> SUFFICES ASSUME Init PROVE Types
    OBVIOUS
  <1>1. Idle \in [pc : {"idle", "set_dir", "set_notify"}, arg : [Gate -> Nat]]
    BY DefaultLimitsType DEF Idle
  <1>2. /\ next_id \in 1 .. (MaxJobs + 1) /\ rx \in Seq(Jobs)
        /\ attempt \in [Jobs -> 0 .. MAX_RETRIES] /\ active \in [Gate -> Int]
    BY QueueAssumption DEF Init, Jobs
  <1>3. QED
    BY <1>1, <1>2, DefaultLimitsType DEF Init, Types, AtRecv, DispRecord, JobPc, NoId

(* Every action preserves the types; the counters only as integers here. *)
LEMMA TypesStep == Types /\ [Next]_vars => Types'
  <1> SUFFICES ASSUME Types, [Next]_vars PROVE Types'
    OBVIOUS
  <1> USE QueueAssumption
  <1>1. CASE Enqueue
    <2>1. next_id \in Jobs /\ next_id' \in 1 .. (MaxJobs + 1)
      BY <1>1 DEF Enqueue, Types, Jobs
    <2>2. rx' \in Seq(Jobs)
      BY <1>1, <2>1 DEF Enqueue, Types
    <2>3. /\ pc' \in [Jobs -> JobPc]
          /\ shown' \in [Jobs -> {"none", "Queued", "Start", "Retry"} \union Terminal]
      BY <1>1 DEF Enqueue, Types, Goto, Emit, JobPc, Terminal
    <2>4. QED
      BY <1>1, <2>1, <2>2, <2>3 DEF Enqueue, Types, limitVars, mainVars
  <1>2. CASE SetDirLimits
    <2>1. main' \in [pc : {"idle", "set_dir", "set_notify"}, arg : [Gate -> Nat]]
      BY <1>2, DefaultLimitsType DEF SetDirLimits, Idle
    <2>2. limits' \in [Gate -> Nat]
      BY <1>2 DEF SetDirLimits, Types
    <2>3. QED
      BY <1>2, <2>1, <2>2 DEF SetDirLimits, Types, queueVars, workerVars
  <1>3. CASE SetNotify
    <2>1. main' \in [pc : {"idle", "set_dir", "set_notify"}, arg : [Gate -> Nat]]
      BY <1>3, DefaultLimitsType DEF SetNotify, Idle
    <2>2. QED
      BY <1>3, <2>1 DEF SetNotify, Types, queueVars, workerVars
  <1>4. CASE Recv
    <2>1. Head(rx) \in Jobs /\ Tail(rx) \in Seq(Jobs)
      BY <1>4 DEF Recv, Types
    <2>2. QED
      BY <1>4, <2>1 DEF Recv, Types, DispRecord, limitVars, mainVars, workerVars
  <1>5. CASE LookupKind
    <2> DEFINE k == request[disp.id].conn \in connected \intersect SftpConnections
    <2>1. disp' = [[disp EXCEPT !.pc = "test_pool"] EXCEPT !.sftp = k]
      BY <1>5 DEF LookupKind
    <2>2. k \in BOOLEAN
      OBVIOUS
    <2>3. /\ disp' \in DispRecord
          /\ disp'.id = disp.id
      <3> HIDE DEF k
      <3> QED BY <2>1, <2>2 DEF Types, DispRecord
    <2>4. QED
      BY <1>5, <2>3 DEF LookupKind, Types, queueVars, limitVars, mainVars, workerVars
  <1>6. CASE TestPool
    <2>1. PoolOf(disp.sftp) \in Gate
      BY DEF PoolOf, Gate, Pool
    <2>2. QED
      BY <1>6, <2>1 DEF TestPool, DispRecord, Types, queueVars, limitVars, mainVars, workerVars
  <1>7. CASE TestDirection
    <2>1. request[disp.id].dir \in Gate
      BY <1>7 DEF TestDirection, Types, Gate
    <2>2. QED
      BY <1>7, <2>1 DEF TestDirection, Types, DispRecord, queueVars, limitVars, mainVars, workerVars
  <1>8. CASE Waits
    BY <1>8 DEF Waits, Types, DispRecord, queueVars, limitVars, mainVars, workerVars
  <1>9. CASE Notified
    <2>1. disp' \in DispRecord /\ disp'.id = disp.id /\ disp.id \in Jobs
      BY <1>9 DEF Notified, Types, DispRecord
    <2>2. QED
      BY <1>9, <2>1 DEF Notified, Types, queueVars, mainVars, workerVars
  <1>10. CASE Acquire
    <2>1. /\ active' \in [Gate -> Int]
          /\ pc' \in [Jobs -> JobPc]
      BY <1>10 DEF Acquire, Types, Goto, JobPc
    <2>4. is_sftp' \in [Jobs -> BOOLEAN]
      <3>1. disp.sftp \in BOOLEAN
        BY DEF Types, DispRecord
      <3>2. is_sftp' = [is_sftp EXCEPT ![disp.id] = disp.sftp]
        BY <1>10 DEF Acquire
      <3>3. QED
        BY <3>1, <3>2 DEF Types
    <2>2. AtRecv \in DispRecord
      BY DEF AtRecv, DispRecord
    <2>3. QED
      BY <1>10, <2>1, <2>2, <2>4 DEF Acquire, Types, AtRecv, queueVars, mainVars
  <1>11. ASSUME NEW j \in Jobs, Cancel(j) PROVE Types'
    BY <1>11 DEF Cancel, Types, queueVars, limitVars, mainVars, workerVars
  <1>12. ASSUME NEW c \in Connections, Disconnect(c) PROVE Types'
    BY <1>12 DEF Disconnect, Types, queueVars, limitVars, mainVars, workerVars
  <1>13. ASSUME NEW arg \in LimitChoices, SetPoolLimits(arg) PROVE Types'
    <2>1. arg \in [Gate -> Nat]
      OBVIOUS
    <2>2. limits' \in [Gate -> Nat]
      BY <1>13, <2>1 DEF SetPoolLimits, Types
    <2>3. QED
      BY <1>13, <2>1, <2>2 DEF SetPoolLimits, Types, queueVars, workerVars
  <1>14. ASSUME NEW j \in Jobs, StartCancelled(j) PROVE Types'
    BY <1>14 DEF StartCancelled, Types, queueVars, limitVars, mainVars, Goto, JobPc, Emit, Terminal
  <1>15. ASSUME NEW j \in Jobs, Start(j) PROVE Types'
    BY <1>15 DEF Start, Types, queueVars, limitVars, mainVars, Goto, JobPc, Emit, Terminal
  <1>16. ASSUME NEW j \in Jobs, Opened(j) PROVE Types'
    BY <1>16 DEF Opened, Types, queueVars, limitVars, mainVars, Goto, JobPc
  <1>17. ASSUME NEW j \in Jobs, LastCheck(j) PROVE Types'
    BY <1>17 DEF LastCheck, Types, queueVars, limitVars, mainVars, Goto, JobPc
  <1>18. ASSUME NEW j \in Jobs, AttemptDone(j) PROVE Types'
    BY <1>18 DEF AttemptDone, Types, queueVars, limitVars, mainVars, Goto, JobPc, Break, Terminal
  <1>19. ASSUME NEW j \in Jobs, AttemptCancelled(j) PROVE Types'
    BY <1>19 DEF AttemptCancelled, Types, queueVars, limitVars, mainVars, Goto, JobPc, Break, Terminal
  <1>20. ASSUME NEW j \in Jobs, AttemptRetries(j) PROVE Types'
    <2>1. attempt[j] + 1 \in 0 .. MAX_RETRIES
      BY <1>20 DEF AttemptRetries, Types
    <2>2. attempt' \in [Jobs -> 0 .. MAX_RETRIES]
      BY <1>20, <2>1 DEF AttemptRetries, Types
    <2>3. QED
      BY <1>20, <2>2 DEF AttemptRetries, Types, queueVars, limitVars, mainVars, Goto, JobPc, Emit
  <1>21. ASSUME NEW j \in Jobs, AttemptFails(j) PROVE Types'
    BY <1>21 DEF AttemptFails, Types, queueVars, limitVars, mainVars, Goto, JobPc, Break, Terminal
  <1>22. ASSUME NEW j \in Jobs, BackoffEnds(j) PROVE Types'
    BY <1>22 DEF BackoffEnds, Types, queueVars, limitVars, mainVars, Goto, JobPc, Break, Terminal
  <1>23. ASSUME NEW j \in Jobs, Finish(j) PROVE Types'
    BY <1>23 DEF Finish, Types, queueVars, limitVars, mainVars, Goto, JobPc, Emit, Terminal
  <1>24. ASSUME NEW j \in Jobs, ReleasePool(j) PROVE Types'
    <2>1. PoolOf(is_sftp[j]) \in Gate
      BY DEF PoolOf, Gate, Pool
    <2>2. active' \in [Gate -> Int]
      BY <1>24, <2>1 DEF ReleasePool, Types
    <2>3. QED
      BY <1>24, <2>2 DEF ReleasePool, Types, queueVars, mainVars, Goto, JobPc
  <1>25. ASSUME NEW j \in Jobs, ReleaseDirection(j) PROVE Types'
    <2>1. request[j].dir \in Gate
      BY <1>25 DEF Types, Gate
    <2>2. active' \in [Gate -> Int]
      BY <1>25, <2>1 DEF ReleaseDirection, Types
    <2>3. QED
      BY <1>25, <2>2 DEF ReleaseDirection, Types, queueVars, mainVars, Goto, JobPc
  <1>26. ASSUME NEW j \in Jobs, NotifyFreed(j) PROVE Types'
    BY <1>26 DEF NotifyFreed, Types, queueVars, mainVars, Goto, JobPc
  <1>27. CASE UNCHANGED vars
    BY <1>27 DEF vars, Types, queueVars, limitVars, mainVars, workerVars
  <1>28. QED
    BY <1>1, <1>2, <1>3, <1>4, <1>5, <1>6, <1>7, <1>8, <1>9, <1>10, <1>11, <1>12, <1>13, <1>14, <1>15, <1>16, <1>17, <1>18, <1>19, <1>20, <1>21, <1>22, <1>23, <1>24, <1>25, <1>26, <1>27
    DEF Next, Commands, SetContinues, Dispatcher, RunOne
-----------------------------------------------------------------------------
(* Nothing is queued initially. *)
LEMMA QueueOrderInit == Init => QueueOrder
  BY QueueAssumption DEF Init, QueueOrder, FirstWaiting, AtRecv, Jobs

(* A step that leaves the channel alone, keeps the dispatcher on its job   *)
(* and neither enqueues nor starts a job keeps the order.                  *)
LEMMA QueueOrderStable ==
  ASSUME QueueOrder,
         next_id' = next_id, rx' = rx, disp'.id = disp.id,
         disp'.pc = "recv" <=> disp.pc = "recv",
         \A j \in Jobs : /\ pc'[j] = "none" <=> pc[j] = "none"
                         /\ pc'[j] = "sent" <=> pc[j] = "sent"
  PROVE  QueueOrder'
  BY DEF QueueOrder, FirstWaiting

(* What every run_one step has in common. *)
LEMMA RunOneFrame ==
  ASSUME NEW j \in Jobs, RunOne(j)
  PROVE  /\ UNCHANGED <<next_id, rx, disp>>
         /\ \E label \in JobPc \ {"none", "sent"} : Goto(j, label)
         /\ pc[j] \notin {"none", "sent"}
  <1> USE DEF queueVars, Break, JobPc
  <1>1. CASE StartCancelled(j)
    BY <1>1 DEF StartCancelled
  <1>2. CASE Start(j)
    BY <1>2 DEF Start
  <1>3. CASE Opened(j)
    BY <1>3 DEF Opened
  <1>4. CASE LastCheck(j)
    BY <1>4 DEF LastCheck
  <1>5. CASE AttemptDone(j)
    BY <1>5 DEF AttemptDone
  <1>6. CASE AttemptCancelled(j)
    BY <1>6 DEF AttemptCancelled
  <1>7. CASE AttemptRetries(j)
    BY <1>7 DEF AttemptRetries
  <1>8. CASE AttemptFails(j)
    BY <1>8 DEF AttemptFails
  <1>9. CASE BackoffEnds(j)
    BY <1>9 DEF BackoffEnds
  <1>10. CASE Finish(j)
    BY <1>10 DEF Finish
  <1>11. CASE ReleasePool(j)
    BY <1>11 DEF ReleasePool
  <1>12. CASE ReleaseDirection(j)
    BY <1>12 DEF ReleaseDirection
  <1>13. CASE NotifyFreed(j)
    BY <1>13 DEF NotifyFreed
  <1>14. QED
    BY <1>1, <1>2, <1>3, <1>4, <1>5, <1>6, <1>7, <1>8, <1>9, <1>10, <1>11, <1>12, <1>13 DEF RunOne

(* Every action keeps the queued jobs in the channel, in order. *)
LEMMA QueueOrderStep == Types /\ QueueOrder /\ [Next]_vars => QueueOrder'
  <1> SUFFICES ASSUME Types, QueueOrder, [Next]_vars PROVE QueueOrder'
    OBVIOUS
  <1> USE QueueAssumption
  <1> DEFINE Kept == /\ next_id' = next_id /\ rx' = rx /\ disp'.id = disp.id
                     /\ disp'.pc = "recv" <=> disp.pc = "recv"
                     /\ \A j \in Jobs : /\ pc'[j] = "none" <=> pc[j] = "none"
                                        /\ pc'[j] = "sent" <=> pc[j] = "sent"
  <1>1. CASE Enqueue
    <2>1. /\ next_id \in Jobs /\ next_id' = next_id + 1 /\ disp' = disp
          /\ Len(rx') = Len(rx) + 1 /\ rx'[Len(rx) + 1] = next_id
          /\ \A i \in 1 .. Len(rx) : rx'[i] = rx[i]
          /\ pc' = [pc EXCEPT ![next_id] = "sent"]
      BY <1>1 DEF Enqueue, Types, Jobs, Goto
    <2>2. FirstWaiting' = FirstWaiting /\ FirstWaiting <= next_id
      BY <2>1 DEF FirstWaiting, Types, QueueOrder
    <2>3. \A i \in 1 .. Len(rx') : rx'[i] = next_id' - Len(rx') + i - 1
      <3>1. Len(rx) \in Nat /\ next_id \in Nat
        BY DEF Types
      <3>2. \A i \in 1 .. Len(rx) : rx'[i] = next_id - Len(rx) + i - 1
        BY <2>1 DEF QueueOrder
      <3>3. QED
        BY <2>1, <3>1, <3>2
    <2>4. \A j \in Jobs : /\ pc'[j] = "none" <=> j >= next_id'
                          /\ pc'[j] = "sent" <=> (FirstWaiting' <= j /\ j < next_id')
      BY <2>1, <2>2 DEF QueueOrder, Types, Jobs
    <2>5. QED
      BY <2>1, <2>2, <2>3, <2>4 DEF QueueOrder
  <1>2. CASE Recv
    <2>1. /\ next_id' = next_id /\ pc' = pc /\ disp.pc = "recv"
          /\ disp'.pc = "kind" /\ disp'.id = rx[1]
          /\ Len(rx) \in Nat /\ Len(rx) >= 1 /\ Len(rx') = Len(rx) - 1
          /\ \A i \in 1 .. Len(rx') : rx'[i] = rx[i + 1]
      BY <1>2 DEF Recv, Types, DispRecord, workerVars
    <2>2. FirstWaiting' = FirstWaiting /\ rx[1] = FirstWaiting
      BY <2>1 DEF QueueOrder, FirstWaiting, Types
    <2>3. \A i \in 1 .. Len(rx') : rx'[i] = next_id' - Len(rx') + i - 1
      BY <2>1 DEF QueueOrder, Types
    <2>4. QED
      BY <2>1, <2>2, <2>3 DEF QueueOrder
  <1>3. CASE Acquire
    <2>1. /\ next_id' = next_id /\ rx' = rx /\ disp'.pc = "recv" /\ disp.pc # "recv"
          /\ disp.id \in Jobs /\ pc' = [pc EXCEPT ![disp.id] = "spawned"]
      BY <1>3 DEF Acquire, Types, AtRecv, Goto, queueVars
    <2>2. FirstWaiting' = FirstWaiting + 1 /\ disp.id = FirstWaiting
      BY <2>1 DEF QueueOrder, FirstWaiting, Types
    <2>3. QED
      BY <2>1, <2>2 DEF QueueOrder, FirstWaiting, Types, Jobs, JobPc
  <1>4. CASE LookupKind \/ TestPool \/ TestDirection \/ Waits \/ Notified
    <2>1. Kept
      BY <1>4 DEF LookupKind, TestPool, TestDirection, Waits, Notified, Types, DispRecord,
                  queueVars, workerVars
    <2>2. QED
      BY <2>1, QueueOrderStable
  <1>5. CASE SetContinues \/ UNCHANGED vars
    BY <1>5, QueueOrderStable
    DEF SetContinues, SetDirLimits, SetNotify, vars, queueVars, workerVars
  <1>6. ASSUME NEW j \in Jobs, Cancel(j) PROVE QueueOrder'
    BY <1>6, QueueOrderStable DEF Cancel, queueVars, workerVars
  <1>7. ASSUME NEW c \in Connections, Disconnect(c) PROVE QueueOrder'
    BY <1>7, QueueOrderStable DEF Disconnect, queueVars, workerVars
  <1>8. ASSUME NEW arg \in LimitChoices, SetPoolLimits(arg) PROVE QueueOrder'
    BY <1>8, QueueOrderStable DEF SetPoolLimits, queueVars, workerVars
  <1>9. ASSUME NEW j \in Jobs, RunOne(j) PROVE QueueOrder'
    <2>1. /\ UNCHANGED <<next_id, rx, disp>>
          /\ \E label \in JobPc \ {"none", "sent"} : Goto(j, label)
          /\ pc[j] \notin {"none", "sent"}
      BY <1>9, RunOneFrame
    <2>2. Kept
      BY <2>1 DEF Types, Goto
    <2>3. QED
      BY <2>2, QueueOrderStable
  <1>10. QED
    BY <1>1, <1>2, <1>3, <1>4, <1>5, <1>6, <1>7, <1>8, <1>9
    DEF Next, Commands, Dispatcher
-----------------------------------------------------------------------------
(* The holders of a gate are finitely many. *)
LEMMA HoldersFinite == \A g \in Gate : Holders(g) \subseteq Jobs /\ IsFiniteSet(Holders(g))
  <1>1. IsFiniteSet(Jobs)
    BY QueueAssumption, FS_Interval DEF Jobs
  <1>2. \A g \in Gate : Holders(g) \subseteq Jobs
    BY DEF Holders
  <1>3. QED
    BY <1>1, <1>2, FS_Subset

(* Nobody holds a slot initially. *)
LEMMA SlotsInit == Init => SlotConservation
  <1> SUFFICES ASSUME Init, NEW g \in Gate PROVE active[g] = Cardinality(Holders(g))
    BY DEF SlotConservation
  <1>1. Holders(g) = {}
    BY DEF Init, Holders, PoolHeld, DirHeld
  <1>2. QED
    BY <1>1, FS_EmptySet DEF Init

(* A step after which the same transfers hold slots, of the same gates,    *)
(* and that touches no counter.                                            *)
LEMMA SlotsStable ==
  ASSUME SlotConservation, UNCHANGED <<active, is_sftp, request>>,
         \A j \in Jobs : /\ pc'[j] \in PoolHeld <=> pc[j] \in PoolHeld
                         /\ pc'[j] \in DirHeld <=> pc[j] \in DirHeld
  PROVE  SlotConservation'
  <1>1. \A g \in Gate : Holders(g)' = Holders(g)
    BY DEF Holders
  <1>2. QED
    BY <1>1 DEF SlotConservation

(* Acquire adds one holder to the two gates whose counters it raises. *)
LEMMA SlotsAcquire ==
  Types /\ QueueOrder /\ SlotConservation /\ Acquire => SlotConservation'
  <1> SUFFICES ASSUME Types, QueueOrder, SlotConservation, Acquire, NEW g \in Gate
               PROVE  active'[g] = Cardinality(Holders(g)')
    BY DEF SlotConservation
  <1> DEFINE job == disp.id
             taken == {PoolOf(disp.sftp), request[job].dir}
  <1>1. /\ job \in Jobs /\ disp.pc = "acquire"
        /\ request' = request
        /\ pc' = [pc EXCEPT ![job] = "spawned"]
        /\ is_sftp' = [is_sftp EXCEPT ![job] = disp.sftp]
        /\ active'[g] = IF g \in taken THEN active[g] + 1 ELSE active[g]
    BY DEF Acquire, Types, Goto, queueVars
  <1>2. pc[job] = "sent"
    BY <1>1 DEF QueueOrder, FirstWaiting, Types, Jobs
  <1>3. job \notin Holders(g)
    BY <1>2 DEF Holders, PoolHeld, DirHeld, JobPc
  <1>4. pc'[job] \in PoolHeld /\ pc'[job] \in DirHeld
    BY <1>1 DEF PoolHeld, DirHeld, JobPc, Types
  <1>5. \A j \in Jobs \ {job} : j \in Holders(g)' <=> j \in Holders(g)
    BY <1>1 DEF Holders, Types
  <1>6. job \in Holders(g)' <=> g \in taken
    <2>1. is_sftp'[job] = disp.sftp
      BY <1>1 DEF Types
    <2>2. CASE g \in Pool
      BY <1>1, <1>4, <2>1, <2>2 DEF Holders, Types, Pool, Direction
    <2>3. CASE g \in Direction
      BY <1>1, <1>4, <2>3 DEF Holders, PoolOf, Pool, Direction
    <2>4. QED
      BY <2>2, <2>3 DEF Gate
  <1>7. Holders(g)' = IF g \in taken THEN Holders(g) \union {job} ELSE Holders(g)
    <2>1. Holders(g)' \subseteq Jobs /\ Holders(g) \subseteq Jobs
      BY DEF Holders
    <2>2. QED
      BY <1>1, <1>3, <1>5, <1>6, <2>1
  <1>8. active[g] = Cardinality(Holders(g)) /\ IsFiniteSet(Holders(g))
    BY HoldersFinite DEF SlotConservation
  <1>9. CASE g \in taken
    BY <1>1, <1>3, <1>7, <1>8, <1>9, FS_AddElement
  <1>10. CASE g \notin taken
    BY <1>1, <1>7, <1>8, <1>10
  <1>11. QED
    BY <1>9, <1>10

(* The pool release lowers the counter of the pool its job holds. *)
LEMMA SlotsReleasePool ==
  ASSUME Types, SlotConservation, NEW j \in Jobs, ReleasePool(j)
  PROVE  SlotConservation'
  <1> SUFFICES ASSUME NEW g \in Gate PROVE active'[g] = Cardinality(Holders(g)')
    BY DEF SlotConservation
  <1> DEFINE p == PoolOf(is_sftp[j])
  <1>1. /\ pc[j] = "rel_pool" /\ pc' = [pc EXCEPT ![j] = "rel_dir"]
        /\ UNCHANGED <<is_sftp, request>>
        /\ active' = [active EXCEPT ![p] = @ - 1]
        /\ p \in Pool
    BY DEF ReleasePool, Goto, queueVars, PoolOf, Pool
  <1>2. /\ pc[j] \in PoolHeld /\ pc[j] \in DirHeld
        /\ pc'[j] \notin PoolHeld /\ pc'[j] \in DirHeld
    BY <1>1 DEF PoolHeld, DirHeld, JobPc, Types
  <1>3. \A i \in Jobs \ {j} : i \in Holders(g)' <=> i \in Holders(g)
    BY <1>1 DEF Holders, Types
  <1>4. /\ j \in Holders(g) <=> (g \in Direction /\ request[j].dir = g) \/ g = p
        /\ j \in Holders(g)' <=> g \in Direction /\ request[j].dir = g
    <2>1. CASE g \in Pool
      BY <1>1, <1>2, <2>1 DEF Holders, Pool, Direction
    <2>2. CASE g \in Direction
      BY <1>1, <1>2, <2>2 DEF Holders, Pool, Direction
    <2>3. QED
      BY <2>1, <2>2 DEF Gate
  <1>5. Holders(g)' = IF g = p THEN Holders(g) \ {j} ELSE Holders(g)
    <2>1. Holders(g)' \subseteq Jobs /\ Holders(g) \subseteq Jobs
      BY DEF Holders
    <2>2. p \notin Direction
      BY <1>1 DEF Pool, Direction
    <2>3. QED
      BY <1>3, <1>4, <2>1, <2>2
  <1>6. active[g] = Cardinality(Holders(g)) /\ IsFiniteSet(Holders(g))
    BY HoldersFinite DEF SlotConservation
  <1>7. CASE g = p
    BY <1>1, <1>4, <1>5, <1>6, <1>7, FS_RemoveElement DEF Types
  <1>8. CASE g # p
    BY <1>1, <1>5, <1>6, <1>8 DEF Types
  <1>9. QED
    BY <1>7, <1>8

(* The direction release lowers the counter of the job's direction. *)
LEMMA SlotsReleaseDirection ==
  ASSUME Types, SlotConservation, NEW j \in Jobs, ReleaseDirection(j)
  PROVE  SlotConservation'
  <1> SUFFICES ASSUME NEW g \in Gate PROVE active'[g] = Cardinality(Holders(g)')
    BY DEF SlotConservation
  <1> DEFINE d == request[j].dir
  <1>1. /\ pc[j] = "rel_dir" /\ pc' = [pc EXCEPT ![j] = "notify"]
        /\ UNCHANGED <<is_sftp, request>>
        /\ active' = [active EXCEPT ![d] = @ - 1]
        /\ d \in Direction
    BY DEF ReleaseDirection, Goto, queueVars, Types
  <1>2. /\ pc[j] \notin PoolHeld /\ pc[j] \in DirHeld
        /\ pc'[j] \notin PoolHeld /\ pc'[j] \notin DirHeld
    BY <1>1 DEF PoolHeld, DirHeld, JobPc, Types
  <1>3. \A i \in Jobs \ {j} : i \in Holders(g)' <=> i \in Holders(g)
    BY <1>1 DEF Holders, Types
  <1>4. (j \in Holders(g) <=> g = d) /\ j \notin Holders(g)'
    <2>1. CASE g \in Pool
      BY <1>1, <1>2, <2>1 DEF Holders, Pool, Direction
    <2>2. CASE g \in Direction
      BY <1>1, <1>2, <2>2 DEF Holders, Pool, Direction
    <2>3. QED
      BY <2>1, <2>2 DEF Gate
  <1>5. Holders(g)' = IF g = d THEN Holders(g) \ {j} ELSE Holders(g)
    <2>1. Holders(g)' \subseteq Jobs /\ Holders(g) \subseteq Jobs
      BY DEF Holders
    <2>2. QED
      BY <1>3, <1>4, <2>1
  <1>6. active[g] = Cardinality(Holders(g)) /\ IsFiniteSet(Holders(g))
    BY HoldersFinite DEF SlotConservation
  <1>7. CASE g = d
    BY <1>1, <1>4, <1>5, <1>6, <1>7, FS_RemoveElement DEF Types
  <1>8. CASE g # d
    BY <1>1, <1>5, <1>6, <1>8 DEF Types
  <1>9. QED
    BY <1>7, <1>8

(* Every action keeps the counters equal to the numbers of holders. *)
LEMMA SlotsStep ==
  Types /\ QueueOrder /\ SlotConservation /\ [Next]_vars => SlotConservation'
  <1> SUFFICES ASSUME Types, QueueOrder, SlotConservation, [Next]_vars PROVE SlotConservation'
    OBVIOUS
  <1> USE DEF PoolHeld, DirHeld, JobPc
  <1>1. CASE Enqueue
    <2>1. next_id \in Jobs /\ pc[next_id] = "none"
      BY <1>1 DEF Enqueue, Types, QueueOrder, Jobs
    <2>2. QED
      BY <1>1, <2>1, SlotsStable DEF Enqueue, Types, limitVars, Goto
  <1>2. CASE Acquire
    BY <1>2, SlotsAcquire
  <1>3. CASE Recv \/ LookupKind \/ TestPool \/ TestDirection \/ Waits \/ Notified
    BY <1>3, SlotsStable DEF Recv, LookupKind, TestPool, TestDirection, Waits, Notified,
                            queueVars, limitVars, workerVars
  <1>4. CASE SetContinues \/ UNCHANGED vars
    BY <1>4, SlotsStable DEF SetContinues, SetDirLimits, SetNotify, vars, queueVars, limitVars,
                            workerVars
  <1>5. ASSUME NEW j \in Jobs, Cancel(j) PROVE SlotConservation'
    BY <1>5, SlotsStable DEF Cancel, queueVars, limitVars, workerVars
  <1>6. ASSUME NEW c \in Connections, Disconnect(c) PROVE SlotConservation'
    BY <1>6, SlotsStable DEF Disconnect, queueVars, limitVars, workerVars
  <1>7. ASSUME NEW arg \in LimitChoices, SetPoolLimits(arg) PROVE SlotConservation'
    BY <1>7, SlotsStable DEF SetPoolLimits, queueVars, workerVars
  <1>8. ASSUME NEW j \in Jobs, StartCancelled(j) PROVE SlotConservation'
    BY <1>8, SlotsStable DEF StartCancelled, Goto, Emit, queueVars, limitVars, Types
  <1>9. ASSUME NEW j \in Jobs, Start(j) PROVE SlotConservation'
    BY <1>9, SlotsStable DEF Start, Goto, Emit, queueVars, limitVars, Types
  <1>10. ASSUME NEW j \in Jobs, Opened(j) PROVE SlotConservation'
    BY <1>10, SlotsStable DEF Opened, Goto, queueVars, limitVars, Types
  <1>11. ASSUME NEW j \in Jobs, LastCheck(j) PROVE SlotConservation'
    BY <1>11, SlotsStable DEF LastCheck, Goto, queueVars, limitVars, Types
  <1>12. ASSUME NEW j \in Jobs, AttemptDone(j) PROVE SlotConservation'
    BY <1>12, SlotsStable DEF AttemptDone, Goto, Break, queueVars, limitVars, Types
  <1>13. ASSUME NEW j \in Jobs, AttemptCancelled(j) PROVE SlotConservation'
    BY <1>13, SlotsStable DEF AttemptCancelled, Goto, Break, queueVars, limitVars, Types
  <1>14. ASSUME NEW j \in Jobs, AttemptRetries(j) PROVE SlotConservation'
    BY <1>14, SlotsStable DEF AttemptRetries, Goto, Emit, queueVars, limitVars, Types
  <1>15. ASSUME NEW j \in Jobs, AttemptFails(j) PROVE SlotConservation'
    BY <1>15, SlotsStable DEF AttemptFails, Goto, Break, queueVars, limitVars, Types
  <1>16. ASSUME NEW j \in Jobs, BackoffEnds(j) PROVE SlotConservation'
    BY <1>16, SlotsStable DEF BackoffEnds, Goto, Break, queueVars, limitVars, Types
  <1>17. ASSUME NEW j \in Jobs, Finish(j) PROVE SlotConservation'
    BY <1>17, SlotsStable DEF Finish, Goto, Emit, queueVars, limitVars, Types
  <1>18. ASSUME NEW j \in Jobs, ReleasePool(j) PROVE SlotConservation'
    BY <1>18, SlotsReleasePool
  <1>19. ASSUME NEW j \in Jobs, ReleaseDirection(j) PROVE SlotConservation'
    BY <1>19, SlotsReleaseDirection
  <1>20. ASSUME NEW j \in Jobs, NotifyFreed(j) PROVE SlotConservation'
    BY <1>20, SlotsStable DEF NotifyFreed, Goto, queueVars, Types
  <1>21. QED
    BY <1>1, <1>2, <1>3, <1>4, <1>5, <1>6, <1>7, <1>8, <1>9, <1>10, <1>11, <1>12, <1>13, <1>14, <1>15, <1>16, <1>17, <1>18, <1>19, <1>20
    DEF Next, Commands, Dispatcher, RunOne
-----------------------------------------------------------------------------
(* The rows agree with the tasks initially. *)
LEMMA RowsInit == Init => Rows
  BY DEF Init, Rows

(* Rows looks at pc, shown and result only. *)
LEMMA RowsStable == Rows /\ UNCHANGED <<pc, shown, result>> => Rows'
  BY DEF Rows

(* Every action keeps the rows in agreement with the tasks. *)
LEMMA RowsStep == Types /\ QueueOrder /\ Rows /\ [Next]_vars => Rows'
  <1> SUFFICES ASSUME Types, QueueOrder, Rows, [Next]_vars PROVE Rows'
    OBVIOUS
  <1> USE DEF Types, Rows, JobPc, Terminal
  <1>1. CASE Enqueue
    BY <1>1 DEF Enqueue, Emit, Goto
  <1>2. CASE Acquire
    <2>1. pc[disp.id] = "sent" /\ pc' = [pc EXCEPT ![disp.id] = "spawned"]
      BY <1>2 DEF Acquire, Goto, QueueOrder, FirstWaiting, Jobs
    <2>2. QED
      BY <1>2, <2>1 DEF Acquire
  <1>3. CASE Recv \/ LookupKind \/ TestPool \/ TestDirection \/ Waits \/ Notified
    BY <1>3, RowsStable DEF Recv, LookupKind, TestPool, TestDirection, Waits, Notified, workerVars
  <1>4. CASE SetContinues \/ UNCHANGED vars
    BY <1>4, RowsStable DEF SetContinues, SetDirLimits, SetNotify, vars, workerVars
  <1>5. ASSUME NEW j \in Jobs, Cancel(j) PROVE Rows'
    BY <1>5, RowsStable DEF Cancel, workerVars
  <1>6. ASSUME NEW c \in Connections, Disconnect(c) PROVE Rows'
    BY <1>6, RowsStable DEF Disconnect, workerVars
  <1>7. ASSUME NEW arg \in LimitChoices, SetPoolLimits(arg) PROVE Rows'
    BY <1>7, RowsStable DEF SetPoolLimits, workerVars
  <1>8. ASSUME NEW j \in Jobs, StartCancelled(j) PROVE Rows'
    BY <1>8 DEF StartCancelled, Goto, Emit
  <1>9. ASSUME NEW j \in Jobs, Start(j) PROVE Rows'
    BY <1>9 DEF Start, Goto, Emit
  <1>10. ASSUME NEW j \in Jobs, Opened(j) PROVE Rows'
    BY <1>10 DEF Opened, Goto
  <1>11. ASSUME NEW j \in Jobs, LastCheck(j) PROVE Rows'
    BY <1>11 DEF LastCheck, Goto
  <1>12. ASSUME NEW j \in Jobs, AttemptDone(j) PROVE Rows'
    BY <1>12 DEF AttemptDone, Goto, Break
  <1>13. ASSUME NEW j \in Jobs, AttemptCancelled(j) PROVE Rows'
    BY <1>13 DEF AttemptCancelled, Goto, Break
  <1>14. ASSUME NEW j \in Jobs, AttemptRetries(j) PROVE Rows'
    BY <1>14 DEF AttemptRetries, Goto, Emit
  <1>15. ASSUME NEW j \in Jobs, AttemptFails(j) PROVE Rows'
    BY <1>15 DEF AttemptFails, Goto, Break
  <1>16. ASSUME NEW j \in Jobs, BackoffEnds(j) PROVE Rows'
    BY <1>16 DEF BackoffEnds, Goto, Break
  <1>17. ASSUME NEW j \in Jobs, Finish(j) PROVE Rows'
    BY <1>17 DEF Finish, Goto, Emit
  <1>18. ASSUME NEW j \in Jobs, ReleasePool(j) PROVE Rows'
    BY <1>18 DEF ReleasePool, Goto
  <1>19. ASSUME NEW j \in Jobs, ReleaseDirection(j) PROVE Rows'
    BY <1>19 DEF ReleaseDirection, Goto
  <1>20. ASSUME NEW j \in Jobs, NotifyFreed(j) PROVE Rows'
    BY <1>20 DEF NotifyFreed, Goto
  <1>21. QED
    BY <1>1, <1>2, <1>3, <1>4, <1>5, <1>6, <1>7, <1>8, <1>9, <1>10, <1>11, <1>12, <1>13, <1>14, <1>15, <1>16, <1>17, <1>18, <1>19, <1>20
    DEF Next, Commands, Dispatcher, RunOne
-----------------------------------------------------------------------------
(* Nothing has been tested initially. *)
LEMMA TestedInit == Init => Tested
  BY DEF Init, Tested, AtRecv

(* A step that raises no counter and leaves the dispatcher keeps Tested. *)
LEMMA TestedStable ==
  ASSUME Types, Types', Tested, UNCHANGED <<disp, request>>,
         \A g \in Gate : active'[g] <= active[g]
  PROVE  Tested'
  <1>1. PoolOf(disp.sftp) \in Gate
    BY DEF PoolOf, Gate, Pool
  <1>2. disp.pc # "recv" => request[disp.id].dir \in Gate
    BY DEF Types, Gate
  <1>3. /\ disp.pool_max \in Nat /\ disp.dir_max \in Nat
        /\ active \in [Gate -> Int] /\ active' \in [Gate -> Int]
    BY DEF Types, DispRecord
  <1>4. QED
    BY <1>1, <1>2, <1>3 DEF Tested

(* No step of run_one raises a counter. *)
LEMMA RunOneLowers ==
  ASSUME Types, NEW j \in Jobs, RunOne(j)
  PROVE  UNCHANGED <<disp, request>> /\ \A g \in Gate : active'[g] <= active[g]
  <1> USE DEF queueVars, limitVars, Types
  <1>1. CASE StartCancelled(j)
    BY <1>1 DEF StartCancelled
  <1>2. CASE Start(j)
    BY <1>2 DEF Start
  <1>3. CASE Opened(j)
    BY <1>3 DEF Opened
  <1>4. CASE LastCheck(j)
    BY <1>4 DEF LastCheck
  <1>5. CASE AttemptDone(j)
    BY <1>5 DEF AttemptDone
  <1>6. CASE AttemptCancelled(j)
    BY <1>6 DEF AttemptCancelled
  <1>7. CASE AttemptRetries(j)
    BY <1>7 DEF AttemptRetries
  <1>8. CASE AttemptFails(j)
    BY <1>8 DEF AttemptFails
  <1>9. CASE BackoffEnds(j)
    BY <1>9 DEF BackoffEnds
  <1>10. CASE Finish(j)
    BY <1>10 DEF Finish
  <1>11. CASE ReleasePool(j)
    BY <1>11 DEF ReleasePool
  <1>12. CASE ReleaseDirection(j)
    BY <1>12 DEF ReleaseDirection
  <1>13. CASE NotifyFreed(j)
    BY <1>13 DEF NotifyFreed
  <1>14. QED
    BY <1>1, <1>2, <1>3, <1>4, <1>5, <1>6, <1>7, <1>8, <1>9, <1>10, <1>11, <1>12, <1>13 DEF RunOne

(* Every action keeps what has_slot has read true. *)
LEMMA TestedStep == Types /\ Types' /\ Tested /\ [Next]_vars => Tested'
  <1> SUFFICES ASSUME Types, Types', Tested, [Next]_vars PROVE Tested'
    OBVIOUS
  <1> DEFINE Lower == \A g \in Gate : active'[g] <= active[g]
  <1>0. UNCHANGED active => Lower
    BY DEF Types
  <1>1. CASE Enqueue \/ SetContinues \/ UNCHANGED vars
    BY <1>0, <1>1, TestedStable DEF Enqueue, SetContinues, SetDirLimits, SetNotify, vars,
                                   queueVars, limitVars
  <1>2. CASE Recv \/ LookupKind \/ Waits \/ Notified \/ Acquire
    <2>1. disp'.pc \in {"recv", "kind", "test_pool", "wait"}
      <3>1. CASE Recv
        BY <3>1 DEF Recv, Types, DispRecord
      <3>2. CASE LookupKind
        BY <3>2 DEF LookupKind, Types, DispRecord
      <3>3. CASE Waits
        BY <3>3 DEF Waits, Types, DispRecord
      <3>4. CASE Notified
        BY <3>4 DEF Notified, Types, DispRecord
      <3>5. CASE Acquire
        BY <3>5 DEF Acquire, AtRecv
      <3>6. QED
        BY <1>2, <3>1, <3>2, <3>3, <3>4, <3>5
    <2>2. QED
      BY <2>1 DEF Tested
  <1>3. CASE TestPool
    <2> DEFINE q == PoolOf(disp.sftp)
    <2>1. /\ disp' = [disp EXCEPT !.pc = IF active[q] < limits[q] THEN "test_dir" ELSE "full",
                                 !.pool_max = limits[q]]
          /\ UNCHANGED <<active, request>>
      BY <1>3 DEF TestPool, limitVars, queueVars
    <2>2. /\ disp'.sftp = disp.sftp /\ disp'.pool_max = limits[q]
          /\ disp'.pc # "acquire" /\ disp'.pc = "test_dir" => active[q] < limits[q]
      BY <2>1 DEF Types, DispRecord
    <2>3. QED
      BY <2>1, <2>2 DEF Tested
  <1>4. CASE TestDirection
    <2> DEFINE d == request[disp.id].dir
    <2>1. /\ disp' = [disp EXCEPT !.pc = IF limits[d] = 0 \/ active[d] < limits[d]
                                        THEN "acquire" ELSE "full",
                                 !.dir_max = limits[d]]
          /\ disp.pc = "test_dir"
          /\ UNCHANGED <<active, request>>
      BY <1>4 DEF TestDirection, limitVars, queueVars
    <2>2. /\ disp'.sftp = disp.sftp /\ disp'.id = disp.id
          /\ disp'.pool_max = disp.pool_max /\ disp'.dir_max = limits[d]
          /\ disp'.pc \in {"acquire", "full"}
          /\ disp'.pc = "acquire" => limits[d] = 0 \/ active[d] < limits[d]
      BY <2>1 DEF Types, DispRecord
    <2>3. QED
      BY <2>1, <2>2 DEF Tested
  <1>5. ASSUME NEW j \in Jobs, Cancel(j) PROVE Tested'
    BY <1>0, <1>5, TestedStable DEF Cancel, queueVars, limitVars
  <1>6. ASSUME NEW c \in Connections, Disconnect(c) PROVE Tested'
    BY <1>0, <1>6, TestedStable DEF Disconnect, queueVars, limitVars
  <1>7. ASSUME NEW arg \in LimitChoices, SetPoolLimits(arg) PROVE Tested'
    BY <1>0, <1>7, TestedStable DEF SetPoolLimits, queueVars
  <1>8. ASSUME NEW j \in Jobs, RunOne(j) PROVE Tested'
    <2>1. UNCHANGED <<disp, request>> /\ Lower
      BY <1>8, RunOneLowers DEF Types
    <2>2. QED
      BY <2>1, TestedStable
  <1>9. QED
    BY <1>1, <1>2, <1>3, <1>4, <1>5, <1>6, <1>7, <1>8
    DEF Next, Commands, Dispatcher
-----------------------------------------------------------------------------
(* The inductive invariant, and what follows from it. *)
LEMMA InductiveInvariant == Spec => []IInv
  <1>1. Init => IInv
    BY TypesInit, QueueOrderInit, SlotsInit, RowsInit, TestedInit DEF IInv
  <1>2. IInv /\ [Next]_vars => IInv'
    BY TypesStep, QueueOrderStep, SlotsStep, RowsStep, TestedStep DEF IInv
  <1>3. QED
    BY <1>1, <1>2, PTL DEF Spec

(* Every variable stays in its type; in particular no counter underflows. *)
THEOREM TypeCorrect == Spec => []TypeOK
  <1>1. IInv => TypeOK
    <2> SUFFICES ASSUME IInv PROVE TypeOK
      OBVIOUS
    <2>1. \A g \in Gate : active[g] \in Nat
      BY HoldersFinite, FS_CardinalityType DEF IInv, SlotConservation
    <2>2. active \in [Gate -> Nat]
      BY <2>1 DEF IInv, Types
    <2>3. QED
      BY <2>2 DEF IInv, Types, TypeOK
  <1>2. QED
    BY <1>1, InductiveInvariant, PTL

(* Limits' counters are exact: no slot leaks, none is released twice. *)
THEOREM SlotsConserved == Spec => []SlotConservation
  BY InductiveInvariant, PTL DEF IInv

(* Transfers take their slots in the order they were enqueued. *)
THEOREM Fifo == Spec => []StartsInOrder
  <1>1. IInv => StartsInOrder
    <2> SUFFICES ASSUME Types, QueueOrder, NEW i \in Jobs, NEW j \in Jobs,
                        i < j, pc[j] \notin {"none", "sent"}
                 PROVE  pc[i] \notin {"none", "sent"}
      BY DEF IInv, StartsInOrder
    <2>1. /\ FirstWaiting \in Int /\ FirstWaiting <= next_id
          /\ i \in Int /\ j \in Int /\ next_id \in Int
      BY DEF Types, FirstWaiting, Jobs
    <2>2. j < FirstWaiting
      BY <2>1 DEF QueueOrder
    <2>3. QED
      BY <2>1, <2>2 DEF QueueOrder
  <1>2. QED
    BY <1>1, InductiveInvariant, PTL
-----------------------------------------------------------------------------
(* No wakeup is lost: a step either leaves what the sleeping dispatcher    *)
(* looks at alone, or notifies, or has its own notification to come.       *)
Pending == \/ main.pc \in {"set_dir", "set_notify"}
           \/ \E j \in Jobs : pc[j] \in {"rel_dir", "notify"}

(* A step that leaves the gates and the wakers alone keeps the wakeup. *)
LEMMA WakeupStable ==
  ASSUME NoLostWakeup, UNCHANGED <<disp, request, active, limits>>, permit => permit',
         Pending => Pending' \/ permit'
  PROVE  NoLostWakeup'
  BY DEF NoLostWakeup, GateOpen, Pending

(* Every action that opens a gate leaves a notification to come. *)
LEMMA WakeupStep == Types /\ QueueOrder /\ NoLostWakeup /\ [Next]_vars => NoLostWakeup'
  <1> SUFFICES ASSUME Types, QueueOrder, NoLostWakeup, [Next]_vars PROVE NoLostWakeup'
    OBVIOUS
  <1> USE DEF Types, queueVars, limitVars, mainVars, workerVars
  <1>1. CASE Enqueue
    <2>1. next_id \in Jobs /\ pc[next_id] = "none"
      BY <1>1 DEF Enqueue, QueueOrder, Jobs
    <2>2. QED
      BY <1>1, <2>1, WakeupStable DEF Enqueue, Pending, Goto
  <1>2. CASE Recv \/ LookupKind \/ Notified \/ Acquire
    <2>1. disp'.pc \in {"recv", "kind", "test_pool"}
      <3>1. CASE Recv
        BY <3>1 DEF Recv, DispRecord
      <3>2. CASE LookupKind
        BY <3>2 DEF LookupKind, DispRecord
      <3>3. CASE Notified
        BY <3>3 DEF Notified, DispRecord
      <3>4. CASE Acquire
        BY <3>4 DEF Acquire, AtRecv
      <3>5. QED
        BY <1>2, <3>1, <3>2, <3>3, <3>4
    <2>2. QED
      BY <2>1 DEF NoLostWakeup
  <1>3. CASE TestPool
    <2> DEFINE q == PoolOf(disp.sftp)
    <2>1. /\ disp'.pc = "full" => ~(active[q] < limits[q])
          /\ disp'.pc # "wait" /\ disp'.sftp = disp.sftp
          /\ UNCHANGED <<active, limits>>
      BY <1>3 DEF TestPool, DispRecord
    <2>2. QED
      BY <2>1 DEF NoLostWakeup, GateOpen
  <1>4. CASE TestDirection
    <2> DEFINE d == request[disp.id].dir
    <2>1. /\ disp'.pc = "full" => ~(limits[d] = 0 \/ active[d] < limits[d])
          /\ disp'.pc # "wait" /\ disp'.id = disp.id
          /\ UNCHANGED <<active, limits, request>>
      BY <1>4 DEF TestDirection, DispRecord
    <2>2. QED
      BY <2>1 DEF NoLostWakeup, GateOpen
  <1>5. CASE Waits
    <2>1. /\ disp'.sftp = disp.sftp /\ disp'.id = disp.id /\ disp.pc = "full"
          /\ UNCHANGED <<active, limits, request, permit, main, pc>>
      BY <1>5 DEF Waits, DispRecord
    <2>2. QED
      BY <2>1 DEF NoLostWakeup, GateOpen
  <1>6. CASE SetDirLimits
    <2>1. main'.pc = "set_notify"
      BY <1>6 DEF SetDirLimits, Idle
    <2>2. QED
      BY <2>1 DEF NoLostWakeup
  <1>7. CASE SetNotify
    BY <1>7 DEF SetNotify, NoLostWakeup
  <1>8. ASSUME NEW j \in Jobs, Cancel(j) PROVE NoLostWakeup'
    BY <1>8, WakeupStable DEF Cancel, Pending
  <1>9. ASSUME NEW c \in Connections, Disconnect(c) PROVE NoLostWakeup'
    BY <1>9, WakeupStable DEF Disconnect, Pending
  <1>10. ASSUME NEW arg \in LimitChoices, SetPoolLimits(arg) PROVE NoLostWakeup'
    BY <1>10 DEF SetPoolLimits, NoLostWakeup
  <1>11. ASSUME NEW j \in Jobs, StartCancelled(j) PROVE NoLostWakeup'
    BY <1>11, WakeupStable DEF StartCancelled, Pending, Goto
  <1>12. ASSUME NEW j \in Jobs, Start(j) PROVE NoLostWakeup'
    BY <1>12, WakeupStable DEF Start, Pending, Goto
  <1>13. ASSUME NEW j \in Jobs, Opened(j) PROVE NoLostWakeup'
    BY <1>13, WakeupStable DEF Opened, Pending, Goto
  <1>14. ASSUME NEW j \in Jobs, LastCheck(j) PROVE NoLostWakeup'
    BY <1>14, WakeupStable DEF LastCheck, Pending, Goto
  <1>15. ASSUME NEW j \in Jobs, AttemptDone(j) PROVE NoLostWakeup'
    BY <1>15, WakeupStable DEF AttemptDone, Pending, Goto, Break
  <1>16. ASSUME NEW j \in Jobs, AttemptCancelled(j) PROVE NoLostWakeup'
    BY <1>16, WakeupStable DEF AttemptCancelled, Pending, Goto, Break
  <1>17. ASSUME NEW j \in Jobs, AttemptRetries(j) PROVE NoLostWakeup'
    BY <1>17, WakeupStable DEF AttemptRetries, Pending, Goto
  <1>18. ASSUME NEW j \in Jobs, AttemptFails(j) PROVE NoLostWakeup'
    BY <1>18, WakeupStable DEF AttemptFails, Pending, Goto, Break
  <1>19. ASSUME NEW j \in Jobs, BackoffEnds(j) PROVE NoLostWakeup'
    BY <1>19, WakeupStable DEF BackoffEnds, Pending, Goto, Break
  <1>20. ASSUME NEW j \in Jobs, Finish(j) PROVE NoLostWakeup'
    BY <1>20, WakeupStable DEF Finish, Pending, Goto
  <1>21. ASSUME NEW j \in Jobs, ReleasePool(j) PROVE NoLostWakeup'
    <2>1. pc'[j] = "rel_dir"
      BY <1>21 DEF ReleasePool, Goto
    <2>2. QED
      BY <2>1 DEF NoLostWakeup
  <1>22. ASSUME NEW j \in Jobs, ReleaseDirection(j) PROVE NoLostWakeup'
    <2>1. pc'[j] = "notify"
      BY <1>22 DEF ReleaseDirection, Goto
    <2>2. QED
      BY <2>1 DEF NoLostWakeup
  <1>23. ASSUME NEW j \in Jobs, NotifyFreed(j) PROVE NoLostWakeup'
    BY <1>23 DEF NotifyFreed, NoLostWakeup
  <1>24. CASE UNCHANGED vars
    BY <1>24, WakeupStable DEF vars, Pending
  <1>25. QED
    BY <1>1, <1>2, <1>3, <1>4, <1>5, <1>6, <1>7, <1>8, <1>9, <1>10, <1>11, <1>12, <1>13, <1>14, <1>15, <1>16, <1>17, <1>18, <1>19, <1>20, <1>21, <1>22, <1>23, <1>24
    DEF Next, Commands, SetContinues, Dispatcher, RunOne

(* The dispatcher never sleeps through a free slot. *)
THEOREM WakeupsKept == Spec => []NoLostWakeup
  <1>1. Init => NoLostWakeup
    BY DEF Init, AtRecv, NoLostWakeup
  <1>2. IInv => Types /\ QueueOrder
    BY DEF IInv
  <1>3. QED
    BY <1>1, <1>2, WakeupStep, InductiveInvariant, PTL DEF Spec
-----------------------------------------------------------------------------
(* Only the acquire step raises a counter. *)
LEMMA OnlyAcquireRaises ==
  ASSUME Types, Types', [Next]_vars, NEW g \in Gate, active'[g] > active[g]
  PROVE  Acquire
  <1>1. active[g] \in Int /\ active'[g] \in Int
    BY DEF Types
  <1>2. SUFFICES ASSUME ~Acquire PROVE active'[g] <= active[g]
    BY <1>1
  <1> USE DEF queueVars, limitVars, mainVars, workerVars
  <1>3. ASSUME NEW j \in Jobs, Cancel(j) PROVE active'[g] <= active[g]
    BY <1>1, <1>3 DEF Cancel
  <1>4. ASSUME NEW c \in Connections, Disconnect(c) PROVE active'[g] <= active[g]
    BY <1>1, <1>4 DEF Disconnect
  <1>5. ASSUME NEW arg \in LimitChoices, SetPoolLimits(arg) PROVE active'[g] <= active[g]
    BY <1>1, <1>5 DEF SetPoolLimits
  <1>6. ASSUME NEW j \in Jobs, RunOne(j) PROVE active'[g] <= active[g]
    BY <1>6, RunOneLowers
  <1>7. CASE Enqueue \/ SetContinues \/ UNCHANGED vars
    BY <1>1, <1>7 DEF Enqueue, SetContinues, SetDirLimits, SetNotify, vars
  <1>8. CASE Recv \/ LookupKind \/ TestPool \/ TestDirection \/ Waits \/ Notified
    BY <1>1, <1>8 DEF Recv, LookupKind, TestPool, TestDirection, Waits, Notified
  <1>9. QED
    BY <1>2, <1>3, <1>4, <1>5, <1>6, <1>7, <1>8 DEF Next, Commands, Dispatcher

(* A transfer starts within the limits has_slot read for it. *)
THEOREM LimitsHonoured == Spec => StartsWithinLimits
  <1> DEFINE Within == \A g \in Gate : active'[g] > active[g] =>
                         IF g \in Pool THEN active'[g] <= disp.pool_max
                                       ELSE disp.dir_max = 0 \/ active'[g] <= disp.dir_max
  <1>1. IInv /\ [Next]_vars => Within
    <2> SUFFICES ASSUME IInv, [Next]_vars, NEW g \in Gate, active'[g] > active[g]
                 PROVE  IF g \in Pool THEN active'[g] <= disp.pool_max
                                      ELSE disp.dir_max = 0 \/ active'[g] <= disp.dir_max
      OBVIOUS
    <2> USE DEF IInv
    <2>1. Acquire
      BY OnlyAcquireRaises, TypesStep
    <2> DEFINE p == PoolOf(disp.sftp)
               d == request[disp.id].dir
    <2>2. /\ active[g] \in Int /\ disp.pool_max \in Nat /\ disp.dir_max \in Nat
          /\ disp.id \in Jobs /\ p \in Pool /\ d \in Direction
      BY <2>1 DEF Acquire, Types, DispRecord, PoolOf, Pool
    <2>3. active'[g] = IF g \in {p, d} THEN active[g] + 1 ELSE active[g]
      BY <2>1 DEF Acquire
    <2>4. /\ active[p] < disp.pool_max
          /\ disp.dir_max = 0 \/ active[d] < disp.dir_max
      BY <2>1 DEF Acquire, Tested
    <2>5. g \in {p, d}
      BY <2>2, <2>3
    <2>6. p \notin Direction /\ d \notin Pool
      BY <2>2 DEF Pool, Direction
    <2>7. QED
      BY <2>2, <2>3, <2>4, <2>5, <2>6
  <1>2. IInv /\ [Next]_vars => [Within]_vars
    BY <1>1
  <1>3. QED
    BY <1>2, InductiveInvariant, PTL DEF Spec, StartsWithinLimits
-----------------------------------------------------------------------------
(* The events follow the lifecycle promised to the panel: every step of    *)
(* the engine is a step of TransferLifecycle or leaves the rows alone.     *)
LEMMA LifecycleInit == Init => Lifecycle!Init
  BY DEF Init, Lifecycle!Init, Jobs, Lifecycle!Jobs

(* Every step of the engine is a lifecycle step or a stutter. *)
LEMMA LifecycleStep ==
  ASSUME Types, QueueOrder, Rows, [Next]_vars
  PROVE  [Lifecycle!Next]_(Lifecycle!lifecycleVars)
  <1> DEFINE Goal == [Lifecycle!Next]_(Lifecycle!lifecycleVars)
  <1> USE DEF Types, Rows, JobPc, Emit, Goto, Lifecycle!Jobs, Jobs, Terminal,
              Lifecycle!Running, Lifecycle!Terminal
  <1>0. UNCHANGED <<shown, attempt>> => Goal
    BY DEF Lifecycle!lifecycleVars
  <1>1. CASE Enqueue
    <2>1. next_id \in Jobs /\ pc[next_id] = "none"
      BY <1>1 DEF Enqueue, QueueOrder
    <2>2. \A i \in 1 .. (next_id - 1) : i \in Jobs /\ pc[i] # "none"
      BY <2>1, QueueAssumption DEF QueueOrder
    <2>3. /\ shown[next_id] = "none"
          /\ \A i \in 1 .. (next_id - 1) : shown[i] # "none"
      BY <2>1, <2>2
    <2>4. shown' = [shown EXCEPT ![next_id] = "Queued"] /\ attempt' = attempt
      BY <1>1 DEF Enqueue
    <2>5. Lifecycle!Submit(next_id)
      BY <2>3, <2>4 DEF Lifecycle!Submit
    <2>6. QED
      BY <2>1, <2>5 DEF Lifecycle!Next
  <1>2. CASE Dispatcher \/ SetContinues \/ UNCHANGED vars
    BY <1>0, <1>2 DEF Dispatcher, Recv, LookupKind, TestPool, TestDirection, Waits, Notified,
                      Acquire, SetContinues, SetDirLimits, SetNotify, vars, workerVars
  <1>3. ASSUME NEW j \in Jobs, Cancel(j) PROVE Goal
    BY <1>0, <1>3 DEF Cancel, workerVars
  <1>4. ASSUME NEW c \in Connections, Disconnect(c) PROVE Goal
    BY <1>0, <1>4 DEF Disconnect, workerVars
  <1>5. ASSUME NEW arg \in LimitChoices, SetPoolLimits(arg) PROVE Goal
    BY <1>0, <1>5 DEF SetPoolLimits, workerVars
  <1>6. ASSUME NEW j \in Jobs, StartCancelled(j) PROVE Goal
    <2>1. Lifecycle!Settle(j)
      BY <1>6 DEF StartCancelled, Lifecycle!Settle
    <2>2. QED
      BY <2>1 DEF Lifecycle!Next
  <1>7. ASSUME NEW j \in Jobs, Start(j) PROVE Goal
    <2>1. Lifecycle!Begin(j)
      BY <1>7 DEF Start, Lifecycle!Begin
    <2>2. QED
      BY <2>1 DEF Lifecycle!Next
  <1>8. ASSUME NEW j \in Jobs, AttemptRetries(j) PROVE Goal
    <2>1. Lifecycle!Retry(j)
      BY <1>8 DEF AttemptRetries, Lifecycle!Retry
    <2>2. QED
      BY <2>1 DEF Lifecycle!Next
  <1>9. ASSUME NEW j \in Jobs, Finish(j) PROVE Goal
    <2>1. shown[j] \in {"Start", "Retry"} /\ result[j] \in Terminal
      BY <1>9 DEF Finish
    <2>2. Lifecycle!Settle(j)
      BY <1>9, <2>1 DEF Finish, Lifecycle!Settle
    <2>3. QED
      BY <2>2 DEF Lifecycle!Next
  <1>10. ASSUME NEW j \in Jobs,
                Opened(j) \/ LastCheck(j) \/ AttemptDone(j) \/ AttemptCancelled(j)
                \/ AttemptFails(j) \/ BackoffEnds(j)
         PROVE  Goal
    BY <1>0, <1>10 DEF Opened, LastCheck, AttemptDone, AttemptCancelled, AttemptFails,
                       BackoffEnds
  <1>11. ASSUME NEW j \in Jobs, ReleasePool(j) \/ ReleaseDirection(j) \/ NotifyFreed(j)
         PROVE  Goal
    BY <1>0, <1>11 DEF ReleasePool, ReleaseDirection, NotifyFreed
  <1>12. QED
    BY <1>1, <1>2, <1>3, <1>4, <1>5, <1>6, <1>7, <1>8, <1>9, <1>10, <1>11
    DEF Next, Commands, RunOne

(* The engine implements the safety part of TransferLifecycle. *)
THEOREM ImplementsLifecycle == Spec => LifecycleSafety
  <1>1. IInv => Types /\ QueueOrder /\ Rows
    BY DEF IInv
  <1>2. IInv /\ [Next]_vars => [Lifecycle!Next]_(Lifecycle!lifecycleVars)
    BY <1>1, LifecycleStep
  <1>3. QED
    BY <1>2, LifecycleInit, InductiveInvariant, PTL
    DEF Spec, LifecycleSafety, Lifecycle!Safety
-----------------------------------------------------------------------------
(* A cancel request is kept until it is answered. *)
CancelKept(j) == (j \in cancel /\ pc[j] \in {"sent", "spawned", "open", "copy", "backoff"}) =>
              /\ j \in cancel' \/ "Cancelled" \in {result'[j], shown'[j]}
              /\ pc'[j] # "last"
              /\ pc[j] = "spawned" => shown'[j] # "Start"

(* No step consumes a cancel request without answering it. *)
LEMMA CancelStep ==
  ASSUME Types, QueueOrder, Rows, [Next]_vars, NEW i \in Jobs
  PROVE  CancelKept(i)
  <1> USE DEF Types, CancelKept, Goto, Emit, Break, Jobs
  <1>1. CASE Enqueue
    <2>1. pc[next_id] = "none" /\ next_id \in Jobs
      BY <1>1 DEF Enqueue, QueueOrder
    <2>2. QED
      BY <1>1, <2>1 DEF Enqueue, Rows
  <1>2. CASE Acquire
    <2>1. pc[disp.id] = "sent"
      BY <1>2 DEF Acquire, QueueOrder, FirstWaiting
    <2>2. QED
      BY <1>2, <2>1 DEF Acquire, Rows
  <1>3. CASE \/ Recv \/ LookupKind \/ TestPool \/ TestDirection \/ Waits \/ Notified
            \/ SetContinues \/ UNCHANGED vars
    BY <1>3 DEF Recv, LookupKind, TestPool, TestDirection, Waits, Notified, SetContinues,
                SetDirLimits, SetNotify, vars, workerVars, Rows
  <1>4. ASSUME NEW j \in Jobs, Cancel(j) PROVE CancelKept(i)
    BY <1>4 DEF Cancel, workerVars, Rows
  <1>5. ASSUME NEW c \in Connections, Disconnect(c) PROVE CancelKept(i)
    BY <1>5 DEF Disconnect, workerVars, Rows
  <1>6. ASSUME NEW arg \in LimitChoices, SetPoolLimits(arg) PROVE CancelKept(i)
    BY <1>6 DEF SetPoolLimits, workerVars, Rows
  <1>7. ASSUME NEW j \in Jobs, StartCancelled(j) PROVE CancelKept(i)
    BY <1>7 DEF StartCancelled, Rows
  <1>8. ASSUME NEW j \in Jobs, Start(j) PROVE CancelKept(i)
    BY <1>8 DEF Start, Rows
  <1>9. ASSUME NEW j \in Jobs, Opened(j) PROVE CancelKept(i)
    BY <1>9 DEF Opened, Rows
  <1>10. ASSUME NEW j \in Jobs, LastCheck(j) PROVE CancelKept(i)
    BY <1>10 DEF LastCheck, Rows
  <1>11. ASSUME NEW j \in Jobs, AttemptDone(j) PROVE CancelKept(i)
    BY <1>11 DEF AttemptDone, Rows
  <1>12. ASSUME NEW j \in Jobs, AttemptCancelled(j) PROVE CancelKept(i)
    BY <1>12 DEF AttemptCancelled, Rows
  <1>13. ASSUME NEW j \in Jobs, AttemptRetries(j) PROVE CancelKept(i)
    BY <1>13 DEF AttemptRetries, Rows
  <1>14. ASSUME NEW j \in Jobs, AttemptFails(j) PROVE CancelKept(i)
    BY <1>14 DEF AttemptFails, Rows
  <1>15. ASSUME NEW j \in Jobs, BackoffEnds(j) PROVE CancelKept(i)
    BY <1>15 DEF BackoffEnds, Rows
  <1>16. ASSUME NEW j \in Jobs, Finish(j) PROVE CancelKept(i)
    BY <1>16 DEF Finish, Rows
  <1>17. ASSUME NEW j \in Jobs, ReleasePool(j) PROVE CancelKept(i)
    BY <1>17 DEF ReleasePool, Rows
  <1>18. ASSUME NEW j \in Jobs, ReleaseDirection(j) PROVE CancelKept(i)
    BY <1>18 DEF ReleaseDirection, Rows
  <1>19. ASSUME NEW j \in Jobs, NotifyFreed(j) PROVE CancelKept(i)
    BY <1>19 DEF NotifyFreed, Rows
  <1>20. QED
    BY <1>1, <1>2, <1>3, <1>4, <1>5, <1>6, <1>7, <1>8, <1>9, <1>10, <1>11, <1>12, <1>13, <1>14, <1>15, <1>16, <1>17, <1>18, <1>19
    DEF Next, Commands, Dispatcher, RunOne

(* A cancel request made in time is kept and answered. *)
THEOREM CancelHonoured == Spec => CancelIsKept
  <1> DEFINE Step == \A j \in cancel : pc[j] \in {"sent", "spawned", "open", "copy", "backoff"} =>
                       /\ j \in cancel' \/ "Cancelled" \in {result'[j], shown'[j]}
                       /\ pc'[j] # "last"
                       /\ pc[j] = "spawned" => shown'[j] # "Start"
  <1>1. IInv /\ [Next]_vars => [Step]_vars
    BY CancelStep DEF IInv, Types, CancelKept
  <1>2. QED
    BY <1>1, InductiveInvariant, PTL DEF Spec, CancelIsKept
=============================================================================
