-------------------------- MODULE FtpTransferProofs --------------------------
(***************************************************************************)
(* Proofs about FtpTransfer, for any number of transfers and connections,  *)
(* files of any size and a pool of any size.                               *)
(*                                                                         *)
(* The invariant says where each connection is (Pool), that a task without *)
(* a connection is one that has none yet or is over (Place), and where the *)
(* chunks of a transfer are (Whole).                                       *)
(***************************************************************************)
EXTENDS FtpTransfer, SequenceTheorems, TLAPS

(* What is in a stack, and that nothing is in it twice. *)
Members(s) == {s[i] : i \in DOMAIN s}
Distinct(s) == \A i, k \in DOMAIN s : s[i] = s[k] => i = k

Types ==
    /\ dir \in [Transfers -> {"Download", "Upload"}]
    /\ eng \in [Transfers -> {"queued", "backoff"} \cup Running \cup Ended]
    /\ moved \in [Transfers -> Nat]
    /\ task \in [Transfers -> TaskEnds \cup
                   {"acquire", "begin", "pump", "reply", "report"}]
    /\ chan \in [Transfers -> Nat]
    /\ errored \in [Transfers -> BOOLEAN]
    /\ stored \in [Transfers -> Nat]

Pool ==
    /\ conn \in [Transfers -> Conns \cup {None}]
    /\ idle \in Seq(Conns) /\ Distinct(idle)
    /\ alive \subseteq Members(idle) \cup Held
    /\ Members(idle) \cap Held = {}
    /\ \A t, u \in Transfers : (conn[t] = conn[u] /\ conn[t] # None) => t = u
    /\ owes \subseteq Held

Place == \A t \in Transfers :
    /\ task[t] \in TaskEnds \cup {"acquire"} => conn[t] = None
    /\ task[t] \notin TaskEnds => eng[t] \in Running

Whole == \A t \in Transfers :
    /\ task[t] = "ok" => stored[t] = FileSize
    /\ errored[t] => task[t] = "failed"
    /\ dir[t] = "Download" /\ task[t] = "failed" => errored[t]
    /\ dir[t] = "Download" /\ eng[t] \in Running => moved[t] + chan[t] = stored[t]
    /\ eng[t] = "shutdown" => moved[t] = FileSize /\ dir[t] = "Upload"
    /\ eng[t] = "done" => moved[t] = FileSize /\ stored[t] = FileSize

IInv == Types /\ Pool /\ Place /\ Whole

-----------------------------------------------------------------------------
(* An element appended is a member, once. *)
LEMMA Pushed ==
    ASSUME NEW S, NEW s \in Seq(S), NEW c \in S, Distinct(s), c \notin Members(s)
    PROVE  /\ Append(s, c) \in Seq(S) /\ Distinct(Append(s, c))
           /\ Members(Append(s, c)) = Members(s) \cup {c}
<1>1. /\ Append(s, c) \in Seq(S) /\ Len(Append(s, c)) = Len(s) + 1
      /\ \A i \in 1..Len(s) : Append(s, c)[i] = s[i]
      /\ Append(s, c)[Len(s) + 1] = c
      /\ DOMAIN s = 1..Len(s) /\ DOMAIN Append(s, c) = 1..(Len(s) + 1) /\ Len(s) \in Nat
  OBVIOUS
<1>2. Distinct(Append(s, c))
  <2> SUFFICES ASSUME NEW i \in 1..(Len(s) + 1), NEW k \in 1..(Len(s) + 1),
                      Append(s, c)[i] = Append(s, c)[k]
               PROVE  i = k
    BY <1>1 DEF Distinct
  <2>1. CASE i \in 1..Len(s) /\ k \in 1..Len(s)
    BY <2>1, <1>1 DEF Distinct
  <2>2. CASE i \in 1..Len(s) /\ k = Len(s) + 1
    BY <2>2, <1>1 DEF Members
  <2>3. CASE i = Len(s) + 1 /\ k \in 1..Len(s)
    BY <2>3, <1>1 DEF Members
  <2> QED BY <2>1, <2>2, <2>3, <1>1
<1>3. Members(Append(s, c)) = Members(s) \cup {c}
  <2>1. \A x : x \in Members(s) => x \in Members(Append(s, c))
    BY <1>1 DEF Members
  <2>2. c \in Members(Append(s, c))
    BY <1>1 DEF Members
  <2>3. \A i \in 1..(Len(s) + 1) : i \in 1..Len(s) \/ i = Len(s) + 1
    BY <1>1
  <2>4. \A x : x \in Members(Append(s, c)) => x \in Members(s) \/ x = c
    BY <1>1, <2>3 DEF Members
  <2> QED BY <2>1, <2>2, <2>4
<1> QED BY <1>1, <1>2, <1>3

(* Without its last element. *)
LEMMA Popped ==
    ASSUME NEW S, NEW s \in Seq(S), s # <<>>, Distinct(s)
    PROVE  LET q == SubSeq(s, 1, Len(s) - 1) IN
           /\ q \in Seq(S) /\ Distinct(q) /\ s[Len(s)] \in S
           /\ s[Len(s)] \in Members(s)
           /\ Members(q) = Members(s) \ {s[Len(s)]}
<1> DEFINE q == SubSeq(s, 1, Len(s) - 1)
<1>0. Len(s) \in Nat /\ Len(s) > 0 /\ DOMAIN s = 1..Len(s) /\ s[Len(s)] \in S
  OBVIOUS
<1>1. /\ Len(s) \in Nat /\ Len(s) > 0 /\ DOMAIN s = 1..Len(s) /\ s[Len(s)] \in S
      /\ q \in Seq(S) /\ Len(q) = Len(s) - 1 /\ DOMAIN q = 1..(Len(s) - 1)
      /\ \A i \in 1..(Len(s) - 1) : q[i] = s[i]
  <2>1. /\ 1 \in Int /\ Len(s) - 1 \in Int
        /\ \A i \in 1..(Len(s) - 1) : s[i] \in S
    BY <1>0
  <2>2. /\ q \in Seq(S)
        /\ Len(q) = IF 1 <= Len(s) - 1 THEN Len(s) - 1 - 1 + 1 ELSE 0
        /\ \A i \in 1..(Len(s) - 1 - 1 + 1) : q[i] = s[1 + i - 1]
    BY <2>1, SubSeqProperties
  <2>3. Len(q) = Len(s) - 1 /\ DOMAIN q = 1..(Len(s) - 1)
    BY <1>0, <2>2
  <2>4. \A i \in 1..(Len(s) - 1) : q[i] = s[i]
    <3>1. \A i \in 1..(Len(s) - 1) : i \in 1..(Len(s) - 1 - 1 + 1) /\ 1 + i - 1 = i
      BY <1>0
    <3> QED BY <2>2, <3>1
  <2> QED BY <1>0, <2>2, <2>3, <2>4
<1> HIDE DEF q
<1>2. Distinct(q) /\ s[Len(s)] \in Members(s)
  BY <1>1 DEF Distinct, Members
<1>3. \A i \in 1..(Len(s) - 1) : i \in 1..Len(s) /\ s[i] # s[Len(s)]
  BY <1>1 DEF Distinct
<1>4. \A x : x \in Members(q) => x \in Members(s) /\ x # s[Len(s)]
  BY <1>1, <1>3 DEF Members
<1>5. \A n \in Nat : \A i \in 1..n : i \in 1..(n - 1) \/ i = n
  OBVIOUS
<1>6. \A x : x \in Members(s) /\ x # s[Len(s)] => x \in Members(q)
  BY <1>1, <1>5 DEF Members
<1>7. Members(q) = Members(s) \ {s[Len(s)]}
  BY <1>4, <1>6
<1> QED BY <1>1, <1>2, <1>7 DEF q

-----------------------------------------------------------------------------
(* The pool. *)

(* What is held once a transfer holds another connection, or none. *)
LEMMA HeldAfter ==
    ASSUME Pool, NEW t \in Transfers, NEW x \in Conns \cup {None}, conn' = [conn EXCEPT ![t] = x]
    PROVE  /\ conn' \in [Transfers -> Conns \cup {None}]
           /\ Held' = (Held \ {conn[t]}) \cup ({x} \ {None})
<1>1. conn' \in [Transfers -> Conns \cup {None}] /\ conn'[t] = x
      /\ \A u \in Transfers : u # t => conn'[u] = conn[u]
  BY DEF Pool
<1>2. \A u \in Transfers : u # t /\ conn[u] # None => conn[u] # conn[t]
  BY DEF Pool
<1>3. \A c : c \in Held' => c \in (Held \ {conn[t]}) \cup ({x} \ {None})
  BY <1>1, <1>2 DEF Held
<1>4. \A c : c \in (Held \ {conn[t]}) \cup ({x} \ {None}) => c \in Held'
  BY <1>1, <1>2 DEF Held
<1> QED BY <1>1, <1>3, <1>4

(* A connection that is closed is nowhere. *)
LEMMA CloseKeeps == ASSUME Pool, NEW t \in Transfers, Close(t) PROVE Pool'
<1>1. /\ conn' = [conn EXCEPT ![t] = None] /\ alive' = alive \ {conn[t]}
      /\ owes' = owes \ {conn[t]} /\ idle' = idle
  BY DEF Close
<1>2. /\ conn' \in [Transfers -> Conns \cup {None}]
      /\ Held' = Held \ {conn[t]}
  BY <1>1, HeldAfter
<1>3. \A u, v \in Transfers : (conn'[u] = conn'[v] /\ conn'[u] # None) => u = v
  BY <1>1 DEF Pool
<1> QED BY <1>1, <1>2, <1>3 DEF Pool

(* A connection given back is in the pool, in step, or closed. *)
LEMMA ReleaseKeeps ==
    ASSUME Pool, NEW t \in Transfers, conn[t] # None, Release(t)
    PROVE  Pool'
<1>1. conn' = [conn EXCEPT ![t] = None] /\ owes' = owes \ {conn[t]}
  BY DEF Release
<1>2. /\ conn' \in [Transfers -> Conns \cup {None}]
      /\ Held' = Held \ {conn[t]}
  BY <1>1, HeldAfter
<1>3. \A u, v \in Transfers : (conn'[u] = conn'[v] /\ conn'[u] # None) => u = v
  BY <1>1 DEF Pool
<1>4. conn[t] \in Conns /\ conn[t] \in Held /\ conn[t] \notin Members(idle)
  BY DEF Pool, Held
<1>5. CASE idle' = Append(idle, conn[t]) /\ UNCHANGED alive
  <2>1. /\ idle' \in Seq(Conns) /\ Distinct(idle')
        /\ Members(idle') = Members(idle) \cup {conn[t]}
    BY <1>4, <1>5, Pushed DEF Pool
  <2> QED BY <1>1, <1>2, <1>3, <1>4, <1>5, <2>1 DEF Pool
<1>6. CASE alive' = alive \ {conn[t]} /\ UNCHANGED idle
  BY <1>1, <1>2, <1>3, <1>6 DEF Pool
<1> QED BY <1>5, <1>6 DEF Release

(* What else happens to connections: nothing, one is lost, one owes a reply. *)
LEMMA PoolStays ==
    ASSUME Pool, UNCHANGED <<conn, idle>>, alive' \subseteq alive,
           owes' = owes \/ \E t \in Transfers : conn[t] # None /\ owes' = owes \cup {conn[t]}
    PROVE  Pool'
<1>1. Held' = Held
  BY DEF Held
<1>2. \A t \in Transfers : conn[t] # None => conn[t] \in Held
  BY DEF Held
<1> QED BY <1>1, <1>2 DEF Pool

(* The idle connection returned last is taken out of the pool. *)
LEMMA AcquireIdleKeeps ==
    ASSUME Pool, NEW t \in Transfers, conn[t] = None, AcquireIdle(t)
    PROVE  Pool'
<1> DEFINE c == idle[Len(idle)]
<1>1. /\ conn' = [conn EXCEPT ![t] = c] /\ idle # <<>>
      /\ idle' = SubSeq(idle, 1, Len(idle) - 1) /\ UNCHANGED <<alive, owes>>
  BY DEF AcquireIdle
<1>2. /\ idle' \in Seq(Conns) /\ Distinct(idle') /\ c \in Conns /\ c \in Members(idle)
      /\ Members(idle') = Members(idle) \ {c}
  BY <1>1, Popped DEF Pool
<1>3. c # None /\ c \notin Held
  BY <1>2, FtpAssumption DEF Pool
<1> HIDE DEF c
<1>4. /\ conn' \in [Transfers -> Conns \cup {None}]
      /\ Held' = Held \cup {c}
  BY <1>1, <1>2, <1>3, HeldAfter DEF Held
<1>5. \A u, v \in Transfers : (conn'[u] = conn'[v] /\ conn'[u] # None) => u = v
  <2>1. \A u \in Transfers : conn[u] # c
    BY <1>3 DEF Held
  <2> QED BY <1>1, <2>1 DEF Pool
<1> QED BY <1>1, <1>2, <1>3, <1>4, <1>5 DEF Pool

(* A connection is opened when none is idle. *)
LEMMA AcquireFreshKeeps ==
    ASSUME Pool, NEW t \in Transfers, conn[t] = None, AcquireFresh(t)
    PROVE  Pool'
<1>1. PICK c \in Conns \ Held : conn' = [conn EXCEPT ![t] = c] /\ alive' = alive \cup {c}
  BY DEF AcquireFresh
<1>2. idle = <<>> /\ UNCHANGED <<idle, owes>> /\ c # None
  BY FtpAssumption DEF AcquireFresh
<1>3. Members(idle) = {}
  BY <1>2 DEF Members
<1>4. /\ conn' \in [Transfers -> Conns \cup {None}]
      /\ Held' = Held \cup {c}
  <2>1. c \in Conns \cup {None} /\ conn[t] \notin Held
    BY <1>1 DEF Held
  <2>2. /\ conn' \in [Transfers -> Conns \cup {None}]
        /\ Held' = (Held \ {conn[t]}) \cup ({c} \ {None})
    BY <1>1, <2>1, HeldAfter
  <2> QED BY <1>2, <2>1, <2>2
<1>5. \A u, v \in Transfers : (conn'[u] = conn'[v] /\ conn'[u] # None) => u = v
  <2>1. \A u \in Transfers : conn[u] # c
    BY <1>1, <1>2 DEF Held
  <2> QED BY <1>1, <2>1 DEF Pool
<1> QED BY <1>1, <1>2, <1>3, <1>4, <1>5 DEF Pool

-----------------------------------------------------------------------------
(* The steps. *)

(* The engine's steps leave the pool alone. *)
LEMMA EngineKeeps == ASSUME IInv, NEW t \in Transfers, Engine(t) PROVE IInv'
<1>1. UNCHANGED poolVars /\ UNCHANGED dir
  BY DEF Engine, Open, Read, ReadError, ReadEof, Write, WriteBroken, ShutdownBegins, ShutdownEnds
<1>2. Pool'
  BY <1>1, PoolStays DEF IInv, poolVars
<1>3. CASE Open(t)
  <2>1. conn[t] = None
    BY <1>3 DEF IInv, Place, Types, Open, Running, TaskEnds
  <2>2. Types'
    BY <1>1, <1>3 DEF IInv, Types, Open, Running, TaskEnds
  <2>3. Place'
    BY <1>1, <1>3, <2>1 DEF IInv, Types, Place, Open, Running, TaskEnds, poolVars
  <2>4. Whole'
    BY <1>1, <1>3 DEF IInv, Types, Whole, Open, Running, TaskEnds
  <2> QED BY <1>2, <2>2, <2>3, <2>4 DEF IInv
<1>4. CASE Read(t)
  <2>1. Types' /\ Place'
    BY <1>1, <1>4 DEF IInv, Types, Place, Read, poolVars
  <2>2. Whole'
    BY <1>1, <1>4 DEF IInv, Types, Whole, Read, Running
  <2> QED BY <1>2, <2>1, <2>2 DEF IInv
<1>5. CASE ReadError(t)
  <2>1. task[t] = "failed"
    BY <1>5 DEF IInv, Whole, ReadError
  <2>2. Types'
    BY <1>1, <1>5 DEF IInv, Types, ReadError, Fails, Ended, taskVars
  <2>3. Place'
    BY <1>1, <1>5, <2>1 DEF IInv, Types, Place, ReadError, Fails, TaskEnds, taskVars, poolVars
  <2>4. Whole'
    BY <1>1, <1>5 DEF IInv, Types, Whole, ReadError, Fails, Running, taskVars
  <2> QED BY <1>2, <2>2, <2>3, <2>4 DEF IInv
<1>6. CASE ReadEof(t)
  <2>1. task[t] = "ok" /\ moved[t] = FileSize /\ stored[t] = FileSize
    BY <1>6 DEF IInv, Types, Whole, ReadEof, Running
  <2>2. Types'
    BY <1>1, <1>6 DEF IInv, Types, ReadEof, Ended, taskVars
  <2>3. Place'
    BY <1>1, <1>6, <2>1 DEF IInv, Types, Place, ReadEof, TaskEnds, taskVars, poolVars
  <2>4. Whole'
    BY <1>1, <1>6, <2>1 DEF IInv, Types, Whole, ReadEof, Running, taskVars
  <2> QED BY <1>2, <2>2, <2>3, <2>4 DEF IInv
<1>7. CASE Write(t)
  <2>1. Types' /\ Place'
    BY <1>1, <1>7 DEF IInv, Types, Place, Write, poolVars
  <2>2. Whole'
    BY <1>1, <1>7 DEF IInv, Types, Whole, Write, Running
  <2> QED BY <1>2, <2>1, <2>2 DEF IInv
<1>8. CASE WriteBroken(t)
  <2>1. Types'
    BY <1>1, <1>8 DEF IInv, Types, WriteBroken, Fails, Ended, taskVars
  <2>2. Place'
    BY <1>1, <1>8 DEF IInv, Types, Place, WriteBroken, Fails, TaskEnds, taskVars, poolVars
  <2>3. Whole'
    BY <1>1, <1>8 DEF IInv, Types, Whole, WriteBroken, Fails, Running, taskVars
  <2> QED BY <1>2, <2>1, <2>2, <2>3 DEF IInv
<1>9. CASE ShutdownBegins(t)
  <2>1. Types'
    BY <1>1, <1>9 DEF IInv, Types, ShutdownBegins, Running, taskVars
  <2>2. Place'
    BY <1>1, <1>9 DEF IInv, Types, Place, ShutdownBegins, Running, taskVars, poolVars
  <2>3. Whole'
    BY <1>1, <1>9 DEF IInv, Types, Whole, ShutdownBegins, Running, taskVars
  <2> QED BY <1>2, <2>1, <2>2, <2>3 DEF IInv
<1>10. CASE ShutdownEnds(t)
  <2>1. Types'
    BY <1>1, <1>10 DEF IInv, Types, ShutdownEnds, Fails, Ended, taskVars
  <2>2. Place'
    BY <1>1, <1>10 DEF IInv, Types, Place, ShutdownEnds, Fails, TaskEnds, taskVars, poolVars
  <2>3. Whole'
    BY <1>1, <1>10 DEF IInv, Types, Whole, ShutdownEnds, Fails, Running, taskVars
  <2> QED BY <1>2, <2>1, <2>2, <2>3 DEF IInv
<1> QED BY <1>3, <1>4, <1>5, <1>6, <1>7, <1>8, <1>9, <1>10 DEF Engine

(* The attempt given up, its task is over and its connection closed. *)
LEMMA AbortKeeps == ASSUME IInv, NEW t \in Transfers, Abandon(t) \/ Cancel(t) PROVE IInv'
<1>1. /\ AbortTask(t) /\ UNCHANGED <<dir, moved, chan, errored, stored>>
      /\ \E e \in {"backoff"} \cup Ended : e # "done" /\ eng' = [eng EXCEPT ![t] = e]
  BY DEF Abandon, Cancel, Fails, Ended
<1>2. CASE task[t] \in TaskEnds /\ UNCHANGED <<task, poolVars>>
  <2>1. Pool'
    BY <1>2, PoolStays DEF IInv, poolVars
  <2>2. Types'
    BY <1>1, <1>2 DEF IInv, Types
  <2>3. Place'
    BY <1>1, <1>2 DEF IInv, Types, Place, TaskEnds, poolVars
  <2>4. Whole'
    BY <1>1, <1>2 DEF IInv, Types, Whole, Running, Ended
  <2> QED BY <2>1, <2>2, <2>3, <2>4 DEF IInv
<1>3. CASE task[t] \notin TaskEnds /\ task' = [task EXCEPT ![t] = "aborted"] /\ Close(t)
  <2>1. Pool'
    BY <1>3, CloseKeeps DEF IInv
  <2>2. Types'
    BY <1>1, <1>3 DEF IInv, Types, TaskEnds
  <2>3. Place'
    BY <1>1, <1>3 DEF IInv, Types, Pool, Place, TaskEnds, Close
  <2>4. Whole'
    BY <1>1, <1>3 DEF IInv, Types, Whole, Running, Ended, TaskEnds
  <2> QED BY <2>1, <2>2, <2>3, <2>4 DEF IInv
<1> QED BY <1>1, <1>2, <1>3 DEF AbortTask

(* A task that gives up keeps nothing in the pool that is not in step. *)
LEMMA FailureKeeps ==
    ASSUME IInv, NEW t \in Transfers, NEW why, TaskFails(t, why), task[t] \notin TaskEnds,
           UNCHANGED <<dir, engineVars, chan, errored, stored>>
    PROVE  IInv'
<1>1. CASE dir[t] = "Upload" /\ task' = [task EXCEPT ![t] = "failed"] /\ Close(t)
  <2>1. Pool'
    BY <1>1, CloseKeeps DEF IInv
  <2>2. Types'
    BY <1>1 DEF IInv, Types, TaskEnds, engineVars
  <2>3. Place'
    BY <1>1 DEF IInv, Types, Pool, Place, TaskEnds, Close, engineVars
  <2>4. Whole'
    BY <1>1 DEF IInv, Types, Whole, TaskEnds, engineVars
  <2> QED BY <2>1, <2>2, <2>3, <2>4 DEF IInv
<1>2. CASE dir[t] # "Upload" /\ task' = [task EXCEPT ![t] = "report"] /\ UNCHANGED poolVars
  <2>1. Pool'
    BY <1>2, PoolStays DEF IInv, poolVars
  <2>2. Types'
    BY <1>2 DEF IInv, Types, engineVars
  <2>3. Place'
    BY <1>2 DEF IInv, Types, Place, TaskEnds, poolVars, engineVars
  <2>4. Whole'
    BY <1>2 DEF IInv, Types, Whole, TaskEnds, engineVars
  <2> QED BY <2>1, <2>2, <2>3, <2>4 DEF IInv
<1> QED BY <1>1, <1>2 DEF TaskFails

(* However a task fails, its connection is closed or given back. *)
LEMMA TroubleKeeps == ASSUME IInv, NEW t \in Transfers, Trouble(t) \/ FindsBroken(t) PROVE IInv'
<1>1. CASE AcquireFails(t) \/ ServerRefuses(t) \/ FindsBroken(t)
  <2>1. /\ \E why : TaskFails(t, why)
        /\ task[t] \notin TaskEnds
        /\ UNCHANGED <<dir, engineVars, chan, errored, stored>>
    BY <1>1 DEF AcquireFails, ServerRefuses, FindsBroken, TaskEnds
  <2> QED BY <2>1, FailureKeeps
<1>2. CASE DataCutShort(t)
  <2>1. Pool'
    BY <1>2, PoolStays DEF IInv, poolVars, DataCutShort
  <2>2. Types' /\ Place'
    BY <1>2 DEF IInv, Types, Place, TaskEnds, DataCutShort, poolVars, engineVars
  <2>3. Whole'
    BY <1>2 DEF IInv, Types, Whole, DataCutShort, engineVars
  <2> QED BY <2>1, <2>2, <2>3 DEF IInv
<1> QED BY <1>1, <1>2 DEF Trouble

(* The task takes a connection, moves the file and gives the connection back. *)
LEMMA TaskKeeps == ASSUME IInv, NEW t \in Transfers, Task(t) PROVE IInv'
<1>1. CASE AcquireIdle(t) \/ AcquireFresh(t)
  <2>1. conn[t] = None
    BY <1>1 DEF IInv, Place, AcquireIdle, AcquireFresh
  <2>2. Pool'
    BY <1>1, <2>1, AcquireIdleKeeps, AcquireFreshKeeps DEF IInv
  <2>3. /\ task[t] = "acquire" /\ task' = [task EXCEPT ![t] = "begin"]
        /\ UNCHANGED <<dir, engineVars, chan, errored, stored>>
        /\ \E c : conn' = [conn EXCEPT ![t] = c]
    BY <1>1 DEF AcquireIdle, AcquireFresh
  <2>4. Types'
    BY <2>3 DEF IInv, Types, engineVars
  <2>5. Place'
    BY <2>3 DEF IInv, Types, Pool, Place, TaskEnds, engineVars
  <2>6. Whole'
    BY <2>3 DEF IInv, Types, Whole, engineVars
  <2> QED BY <2>2, <2>4, <2>5, <2>6 DEF IInv
<1>2. CASE Begin(t)
  <2>1. conn[t] # None
    BY <1>2, FtpAssumption DEF IInv, Pool, Begin, Members, Held
  <2>2. Pool'
    BY <1>2, <2>1, PoolStays DEF IInv, Begin
  <2>3. Types' /\ Place'
    BY <1>2 DEF IInv, Types, Place, TaskEnds, Begin, engineVars
  <2>4. Whole'
    BY <1>2 DEF IInv, Types, Whole, Begin, engineVars
  <2> QED BY <2>2, <2>3, <2>4 DEF IInv
<1>3. CASE Pump(t)
  <2>1. Pool'
    BY <1>3, PoolStays DEF IInv, Pump, poolVars
  <2>2. Types' /\ Place'
    BY <1>3 DEF IInv, Types, Place, Pump, engineVars, poolVars
  <2>3. eng[t] \in Running
    BY <1>3 DEF IInv, Place, TaskEnds, Pump
  <2>4. Whole'
    BY <1>3, <2>3 DEF IInv, Types, Whole, Running, Pump, engineVars
  <2> QED BY <2>1, <2>2, <2>4 DEF IInv
<1>4. CASE DataEnds(t)
  <2>1. Pool'
    BY <1>4, PoolStays DEF IInv, DataEnds, poolVars
  <2>2. Types' /\ Place'
    BY <1>4 DEF IInv, Types, Place, TaskEnds, DataEnds, engineVars, poolVars
  <2>3. Whole'
    BY <1>4 DEF IInv, Types, Whole, DataEnds, engineVars
  <2> QED BY <2>1, <2>2, <2>3 DEF IInv
<1>5. CASE FinalReply(t)
  <2>1. conn[t] # None
    BY <1>5, FtpAssumption DEF IInv, Pool, FinalReply, Members, Held
  <2>2. Pool'
    BY <1>5, <2>1, ReleaseKeeps DEF IInv, FinalReply
  <2>3. Types'
    BY <1>5 DEF IInv, Types, TaskEnds, FinalReply, engineVars
  <2>4. Place'
    BY <1>5 DEF IInv, Types, Pool, Place, TaskEnds, FinalReply, Release, engineVars
  <2>5. Whole'
    BY <1>5 DEF IInv, Types, Whole, FinalReply, engineVars
  <2> QED BY <2>2, <2>3, <2>4, <2>5 DEF IInv
<1>6. CASE Report(t)
  <2>1. Pool'
    BY <1>6, CloseKeeps DEF IInv, Report
  <2>2. Types'
    BY <1>6 DEF IInv, Types, TaskEnds, Report, engineVars
  <2>3. Place'
    BY <1>6 DEF IInv, Types, Pool, Place, TaskEnds, Report, Close, engineVars
  <2>4. Whole'
    BY <1>6 DEF IInv, Types, Whole, Report, engineVars
  <2> QED BY <2>1, <2>2, <2>3, <2>4 DEF IInv
<1> QED BY <1>1, <1>2, <1>3, <1>4, <1>5, <1>6, TroubleKeeps DEF Task

(* A connection lost at the server is still where it was. *)
LEMMA LoseKeeps == ASSUME IInv, NEW c \in Conns, Lose(c) PROVE IInv'
<1>1. Pool'
  BY PoolStays DEF IInv, Lose
<1> QED BY <1>1 DEF IInv, Types, Place, Whole, Lose, engineVars, taskVars

-----------------------------------------------------------------------------
(* The invariant. *)

(* Nothing is open, pooled or owed at the start. *)
LEMMA InitIInv == Init => IInv
<1> SUFFICES ASSUME Init PROVE IInv
  OBVIOUS
<1>1. FileSize \in Nat
  BY FtpAssumption
<1>2. Types /\ Place /\ Whole
  BY <1>1 DEF Init, Types, Place, Whole, TaskEnds, Running, Ended
<1>3. Pool
  BY DEF Init, Pool, Distinct, Members, Held
<1> QED BY <1>2, <1>3 DEF IInv

(* Every step keeps the invariant. *)
LEMMA NextIInv == IInv /\ [Next]_vars => IInv'
<1> SUFFICES ASSUME IInv, [Next]_vars PROVE IInv'
  OBVIOUS
<1>1. CASE UNCHANGED vars
  <2>1. Pool'
    BY <1>1, PoolStays DEF IInv, vars, poolVars
  <2> QED BY <1>1, <2>1 DEF IInv, Types, Place, Whole, vars, engineVars, taskVars, poolVars
<1> QED BY <1>1, EngineKeeps, AbortKeeps, TaskKeeps, TroubleKeeps, LoseKeeps DEF Next

(* No connection in the pool, or handed to the next transfer from it, has a *)
(* reply of an earlier transfer still to come (ftp.rs, XferPool::release).  *)
THEOREM FtpIdleInSync == Spec => []IdleInSync
<1>1. IInv => IdleInSync
  BY DEF IInv, Pool, IdleInSync, Idles, Members
<1> QED BY <1>1, InitIInv, NextIInv, PTL DEF Spec

(* Every open connection is in the pool once or with one running transfer:  *)
(* none is shared, and none is leaked by a cancel, a stall or a failure.    *)
THEOREM FtpConnectionsAccounted == Spec => []ConnectionsAccounted
<1>1. IInv => ConnectionsAccounted
  <2> SUFFICES ASSUME IInv PROVE ConnectionsAccounted
    OBVIOUS
  <2>1. \A t \in Transfers : conn[t] # None => eng[t] \in Running
    BY DEF IInv, Place
  <2> QED BY <2>1 DEF IInv, Pool, ConnectionsAccounted, Idles, Members, Distinct
<1> QED BY <1>1, InitIInv, NextIInv, PTL DEF Spec

(* A transfer reported done has moved the whole file, whatever else ended   *)
(* it might look like an end of file (poll_read, poll_shutdown).            *)
THEOREM FtpDoneIsWhole == Spec => []DoneIsWhole
<1>1. IInv => DoneIsWhole
  BY DEF IInv, Whole, DoneIsWhole
<1> QED BY <1>1, InitIInv, NextIInv, PTL DEF Spec
=============================================================================
