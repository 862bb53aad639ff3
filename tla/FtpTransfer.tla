---------------------------- MODULE FtpTransfer ----------------------------
(***************************************************************************)
(* How a transfer runs on FTP (src-tauri/src/backend/ftp.rs): the engine's *)
(* copy loop on one side of a bounded channel, a spawned download or       *)
(* upload task on the other, and XferPool, the pool of logged-in           *)
(* connections those tasks take from and return to.                        *)
(*                                                                         *)
(* Dropping a ChannelReader or ChannelWriter aborts its task; the task is  *)
(* taken to end there and then, its connection closed.  The other side of  *)
(* the copy (a local file) only fails by Abandon.                          *)
(*                                                                         *)
(* An operator named Action_Fault is the action with a plausible bug in    *)
(* it; no specification uses it.                                           *)
(***************************************************************************)
EXTENDS Integers, Sequences, FiniteSets

CONSTANTS Transfers,
          Conns,          \* ids of connections, reused once closed
          FileSize,       \* chunks of each file
          ChannelSize,    \* chunks the channel holds
          POOL_MAX_IDLE, MAX_RETRIES,
          MaxFaults       \* bound: connections lost, and errors of the server

None == "none"

ASSUME FtpAssumption == /\ {FileSize, POOL_MAX_IDLE, MAX_RETRIES, MaxFaults} \subseteq Nat
                        /\ ChannelSize \in Nat \ {0}
                        /\ None \notin Conns

VARIABLES
    dir,       \* Download or Upload
    eng,       \* run and run_one: where each transfer is
    attempt,
    moved,     \* chunks the engine has read from, or written to, the channel
    task,      \* the spawned task
    chan,      \* chunks in the channel
    errored,   \* an error is queued behind them
    stored,    \* chunks that have crossed the data connection
    cause,     \* what made the task fail
    conn,      \* the connection the task holds
    idle,      \* XferPool.idle, a stack
    alive,     \* connections open at both ends
    owes,      \* connections on which the reply to a transfer is to come
    faults

engineVars == <<eng, attempt, moved>>
taskVars   == <<task, chan, errored, stored, cause>>
poolVars   == <<conn, idle, alive, owes>>
vars == <<dir, engineVars, taskVars, poolVars, faults>>

Ended    == {"done", "cancelled", "error"}
Running  == {"copy", "shutdown"}
TaskEnds == {"none", "ok", "failed", "aborted"}
Class    == {"transient", "permanent"}   \* what is_retryable makes of an error

Idles == {idle[i] : i \in DOMAIN idle}
Held  == {conn[t] : t \in Transfers} \ {None}

Init == /\ dir \in [Transfers -> {"Download", "Upload"}]
        /\ eng = [t \in Transfers |-> "queued"]
        /\ attempt = [t \in Transfers |-> 0]
        /\ moved = [t \in Transfers |-> 0]
        /\ task = [t \in Transfers |-> "none"]
        /\ chan = [t \in Transfers |-> 0]
        /\ errored = [t \in Transfers |-> FALSE]
        /\ stored = [t \in Transfers |-> 0]
        /\ cause = [t \in Transfers |-> "none"]
        /\ conn = [t \in Transfers |-> None]
        /\ idle = <<>>
        /\ alive = {}
        /\ owes = {}
        /\ faults = 0

Fault == faults < MaxFaults /\ faults' = faults + 1

Close(t) == /\ conn' = [conn EXCEPT ![t] = None]
            /\ alive' = alive \ {conn[t]}
            /\ owes' = owes \ {conn[t]}
            /\ UNCHANGED idle

-----------------------------------------------------------------------------
(* The engine. *)

(* open_read and open_write spawn the task and return at once. *)
Open(t) ==
    /\ eng[t] \in {"queued", "backoff"}
    /\ eng' = [eng EXCEPT ![t] = "copy"]
    /\ moved' = [moved EXCEPT ![t] = 0]
    /\ task' = [task EXCEPT ![t] = "acquire"]
    /\ chan' = [chan EXCEPT ![t] = 0]
    /\ errored' = [errored EXCEPT ![t] = FALSE]
    /\ stored' = [stored EXCEPT ![t] = 0]
    /\ cause' = [cause EXCEPT ![t] = "none"]
    /\ UNCHANGED <<dir, attempt, poolVars, faults>>

(* The attempt ends with an error: it is retried, or the transfer fails. *)
Fails(t, retryable) ==
    IF retryable /\ attempt[t] < MAX_RETRIES
    THEN /\ eng' = [eng EXCEPT ![t] = "backoff"]
         /\ attempt' = [attempt EXCEPT ![t] = @ + 1]
    ELSE /\ eng' = [eng EXCEPT ![t] = "error"]
         /\ UNCHANGED attempt

Read(t) ==
    /\ dir[t] = "Download" /\ eng[t] = "copy"
    /\ chan[t] > 0
    /\ chan' = [chan EXCEPT ![t] = @ - 1]
    /\ moved' = [moved EXCEPT ![t] = @ + 1]
    /\ UNCHANGED <<dir, eng, attempt, task, errored, stored, cause, poolVars, faults>>

ReadError(t) ==
    /\ dir[t] = "Download" /\ eng[t] = "copy"
    /\ chan[t] = 0
    /\ errored[t]
    /\ Fails(t, cause[t] = "transient")
    /\ UNCHANGED <<dir, moved, taskVars, poolVars, faults>>

(* Every sender of the channel is gone: poll_read reports the end of file. *)
ReadEof(t) ==
    /\ dir[t] = "Download" /\ eng[t] = "copy"
    /\ chan[t] = 0
    /\ ~errored[t]
    /\ task[t] \in {"ok", "failed"}
    /\ eng' = [eng EXCEPT ![t] = "done"]
    /\ UNCHANGED <<dir, attempt, moved, taskVars, poolVars, faults>>

Write(t) ==
    /\ dir[t] = "Upload" /\ eng[t] = "copy"
    /\ moved[t] < FileSize
    /\ task[t] # "failed"
    /\ chan[t] < ChannelSize
    /\ chan' = [chan EXCEPT ![t] = @ + 1]
    /\ moved' = [moved EXCEPT ![t] = @ + 1]
    /\ UNCHANGED <<dir, eng, attempt, task, errored, stored, cause, poolVars, faults>>

WriteBroken_AfterDrain(t) ==
    /\ dir[t] = "Upload" /\ eng[t] = "copy"
    /\ moved[t] < FileSize
    /\ task[t] = "failed"
    /\ chan[t] = 0
    /\ Fails(t, FALSE)
    /\ UNCHANGED <<dir, moved, taskVars, poolVars, faults>>

(* The task is gone and the channel with it: "upload channel closed", which *)
(* is_retryable does not accept, whatever made the task fail.               *)
WriteBroken(t) ==
    /\ dir[t] = "Upload" /\ eng[t] = "copy"
    /\ moved[t] < FileSize
    /\ task[t] = "failed"
    /\ Fails(t, FALSE)
    /\ UNCHANGED <<dir, moved, taskVars, poolVars, faults>>

(* poll_shutdown drops the sender and awaits the task's result. *)
ShutdownBegins(t) ==
    /\ dir[t] = "Upload" /\ eng[t] = "copy"
    /\ moved[t] = FileSize
    /\ eng' = [eng EXCEPT ![t] = "shutdown"]
    /\ UNCHANGED <<dir, attempt, moved, taskVars, poolVars, faults>>

ShutdownEnds(t) ==
    /\ eng[t] = "shutdown"
    /\ \/ /\ task[t] = "ok"
          /\ eng' = [eng EXCEPT ![t] = "done"]
          /\ UNCHANGED attempt
       \/ /\ task[t] = "failed"
          /\ Fails(t, cause[t] = "transient")
    /\ UNCHANGED <<dir, moved, taskVars, poolVars, faults>>

(* The attempt is given up: reader or writer is dropped, and aborts its     *)
(* task if that is still running.                                           *)
AbortTask_ReturnsConn(t) ==
    IF task[t] \in TaskEnds THEN UNCHANGED <<task, poolVars>>
    ELSE /\ task' = [task EXCEPT ![t] = "aborted"]
         /\ conn' = [conn EXCEPT ![t] = None]
         /\ idle' = IF conn[t] = None THEN idle ELSE Append(idle, conn[t])
         /\ UNCHANGED <<alive, owes>>

AbortTask_LeavesItRunning(t) == UNCHANGED <<task, poolVars>>

AbortTask(t) ==
    IF task[t] \in TaskEnds THEN UNCHANGED <<task, poolVars>>
    ELSE /\ task' = [task EXCEPT ![t] = "aborted"]
         /\ Close(t)

(* guarded's stall timeout, or a failure at the other end of the copy. *)
Abandon(t) ==
    /\ eng[t] \in Running
    /\ AbortTask(t)
    /\ \E retryable \in BOOLEAN : Fails(t, retryable)
    /\ cause' = [cause EXCEPT ![t] = "none"]
    /\ UNCHANGED <<dir, moved, chan, errored, stored, faults>>

Cancel(t) ==
    /\ eng[t] \in Running
    /\ AbortTask(t)
    /\ eng' = [eng EXCEPT ![t] = "cancelled"]
    /\ UNCHANGED <<dir, attempt, moved, chan, errored, stored, cause, faults>>

-----------------------------------------------------------------------------
(* The task, and the server it talks to. *)

AcquireIdle(t) ==
    /\ task[t] = "acquire"
    /\ idle # <<>>
    /\ conn' = [conn EXCEPT ![t] = idle[Len(idle)]]
    /\ idle' = SubSeq(idle, 1, Len(idle) - 1)
    /\ task' = [task EXCEPT ![t] = "begin"]
    /\ UNCHANGED <<dir, engineVars, chan, errored, stored, cause, alive, owes, faults>>

AcquireFresh(t) ==
    /\ task[t] = "acquire"
    /\ idle = <<>>
    /\ \E c \in Conns \ Held :
          /\ conn' = [conn EXCEPT ![t] = c]
          /\ alive' = alive \union {c}
    /\ task' = [task EXCEPT ![t] = "begin"]
    /\ UNCHANGED <<dir, engineVars, chan, errored, stored, cause, idle, owes, faults>>

(* A failed upload ends, its connection dropped.  A failed download has     *)
(* its error still to send, and holds the connection until it has.          *)
TaskFails(t, why) ==
    /\ cause' = [cause EXCEPT ![t] = why]
    /\ IF dir[t] = "Upload"
       THEN task' = [task EXCEPT ![t] = "failed"] /\ Close(t)
       ELSE task' = [task EXCEPT ![t] = "report"] /\ UNCHANGED poolVars

(* No new connection can be opened or logged in. *)
AcquireFails(t) ==
    /\ task[t] = "acquire"
    /\ idle = <<>>
    /\ Fault
    /\ \E why \in Class : TaskFails(t, why)
    /\ UNCHANGED <<dir, engineVars, chan, errored, stored>>

(* RETR, STOR or APPE is accepted; its closing reply is now owed. *)
Begin(t) ==
    /\ task[t] = "begin"
    /\ conn[t] \in alive
    /\ owes' = owes \union {conn[t]}
    /\ task' = [task EXCEPT ![t] = "pump"]
    /\ UNCHANGED <<dir, engineVars, chan, errored, stored, cause, conn, idle, alive, faults>>

Pump(t) ==
    /\ task[t] = "pump"
    /\ conn[t] \in alive
    /\ \/ /\ dir[t] = "Download" /\ stored[t] < FileSize /\ chan[t] < ChannelSize
          /\ chan' = [chan EXCEPT ![t] = @ + 1]
       \/ /\ dir[t] = "Upload" /\ chan[t] > 0
          /\ chan' = [chan EXCEPT ![t] = @ - 1]
    /\ stored' = [stored EXCEPT ![t] = @ + 1]
    /\ UNCHANGED <<dir, engineVars, task, errored, cause, poolVars, faults>>

(* The data connection is done with: the server has sent all of the file,   *)
(* or the engine has closed the channel and it is drained.                  *)
DataEnds(t) ==
    /\ task[t] = "pump"
    /\ \/ dir[t] = "Download" /\ stored[t] = FileSize
       \/ dir[t] = "Upload" /\ eng[t] = "shutdown" /\ chan[t] = 0
    /\ task' = [task EXCEPT ![t] = "reply"]
    /\ UNCHANGED <<dir, engineVars, chan, errored, stored, cause, poolVars, faults>>

(* The server closes the data connection early: for a download this reads   *)
(* like the end of the file.                                                *)
DataCutShort(t) ==
    /\ task[t] = "pump"
    /\ dir[t] = "Download"
    /\ stored[t] < FileSize
    /\ Fault
    /\ task' = [task EXCEPT ![t] = "reply"]
    /\ UNCHANGED <<dir, engineVars, chan, errored, stored, cause, poolVars>>

(* XferPool::release keeps at most POOL_MAX_IDLE connections. *)
Release(t) ==
    /\ conn' = [conn EXCEPT ![t] = None]
    /\ owes' = owes \ {conn[t]}
    /\ IF Len(idle) < POOL_MAX_IDLE
       THEN idle' = Append(idle, conn[t]) /\ UNCHANGED alive
       ELSE alive' = alive \ {conn[t]} /\ UNCHANGED idle

FinalReply_Unread(t) ==
    /\ task[t] = "reply"
    /\ Release(t)
    /\ task' = [task EXCEPT ![t] = "ok"]
    /\ UNCHANGED <<dir, engineVars, chan, errored, stored, cause, faults>>

(* finalize_*_stream reads a good reply: the server has the whole file, or  *)
(* has sent it.                                                             *)
FinalReply(t) ==
    /\ task[t] = "reply"
    /\ conn[t] \in alive
    /\ stored[t] = FileSize
    /\ Release(t)
    /\ task' = [task EXCEPT ![t] = "ok"]
    /\ UNCHANGED <<dir, engineVars, chan, errored, stored, cause, faults>>

(* The connection is found dead, or a download proves to be cut short. *)
FindsBroken(t) ==
    /\ \/ task[t] \in {"begin", "pump", "reply"} /\ conn[t] \notin alive
       \/ task[t] = "reply" /\ stored[t] < FileSize
    /\ TaskFails(t, "transient")
    /\ UNCHANGED <<dir, engineVars, chan, errored, stored, faults>>

(* The server answers with an error, at any point of the transfer. *)
ServerRefuses(t) ==
    /\ task[t] \in {"begin", "pump", "reply"}
    /\ Fault
    /\ \E why \in Class : TaskFails(t, why)
    /\ UNCHANGED <<dir, engineVars, chan, errored, stored>>

(* The error goes into the channel, behind the chunks. *)
Report(t) ==
    /\ task[t] = "report"
    /\ chan[t] < ChannelSize
    /\ errored' = [errored EXCEPT ![t] = TRUE]
    /\ task' = [task EXCEPT ![t] = "failed"]
    /\ Close(t)
    /\ UNCHANGED <<dir, engineVars, chan, stored, cause, faults>>

(* A connection is lost, also while it sits in the pool. *)
Lose(c) ==
    /\ c \in alive
    /\ Fault
    /\ alive' = alive \ {c}
    /\ UNCHANGED <<dir, engineVars, taskVars, conn, idle, owes>>

-----------------------------------------------------------------------------
Engine(t) == \/ Open(t) \/ Read(t) \/ ReadError(t) \/ ReadEof(t)
             \/ Write(t) \/ WriteBroken(t) \/ ShutdownBegins(t) \/ ShutdownEnds(t)

Task(t) == \/ AcquireIdle(t) \/ AcquireFresh(t) \/ Begin(t) \/ Pump(t) \/ DataEnds(t)
           \/ FinalReply(t) \/ FindsBroken(t) \/ Report(t)

Trouble(t) == \/ AcquireFails(t) \/ DataCutShort(t) \/ ServerRefuses(t)

Next == \/ \E t \in Transfers : Engine(t) \/ Abandon(t) \/ Cancel(t) \/ Task(t) \/ Trouble(t)
        \/ \E c \in Conns : Lose(c)

(* Engine and task are polled as long as they can go on.  No error need     *)
(* ever come; a connection that is lost is found to be so when it is used   *)
(* (one that merely falls silent is what the stall timeout is for).         *)
Spec     == Init /\ [][Next]_vars
FairSpec == Spec /\ \A t \in Transfers : WF_vars(Engine(t)) /\ WF_vars(Task(t))
-----------------------------------------------------------------------------
(* Properties. *)

(* A connection in the pool is in step with its server: no reply to an     *)
(* earlier transfer is still to come on it, so that the next command's     *)
(* reply is its own.                                                       *)
IdleInSync == Idles \intersect owes = {}

(* Every open connection is in exactly one place: once in the pool, or     *)
(* with one transfer that is under way.                                    *)
ConnectionsAccounted ==
    /\ alive \subseteq Idles \union Held
    /\ Idles \intersect Held = {}
    /\ \A i, k \in DOMAIN idle : idle[i] = idle[k] => i = k
    /\ \A t, u \in Transfers : (conn[t] = conn[u] /\ conn[t] # None) => t = u
    /\ \A t \in Transfers : conn[t] # None => eng[t] \in Running

(* An attempt that ends well has moved the whole file: the end of a        *)
(* download is never mistaken for a failure cut short, nor is an upload    *)
(* reported before the server has acknowledged all of it.                  *)
DoneIsWhole == \A t \in Transfers :
    eng[t] = "done" => moved[t] = FileSize /\ stored[t] = FileSize

(* Every transfer settles, and not for the stall timeout's sake: it takes  *)
(* part in no step that fairness forces, so every failure of the task must *)
(* reach the engine by itself.                                             *)
TransferSettles == \A t \in Transfers : (eng[t] = "queued") ~> (eng[t] \in Ended)

(* "How many times to automatically retry a transfer that fails with a     *)
(* transient (connection-like) error before giving up".                    *)
TransientIsRetried ==
    [][\A t \in Transfers :
          (cause[t] = "transient" /\ eng[t] \in Running /\ eng'[t] = "error" /\ cause'[t] = cause[t])
             => attempt[t] = MAX_RETRIES]_vars
=============================================================================
