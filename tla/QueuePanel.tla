----------------------------- MODULE QueuePanel -----------------------------
(***************************************************************************)
(* The queue panel of src/main.js, fed by the transfer engine: a row and a *)
(* kept request for each transfer, the counts, the tally of the run and    *)
(* the notification when the queue has drained.                            *)
(*                                                                         *)
(* The engine is its promise, TransferLifecycle.  Its events arrive in the *)
(* order they were emitted; the reply of an enqueue_transfer call comes on *)
(* its own, before or after them.  Files dropped from the operating system *)
(* have rows too: of module DropImport this one uses that an import ends   *)
(* only when all its rows have settled (OneImportAtATime there).           *)
(*                                                                         *)
(* An operator named Action_Fault is the action with a plausible bug in    *)
(* it; no specification uses it.                                           *)
(***************************************************************************)
EXTENDS Integers, Sequences, FiniteSets

CONSTANTS MaxJobs, MAX_RETRIES,   \* of the engine
          Dropped                 \* dropped files that may get a row

ASSUME PanelAssumption == /\ MaxJobs \in Nat
                          /\ MAX_RETRIES \in Nat
                          /\ Dropped \intersect Int = {}

VARIABLES
    shown, attempt,   \* the engine: its last event for each transfer
    events,           \* emitted and not yet handled, oldest first
    replies,          \* transfers whose enqueue_transfer has not returned
    row,              \* `queue`: the status of each row
    requests,         \* the keys of transferRequests
    success, failed,  \* queueRun
    prevActiveCount,
    importing,        \* externalImportActive
    outcome,          \* history: how it ended, once the panel was told
    reported          \* history: whether that outcome went into a report

engineVars == <<shown, attempt>>
panelVars  == <<row, requests>>
runVars    == <<success, failed, prevActiveCount, reported>>
vars == <<engineVars, events, replies, panelVars, runVars, importing, outcome>>

Engine == INSTANCE TransferLifecycle
              WITH shown <- shown, attempt <- attempt,
                   MaxJobs <- MaxJobs, MAX_RETRIES <- MAX_RETRIES
Jobs   == 1 .. MaxJobs
Items  == Jobs \union Dropped
Absent == "absent"

Init == /\ Engine!Init
        /\ events = <<>>
        /\ replies = {}
        /\ row = [i \in Items |-> Absent]
        /\ requests = {}
        /\ success = 0
        /\ failed = 0
        /\ prevActiveCount = 0
        /\ importing = FALSE
        /\ outcome = [i \in Items |-> "none"]
        /\ reported = [i \in Items |-> FALSE]

Active(rows) == {i \in Items : rows[i] = "active"}
Told(outcomes) == {i \in Items : outcomes[i] \in {"Done", "Error"}}
Unreported(outcomes) == {i \in Told(outcomes) : ~reported[i]}

-----------------------------------------------------------------------------
(* The run's tally. *)

Drained_KeepsIfWatched(s, f) ==
    /\ \/ success' = 0 /\ failed' = 0
       \/ success' = s /\ failed' = f
    /\ reported' = [i \in Items |-> i \in Told(outcome')]

(* notifyQueueDrained resets the tally, whether or not it has anything to   *)
(* tell and anybody needs telling.                                          *)
Drained(s, f) ==
    /\ success' = 0
    /\ failed' = 0
    /\ reported' = [i \in Items |-> i \in Told(outcome')]

Tally(s, f) == /\ success' = s
               /\ failed' = f
               /\ UNCHANGED reported

UpdateQueueCounts_AlsoImporting(s, f) ==
    /\ prevActiveCount' = Cardinality(Active(row'))
    /\ IF prevActiveCount > 0 /\ prevActiveCount' = 0
       THEN Drained(s, f)
       ELSE Tally(s, f)

(* updateQueueCounts, with the tally the handler leaves it: the queue has   *)
(* drained when the last active row settles and no import is running.       *)
UpdateQueueCounts(s, f) ==
    /\ prevActiveCount' = Cardinality(Active(row'))
    /\ IF prevActiveCount > 0 /\ prevActiveCount' = 0 /\ ~importing
       THEN Drained(s, f)
       ELSE Tally(s, f)

Recount == UpdateQueueCounts(success, failed)

-----------------------------------------------------------------------------
(* Requests and events of the engine. *)

Emit(j) == events' = Append(events, [id |-> j, event |-> shown'[j]])

(* enqueue_transfer runs: the row's event and the reply set out. *)
Submit(j) == /\ Engine!Submit(j)
             /\ Emit(j)
             /\ replies' = replies \union {j}

Enqueue == /\ \E j \in Jobs : Submit(j)
           /\ UNCHANGED <<panelVars, runVars, importing, outcome>>

EngineRuns == /\ \E j \in Jobs :
                    /\ Engine!Begin(j) \/ Engine!Retry(j) \/ Engine!Settle(j)
                    /\ Emit(j)
              /\ UNCHANGED <<replies, panelVars, runVars, importing, outcome>>

(* The call returns: its request is kept for a retry (retryTransfer also     *)
(* recounts, which changes nothing when it is enqueue that waited).         *)
Reply(j) ==
    /\ j \in replies
    /\ replies' = replies \ {j}
    /\ requests' = requests \union {j}
    /\ UNCHANGED row
    /\ UNCHANGED <<engineVars, events, importing, outcome>>
    /\ Recount

(* The row of an event, when it has one, and the outcome it tells.          *)
NewRow(j, event) ==
    CASE event = "Queued" -> "active"
      [] event = "Done" /\ row[j] # Absent -> "success"
      [] event \in {"Error", "Cancelled"} /\ row[j] # Absent -> "failed"
      [] OTHER -> row[j]

Hear(j, event) ==
    /\ row' = [row EXCEPT ![j] = NewRow(j, event)]
    /\ outcome' = [outcome EXCEPT ![j] =
                      IF event \in {"Done", "Error", "Cancelled"} THEN event ELSE @]

(* onTransferUpdate.  A cancelled transfer counts neither way; an event for *)
(* a row that is not there counts for nothing.                              *)
Handled(j, event) ==
    /\ Hear(j, event)
    /\ IF row[j] # Absent /\ event \in {"Done", "Error"}
       THEN UpdateQueueCounts(success + (IF event = "Done" THEN 1 ELSE 0),
                              failed + (IF event = "Error" THEN 1 ELSE 0))
       ELSE Recount

OnTransferUpdate ==
    /\ events # <<>>
    /\ events' = Tail(events)
    /\ Handled(Head(events).id, Head(events).event)
    /\ UNCHANGED <<engineVars, replies, requests, importing>>

-----------------------------------------------------------------------------
(* The panel's buttons. *)

(* Retry sends a failed row's request again as a new transfer, and removes  *)
(* the row.  Nothing happens before the reply has brought the request.      *)
RetryTransfer(j) ==
    /\ row[j] = "failed"
    /\ j \in requests
    /\ row' = [row EXCEPT ![j] = Absent]
    /\ requests' = requests \ {j}
    /\ \E k \in Jobs : Submit(k)
    /\ UNCHANGED <<runVars, importing, outcome>>

ClearFinished_AllRows ==
    /\ row' = [i \in Items |-> Absent]
    /\ requests' = {}
    /\ UNCHANGED <<engineVars, events, replies, importing, outcome>>
    /\ Recount

ClearFinished ==
    /\ row' = [i \in Items |-> IF row[i] = "active" THEN "active" ELSE Absent]
    /\ requests' = {j \in requests : row[j] \notin {"success", "failed"}}
    /\ UNCHANGED <<engineVars, events, replies, importing, outcome>>
    /\ Recount

(* A file skipped by the file-exists policy gets a row that is active until *)
(* it is marked in the same breath: if nothing else is, the queue drains.   *)
AddSkippedRow ==
    /\ UNCHANGED <<engineVars, events, replies, panelVars, importing, outcome>>
    /\ UNCHANGED prevActiveCount
    /\ IF prevActiveCount = 0 /\ ~importing
       THEN Drained(success, failed)
       ELSE Tally(success, failed)

-----------------------------------------------------------------------------
(* Imports of dropped files. *)

ImportBegins ==
    /\ ~importing
    /\ importing' = TRUE
    /\ UNCHANGED <<engineVars, events, replies, panelVars, runVars, outcome>>

AddDroppedRow(d) ==
    /\ importing
    /\ row[d] = Absent
    /\ outcome[d] = "none"
    /\ row' = [row EXCEPT ![d] = "active"]
    /\ UNCHANGED <<engineVars, events, replies, requests, importing, outcome>>
    /\ Recount

(* uploadDroppedFile ends, or its row is cancelled. *)
DroppedRowSettles(d) ==
    /\ row[d] = "active"
    /\ UNCHANGED <<engineVars, events, replies, requests, importing>>
    /\ \/ /\ row' = [row EXCEPT ![d] = "success"]
          /\ outcome' = [outcome EXCEPT ![d] = "Done"]
          /\ UpdateQueueCounts(success + 1, failed)
       \/ /\ row' = [row EXCEPT ![d] = "failed"]
          /\ outcome' = [outcome EXCEPT ![d] = "Error"]
          /\ UpdateQueueCounts(success, failed + 1)
       \/ /\ row' = [row EXCEPT ![d] = "failed"]
          /\ outcome' = [outcome EXCEPT ![d] = "Cancelled"]
          /\ Recount

ImportEnds_Silently ==
    /\ importing
    /\ Active(row) \intersect Dropped = {}
    /\ importing' = FALSE
    /\ UNCHANGED <<engineVars, events, replies, panelVars, runVars, outcome>>

(* The last import of a run reports for all of them, unless the engine has  *)
(* transfers left: then their end does.                                     *)
ImportEnds ==
    /\ importing
    /\ Active(row) \intersect Dropped = {}
    /\ importing' = FALSE
    /\ UNCHANGED <<engineVars, events, replies, panelVars, outcome, prevActiveCount>>
    /\ IF prevActiveCount = 0
       THEN Drained(success, failed)
       ELSE Tally(success, failed)

-----------------------------------------------------------------------------
User == \/ Enqueue \/ ClearFinished \/ AddSkippedRow
        \/ \E j \in Jobs : RetryTransfer(j)
        \/ ImportBegins
        \/ \E d \in Dropped : AddDroppedRow(d)

Next == \/ User
        \/ EngineRuns \/ OnTransferUpdate
        \/ \E j \in Jobs : Reply(j)
        \/ \E d \in Dropped : DroppedRowSettles(d)
        \/ ImportEnds

Spec == Init /\ [][Next]_vars
-----------------------------------------------------------------------------
(* Properties. *)

(* The tally counts every outcome the panel was told of since the last     *)
(* report, once: none is lost with a cleared or retried row, none is told  *)
(* in two reports, and none leaks from a run into the next.                *)
TallyExact ==
    /\ success = Cardinality({i \in Unreported(outcome) : outcome[i] = "Done"})
    /\ failed  = Cardinality({i \in Unreported(outcome) : outcome[i] = "Error"})

(* Nothing is left untold when all is quiet: with no row active and no     *)
(* import running the last report has covered every outcome.               *)
QuietMeansReported == (Active(row) = {} /\ ~importing) => Unreported(outcome) = {}

(* A report is made only at rest: a drop of many files, whose active rows  *)
(* may come to none between two of them, is reported once.                 *)
ReportsAtRest ==
    [][reported' # reported => Active(row') = {} /\ ~importing']_vars

(* A row only lags behind the engine: once no event of its transfer is     *)
(* under way, it is active exactly while the transfer is, and a transfer   *)
(* that still runs has a row to cancel it by.  A failed row can be retried *)
(* as soon as the call that made the transfer has returned.                *)
RowsFollow == \A j \in Jobs :
    /\ (\A k \in DOMAIN events : events[k].id # j) =>
           (row[j] = "active" <=> shown[j] \in {"Queued"} \union Engine!Running)
    /\ (row[j] = "failed" /\ j \notin replies) => j \in requests
=============================================================================
