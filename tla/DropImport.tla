----------------------------- MODULE DropImport -----------------------------
(***************************************************************************)
(* Files dropped onto a pane from the operating system (src/main.js): one  *)
(* import runs at a time and later drops wait for it (runExternalImport);  *)
(* an import prepares its folders, decides file by file what to do, and    *)
(* uploads the accepted ones through a limiter (importExternalFiles).      *)
(*                                                                         *)
(* The program is single-threaded: a step is what runs between two awaits. *)
(* A waiter that has been woken runs in a step of its own.                 *)
(*                                                                         *)
(* An operator named Action_Fault is the action with a plausible bug in    *)
(* it; no specification uses it.                                           *)
(***************************************************************************)
EXTENDS Integers, Sequences, FiniteSets

CONSTANTS Drops,      \* the drops the user may make, each once
          DropSize,   \* files in each
          Limits,     \* values limitNow may take
          MaxChanges  \* bound: changes of the limit

NoDrop == "none"

ASSUME DropAssumption == /\ DropSize \in Nat \ {0}
                         /\ Limits \subseteq Nat \ {0} /\ Limits # {}
                         /\ MaxChanges \in Nat
                         /\ NoDrop \notin Drops

VARIABLES
    made,         \* drops the user has made
    pending,      \* pendingImports
    current,      \* the drop whose import runs (externalImportActive)
    phase,        \* of the running import
    next,         \* the file whose conflict check is awaited
    abort,        \* externalImportAbort
    limit,        \* what limitNow returns
    changes,
    inFlight, slotWaiters,   \* the limiter
    task,         \* runLimited and uploadDroppedFile of each accepted file
    row           \* its row in the queue panel

importVars  == <<pending, current, phase, next, abort>>
limiterVars == <<inFlight, slotWaiters>>
vars == <<made, importVars, limit, changes, limiterVars, task, row>>

Files   == Drops \X (1 .. DropSize)
DropOf(f) == f[1]
Settled == {"success", "failed"}
Parked  == {"parked", "woken"}      \* waiting for a slot, or about to look for one

Init == /\ made = {}
        /\ pending = <<>>
        /\ current = NoDrop
        /\ phase = "idle"
        /\ next = 1
        /\ abort = FALSE
        /\ limit \in Limits
        /\ changes = 0
        /\ inFlight = 0
        /\ slotWaiters = <<>>
        /\ task = [f \in Files |-> "none"]
        /\ row = [f \in Files |-> "none"]

-----------------------------------------------------------------------------
(* Imports, one at a time. *)

(* The import's task starts with a limiter of its own. *)
Begin(d) == /\ current' = d
            /\ phase' = "prepare"
            /\ next' = 1
            /\ abort' = FALSE
            /\ inFlight' = 0
            /\ slotWaiters' = <<>>

Drop(d) ==
    /\ d \notin made
    /\ made' = made \union {d}
    /\ IF current = NoDrop
       THEN Begin(d) /\ UNCHANGED pending
       ELSE pending' = Append(pending, d) /\ UNCHANGED <<current, phase, next, abort, limiterVars>>
    /\ UNCHANGED <<limit, changes, task, row>>

Finish_ForgetsPending ==
    /\ current' = NoDrop
    /\ phase' = "idle"
    /\ abort' = FALSE
    /\ UNCHANGED <<pending, next, limiterVars>>

(* The import is over: the drop that has waited longest follows at once. *)
Finish == IF pending = <<>>
          THEN /\ current' = NoDrop
               /\ phase' = "idle"
               /\ abort' = FALSE
               /\ UNCHANGED <<pending, next, limiterVars>>
          ELSE Begin(Head(pending)) /\ pending' = Tail(pending)

(* The folders of the drop are walked and created.  This fails, finds no    *)
(* file or is stopped; or the files follow, none if it is stopped just then.*)
Prepared ==
    /\ phase = "prepare"
    /\ phase' = IF abort THEN "uploads" ELSE "check"
    /\ UNCHANGED <<made, pending, current, next, abort, limit, changes, limiterVars, task, row>>

PrepareFails ==
    /\ phase = "prepare"
    /\ Finish
    /\ UNCHANGED <<made, limit, changes, task, row>>

-----------------------------------------------------------------------------
(* The limiter and the uploads. *)

Start_IgnoresCancel(f) ==
    IF abort
    THEN /\ row' = [row EXCEPT ![f] = IF @ = "success" THEN @ ELSE "failed"]
         /\ task' = [task EXCEPT ![f] = "leaving"]
    ELSE /\ row' = [row EXCEPT ![f] = "active"]
         /\ task' = [task EXCEPT ![f] = "sending"]

(* uploadDroppedFile up to its first await: a file stopped or cancelled     *)
(* while it waited is not sent.                                             *)
Start(f) ==
    IF abort \/ row[f] = "failed"
    THEN /\ row' = [row EXCEPT ![f] = "failed"]
         /\ task' = [task EXCEPT ![f] = "leaving"]
    ELSE /\ row' = [row EXCEPT ![f] = "active"]
         /\ task' = [task EXCEPT ![f] = "sending"]

(* runLimited looks for a slot. *)
Enter(f) ==
    IF inFlight >= limit
    THEN /\ slotWaiters' = Append(slotWaiters, f)
         /\ task' = [task EXCEPT ![f] = "parked"]
         /\ row' = [row EXCEPT ![f] = IF @ = "none" THEN "active" ELSE @]
         /\ UNCHANGED inFlight
    ELSE /\ inFlight' = inFlight + 1
         /\ Start(f)
         /\ UNCHANGED slotWaiters

(* The loop over the files goes on: it notices a stop here. *)
Advance == /\ phase' = IF next = DropSize \/ abort THEN "uploads" ELSE "check"
           /\ next' = IF next = DropSize THEN next ELSE next + 1

(* The conflict check of a file is answered: it is accepted and gets a row, *)
(* it is skipped (as a file over the size limit is), or the user cancels    *)
(* the rest of the drop, if it has several files.                            *)
Accepted ==
    /\ phase = "check"
    /\ Enter(<<current, next>>)
    /\ Advance
    /\ UNCHANGED <<made, pending, current, abort, limit, changes>>

Skipped ==
    /\ phase = "check"
    /\ Advance
    /\ UNCHANGED <<made, pending, current, abort, limit, changes, limiterVars, task, row>>

RestCancelled ==
    /\ phase = "check"
    /\ DropSize > 1
    /\ phase' = "uploads"
    /\ UNCHANGED <<made, pending, current, next, abort, limit, changes, limiterVars, task, row>>

Resume(f) ==
    /\ task[f] = "woken"
    /\ Enter(f)
    /\ UNCHANGED <<made, importVars, limit, changes>>

(* put_bytes returns.  A connection that is gone stops the whole import. *)
Sent(f) ==
    /\ task[f] = "sending"
    /\ task' = [task EXCEPT ![f] = "leaving"]
    /\ \E outcome \in Settled : row' = [row EXCEPT ![f] = outcome]
    /\ abort' \in IF row'[f] = "failed" THEN {abort, TRUE} ELSE {abort}
    /\ UNCHANGED <<made, pending, current, phase, next, limit, changes, limiterVars>>

Leave_StoppedWakesNobody(f) ==
    /\ task[f] = "leaving"
    /\ inFlight' = inFlight - 1
    /\ LET over == [task EXCEPT ![f] = "over"] IN
       IF slotWaiters = <<>> \/ abort
       THEN task' = over /\ UNCHANGED slotWaiters
       ELSE /\ task' = [over EXCEPT ![Head(slotWaiters)] = "woken"]
            /\ slotWaiters' = Tail(slotWaiters)
    /\ UNCHANGED <<made, importVars, limit, changes, row>>

(* runLimited gives the slot back and wakes one waiter, which may find that *)
(* the limit has been lowered.                                              *)
Leave(f) ==
    /\ task[f] = "leaving"
    /\ inFlight' = inFlight - 1
    /\ LET over == [task EXCEPT ![f] = "over"] IN
       IF slotWaiters = <<>>
       THEN task' = over /\ UNCHANGED slotWaiters
       ELSE /\ task' = [over EXCEPT ![Head(slotWaiters)] = "woken"]
            /\ slotWaiters' = Tail(slotWaiters)
    /\ UNCHANGED <<made, importVars, limit, changes, row>>

UploadsEnd_AtOnce ==
    /\ phase = "uploads"
    /\ \A f \in Files : task[f] # "sending"
    /\ Finish
    /\ UNCHANGED <<made, limit, changes, task, row>>

(* Promise.all of the uploads. *)
UploadsEnd ==
    /\ phase = "uploads"
    /\ \A f \in Files : task[f] \in {"none", "over"}
    /\ Finish
    /\ UNCHANGED <<made, limit, changes, task, row>>

-----------------------------------------------------------------------------
(* The user. *)

(* The cross of a row: only a file that is not being sent has one. *)
CancelRow(f) ==
    /\ row[f] = "active"
    /\ task[f] \in Parked
    /\ row' = [row EXCEPT ![f] = "failed"]
    /\ UNCHANGED <<made, importVars, limit, changes, limiterVars, task>>

(* The Stop button: the running import stops between two steps, waiting     *)
(* drops are discarded and waiting files cancelled.                         *)
Stop ==
    /\ current # NoDrop
    /\ abort' = TRUE
    /\ pending' = <<>>
    /\ row' = [f \in Files |-> IF row[f] = "active" /\ task[f] \in Parked THEN "failed" ELSE row[f]]
    /\ UNCHANGED <<made, current, phase, next, limit, changes, limiterVars, task>>

Change(l) == /\ changes < MaxChanges
             /\ changes' = changes + 1
             /\ limit' = l

SetLimit_KeepsWaiters(l) ==
    /\ Change(l)
    /\ IF phase \in {"check", "uploads"}
       THEN task' = [f \in Files |-> IF task[f] = "parked" THEN "woken" ELSE task[f]]
       ELSE UNCHANGED task
    /\ UNCHANGED <<made, importVars, limiterVars, row>>

(* New settings wake every waiter of a running import. *)
SetLimit(l) ==
    /\ Change(l)
    /\ IF phase \in {"check", "uploads"}
       THEN /\ task' = [f \in Files |-> IF task[f] = "parked" THEN "woken" ELSE task[f]]
            /\ slotWaiters' = <<>>
       ELSE UNCHANGED <<task, slotWaiters>>
    /\ UNCHANGED <<made, importVars, inFlight, row>>

(* limitNow asks what protocol the active tab has: switching tabs changes   *)
(* the limit and wakes nobody.                                              *)
SwitchTab(l) ==
    /\ Change(l)
    /\ UNCHANGED <<made, importVars, limiterVars, task, row>>

-----------------------------------------------------------------------------
User == \/ \E d \in Drops : Drop(d)
        \/ \E f \in Files : CancelRow(f)
        \/ Stop
        \/ \E l \in Limits : SetLimit(l) \/ SwitchTab(l)

Import == \/ Prepared \/ PrepareFails
          \/ Accepted \/ Skipped \/ RestCancelled
          \/ UploadsEnd

Upload(f) == Resume(f) \/ Sent(f) \/ Leave(f)

Next == \/ User
        \/ Import
        \/ \E f \in Files : Upload(f)

(* What the liveness property rests on: conflict prompts are answered, and  *)
(* every call of the back end returns.  The import itself waits for nothing *)
(* else.                                                                    *)
Spec     == Init /\ [][Next]_vars
FairSpec == Spec /\ WF_vars(Import) /\ \A f \in Files : WF_vars(Upload(f))
-----------------------------------------------------------------------------
(* Properties. *)

(* The limiter's counter is the number of uploads that hold a slot, and    *)
(* slotWaiters holds each parked one once: none is forgotten or run twice. *)
LimiterExact ==
    /\ inFlight = Cardinality({f \in Files : task[f] \in {"sending", "leaving"}})
    /\ \A f \in Files : (task[f] = "parked") <=> (\E i \in DOMAIN slotWaiters : slotWaiters[i] = f)
    /\ \A i, k \in DOMAIN slotWaiters : slotWaiters[i] = slotWaiters[k] => i = k

(* Files never all wait: whatever becomes of the limit, while one is       *)
(* parked another holds a slot, or has been woken to take one.             *)
SomeoneWillWake ==
    slotWaiters # <<>> => inFlight > 0 \/ \E f \in Files : task[f] = "woken"

(* Drops never overlap: files are uploaded, and rows left open, by the     *)
(* running import only, and none once no import runs.                      *)
OneImportAtATime == \A f \in Files :
    (task[f] \notin {"none", "over"} \/ row[f] = "active") => DropOf(f) = current

(* A row that has settled stays as it is, and its file is not sent: a file *)
(* cancelled while it waited for a slot, by its row or by Stop, never is.  *)
SettledStays ==
    [][\A f \in Files : row[f] \in Settled =>
          row'[f] = row[f] /\ (task'[f] = "sending" => task[f] = "sending")]_vars

(* Every drop is taken up or discarded: imports follow each other through  *)
(* failures, stops and cancelled prompts, and no upload is left parked.    *)
EveryDropEnds == \A d \in Drops :
    (d \in made) ~> (d # current /\ \A i \in DOMAIN pending : pending[i] # d)
=============================================================================
