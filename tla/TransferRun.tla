---------------------------- MODULE TransferRun ----------------------------
(***************************************************************************)
(* What one transfer does with the bytes of one file: run and guarded of   *)
(* src-tauri/src/transfer.rs, the retry loop of run_one around them, and   *)
(* what the panel may ask of the same file next: copy it again, resume it  *)
(* from its length, or retry its row.  Requests for one destination are    *)
(* made one after the other.                                               *)
(*                                                                         *)
(* The source is the chunks 1 .. FileSize, chunk k being the k-th.  The    *)
(* destination is a sequence of chunks; empty and absent are alike, for    *)
(* neither is resumed.  A chunk the writer has accepted is `pending` until *)
(* the destination applies it: a dropped writer may lose it, and what it   *)
(* does not lose lands before the destination is next looked at.           *)
(*                                                                         *)
(* An operator named Action_Fault is the action with a plausible bug in    *)
(* it; no specification uses it, it shows which property notices the bug.  *)
(***************************************************************************)
EXTENDS Integers, Sequences

CONSTANTS FileSize,      \* length of the source
          Capacity,      \* chunks a writer accepts before it makes the copy wait
          MAX_RETRIES,
          MaxRequests    \* bound: requests made for the file

(* file: the local disk and SFTP.                                          *)
(* ftp: an upload task opens the file while the copy already runs.         *)
(* object: a cloud store, which shows a new object once its upload closes. *)
Kind == {"file", "ftp", "object"}

ASSUME RunAssumption == /\ FileSize \in Nat
                        /\ Capacity \in Nat \ {0}
                        /\ MAX_RETRIES \in Nat
                        /\ MaxRequests \in Nat

VARIABLES
    kind,        \* of the destination
    dst,         \* what the destination holds
    request,     \* resume_offset (0: none), and whether the row was retried
    requests,    \* requests so far
    rows,        \* the failed rows in the panel, by their requests' offsets
    pc, pos,     \* run: where it is, and the chunks the reader is past
    opened,      \* the destination is open for this attempt
    pending,
    attempt, cancel, outcome,
    misaligned   \* history: an append has begun elsewhere than at its offset

userVars == <<request, requests, rows>>
copyVars == <<dst, pos, opened, pending, misaligned>>
vars == <<kind, userVars, copyVars, pc, attempt, cancel, outcome>>

Source    == [k \in 1 .. FileSize |-> k]
InOrder(s) == Len(s) <= FileSize /\ \A k \in DOMAIN s : s[k] = k

(* The states in which an attempt has its source open. *)
Copying == {"open_dst", "read", "write", "close", "closing"}

Init == /\ kind \in Kind
        /\ \E n \in 0 .. FileSize : dst = [k \in 1 .. n |-> k]
        /\ request = [offset |-> 0, again |-> FALSE]
        /\ requests = 0
        /\ rows = {}
        /\ pc = "ended"
        /\ pos = 0
        /\ opened = FALSE
        /\ pending = <<>>
        /\ attempt = 0
        /\ cancel = FALSE
        /\ outcome = "none"
        /\ misaligned = FALSE

-----------------------------------------------------------------------------
(* The panel. *)

Ask(offset, again) ==
    /\ pc = "ended"
    /\ requests < MaxRequests
    /\ request' = [offset |-> offset, again |-> again]
    /\ requests' = requests + 1
    /\ pc' = "queued"
    /\ attempt' = 0
    /\ outcome' = "none"
    /\ UNCHANGED <<kind, copyVars, cancel>>

Overwrite == Ask(0, FALSE) /\ UNCHANGED rows

ResumePartial_StaleListing ==
    /\ kind # "object"
    /\ Len(dst) < FileSize
    /\ \E seen \in 0 .. Len(dst) : Ask(seen, FALSE)
    /\ UNCHANGED rows

(* resolveConflict lists the destination and resumes a shorter file from   *)
(* its length.  An object is never resumed: it is overwritten.             *)
ResumePartial ==
    /\ kind # "object"
    /\ Len(dst) < FileSize
    /\ Ask(Len(dst), FALSE)
    /\ UNCHANGED rows

ResumeSkips_OffByOne ==
    /\ kind # "object"
    /\ pc = "ended"
    /\ requests < MaxRequests
    /\ Len(dst) >= FileSize - 1
    /\ requests' = requests + 1
    /\ outcome' = "Skipped"
    /\ UNCHANGED <<kind, request, rows, copyVars, pc, attempt, cancel>>

(* A destination at least as long as the source counts as complete. *)
ResumeSkips ==
    /\ kind # "object"
    /\ pc = "ended"
    /\ requests < MaxRequests
    /\ Len(dst) >= FileSize
    /\ requests' = requests + 1
    /\ outcome' = "Skipped"
    /\ UNCHANGED <<kind, request, rows, copyVars, pc, attempt, cancel>>

(* A failed row's Retry button takes the row away and sends its request    *)
(* once more, whatever has happened to the file since.                     *)
RetryRow == \E offset \in rows : Ask(offset, TRUE) /\ rows' = rows \ {offset}

Cancel == /\ pc # "ended"
          /\ cancel' = TRUE
          /\ UNCHANGED <<kind, userVars, copyVars, pc, attempt, outcome>>

-----------------------------------------------------------------------------
(* run_one and run. *)

(* The attempt ends with its reader and writer dropped. *)
Drop == /\ opened' = FALSE
        /\ pending' = <<>>
        /\ UNCHANGED <<pos, misaligned>>

End(result) ==
    /\ pc' = "ended"
    /\ outcome' = result
    /\ cancel' = FALSE
    /\ rows' = IF result = "Done" THEN rows ELSE rows \union {request.offset}
    /\ UNCHANGED <<request, requests>>

(* Closing an object store's writer may have gone through even when run    *)
(* does not get to see it.                                                 *)
DropDestination ==
    dst' \in IF kind = "object" /\ opened /\ pc = "closing" THEN {dst, pending} ELSE {dst}

CancelledInQueue ==
    /\ pc = "queued"
    /\ cancel
    /\ End("Cancelled")
    /\ UNCHANGED <<kind, copyVars, attempt>>

Start == /\ pc = "queued"
         /\ ~cancel
         /\ pc' = "open"
         /\ UNCHANGED <<kind, userVars, copyVars, attempt, cancel, outcome>>

OpenSource_FromTheTop ==
    /\ pc = "open"
    /\ pos' = 0
    /\ pc' = IF kind = "ftp" THEN "read" ELSE "open_dst"
    /\ UNCHANGED <<kind, userVars, dst, opened, pending, misaligned, attempt, cancel, outcome>>

(* open_read, or open_read_at the request's offset: the offset is the      *)
(* request's on every attempt.                                             *)
OpenSource ==
    /\ pc = "open"
    /\ pos' = request.offset
    /\ pc' = IF kind = "ftp" THEN "read" ELSE "open_dst"
    /\ UNCHANGED <<kind, userVars, dst, opened, pending, misaligned, attempt, cancel, outcome>>

(* open_write truncates; open_append continues the file as it now is. *)
OpenDestination ==
    /\ pc \in Copying
    /\ ~opened
    /\ opened' = TRUE
    /\ dst' = IF request.offset = 0 /\ kind # "object" THEN <<>> ELSE dst
    /\ misaligned' = IF request.offset = 0 THEN misaligned /\ kind = "object"
                     ELSE misaligned \/ Len(dst) # request.offset
    /\ pc' = IF pc = "open_dst" THEN "read" ELSE pc
    /\ UNCHANGED <<kind, userVars, pos, pending, attempt, cancel, outcome>>

(* One guarded read: a chunk, or the end of the file. *)
Read ==
    /\ pc = "read"
    /\ ~cancel
    /\ IF pos < FileSize THEN pos' = pos + 1 /\ pc' = "write"
                         ELSE pos' = pos /\ pc' = "close"
    /\ UNCHANGED <<kind, userVars, dst, opened, pending, misaligned, attempt, cancel, outcome>>

Write ==
    /\ pc = "write"
    /\ ~cancel
    /\ kind = "object" \/ Len(pending) < Capacity
    /\ pending' = Append(pending, pos)
    /\ pc' = "read"
    /\ UNCHANGED <<kind, userVars, dst, pos, opened, misaligned, attempt, cancel, outcome>>

(* The destination stores the next chunk. *)
Apply ==
    /\ pc \in Copying
    /\ opened
    /\ kind # "object"
    /\ pending # <<>>
    /\ dst' = Append(dst, Head(pending))
    /\ pending' = Tail(pending)
    /\ UNCHANGED <<kind, userVars, pos, opened, misaligned, pc, attempt, cancel, outcome>>

(* guarded passes its check and starts flush and shutdown. *)
CloseBegins ==
    /\ pc = "close"
    /\ ~cancel
    /\ pc' = "closing"
    /\ UNCHANGED <<kind, userVars, copyVars, attempt, cancel, outcome>>

Closed_WithoutFlush ==
    /\ pc = "closing"
    /\ opened
    /\ dst' = IF kind = "object" THEN pending ELSE dst
    /\ Drop
    /\ End("Done")
    /\ UNCHANGED <<kind, attempt>>

Closed ==
    /\ pc = "closing"
    /\ opened
    /\ kind # "object" => pending = <<>>
    /\ dst' = IF kind = "object" THEN pending ELSE dst
    /\ Drop
    /\ End("Done")
    /\ UNCHANGED <<kind, attempt>>

AttemptCancelled ==
    /\ pc \in Copying \ {"open_dst"}
    /\ cancel
    /\ DropDestination
    /\ Drop
    /\ End("Cancelled")
    /\ UNCHANGED <<kind, attempt>>

AttemptRetries ==
    /\ pc \in Copying \union {"open"}
    /\ attempt < MAX_RETRIES
    /\ attempt' = attempt + 1
    /\ pc' = "backoff"
    /\ DropDestination
    /\ Drop
    /\ UNCHANGED <<kind, userVars, cancel, outcome>>

AttemptFails_CloseUnguarded ==
    /\ pc \in (Copying \ {"closing"}) \union {"open"}
    /\ DropDestination
    /\ Drop
    /\ End("Error")
    /\ UNCHANGED <<kind, attempt>>

(* An error that is not retried, or no retry left; the stall timeout of    *)
(* guarded makes one of the two happen in every state of the copy.         *)
AttemptFails ==
    /\ pc \in Copying \union {"open"}
    /\ DropDestination
    /\ Drop
    /\ End("Error")
    /\ UNCHANGED <<kind, attempt>>

BackoffEnds ==
    /\ pc = "backoff"
    /\ IF cancel THEN End("Cancelled")
                 ELSE pc' = "open" /\ UNCHANGED <<userVars, cancel, outcome>>
    /\ UNCHANGED <<kind, copyVars, attempt>>

-----------------------------------------------------------------------------
User == Overwrite \/ ResumePartial \/ ResumeSkips \/ RetryRow \/ Cancel

Engine == \/ CancelledInQueue \/ Start \/ OpenSource
          \/ Read \/ Write \/ CloseBegins \/ Closed
          \/ AttemptCancelled \/ AttemptRetries \/ AttemptFails
          \/ BackoffEnds

Next == User \/ Engine \/ OpenDestination \/ Apply

(* The engine's task runs on, and an operation of the copy that makes no   *)
(* progress is ended by the stall timeout.  Neither the destination nor    *)
(* the opens before the copy, which are not guarded, owe anything: they    *)
(* may stop answering at any point.                                        *)
Guarded  == Copying \ {"open_dst"}
Fairness == WF_vars(pc \notin {"open", "open_dst"} /\ Engine)
Spec     == Init /\ [][Next]_vars
FairSpec == Spec /\ Fairness
-----------------------------------------------------------------------------
(* Properties. *)

TypeOK ==
    /\ kind \in Kind
    /\ dst \in Seq(1 .. FileSize)
    /\ request \in [offset : 0 .. FileSize, again : BOOLEAN]
    /\ requests \in 0 .. MaxRequests
    /\ rows \subseteq 0 .. FileSize
    /\ pc \in Copying \union {"ended", "queued", "open", "backoff"}
    /\ pos \in 0 .. FileSize
    /\ opened \in BOOLEAN
    /\ pending \in Seq(1 .. FileSize)
    /\ attempt \in 0 .. MAX_RETRIES
    /\ cancel \in BOOLEAN
    /\ outcome \in {"none", "Done", "Cancelled", "Error", "Skipped"}
    /\ misaligned \in BOOLEAN

(* A transfer reported Done has made the destination equal to the source,  *)
(* through any number of retries, cancelled predecessors and buffered      *)
(* writes, unless an append began elsewhere than at its offset.            *)
DoneIsExact == (outcome = "Done" /\ ~misaligned) => dst = Source

(* Whatever interrupts a transfer leaves a beginning of the source behind: *)
(* this is what makes the destination's length a resume offset.            *)
LeftoverIsBeginning == ~misaligned => InOrder(dst)

(* A file that resume skips as already complete is complete. *)
SkippedIsComplete == (outcome = "Skipped" /\ ~misaligned) => dst = Source

(* The only way an append goes astray is a second use of the offset: the   *)
(* first attempt of a resumed transfer always continues at the end of the  *)
(* file, a retry of it, automatic or by hand, may not.                     *)
OnlyRetriesMisalign ==
    [][(misaligned' /\ ~misaligned) => (attempt > 0 \/ request.again)]_vars

(* A resumed transfer never gives up bytes that were already there. *)
ResumeKeepsPartial ==
    [][request.offset > 0 =>
          /\ Len(dst') >= Len(dst)
          /\ \A k \in DOMAIN dst : dst'[k] = dst[k]]_vars

(* An object store never shows a part of the new object: each attempt      *)
(* leaves the object as it was or replaces it by the whole source.         *)
ObjectIsReplacedWhole == [][(kind = "object" /\ dst' # dst) => dst' = Source]_vars

(* A destination that stops answering cannot hold a transfer: every        *)
(* attempt that got through its opens ends, for every operation of the     *)
(* copy, the final flush and shutdown included, is guarded.                *)
AttemptEnds == (pc \in Guarded) ~> (pc \in {"backoff", "ended"})

(* "Resume picks up from the partial destination's length: read the source *)
(* from that offset and append": wherever an append begins, it does so.    *)
ResumeAtLength ==
    [][(opened' /\ ~opened /\ request.offset > 0) => Len(dst) = request.offset]_vars
=============================================================================
