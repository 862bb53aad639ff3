---------------------------- MODULE SftpSession -----------------------------
(***************************************************************************)
(* The one SSH session that all operations of an SftpBackend share, and    *)
(* its replacement when the link is gone.  Requests are matched by id, so  *)
(* operations run side by side; an RwLock guards the slot.  A transfer     *)
(* keeps the file it opened, and loses it if that session is torn down.    *)
(***************************************************************************)
EXTENDS RemoteOps, SequencesExt

CONSTANT Sessions

ASSUME SessionsAssumption == Sessions # {} /\ None \notin Sessions

VARIABLES
    slot,      \* SftpBackend.session
    writer,    \* the task that has it locked for writing
    up,        \* sessions whose link works
    closed,    \* those russh has given up
    held,      \* the sessions each task has cloned, the last one in use
    file,      \* the session of the file each transfer has open
    doubted    \* history: sessions on which the server's refusal of a write
               \* was taken for a lost link

sftpVars == <<slot, writer, up, closed, held, file, doubted>>

SftpInit == /\ slot = CHOOSE s \in Sessions : TRUE
            /\ writer = None
            /\ up = {slot}
            /\ closed = {}
            /\ held = [t \in Tasks |-> <<>>]
            /\ file = [t \in Tasks |-> None]
            /\ doubted = {}

SftpKinds == {"list", "write", "open", "batch"}

(* A session lives as long as someone has it: with the last clone its       *)
(* handle is dropped and the connection torn down.                          *)
Clones == UNION {Range(held[t]) : t \in Tasks}
TearDown(links, current) == up' = links \intersect ({current} \union Clones')

Used(t) == Last(held[t])

(* with_reconnect keeps the stale clone to its end, live_session does not.  *)
Takes(t, s) == held' = [held EXCEPT ![t] = IF kind[t] = "batch" THEN <<s>> ELSE Append(@, s)]

SftpAsk(t) == /\ \E k \in SftpKinds : Asks(t, k, "get")
              /\ UNCHANGED sftpVars

(* session(): the read lock is held for the clone only. *)
Get(t) ==
    /\ pc[t] = "get"
    /\ writer = None
    /\ Takes(t, slot)
    /\ Goes(t, "first")
    /\ UNCHANGED <<slot, writer, up, closed, file, doubted>>

Drops(t) == held' = [held EXCEPT ![t] = <<>>] /\ TearDown(up, slot)

SftpEnds(t) == Ends(t) /\ Drops(t)

(* The request is answered: with a status or, from a link that is down, at  *)
(* best with a timeout, which is no sign of a lost link.                    *)
Answered(t) ==
    \/ SftpEnds(t) /\ UNCHANGED file
    \/ /\ kind[t] = "open" /\ Used(t) \in up
       /\ file' = [file EXCEPT ![t] = Used(t)]
       /\ Goes(t, "stream")
       /\ Drops(t)

FoundGone(t) == Goes(t, "reconnect") /\ UNCHANGED <<held, file, up>>

(* A write's own errors are all of the kind that is taken for a lost link.  *)
First(t) ==
    /\ pc[t] = "first"
    /\ \/ /\ Used(t) \in closed
          /\ FoundGone(t) /\ UNCHANGED doubted
       \/ /\ Used(t) \notin closed
          /\ Answered(t) /\ UNCHANGED doubted
       \/ /\ Used(t) \notin closed \union up /\ kind[t] # "batch"
          /\ FoundGone(t) /\ UNCHANGED doubted
       \/ /\ Used(t) \in up /\ kind[t] = "write"
          /\ FoundGone(t) /\ doubted' = doubted \union {Used(t)}
    /\ UNCHANGED <<slot, writer, closed>>

ReconnectLock_NotTested(t) ==
    /\ pc[t] = "reconnect"
    /\ writer = None
    /\ writer' = t /\ Goes(t, "connect") /\ UNCHANGED <<held, up>>
    /\ UNCHANGED <<slot, closed, file, doubted>>

(* reconnect: under the write lock, a session that another task has put in  *)
(* place already is taken as it is.                                         *)
ReconnectLock(t) ==
    /\ pc[t] = "reconnect"
    /\ writer = None
    /\ IF slot # Used(t)
       THEN Takes(t, slot) /\ TearDown(up, slot) /\ Goes(t, "second") /\ UNCHANGED writer
       ELSE writer' = t /\ Goes(t, "connect") /\ UNCHANGED <<held, up>>
    /\ UNCHANGED <<slot, closed, file, doubted>>

(* Sessions nobody has, nor a file of; which one is next makes no           *)
(* difference.  Sessions is the bound: without a spare one, opening fails.  *)
Spare == Sessions \ ({slot} \union Clones \union Range(file))
Fresh == CHOOSE s \in Spare : TRUE

(* open_session, with the lock held.  If it fails the stale session stays. *)
OpenSession(t) ==
    /\ pc[t] = "connect"
    /\ writer' = None
    /\ \/ /\ Spare # {}
          /\ slot' = Fresh
          /\ Takes(t, Fresh)
          /\ TearDown(up \union {Fresh}, Fresh)
          /\ closed' = closed \ {Fresh}
          /\ doubted' = doubted \ {Fresh}
          /\ Goes(t, "second")
       \/ SftpEnds(t) /\ UNCHANGED <<slot, closed, doubted>>
    /\ UNCHANGED file

(* The second try's result is the operation's. *)
Second(t) ==
    /\ pc[t] = "second"
    /\ Answered(t)
    /\ UNCHANGED <<slot, writer, closed, doubted>>

(* The transfer is through with its file, or has seen it break. *)
Stream(t) ==
    /\ pc[t] = "stream"
    /\ file' = [file EXCEPT ![t] = None]
    /\ Ends(t)
    /\ UNCHANGED <<slot, writer, up, closed, held, doubted>>

SftpAbort(t) ==
    /\ Abortable(t)
    /\ SftpEnds(t)
    /\ writer' = IF writer = t THEN None ELSE writer
    /\ UNCHANGED <<slot, closed, file, doubted>>

LinkDrops ==
    /\ slot \in up
    /\ Fault
    /\ up' = up \ {slot}
    /\ UNCHANGED <<slot, writer, closed, held, file, doubted>>

(* Keepalives went unanswered, or the server hung up. *)
Notices ==
    /\ \E s \in ({slot} \union Clones) \ (up \union closed) : closed' = closed \union {s}
    /\ UNCHANGED <<slot, writer, up, held, file, doubted, opVars>>

SftpGoes(t) == Get(t) \/ First(t) \/ ReconnectLock(t) \/ OpenSession(t) \/ Second(t) \/ Stream(t)
SftpNext == \/ \E t \in Tasks : SftpAsk(t) \/ SftpGoes(t) \/ SftpAbort(t)
            \/ LinkDrops \/ Notices

-----------------------------------------------------------------------------
(* Properties. *)

(* However many operations see one session fail, a transfer that streams   *)
(* over a working session keeps it, unless the network cuts it or a write  *)
(* on that very session was refused.                                       *)
StreamsRunOn ==
    [][\A t \in Tasks :
          (file[t] \in up /\ file'[t] = file[t] /\ file[t] \notin up') =>
             faults' # faults \/ file[t] \in doubted]_sftpVars
=============================================================================
