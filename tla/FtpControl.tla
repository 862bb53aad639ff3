----------------------------- MODULE FtpControl -----------------------------
(***************************************************************************)
(* The control connection of FtpBackend: operations that take turns behind *)
(* its mutex, send commands and read replies, and the reconnect when it    *)
(* turns out to be dead or out of step.  Replies carry no mark of whose    *)
(* they are: a listing that is aborted halfway leaves its own behind.      *)
(***************************************************************************)
EXTENDS RemoteOps

CONSTANT Conns

ASSUME ConnsAssumption == /\ None \notin Conns
                          /\ IsFiniteSet(Tasks) /\ IsFiniteSet(Conns)
                          /\ Cardinality(Conns) > Cardinality(Tasks) + 1

VARIABLES
    conn,      \* FtpBackend.conn
    holder,    \* the task that has it locked
    alive,     \* connections that are up
    replies,   \* on their way to the client, on each connection
    cmd,       \* of each task: which operation, which try, how many replies read
    fresh,     \* what a task has connected anew
    suspect,   \* history: connections someone has found lost
    slipped    \* history: those where an aborted listing left a reply that
               \* does not give it away

ftpVars == <<conn, holder, alive, replies, cmd, fresh, suspect, slipped>>

NoCmd == [id |-> 0, try |-> 0, read |-> 0]
FtpInit == /\ conn = CHOOSE c \in Conns : TRUE
           /\ holder = None
           /\ alive = {conn}
           /\ replies = [c \in Conns |-> <<>>]
           /\ cmd = [t \in Tasks |-> NoCmd]
           /\ fresh = [t \in Tasks |-> None]
           /\ suspect = {} /\ slipped = {}

FtpKinds == {"list", "write", "mkdir", "remove", "rename"}

(* What each operation takes for its replies: 227, 150, 226 (or 250) for    *)
(* whatever uses a data connection, 257, 250, and 350 with 250.             *)
Expected(k) ==
    CASE k \in {"list", "write"} -> <<{"passive"}, {"opening"}, {"closing", "done"}>>
      [] k = "mkdir"  -> <<{"made"}>>
      [] k = "remove" -> <<{"done"}>>
      [] k = "rename" -> <<{"pending"}, {"done"}>>

(* What a server sends for the command that comes before reply n.           *)
Answers(k, n) ==
    {<<"error">>} \union
    CASE Len(Expected(k)) = 3 /\ n = 2 -> {<<"opening", "closing">>, <<"opening", "aborted">>}
      [] OTHER -> {<<code>> : code \in Expected(k)[n]}

IsFtpConnError_Not226(code) == code \in {"opening", "aborted"}

(* Replies of a data transfer, where no such reply belongs. *)
IsFtpConnError(code) == code \in {"opening", "closing", "aborted"}

Self(t) == [id |-> cmd[t].id, try |-> cmd[t].try]
Awaits(t) == Expected(kind[t])[cmd[t].read + 1]
Unlock == holder' = None

FtpAsk(t) ==
    /\ \E k \in FtpKinds : Asks(t, k, "lock")
    /\ cmd' = [cmd EXCEPT ![t] = [id |-> asked', try |-> 1, read |-> 0]]
    /\ UNCHANGED <<conn, holder, alive, replies, fresh, suspect, slipped>>

Lock(t) ==
    /\ pc[t] = "lock"
    /\ holder = None
    /\ holder' = t
    /\ Goes(t, "send")
    /\ UNCHANGED <<conn, alive, replies, cmd, fresh, suspect, slipped>>

(* A command sets out.  The server carries it out and answers; from a       *)
(* connection that is down nothing comes.                                   *)
Send(t) ==
    /\ pc[t] = "send"
    /\ IF conn \in alive
       THEN \E answer \in Answers(kind[t], cmd[t].read + 1) :
               replies' = [replies EXCEPT ![conn] = @ \o
                  [n \in DOMAIN answer |-> [of |-> Self(t), code |-> answer[n]]]]
       ELSE UNCHANGED replies
    /\ Goes(t, "read")
    /\ UNCHANGED <<conn, holder, alive, cmd, fresh, suspect, slipped>>

FtpEnds(t) == Ends(t) /\ cmd' = [cmd EXCEPT ![t] = NoCmd]

FoundLost_KeepsGuard(t) ==
    /\ suspect' = suspect \union {conn}
    /\ IF cmd[t].try = 1
       THEN Goes(t, "connect") /\ UNCHANGED <<cmd, holder>>
       ELSE FtpEnds(t) /\ Unlock

(* with_reconnect gives the connection back before it connects anew, and    *)
(* does so for the first try only.                                          *)
FoundLost(t) ==
    /\ Unlock
    /\ suspect' = suspect \union {conn}
    /\ IF cmd[t].try = 1
       THEN Goes(t, "connect") /\ UNCHANGED cmd
       ELSE FtpEnds(t)

(* The next reply is the one that was awaited, or an error, or a sign that  *)
(* the replies are out of step.                                             *)
Read(t) ==
    /\ pc[t] = "read"
    /\ replies[conn] # <<>>
    /\ replies' = [replies EXCEPT ![conn] = Tail(@)]
    /\ LET code == Head(replies[conn]).code IN
       \/ /\ code \in Awaits(t)
          /\ UNCHANGED suspect
          /\ IF cmd[t].read + 1 = Len(Expected(kind[t]))
             THEN FtpEnds(t) /\ Unlock
             ELSE /\ cmd' = [cmd EXCEPT ![t].read = @ + 1]
                  /\ Goes(t, IF cmd'[t].read = 2 THEN "read" ELSE "send")
                  /\ UNCHANGED holder
       \/ code \notin Awaits(t) /\ IsFtpConnError(code) /\ FoundLost(t)
       \/ code \notin Awaits(t) /\ ~IsFtpConnError(code) /\ FtpEnds(t) /\ Unlock /\ UNCHANGED suspect
    /\ UNCHANGED <<conn, alive, fresh, slipped>>

FindsDead(t) ==
    /\ pc[t] = "read"
    /\ conn \notin alive
    /\ FoundLost(t)
    /\ UNCHANGED <<conn, alive, replies, fresh, slipped>>

(* A connection that nobody has; which one makes no difference. *)
Unused == CHOOSE c \in Conns : c # conn /\ \A t \in Tasks : c # fresh[t]

Establish(t) ==
    /\ pc[t] = "connect"
    /\ \/ /\ fresh' = [fresh EXCEPT ![t] = Unused]
          /\ alive' = alive \union {Unused}
          /\ Goes(t, "swap")
          /\ UNCHANGED cmd
       \/ FtpEnds(t) /\ UNCHANGED <<fresh, alive>>   \* "reconnect failed"
    /\ UNCHANGED <<conn, holder, replies, suspect, slipped>>

(* The lock is taken to put the new connection in place; the old one closes. *)
Swap(t) ==
    /\ pc[t] = "swap"
    /\ holder = None
    /\ conn' = fresh[t]
    /\ fresh' = [fresh EXCEPT ![t] = None]
    /\ alive' = alive \ {conn}
    /\ replies' = [replies EXCEPT ![conn] = <<>>]
    /\ suspect' = suspect \ {conn}
    /\ slipped' = slipped \ {conn}
    /\ cmd' = [cmd EXCEPT ![t].try = 2, ![t].read = 0]
    /\ Goes(t, "lock")
    /\ UNCHANGED holder

(* walk_tree drops its listings: what one was about to read stays behind.   *)
FtpAbort(t) ==
    /\ Abortable(t)
    /\ FtpEnds(t)
    /\ fresh' = [fresh EXCEPT ![t] = None]
    /\ alive' = alive \ {fresh[t]}
    /\ IF holder = t
       THEN /\ Unlock
            /\ slipped' = IF replies[conn] # <<>> /\ Head(replies[conn]).code \in {"passive", "error"}
                          THEN slipped \union {conn} ELSE slipped
       ELSE UNCHANGED <<holder, slipped>>
    /\ UNCHANGED <<conn, replies, suspect>>

(* The server or the network closes the connection (421, a reset). *)
Closes ==
    /\ conn \in alive
    /\ Fault
    /\ alive' = alive \ {conn}
    /\ replies' = [replies EXCEPT ![conn] = <<>>]
    /\ UNCHANGED <<conn, holder, cmd, fresh, suspect, slipped>>

FtpGoes(t) == Lock(t) \/ Send(t) \/ Read(t) \/ FindsDead(t) \/ Establish(t) \/ Swap(t)
FtpNext == \/ \E t \in Tasks : FtpAsk(t) \/ FtpGoes(t) \/ FtpAbort(t)
           \/ Closes

-----------------------------------------------------------------------------
(* Properties. *)

(* A reply is taken for what was awaited only by the operation it belongs  *)
(* to.  Two cases excepted, which the code does let through: a connection  *)
(* that was found lost serves others until it is replaced, and an aborted  *)
(* listing may leave a reply that is_ftp_conn_error does not know.         *)
RepliesBelong ==
    [][\A t \in Tasks :
          (pc[t] = "read" /\ replies[conn] # <<>> /\ Len(replies'[conn]) < Len(replies[conn])) =>
             LET r == Head(replies[conn]) IN
             r.of = Self(t) \/ r.code \notin Awaits(t) \/ conn \in suspect \union slipped]_ftpVars
=============================================================================
