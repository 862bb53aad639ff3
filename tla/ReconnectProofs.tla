-------------------------- MODULE ReconnectProofs ---------------------------
(***************************************************************************)
(* Proofs about Reconnect, for any number of tasks, operations, losses and *)
(* connections.                                                            *)
(*                                                                         *)
(* FTP: on a connection that nobody has found lost and no aborted listing  *)
(* has spoilt, what is to be read belongs to the task that has it locked,  *)
(* or begins with a reply that gives it away (InStep).  SFTP: a working    *)
(* session that was never doubted is the one in the slot (OneLives).       *)
(***************************************************************************)
EXTENDS Reconnect, SequenceTheorems, FiniteSetTheorems, TLAPS

Codes == {"passive", "opening", "closing", "aborted", "done", "made", "pending", "error"}
Replies == [of : [id : Nat, try : Nat], code : Codes]

FtpTypes ==
    /\ pc \in [Tasks -> {"idle", "lock", "send", "read", "connect", "swap"}]
    /\ kind \in [Tasks -> FtpKinds \cup {None}]
    /\ asked \in Nat
    /\ conn \in Conns
    /\ holder \in Tasks \cup {None}
    /\ replies \in [Conns -> Seq(Replies)]
    /\ cmd \in [Tasks -> [id : Nat, try : Nat, read : Nat]]
    /\ fresh \in [Tasks -> Conns \cup {None}]

(* Who has the connection, and how far an operation can be. *)
Taken == \A t \in Tasks :
    /\ pc[t] \in {"send", "read"} <=> holder = t
    /\ pc[t] # "idle" => kind[t] \in FtpKinds
    /\ pc[t] = "lock" => cmd[t].read = 0
    /\ pc[t] = "swap" => fresh[t] \in Conns
    /\ pc[t] \in {"send", "read"} => cmd[t].read < Len(Expected(kind[t]))
    /\ pc[t] = "send" => cmd[t].read # 2

(* Nothing is known of a connection before it is put in place. *)
Clean == \A c \in Conns : c # conn => replies[c] = <<>> /\ c \notin suspect \cup slipped

GivesAway(q) == q # <<>> /\ IsFtpConnError(Head(q).code)

(* What an aborted listing has left, if anything. *)
Leftover(t, q) == q = <<>> \/ (cmd[t].read = 0 /\ GivesAway(q))

(* The answer to the task's last command, or the rest of it. *)
Own(t, q) ==
    /\ \A n \in DOMAIN q : q[n].of = Self(t)
    /\ IF cmd[t].read = 2
       THEN Len(q) = 1 /\ q[1].code \in {"closing", "aborted"}
       ELSE \/ Len(q) = 1 /\ q[1].code \in (Awaits(t) \ {"opening"}) \cup {"error"}
            \/ /\ Len(q) = 2 /\ cmd[t].read = 1 /\ kind[t] \in {"list", "write"}
               /\ q[1].code = "opening" /\ q[2].code \in {"closing", "aborted"}

InStep == conn \notin suspect \cup slipped =>
    /\ holder = None => replies[conn] = <<>> \/ GivesAway(replies[conn])
    /\ \A t \in Tasks :
          /\ pc[t] = "send" => Leftover(t, replies[conn])
          /\ pc[t] = "read" => Leftover(t, replies[conn]) \/ Own(t, replies[conn])

FtpInv == FtpTypes /\ Taken /\ Clean /\ InStep

-----------------------------------------------------------------------------
(* What an operation awaits. *)

(* The first reply is never one of those that give a leftover away. *)
LEMMA ExpectedFacts ==
    ASSUME NEW k \in FtpKinds
    PROVE  /\ Len(Expected(k)) \in {1, 2, 3}
           /\ Expected(k)[1] \subseteq {"passive", "made", "done", "pending"}
           /\ Len(Expected(k)) = 2 => Expected(k)[2] = {"done"}
           /\ Len(Expected(k)) = 3 <=> k \in {"list", "write"}
           /\ Len(Expected(k)) = 3 => /\ Expected(k)[1] = {"passive"}
                                      /\ Expected(k)[2] = {"opening"}
                                      /\ Expected(k)[3] = {"closing", "done"}
<1>1. CASE k \in {"list", "write"}
  BY <1>1 DEF Expected
<1>2. CASE k = "mkdir"
  BY <1>2 DEF Expected
<1>3. CASE k = "remove"
  BY <1>3 DEF Expected
<1>4. CASE k = "rename"
  BY <1>4 DEF Expected
<1> QED BY <1>1, <1>2, <1>3, <1>4 DEF FtpKinds

(* The answer to a command, marked with whose it is. *)
Marked(t, answer) == [n \in DOMAIN answer |-> [of |-> Self(t), code |-> answer[n]]]

LEMMA AnswerIsOwn ==
    ASSUME FtpTypes, Taken, NEW t \in Tasks, pc[t] = "send",
           NEW answer \in Answers(kind[t], cmd[t].read + 1)
    PROVE  Marked(t, answer) \in Seq(Replies) /\ Own(t, Marked(t, answer))
<1> DEFINE r == cmd[t].read  k == kind[t]
<1>1. r \in Nat /\ r < Len(Expected(k)) /\ r # 2 /\ k \in FtpKinds
  BY DEF FtpTypes, Taken
<1>2. /\ Len(Expected(k)) \in {1, 2, 3}
      /\ Expected(k)[1] \subseteq {"passive", "made", "done", "pending"}
      /\ Len(Expected(k)) = 2 => Expected(k)[2] = {"done"}
      /\ Len(Expected(k)) = 3 <=> k \in {"list", "write"}
  BY <1>1, ExpectedFacts
<1>3. r \in {0, 1}
  <2>1. \A i \in Nat, n \in {1, 2, 3} : i < n /\ i # 2 => i \in {0, 1}
    OBVIOUS
  <2> QED BY <2>1, <1>1, <1>2
<1>4. Self(t) \in [id : Nat, try : Nat]
  BY DEF Self, FtpTypes
<1>5. CASE \E code \in (Awaits(t) \ {"opening"}) \cup {"error"} : answer = <<code>>
  <2> PICK code \in (Awaits(t) \ {"opening"}) \cup {"error"} : answer = <<code>>
    BY <1>5
  <2>1. code \in Codes
    BY <1>1, <1>2, <1>3, ExpectedFacts DEF Awaits, Codes
  <2>2. Marked(t, answer) = <<[of |-> Self(t), code |-> code]>>
    BY DEF Marked
  <2>3. [of |-> Self(t), code |-> code] \in Replies
    BY <2>1, <1>4 DEF Replies
  <2> DEFINE one == <<[of |-> Self(t), code |-> code]>>
  <2>4. /\ one \in Seq(Replies) /\ DOMAIN one = {1} /\ Len(one) = 1
        /\ one[1].of = Self(t) /\ one[1].code = code
    BY <2>3
  <2>5. Marked(t, answer) = one
    BY <2>2
  <2> HIDE DEF one
  <2>6. \A n \in DOMAIN one : one[n].of = Self(t)
    BY <2>4
  <2>7. one[1].code \in (Awaits(t) \ {"opening"}) \cup {"error"}
    BY <2>4
  <2>8. cmd[t].read # 2
    BY <1>3
  <2>9. Own(t, one)
    BY <2>4, <2>6, <2>7, <2>8 DEF Own
  <2> QED BY <2>4, <2>5, <2>9
<1>6. CASE /\ Len(Expected(k)) = 3 /\ r = 1
           /\ \E last \in {"closing", "aborted"} : answer = <<"opening", last>>
  <2> PICK last \in {"closing", "aborted"} : answer = <<"opening", last>>
    BY <1>6
  <2>1. Marked(t, answer) = <<[of |-> Self(t), code |-> "opening"], [of |-> Self(t), code |-> last]>>
    BY DEF Marked
  <2> DEFINE first == [of |-> Self(t), code |-> "opening"]
             second == [of |-> Self(t), code |-> last]
             two == <<first, second>>
  <2>2. first \in Replies /\ second \in Replies
    BY <1>4 DEF Replies, Codes
  <2>3. /\ two \in Seq(Replies) /\ DOMAIN two = {1, 2} /\ Len(two) = 2
        /\ two[1] = first /\ two[2] = second
    BY <2>2
  <2>4. /\ two[1].of = Self(t) /\ two[1].code = "opening"
        /\ two[2].of = Self(t) /\ two[2].code = last
    BY <2>3
  <2> QED BY <2>1, <2>3, <2>4, <1>6, <1>2 DEF Own
<1>7. \/ answer = <<"error">>
      \/ /\ Len(Expected(k)) = 3 /\ r = 1
         /\ answer \in {<<"opening", "closing">>, <<"opening", "aborted">>}
      \/ ~(Len(Expected(k)) = 3 /\ r = 1) /\ \E code \in Awaits(t) : answer = <<code>>
  BY <1>1, <1>3 DEF Answers, Awaits
<1>8. ~(Len(Expected(k)) = 3 /\ r = 1) => "opening" \notin Awaits(t)
  BY <1>1, <1>2, <1>3 DEF Awaits
<1> QED BY <1>5, <1>6, <1>7, <1>8

(* There is always a connection that nobody has. *)
LEMMA UnusedExists ==
    ASSUME fresh \in [Tasks -> Conns \cup {None}], conn \in Conns
    PROVE  Unused \in Conns
<1> DEFINE Taker == [x \in Tasks \cup {None} |-> IF x = None THEN conn ELSE fresh[x]]
           InHands == {Taker[x] : x \in Tasks \cup {None}}
<1>1. /\ IsFiniteSet(Tasks \cup {None})
      /\ Cardinality(Tasks \cup {None}) = Cardinality(Tasks) + 1
  BY ConnsAssumption, OpsAssumption, FS_AddElement
<1>2. IsFiniteSet(InHands) /\ Cardinality(InHands) <= Cardinality(Tasks) + 1
  <2>1. Taker \in Surjection(Tasks \cup {None}, InHands)
    BY DEF Surjection
  <2> QED BY <1>1, <2>1, FS_Surjection
<1>3. Cardinality(Conns) \in Nat /\ Cardinality(InHands) \in Nat /\ Cardinality(Tasks) \in Nat
  BY <1>2, ConnsAssumption, FS_CardinalityType
<1>4. ~(Conns \subseteq InHands)
  <2> SUFFICES ASSUME Conns \subseteq InHands
               PROVE  FALSE
    OBVIOUS
  <2>1. Cardinality(Conns) <= Cardinality(InHands)
    BY <1>2, FS_Subset
  <2> QED BY <2>1, <1>2, <1>3, ConnsAssumption
<1>5. PICK c \in Conns : c \notin InHands
  BY <1>4
<1>6. c # conn /\ \A t \in Tasks : c # fresh[t]
  <2>1. Taker[None] = conn /\ \A t \in Tasks : Taker[t] = fresh[t]
    BY OpsAssumption
  <2> QED BY <1>5, <2>1
<1> QED BY <1>6 DEF Unused

-----------------------------------------------------------------------------
(* Each step on the control connection keeps the invariant. *)

(* An operation is asked for. *)
LEMMA FtpAsks ==
    ASSUME FtpInv, NEW t \in Tasks, FtpAsk(t)
    PROVE  FtpInv'
<1> USE DEF FtpAsk, Asks, Goto
<1>1. FtpTypes'
  BY DEF FtpInv, FtpTypes
<1>2. Taken'
  BY DEF FtpInv, FtpTypes, Taken
<1>3. Clean'
  BY DEF FtpInv, Clean
<1>4. InStep'
  BY DEF FtpInv, FtpTypes, InStep, Leftover, Own, Awaits, Self, GivesAway
<1> QED BY <1>1, <1>2, <1>3, <1>4 DEF FtpInv

(* An operation gets the connection. *)
LEMMA FtpLocks ==
    ASSUME FtpInv, NEW t \in Tasks, Lock(t)
    PROVE  FtpInv'
<1> USE OpsAssumption DEF Lock, Goes, Goto
<1>0. kind[t] \in FtpKinds /\ cmd[t].read = 0
  BY DEF FtpInv, Taken
<1>01. cmd[t].read < Len(Expected(kind[t]))
  <2>1. Len(Expected(kind[t])) \in {1, 2, 3}
    BY <1>0, ExpectedFacts
  <2>2. \A n \in {1, 2, 3} : 0 < n
    OBVIOUS
  <2> QED BY <1>0, <2>1, <2>2
<1>1. FtpTypes'
  BY DEF FtpInv, FtpTypes
<1>2. Taken'
  BY <1>0, <1>01 DEF FtpInv, FtpTypes, Taken
<1>3. Clean'
  BY DEF FtpInv, Clean
<1>4. InStep'
  BY DEF FtpInv, FtpTypes, Taken, InStep, Leftover, Own, Awaits, Self, GivesAway
<1> QED BY <1>1, <1>2, <1>3, <1>4 DEF FtpInv

(* A command sets out. *)
LEMMA FtpSends ==
    ASSUME FtpInv, NEW t \in Tasks, Send(t)
    PROVE  FtpInv'
<1> USE DEF Send, Goes, Goto
<1> DEFINE q == replies[conn]
<1>0. q \in Seq(Replies) /\ pc[t] = "send" /\ conn \in Conns
  BY DEF FtpInv, FtpTypes
<1>1. CASE conn \in alive
  <2>1. PICK answer \in Answers(kind[t], cmd[t].read + 1) :
           replies' = [replies EXCEPT ![conn] = @ \o Marked(t, answer)]
    BY <1>1 DEF Marked
  <2> DEFINE b == Marked(t, answer)
  <2>2. b \in Seq(Replies) /\ Own(t, b)
    BY <1>0, AnswerIsOwn DEF FtpInv
  <2>3. replies'[conn] = q \o b /\ replies' \in [Conns -> Seq(Replies)]
    BY <2>1, <2>2, <1>0 DEF FtpInv, FtpTypes
  <2> HIDE DEF b
  <2>4. q = <<>> => q \o b = b
    BY <2>2
  <2>5. q # <<>> => q \o b # <<>> /\ Head(q \o b) = Head(q)
    BY <2>2, <1>0
  <2>6. FtpTypes'
    BY <2>3 DEF FtpInv, FtpTypes
  <2>7. Taken'
    BY DEF FtpInv, FtpTypes, Taken
  <2>8. Clean'
    BY <2>1, <1>0 DEF FtpInv, FtpTypes, Clean
  <2>9. (conn \notin suspect \cup slipped)' => (Leftover(t, replies[conn]) \/ Own(t, replies[conn]))'
    <3> SUFFICES ASSUME conn \notin suspect \cup slipped
                 PROVE  (Leftover(t, replies[conn]) \/ Own(t, replies[conn]))'
      OBVIOUS
    <3>1. Leftover(t, q)
      BY <1>0 DEF FtpInv, InStep
    <3>2. CASE q = <<>>
      <4>1. replies'[conn'] = b
        BY <3>2, <2>3, <2>4
      <4>2. Own(t, b)'
        BY <2>2, <1>0 DEF Own, Self, Awaits, b, Marked, FtpInv, FtpTypes
      <4> QED BY <4>1, <2>2 DEF Own, Self, Awaits
    <3>3. CASE q # <<>>
      BY <3>1, <3>3, <2>3, <2>5 DEF Leftover, GivesAway
    <3> QED BY <3>2, <3>3
  <2>10. \A u \in Tasks : pc'[u] \in {"send", "read"} => u = t
    BY <1>0 DEF FtpInv, FtpTypes, Taken
  <2>11. InStep'
    <3>1. holder' # None /\ pc'[t] = "read"
      BY <1>0, OpsAssumption DEF FtpInv, FtpTypes, Taken
    <3> QED BY <3>1, <2>9, <2>10 DEF InStep
  <2> QED BY <2>6, <2>7, <2>8, <2>11 DEF FtpInv
<1>2. CASE conn \notin alive
  <2>1. UNCHANGED replies
    BY <1>2
  <2>2. FtpTypes'
    BY <2>1 DEF FtpInv, FtpTypes
  <2>3. Taken'
    BY DEF FtpInv, FtpTypes, Taken
  <2>4. Clean'
    BY <2>1 DEF FtpInv, Clean
  <2>5. \A u \in Tasks : pc'[u] \in {"send", "read"} => u = t
    BY <1>0 DEF FtpInv, FtpTypes, Taken
  <2>6. (conn \notin suspect \cup slipped) => Leftover(t, replies[conn])'
    BY <2>1, <1>0 DEF FtpInv, InStep, Leftover
  <2>7. InStep'
    <3>1. holder' # None /\ pc'[t] = "read" /\ UNCHANGED <<conn, suspect, slipped>>
      BY <1>0, OpsAssumption DEF FtpInv, FtpTypes, Taken
    <3> QED BY <3>1, <2>5, <2>6 DEF InStep
  <2> QED BY <2>7, <2>2, <2>3, <2>4, <2>5 DEF FtpInv
<1> QED BY <1>1, <1>2

(* On a connection in step, what comes next gives the leftover away or is  *)
(* the task's own.                                                         *)
LEMMA NextReply ==
    ASSUME FtpInv, NEW t \in Tasks, pc[t] = "read", replies[conn] # <<>>,
           conn \notin suspect \cup slipped
    PROVE  \/ /\ IsFtpConnError(Head(replies[conn]).code)
              /\ Head(replies[conn]).code \notin Awaits(t)
           \/ Own(t, replies[conn])
<1>1. Leftover(t, replies[conn]) \/ Own(t, replies[conn])
  BY DEF FtpInv, InStep
<1>2. kind[t] \in FtpKinds
  BY DEF FtpInv, Taken
<1>3. Expected(kind[t])[1] \subseteq {"passive", "made", "done", "pending"}
  BY <1>2, ExpectedFacts
<1> QED BY <1>1, <1>3 DEF Leftover, GivesAway, Awaits, IsFtpConnError

(* A connection is found lost or out of step. *)
LEMMA FtpFindsLost ==
    ASSUME FtpInv, NEW t \in Tasks, pc[t] = "read", FoundLost(t),
           UNCHANGED <<conn, fresh, slipped>>,
           \/ UNCHANGED replies
           \/ replies[conn] # <<>> /\ replies' = [replies EXCEPT ![conn] = Tail(@)]
    PROVE  FtpInv'
<1> USE DEF FoundLost, Unlock, FtpEnds, Ends, Goes, Goto
<1>1. replies' \in [Conns -> Seq(Replies)] /\ \A c \in Conns : c # conn => replies'[c] = replies[c]
  <2>1. replies \in [Conns -> Seq(Replies)] /\ replies[conn] \in Seq(Replies)
    BY DEF FtpInv, FtpTypes
  <2>2. replies[conn] # <<>> => Tail(replies[conn]) \in Seq(Replies)
    BY <2>1
  <2> QED BY <2>1, <2>2
<1>2. FtpTypes'
  <2>1. CASE cmd[t].try = 1
    BY <1>1, <2>1 DEF FtpInv, FtpTypes
  <2>2. CASE cmd[t].try # 1
    <3>1. NoCmd \in [id : Nat, try : Nat, read : Nat]
      BY DEF NoCmd
    <3>2. cmd' = [cmd EXCEPT ![t] = NoCmd] /\ pc' = [pc EXCEPT ![t] = "idle"] /\ kind' = [kind EXCEPT ![t] = None]
      BY <2>2
    <3> QED BY <1>1, <3>1, <3>2 DEF FtpInv, FtpTypes
  <2> QED BY <2>1, <2>2
<1>3. Taken'
  BY OpsAssumption DEF FtpInv, FtpTypes, Taken
<1>4. Clean'
  BY <1>1 DEF FtpInv, Clean
<1>5. InStep'
  BY DEF InStep
<1> QED BY <1>2, <1>3, <1>4, <1>5 DEF FtpInv

(* One who has read a reply of its own, or of an out-of-step connection.   *)
LEMMA FtpReads ==
    ASSUME FtpInv, NEW t \in Tasks, Read(t)
    PROVE  FtpInv'
<1> DEFINE q == replies[conn]  code == Head(q).code
<1>0. /\ pc[t] = "read" /\ q # <<>> /\ q \in Seq(Replies) /\ conn \in Conns
      /\ replies' = [replies EXCEPT ![conn] = Tail(@)]
      /\ UNCHANGED <<conn, alive, fresh, slipped>>
      /\ replies' \in [Conns -> Seq(Replies)] /\ replies'[conn] = Tail(q)
      /\ holder = t /\ kind[t] \in FtpKinds /\ cmd[t].read \in Nat
      /\ cmd[t].read < Len(Expected(kind[t]))
  BY DEF FtpInv, FtpTypes, Read, Taken
<1>1. Clean' \/ suspect' # suspect
  BY <1>0 DEF FtpInv, FtpTypes, Clean, Read
<1>2. CASE code \notin Awaits(t) /\ IsFtpConnError(code) /\ FoundLost(t)
  BY <1>0, <1>2, FtpFindsLost
<1>3. CASE code \notin Awaits(t) /\ ~IsFtpConnError(code) /\ FtpEnds(t) /\ Unlock /\ UNCHANGED suspect
  <2> USE DEF FtpEnds, Ends, Goto, Unlock
  <2>1. FtpTypes'
    BY <1>0, <1>3 DEF FtpInv, FtpTypes, NoCmd
  <2>2. Taken'
    BY <1>0, <1>3, OpsAssumption DEF FtpInv, FtpTypes, Taken
  <2>3. conn \notin suspect \cup slipped => Tail(q) = <<>>
    <3> SUFFICES ASSUME conn \notin suspect \cup slipped
                 PROVE  Tail(q) = <<>>
      OBVIOUS
    <3>1. Own(t, q)
      BY <1>0, <1>3, NextReply
    <3>2. Len(q) = 1 \/ q[1].code = "opening" \/ q[1].code \in {"closing", "aborted"}
      BY <3>1 DEF Own
    <3>3. Head(q) = q[1]
      BY <1>0
    <3>4. Len(q) = 1
      BY <1>3, <3>2, <3>3 DEF IsFtpConnError
    <3> QED BY <1>0, <3>4
  <2>4. \A u \in Tasks : pc'[u] \notin {"send", "read"}
    BY <1>0, <1>3 DEF FtpInv, FtpTypes, Taken
  <2>5. InStep'
    BY <1>0, <1>3, <2>3, <2>4 DEF InStep
  <2> QED BY <1>1, <1>3, <2>1, <2>2, <2>5 DEF FtpInv
<1>4. CASE code \in Awaits(t) /\ UNCHANGED suspect
           /\ cmd[t].read + 1 = Len(Expected(kind[t])) /\ FtpEnds(t) /\ Unlock
  <2> USE DEF FtpEnds, Ends, Goto, Unlock
  <2>1. FtpTypes'
    BY <1>0, <1>4 DEF FtpInv, FtpTypes, NoCmd
  <2>2. Taken'
    BY <1>0, <1>4, OpsAssumption DEF FtpInv, FtpTypes, Taken
  <2>3. conn \notin suspect \cup slipped => Tail(q) = <<>>
    <3> SUFFICES ASSUME conn \notin suspect \cup slipped
                 PROVE  Tail(q) = <<>>
      OBVIOUS
    <3>1. Own(t, q)
      BY <1>0, <1>4, NextReply
    <3>2. Len(Expected(kind[t])) = 3 <=> kind[t] \in {"list", "write"}
      BY <1>0, ExpectedFacts
    <3>3. Len(q) = 1
      BY <1>4, <3>1, <3>2 DEF Own
    <3> QED BY <1>0, <3>3
  <2>4. \A u \in Tasks : pc'[u] \notin {"send", "read"}
    BY <1>0, <1>4 DEF FtpInv, FtpTypes, Taken
  <2>5. InStep'
    BY <1>0, <1>4, <2>3, <2>4 DEF InStep
  <2> QED BY <1>1, <1>4, <2>1, <2>2, <2>5 DEF FtpInv
<1>5. CASE /\ code \in Awaits(t) /\ UNCHANGED <<suspect, holder>>
           /\ cmd[t].read + 1 # Len(Expected(kind[t]))
           /\ cmd' = [cmd EXCEPT ![t].read = @ + 1]
           /\ Goes(t, IF cmd'[t].read = 2 THEN "read" ELSE "send")
  <2> USE DEF Goes, Goto
  <2> DEFINE r == cmd[t].read
  <2>0. /\ r + 1 \in Nat /\ cmd'[t].read = r + 1 /\ cmd'[t].id = cmd[t].id /\ cmd'[t].try = cmd[t].try
        /\ cmd' \in [Tasks -> [id : Nat, try : Nat, read : Nat]]
        /\ \A u \in Tasks : u # t => cmd'[u] = cmd[u]
    <3>1. cmd[t] \in [id : Nat, try : Nat, read : Nat] /\ cmd \in [Tasks -> [id : Nat, try : Nat, read : Nat]]
      BY DEF FtpInv, FtpTypes
    <3>2. r + 1 \in Nat
      BY <1>0
    <3>3. cmd' = [cmd EXCEPT ![t] = [cmd[t] EXCEPT !.read = r + 1]]
      BY <1>5
    <3> QED BY <3>1, <3>2, <3>3
  <2>1. FtpTypes'
    BY <1>0, <1>5, <2>0 DEF FtpInv, FtpTypes
  <2>2. r + 1 < Len(Expected(kind[t])) /\ r \in {0, 1} /\ (r = 1 => kind[t] \in {"list", "write"})
    <3>1. Len(Expected(kind[t])) \in {1, 2, 3} /\ (Len(Expected(kind[t])) = 3 <=> kind[t] \in {"list", "write"})
      BY <1>0, ExpectedFacts
    <3>2. \A i \in Nat, n \in {1, 2, 3} : i < n /\ i + 1 # n => i + 1 < n /\ i \in {0, 1} /\ (i = 1 => n = 3)
      OBVIOUS
    <3> QED BY <1>0, <1>5, <3>1, <3>2
  <2>3. Taken'
    BY <1>0, <1>5, <2>0, <2>2, OpsAssumption DEF FtpInv, FtpTypes, Taken
  <2>8. PICK rest \in Seq(Replies) : rest = Tail(q)
    BY <1>0, HeadTailProperties
  <2>4. conn \notin suspect \cup slipped =>
           IF r + 1 = 2 THEN rest = <<>> \/ Own(t, rest)' ELSE rest = <<>>
    <3> SUFFICES ASSUME conn \notin suspect \cup slipped
                 PROVE  IF r + 1 = 2 THEN rest = <<>> \/ Own(t, rest)' ELSE rest = <<>>
      OBVIOUS
    <3>1. Own(t, q)
      BY <1>0, <1>5, NextReply
    <3>2. CASE Len(q) = 1
      <4>1. Len(rest) = 0
        BY <1>0, <2>8, <3>2, HeadTailProperties
      <4> QED BY <4>1
    <3>3. CASE Len(q) = 2
      <4>1. r = 1 /\ q[2].code \in {"closing", "aborted"} /\ q[2].of = Self(t)
        BY <3>1, <3>3, <1>0, <2>2 DEF Own
      <4>2. Len(rest) = 1 /\ rest[1] = q[2] /\ DOMAIN rest = {1}
        <5>1. /\ Len(rest) = Len(q) - 1
              /\ \A i \in 1..Len(rest) : rest[i] = q[i + 1]
          BY <1>0, <2>8, HeadTailProperties
        <5>2. Len(rest) = 1 /\ 1 \in 1..1 /\ 1 + 1 = 2 /\ 1..1 = {1}
          BY <3>3, <5>1
        <5>3. rest[1] = q[2]
          BY <5>1, <5>2
        <5>4. DOMAIN rest = 1..Len(rest)
          OBVIOUS
        <5> QED BY <5>2, <5>3, <5>4
      <4>3. Self(t)' = Self(t)
        BY <2>0 DEF Self
      <4>4. (\A n \in DOMAIN rest : rest[n].of = Self(t))'
        BY <4>1, <4>2, <4>3, <1>0
      <4> QED BY <2>0, <4>1, <4>2, <4>4 DEF Own
    <3> QED BY <3>1, <3>2, <3>3, <2>2 DEF Own
  <2>5. \A u \in Tasks : pc'[u] \in {"send", "read"} => u = t
    BY <1>0, <1>5 DEF FtpInv, FtpTypes, Taken
  <2>6. holder' # None /\ pc'[t] = (IF r + 1 = 2 THEN "read" ELSE "send")
    BY <1>0, <1>5, <2>0, OpsAssumption DEF FtpInv, FtpTypes
  <2>7. InStep'
    <3> SUFFICES ASSUME conn \notin suspect \cup slipped, NEW u \in Tasks,
                        pc'[u] \in {"send", "read"}
                 PROVE  /\ pc'[u] = "send" => Leftover(u, replies[conn])'
                        /\ pc'[u] = "read" => (Leftover(u, replies[conn]) \/ Own(u, replies[conn]))'
      BY <1>0, <1>5, <2>6 DEF InStep
    <3>1. u = t /\ replies'[conn'] = rest
      BY <1>0, <2>8, <2>5
    <3>2. rest = <<>> => Leftover(t, replies[conn])'
      BY <3>1 DEF Leftover
    <3>3. Own(t, rest)' => Own(t, replies[conn])'
      BY <1>0, <3>1 DEF Own
    <3> QED BY <2>4, <2>6, <3>1, <3>2, <3>3
  <2> QED BY <1>1, <1>5, <2>1, <2>3, <2>7 DEF FtpInv
<1>6. \/ code \notin Awaits(t) /\ IsFtpConnError(code) /\ FoundLost(t)
      \/ code \notin Awaits(t) /\ ~IsFtpConnError(code) /\ FtpEnds(t) /\ Unlock /\ UNCHANGED suspect
      \/ code \in Awaits(t) /\ UNCHANGED suspect
         /\ IF cmd[t].read + 1 = Len(Expected(kind[t]))
            THEN FtpEnds(t) /\ Unlock
            ELSE /\ cmd' = [cmd EXCEPT ![t].read = @ + 1]
                 /\ Goes(t, IF cmd'[t].read = 2 THEN "read" ELSE "send")
                 /\ UNCHANGED holder
  BY DEF Read
<1> QED BY <1>2, <1>3, <1>4, <1>5, <1>6

(* A new connection is made, or cannot be. *)
LEMMA FtpEstablishes ==
    ASSUME FtpInv, NEW t \in Tasks, Establish(t)
    PROVE  FtpInv'
<1> USE DEF Establish, Goes, Goto, FtpEnds, Ends
<1>0. pc[t] = "connect" /\ pc'[t] \in {"swap", "idle"} /\ \A u \in Tasks : u # t => pc'[u] = pc[u]
  BY DEF FtpInv, FtpTypes
<1>1. CASE fresh' = [fresh EXCEPT ![t] = Unused] /\ Goes(t, "swap") /\ UNCHANGED cmd
  <2>1. Unused \in Conns
    BY UnusedExists DEF FtpInv, FtpTypes
  <2>2. FtpTypes'
    BY <1>1, <2>1 DEF FtpInv, FtpTypes
  <2>3. Taken'
    BY <1>1, <2>1 DEF FtpInv, FtpTypes, Taken
  <2>4. Clean'
    BY <1>1 DEF FtpInv, Clean
  <2>5. InStep'
    BY <1>0, <1>1 DEF FtpInv, InStep, Leftover, Own, Awaits, Self, GivesAway
  <2> QED BY <2>2, <2>3, <2>4, <2>5 DEF FtpInv
<1>2. CASE FtpEnds(t) /\ UNCHANGED fresh
  <2>1. FtpTypes'
    BY <1>2 DEF FtpInv, FtpTypes, NoCmd
  <2>2. Taken'
    BY <1>2 DEF FtpInv, FtpTypes, Taken
  <2>3. Clean'
    BY <1>2 DEF FtpInv, Clean
  <2>4. \A u \in Tasks : u # t => kind'[u] = kind[u] /\ cmd'[u] = cmd[u]
    BY <1>2 DEF FtpInv, FtpTypes
  <2>5. InStep'
    BY <1>0, <1>2, <2>4 DEF FtpInv, InStep, Leftover, Own, Awaits, Self, GivesAway
  <2> QED BY <2>1, <2>2, <2>3, <2>5 DEF FtpInv
<1> QED BY <1>1, <1>2

(* The new connection is put in place. *)
LEMMA FtpSwaps ==
    ASSUME FtpInv, NEW t \in Tasks, Swap(t)
    PROVE  FtpInv'
<1> USE DEF Swap, Goes, Goto
<1>0. fresh[t] \in Conns /\ conn \in Conns
  BY DEF FtpInv, FtpTypes, Taken
<1>1. \A c \in Conns : replies'[c] = <<>> /\ c \notin suspect' \cup slipped'
  BY <1>0 DEF FtpInv, FtpTypes, Clean
<1>2. FtpTypes'
  <2>1. replies' \in [Conns -> Seq(Replies)]
    BY <1>0 DEF FtpInv, FtpTypes
  <2>2. cmd' \in [Tasks -> [id : Nat, try : Nat, read : Nat]]
    BY DEF FtpInv, FtpTypes
  <2> QED BY <1>0, <2>1, <2>2 DEF FtpInv, FtpTypes
<1>3. Taken'
  <2>1. cmd'[t].read = 0 /\ \A u \in Tasks : u # t => cmd'[u] = cmd[u]
    BY DEF FtpInv, FtpTypes
  <2> QED BY <2>1, OpsAssumption DEF FtpInv, FtpTypes, Taken
<1>4. Clean'
  BY <1>1 DEF Clean
<1>5. InStep'
  BY <1>0, <1>1 DEF InStep, Leftover
<1> QED BY <1>2, <1>3, <1>4, <1>5 DEF FtpInv

(* A listing is aborted: what it has not read gives it away, or the        *)
(* connection has slipped.                                                 *)
LEMMA FtpAborts ==
    ASSUME FtpInv, NEW t \in Tasks, FtpAbort(t)
    PROVE  FtpInv'
<1> USE DEF FtpAbort, FtpEnds, Ends, Goto, Unlock, Abortable
<1>1. FtpTypes'
  BY DEF FtpInv, FtpTypes, NoCmd
<1>2. Taken'
  BY OpsAssumption DEF FtpInv, FtpTypes, Taken
<1>3. Clean'
  BY DEF FtpInv, Clean
<1>4. pc'[t] = "idle" /\ \A u \in Tasks : u # t => pc'[u] = pc[u] /\ kind'[u] = kind[u] /\ cmd'[u] = cmd[u]
  BY DEF FtpInv, FtpTypes
<1>5. CASE holder = t
  <2>1. \A u \in Tasks : pc'[u] \notin {"send", "read"}
    BY <1>4, <1>5 DEF FtpInv, Taken
  <2>2. (conn \notin suspect \cup slipped)' => replies[conn] = <<>> \/ GivesAway(replies[conn])
    <3> SUFFICES ASSUME (conn \notin suspect \cup slipped)', replies[conn] # <<>>
                 PROVE  IsFtpConnError(Head(replies[conn]).code)
      BY DEF GivesAway
    <3>1. /\ conn \notin suspect \cup slipped
          /\ Head(replies[conn]).code \notin {"passive", "error"}
      BY <1>5
    <3>2. /\ Leftover(t, replies[conn]) \/ Own(t, replies[conn])
          /\ kind[t] = "list" /\ cmd[t].read \in Nat
          /\ cmd[t].read < Len(Expected(kind[t]))
      BY <1>5, <3>1 DEF FtpInv, FtpTypes, Taken, InStep
    <3>3. CASE Leftover(t, replies[conn])
      BY <3>3 DEF Leftover, GivesAway
    <3>4. CASE Own(t, replies[conn])
      <4>1. Head(replies[conn]) = replies[conn][1]
        BY DEF FtpInv, FtpTypes
      <4>2. Len(Expected("list")) = 3 /\ Expected("list")[1] = {"passive"} /\ Expected("list")[2] = {"opening"}
        BY DEF Expected
      <4>3. cmd[t].read \in {0, 1, 2}
        <5>1. \A i \in Nat : i < 3 => i \in {0, 1, 2}
          OBVIOUS
        <5> QED BY <3>2, <4>2, <5>1
      <4>4. cmd[t].read # 2 => Awaits(t) \subseteq {"passive", "opening"}
        BY <3>2, <4>2, <4>3 DEF Awaits
      <4> QED BY <3>1, <3>4, <4>1, <4>4 DEF Own, IsFtpConnError
    <3> QED BY <3>2, <3>3, <3>4
  <2>3. InStep'
    BY <2>1, <2>2 DEF InStep, GivesAway
  <2> QED BY <1>1, <1>2, <1>3, <2>3 DEF FtpInv
<1>6. CASE holder # t
  <2>1. InStep'
    BY <1>4, <1>6 DEF FtpInv, InStep, Leftover, Own, Awaits, Self, GivesAway
  <2> QED BY <1>1, <1>2, <1>3, <2>1 DEF FtpInv
<1> QED BY <1>5, <1>6

(* The connection is closed from the other side. *)
LEMMA FtpCloses ==
    ASSUME FtpInv, Closes
    PROVE  FtpInv'
<1> USE DEF Closes, Fault
<1>1. FtpTypes' /\ replies'[conn] = <<>> /\ \A c \in Conns : c # conn => replies'[c] = replies[c]
  BY DEF FtpInv, FtpTypes
<1>2. Taken'
  BY DEF FtpInv, Taken
<1>3. Clean'
  BY <1>1 DEF FtpInv, Clean
<1>4. InStep'
  BY <1>1 DEF InStep, Leftover
<1> QED BY <1>1, <1>2, <1>3, <1>4 DEF FtpInv

-----------------------------------------------------------------------------
(* SFTP. *)

InUse == {"first", "reconnect", "connect", "second"}

SftpTypes ==
    /\ pc \in [Tasks -> {"idle", "get", "stream"} \cup InUse]
    /\ slot \in Sessions
    /\ held \in [Tasks -> Seq(Sessions)]
    /\ file \in [Tasks -> Sessions \cup {None}]
    /\ faults \in Nat

Gone(s) == s \notin up \/ s \in doubted

(* Who reconnects has seen a session fail, and the write lock keeps it in  *)
(* the slot until it is replaced.                                          *)
Locked == \A t \in Tasks :
    /\ pc[t] \in InUse => held[t] # <<>>
    /\ pc[t] = "connect" => writer = t /\ Used(t) = slot
    /\ pc[t] \in {"reconnect", "connect"} => Gone(Used(t))

(* All sessions but the one in the slot are down or doubted. *)
OneLives == \A s \in up \ {slot} : s \in doubted

SftpInv == SftpTypes /\ Locked /\ OneLives /\ closed \cap up = {}

(* Taking a session. *)
LEMMA TakesFacts ==
    ASSUME SftpTypes, NEW t \in Tasks, NEW s \in Sessions, Takes(t, s)
    PROVE  /\ held' \in [Tasks -> Seq(Sessions)]
           /\ held'[t] # <<>> /\ Used(t)' = s
           /\ \A u \in Tasks : u # t => held'[u] = held[u] /\ Used(u)' = Used(u)
           /\ s \in Clones'
<1> DEFINE h == IF kind[t] = "batch" THEN <<s>> ELSE Append(held[t], s)
<1>1. held[t] \in Seq(Sessions) /\ held' = [held EXCEPT ![t] = h]
  BY DEF SftpTypes, Takes
<1>2. /\ h \in Seq(Sessions) /\ h # <<>> /\ Len(h) \in DOMAIN h /\ h[Len(h)] = s
  <2>1. CASE kind[t] = "batch"
    BY <2>1
  <2>2. CASE kind[t] # "batch"
    BY <1>1, <2>2
  <2> QED BY <2>1, <2>2
<1> HIDE DEF h
<1>3. held'[t] = h /\ held' \in [Tasks -> Seq(Sessions)] /\ \A u \in Tasks : u # t => held'[u] = held[u]
  BY <1>1, <1>2 DEF SftpTypes
<1>4. s \in Clones'
  BY <1>2, <1>3 DEF Clones, Range
<1> QED BY <1>2, <1>3, <1>4 DEF Used, Last

(* Dropping one's sessions. *)
LEMMA DropsFacts ==
    ASSUME SftpTypes, NEW t \in Tasks, Drops(t)
    PROVE  /\ held' \in [Tasks -> Seq(Sessions)] /\ up' \subseteq up
           /\ slot \in up => slot \in up'
           /\ \A u \in Tasks : u # t => held'[u] = held[u] /\ Used(u)' = Used(u)
<1> USE DEF Drops, TearDown
<1>1. <<>> \in Seq(Sessions)
  OBVIOUS
<1>2. held' \in [Tasks -> Seq(Sessions)] /\ \A u \in Tasks : u # t => held'[u] = held[u]
  BY <1>1 DEF SftpTypes
<1> QED BY <1>2 DEF Used

(* A step of one task that neither replaces the session nor brings one     *)
(* back keeps the invariant if that task is where it may be.               *)
LEMMA SftpKeeps ==
    ASSUME SftpInv, SftpTypes', NEW t \in Tasks,
           slot' = slot, up' \subseteq up, doubted \subseteq doubted', closed' = closed,
           \A u \in Tasks : u # t => /\ pc'[u] = pc[u] /\ held'[u] = held[u] /\ Used(u)' = Used(u)
                                     /\ writer = u => writer' = u,
           pc'[t] \in InUse => held'[t] # <<>>,
           pc'[t] = "connect" => writer' = t /\ Used(t)' = slot,
           pc'[t] \in {"reconnect", "connect"} => Gone(Used(t))'
    PROVE  SftpInv'
<1>1. \A s : Gone(s) => s \notin up' \/ s \in doubted'
  BY DEF Gone
<1>2. Locked'
  <2> SUFFICES ASSUME NEW u \in Tasks
               PROVE  /\ pc'[u] \in InUse => held'[u] # <<>>
                      /\ pc'[u] = "connect" => writer' = u /\ Used(u)' = slot'
                      /\ pc'[u] \in {"reconnect", "connect"} => Gone(Used(u))'
    BY DEF Locked
  <2>1. CASE u = t
    BY <2>1
  <2>2. CASE u # t
    <3>1. /\ pc[u] \in InUse => held[u] # <<>>
          /\ pc[u] = "connect" => writer = u /\ Used(u) = slot
          /\ pc[u] \in {"reconnect", "connect"} => Gone(Used(u))
      BY DEF SftpInv, Locked
    <3> QED BY <1>1, <2>2, <3>1 DEF Gone
  <2> QED BY <2>1, <2>2
<1>3. OneLives'
  BY <1>1 DEF SftpInv, OneLives, Gone
<1>4. (closed \cap up = {})'
  BY DEF SftpInv
<1> QED BY <1>2, <1>3, <1>4 DEF SftpInv

(* A task takes the session there is. *)
LEMMA SftpGets ==
    ASSUME SftpInv, NEW t \in Tasks, Get(t)
    PROVE  SftpInv'
<1> USE DEF Get, Goes, Goto
<1>1. slot \in Sessions /\ SftpTypes
  BY DEF SftpInv, SftpTypes
<1>2. /\ held' \in [Tasks -> Seq(Sessions)] /\ held'[t] # <<>>
      /\ \A u \in Tasks : u # t => held'[u] = held[u] /\ Used(u)' = Used(u)
  BY <1>1, TakesFacts
<1>3. pc'[t] = "first" /\ \A u \in Tasks : u # t => pc'[u] = pc[u]
  BY <1>1 DEF SftpTypes
<1>4. SftpTypes'
  BY <1>1, <1>2 DEF SftpTypes, InUse
<1> QED BY <1>2, <1>3, <1>4, SftpKeeps

(* The request is answered, at the first try or the second. *)
LEMMA SftpAnswered ==
    ASSUME SftpInv, NEW t \in Tasks, Answered(t),
           UNCHANGED <<slot, writer, closed, doubted>>, pc[t] \in InUse
    PROVE  SftpInv'
<1> USE DEF Answered, SftpEnds, Ends, Goes, Goto
<1>1. SftpTypes /\ Drops(t)
  BY DEF SftpInv
<1>2. /\ held' \in [Tasks -> Seq(Sessions)] /\ up' \subseteq up
      /\ \A u \in Tasks : u # t => held'[u] = held[u] /\ Used(u)' = Used(u)
  BY <1>1, DropsFacts
<1>3. pc'[t] \in {"idle", "stream"} /\ \A u \in Tasks : u # t => pc'[u] = pc[u]
  BY <1>1 DEF SftpTypes
<1>4. Used(t) \in Sessions
  <2>1. held[t] \in Seq(Sessions) /\ held[t] # <<>>
    BY DEF SftpInv, SftpTypes, Locked
  <2>2. Len(held[t]) \in DOMAIN held[t]
    BY <2>1
  <2> QED BY <2>1, <2>2 DEF Used, Last
<1>5. SftpTypes'
  BY <1>1, <1>2, <1>4 DEF SftpTypes, InUse
<1> QED BY <1>2, <1>3, <1>5, SftpKeeps DEF InUse

(* The first try; who sees the session fail will reconnect. *)
LEMMA SftpFirst ==
    ASSUME SftpInv, NEW t \in Tasks, First(t)
    PROVE  SftpInv'
<1>1. SftpTypes /\ pc[t] = "first" /\ held[t] # <<>> /\ closed \cap up = {}
  BY DEF SftpInv, Locked, First, InUse
<1>2. CASE Answered(t) /\ UNCHANGED doubted
  BY <1>1, <1>2, SftpAnswered DEF First, InUse
<1>3. CASE FoundGone(t) /\ doubted \subseteq doubted' /\ (Used(t) \notin up \/ Used(t) \in doubted')
  <2> USE DEF FoundGone, Goes, Goto, First
  <2>1. pc'[t] = "reconnect" /\ \A u \in Tasks : u # t => pc'[u] = pc[u]
    BY <1>1, <1>3 DEF SftpTypes
  <2>2. SftpTypes'
    BY <1>1, <1>3 DEF SftpTypes, InUse
  <2>3. UNCHANGED <<held, up, slot, closed, writer>> /\ \A u \in Tasks : Used(u)' = Used(u)
    BY <1>3 DEF Used
  <2>4. Gone(Used(t))'
    BY <1>3, <2>3 DEF Gone
  <2> QED BY <1>1, <1>3, <2>1, <2>2, <2>3, <2>4, SftpKeeps
<1>4. \/ Answered(t) /\ UNCHANGED doubted
      \/ FoundGone(t) /\ doubted \subseteq doubted' /\ (Used(t) \notin up \/ Used(t) \in doubted')
  BY <1>1 DEF First
<1> QED BY <1>2, <1>3, <1>4

(* The write lock is taken, or was waited for in vain. *)
LEMMA SftpLocks ==
    ASSUME SftpInv, NEW t \in Tasks, ReconnectLock(t)
    PROVE  SftpInv'
<1> USE DEF ReconnectLock, Goes, Goto
<1>1. SftpTypes /\ slot \in Sessions /\ pc[t] = "reconnect" /\ held[t] # <<>> /\ Gone(Used(t))
      /\ writer = None
  BY DEF SftpInv, SftpTypes, Locked, InUse
<1>2. CASE slot # Used(t)
  <2>1. /\ held' \in [Tasks -> Seq(Sessions)] /\ held'[t] # <<>> /\ up' \subseteq up
        /\ \A u \in Tasks : u # t => held'[u] = held[u] /\ Used(u)' = Used(u)
    BY <1>1, <1>2, TakesFacts DEF TearDown
  <2>2. pc'[t] = "second" /\ \A u \in Tasks : u # t => pc'[u] = pc[u]
    BY <1>1, <1>2 DEF SftpTypes
  <2>3. SftpTypes'
    BY <1>1, <1>2, <2>1 DEF SftpTypes, InUse
  <2> QED BY <1>1, <1>2, <2>1, <2>2, <2>3, SftpKeeps
<1>3. CASE slot = Used(t)
  <2>1. pc'[t] = "connect" /\ \A u \in Tasks : u # t => pc'[u] = pc[u]
    BY <1>1, <1>3 DEF SftpTypes
  <2>2. SftpTypes'
    BY <1>1, <1>3 DEF SftpTypes, InUse
  <2>3. UNCHANGED <<held, up, slot, closed, doubted>> /\ writer' = t /\ \A u \in Tasks : Used(u)' = Used(u)
    BY <1>3 DEF Used
  <2>4. Gone(Used(t))'
    BY <1>1, <2>3 DEF Gone
  <2> QED BY <1>1, <1>3, <2>1, <2>2, <2>3, <2>4, OpsAssumption, SftpKeeps
<1> QED BY <1>2, <1>3

(* The session is replaced, or cannot be. *)
LEMMA SftpOpens ==
    ASSUME SftpInv, NEW t \in Tasks, OpenSession(t)
    PROVE  SftpInv'
<1> USE DEF OpenSession, Goes, Goto
<1>1. /\ SftpTypes /\ slot \in Sessions /\ pc[t] = "connect" /\ writer = t
      /\ Used(t) = slot /\ Gone(slot) /\ UNCHANGED file
      /\ \A u \in Tasks : u # t => pc[u] # "connect"
  BY DEF SftpInv, SftpTypes, Locked
<1>2. CASE /\ Spare # {} /\ slot' = Fresh /\ Takes(t, Fresh) /\ TearDown(up \union {Fresh}, Fresh)
           /\ closed' = closed \ {Fresh} /\ doubted' = doubted \ {Fresh} /\ Goes(t, "second")
  <2>1. Fresh \in Sessions /\ Fresh # slot /\ Fresh \notin Clones
    BY <1>2 DEF Fresh, Spare
  <2>2. /\ held' \in [Tasks -> Seq(Sessions)] /\ held'[t] # <<>> /\ up' \subseteq up \cup {Fresh}
        /\ \A u \in Tasks : u # t => held'[u] = held[u] /\ Used(u)' = Used(u)
    BY <1>1, <1>2, <2>1, TakesFacts DEF TearDown
  <2>3. pc'[t] = "second" /\ \A u \in Tasks : u # t => pc'[u] = pc[u]
    BY <1>1, <1>2 DEF SftpTypes
  <2>4. SftpTypes'
    BY <1>1, <1>2, <2>1, <2>2 DEF SftpTypes, InUse
  <2>5. \A s : s # Fresh /\ Gone(s) => Gone(s)'
    BY <1>2, <2>2 DEF Gone
  <2>6. Locked'
    <3> SUFFICES ASSUME NEW u \in Tasks
                 PROVE  /\ pc'[u] \in InUse => held'[u] # <<>>
                        /\ pc'[u] # "connect"
                        /\ pc'[u] = "reconnect" => Gone(Used(u))'
      BY DEF Locked
    <3>1. CASE u = t
      BY <2>2, <2>3, <3>1
    <3>2. CASE u # t
      <4>1. pc[u] \in InUse => held[u] # <<>>
        BY DEF SftpInv, Locked
      <4>2. pc[u] = "reconnect" => Gone(Used(u)) /\ held[u] # <<>>
        BY DEF SftpInv, Locked, InUse
      <4>3. held[u] # <<>> => Used(u) \in Clones
        <5>1. held[u] \in Seq(Sessions)
          BY <1>1 DEF SftpTypes
        <5>2. held[u] # <<>> => Len(held[u]) \in DOMAIN held[u]
          BY <5>1
        <5> QED BY <5>2 DEF Used, Last, Clones, Range
      <4>4. pc[u] = "reconnect" => Used(u) # Fresh /\ Gone(Used(u))
        BY <2>1, <4>2, <4>3
      <4>5. pc[u] = "reconnect" => Gone(Used(u))'
        BY <2>5, <4>4, <2>2, <3>2 DEF Gone
      <4> QED BY <1>1, <2>2, <2>3, <3>2, <4>1, <4>5 DEF Gone
    <3> QED BY <3>1, <3>2
  <2>7. OneLives'
    BY <1>1, <1>2, <2>2 DEF SftpInv, OneLives, Gone
  <2>8. (closed \cap up = {})'
    BY <1>2, <2>2 DEF SftpInv
  <2> QED BY <2>4, <2>6, <2>7, <2>8 DEF SftpInv
<1>3. CASE SftpEnds(t) /\ UNCHANGED <<slot, closed, doubted>>
  <2> USE DEF SftpEnds, Ends
  <2>1. /\ held' \in [Tasks -> Seq(Sessions)] /\ up' \subseteq up
        /\ \A u \in Tasks : u # t => held'[u] = held[u] /\ Used(u)' = Used(u)
    BY <1>1, <1>3, DropsFacts
  <2>2. pc'[t] = "idle" /\ \A u \in Tasks : u # t => pc'[u] = pc[u]
    BY <1>1, <1>3 DEF SftpTypes
  <2>3. SftpTypes'
    BY <1>1, <1>3, <2>1 DEF SftpTypes
  <2> QED BY <1>1, <1>3, <2>1, <2>2, <2>3, SftpKeeps DEF InUse
<1> QED BY <1>2, <1>3

(* An operation is asked for. *)
LEMMA SftpAsks ==
    ASSUME SftpInv, NEW t \in Tasks, SftpAsk(t)
    PROVE  SftpInv'
<1> USE DEF SftpAsk, Asks, Goto, sftpVars
<1>1. SftpTypes /\ pc' = [pc EXCEPT ![t] = "get"]
  BY DEF SftpInv
<1>2. pc'[t] = "get" /\ \A u \in Tasks : u # t => pc'[u] = pc[u]
  BY <1>1 DEF SftpTypes
<1>3. SftpTypes'
  BY <1>1 DEF SftpTypes
<1>4. \A u \in Tasks : Used(u)' = Used(u)
  BY DEF Used
<1> QED BY <1>2, <1>3, <1>4, SftpKeeps DEF InUse

(* A transfer is through with its file. *)
LEMMA SftpStreams ==
    ASSUME SftpInv, NEW t \in Tasks, Stream(t)
    PROVE  SftpInv'
<1> USE DEF Stream, Ends, Goto
<1>1. SftpTypes
  BY DEF SftpInv
<1>2. pc'[t] = "idle" /\ \A u \in Tasks : u # t => pc'[u] = pc[u]
  BY <1>1 DEF SftpTypes
<1>3. SftpTypes'
  BY <1>1 DEF SftpTypes
<1>4. \A u \in Tasks : Used(u)' = Used(u)
  BY DEF Used
<1> QED BY <1>2, <1>3, <1>4, SftpKeeps DEF InUse

(* A listing is aborted, perhaps with the write lock held. *)
LEMMA SftpAborts ==
    ASSUME SftpInv, NEW t \in Tasks, SftpAbort(t)
    PROVE  SftpInv'
<1> USE DEF SftpAbort, SftpEnds, Ends, Goto
<1>1. SftpTypes /\ Drops(t)
  BY DEF SftpInv
<1>2. /\ held' \in [Tasks -> Seq(Sessions)] /\ up' \subseteq up
      /\ \A u \in Tasks : u # t => held'[u] = held[u] /\ Used(u)' = Used(u)
  BY <1>1, DropsFacts
<1>3. pc'[t] = "idle" /\ \A u \in Tasks : u # t => pc'[u] = pc[u]
  BY <1>1 DEF SftpTypes
<1>4. SftpTypes'
  BY <1>1, <1>2 DEF SftpTypes
<1> QED BY <1>2, <1>3, <1>4, SftpKeeps DEF InUse

(* A link goes down; russh notices. *)
LEMMA SftpLosesLink ==
    ASSUME SftpInv, LinkDrops \/ Notices
    PROVE  SftpInv'
<1>1. UNCHANGED <<pc, slot, writer, held, file, doubted>> /\ up' \subseteq up
  BY DEF LinkDrops, Notices, Fault, opVars
<1>2. SftpTypes'
  BY <1>1 DEF SftpInv, SftpTypes, LinkDrops, Notices, Fault, opVars
<1>3. \A u \in Tasks : Used(u)' = Used(u)
  BY <1>1 DEF Used
<1>4. Locked'
  BY <1>1, <1>3 DEF SftpInv, Locked, Gone
<1>5. OneLives'
  BY <1>1 DEF SftpInv, OneLives
<1>6. (closed \cap up = {})'
  BY DEF SftpInv, LinkDrops, Notices
<1> QED BY <1>2, <1>4, <1>5, <1>6 DEF SftpInv

-----------------------------------------------------------------------------
(* The whole. *)

IInv == /\ protocol \in {"ftp", "sftp"}
        /\ protocol = "ftp" => FtpInv
        /\ protocol = "sftp" => SftpInv

LEMMA InitIInv == Init => IInv
<1> SUFFICES ASSUME Init PROVE IInv
  OBVIOUS
<1> USE DEF Init, OpsInit
<1>1. FtpInv
  <2> USE DEF FtpInit
  <2>1. conn \in Conns
    <3>1. Conns # {}
      <4> SUFFICES ASSUME Conns = {} PROVE FALSE
        OBVIOUS
      <4>1. Cardinality(Conns) = 0 /\ Cardinality(Tasks) \in Nat
        BY ConnsAssumption, FS_EmptySet, FS_CardinalityType
      <4> QED BY <4>1, ConnsAssumption
    <3> QED BY <3>1
  <2>2. NoCmd \in [id : Nat, try : Nat, read : Nat] /\ NoCmd.read = 0
    BY DEF NoCmd
  <2>3. <<>> \in Seq(Replies)
    OBVIOUS
  <2>4. FtpTypes
    BY <2>1, <2>2, <2>3 DEF FtpTypes
  <2>5. Taken
    BY OpsAssumption DEF Taken
  <2>6. Clean
    BY DEF Clean
  <2>7. InStep
    BY <2>1 DEF InStep
  <2> QED BY <2>4, <2>5, <2>6, <2>7 DEF FtpInv
<1>2. SftpInv
  <2> USE DEF SftpInit
  <2>1. slot \in Sessions
    BY SessionsAssumption
  <2>2. <<>> \in Seq(Sessions)
    OBVIOUS
  <2>3. SftpTypes
    BY <2>1, <2>2 DEF SftpTypes
  <2>4. Locked
    BY DEF Locked, InUse
  <2>5. OneLives /\ closed \cap up = {}
    BY DEF OneLives
  <2> QED BY <2>3, <2>4, <2>5 DEF SftpInv
<1> QED BY <1>1, <1>2 DEF IInv

LEMMA FtpStep ==
    ASSUME FtpInv, FtpNext
    PROVE  FtpInv'
<1>1. ASSUME NEW t \in Tasks, FindsDead(t)
      PROVE  FtpInv'
  BY <1>1, FtpFindsLost DEF FindsDead
<1> QED BY <1>1, FtpAsks, FtpLocks, FtpSends, FtpReads, FtpEstablishes, FtpSwaps, FtpAborts, FtpCloses
        DEF FtpNext, FtpGoes

LEMMA SftpStep ==
    ASSUME SftpInv, SftpNext
    PROVE  SftpInv'
<1>1. ASSUME NEW t \in Tasks, Second(t)
      PROVE  SftpInv'
  BY <1>1, SftpAnswered DEF Second, InUse
<1> QED BY <1>1, SftpAsks, SftpGets, SftpFirst, SftpLocks, SftpOpens, SftpStreams, SftpAborts, SftpLosesLink
        DEF SftpNext, SftpGoes

LEMMA NextIInv == IInv /\ [Next]_vars => IInv'
<1> SUFFICES ASSUME IInv, [Next]_vars
             PROVE  IInv'
  OBVIOUS
<1>1. CASE Ftp
  BY <1>1, FtpStep DEF Ftp, IInv
<1>2. CASE Sftp
  BY <1>2, SftpStep DEF Sftp, IInv
<1>3. CASE UNCHANGED vars
  <2> USE DEF vars, opVars, ftpVars, sftpVars
  <2>1. \A t \in Tasks : Used(t)' = Used(t) /\ Self(t)' = Self(t) /\ Awaits(t)' = Awaits(t)
    BY <1>3 DEF Used, Self, Awaits
  <2>2. FtpInv => FtpInv'
    BY <1>3, <2>1 DEF FtpInv, FtpTypes, Taken, Clean, InStep, Leftover, Own, GivesAway
  <2>3. SftpInv => SftpInv'
    BY <1>3, <2>1 DEF SftpInv, SftpTypes, Locked, OneLives, Gone
  <2> QED BY <1>3, <2>2, <2>3 DEF IInv
<1> QED BY <1>1, <1>2, <1>3 DEF Next

THEOREM Inductive == Spec => []IInv
<1> QED BY InitIInv, NextIInv, PTL DEF Spec

(* However many operations take turns on a control connection, lose it,    *)
(* reconnect and are aborted, a reply is taken for what was awaited only   *)
(* by the operation it belongs to (with_reconnect, is_ftp_conn_error).     *)
THEOREM RepliesBelongToTheirs == Spec => RepliesBelong
<1>1. ASSUME IInv, [Next]_vars, NEW t \in Tasks, ftpVars' # ftpVars,
             pc[t] = "read", replies[conn] # <<>>, conn \notin suspect \union slipped
      PROVE  \/ Head(replies[conn]).of = Self(t)
             \/ Head(replies[conn]).code \notin Awaits(t)
  <2>1. FtpInv
    BY <1>1 DEF IInv, Next, Ftp, Sftp, vars
  <2>2. CASE Own(t, replies[conn])
    <3>1. /\ replies[conn] \in Seq(Replies) /\ Head(replies[conn]) = replies[conn][1]
          /\ 1 \in DOMAIN replies[conn]
      BY <1>1, <2>1 DEF FtpInv, FtpTypes
    <3> QED BY <2>2, <3>1 DEF Own
  <2> QED BY <1>1, <2>1, <2>2, NextReply
<1>2. IInv /\ [Next]_vars =>
         [\A t \in Tasks :
            (pc[t] = "read" /\ replies[conn] # <<>> /\ Len(replies'[conn]) < Len(replies[conn])) =>
               LET r == Head(replies[conn]) IN
               r.of = Self(t) \/ r.code \notin Awaits(t) \/ conn \in suspect \union slipped]_ftpVars
  BY <1>1
<1> QED BY <1>2, Inductive, PTL DEF Spec, RepliesBelong

(* A transfer that streams over a working session keeps it, however many   *)
(* operations replace the session or fail to (reconnect, open_session).    *)
THEOREM SftpStreamsRunOn == Spec => StreamsRunOn
<1>1. ASSUME IInv, [Next]_vars, NEW t \in Tasks, sftpVars' # sftpVars,
             file[t] \in up, file[t] \notin up', file[t] \notin doubted
      PROVE  faults' # faults
  <2>1. SftpInv /\ SftpNext
    BY <1>1 DEF IInv, Next, Ftp, Sftp, vars
  <2>2. file[t] = slot /\ SftpTypes /\ faults \in Nat /\ slot \in up /\ slot \notin up'
    BY <1>1, <2>1 DEF SftpInv, OneLives, SftpTypes
  <2>3. \A u \in Tasks : ~Drops(u)
    BY <2>2, DropsFacts
  <2>4. UNCHANGED faults =>
          \/ \E u \in Tasks : ReconnectLock(u) /\ TearDown(up, slot)
          \/ \E u \in Tasks : OpenSession(u)
    <3> SUFFICES ASSUME UNCHANGED faults
                 PROVE  \/ \E u \in Tasks : ReconnectLock(u) /\ TearDown(up, slot)
                        \/ \E u \in Tasks : OpenSession(u)
      OBVIOUS
    <3>1. ~LinkDrops /\ ~Notices
      BY <2>2 DEF LinkDrops, Notices, Fault
    <3>2. ASSUME NEW u \in Tasks
          PROVE  /\ ~SftpAsk(u) /\ ~Get(u) /\ ~Stream(u)
                 /\ ~SftpEnds(u) /\ ~Answered(u) /\ ~FoundGone(u)
      BY <2>2, <2>3 DEF SftpAsk, Get, Stream, SftpEnds, Answered, FoundGone, sftpVars
    <3>3. ASSUME NEW u \in Tasks
          PROVE  ~First(u) /\ ~Second(u) /\ ~SftpAbort(u)
      BY <3>2 DEF First, Second, SftpAbort
    <3>4. ASSUME NEW u \in Tasks, ReconnectLock(u)
          PROVE  TearDown(up, slot)
      BY <2>2, <3>4 DEF ReconnectLock
    <3> QED BY <2>1, <3>1, <3>2, <3>3, <3>4 DEF SftpNext, SftpGoes
  <2>5. ~TearDown(up, slot)
    BY <2>2 DEF TearDown
  <2>6. ASSUME NEW u \in Tasks, OpenSession(u)
        PROVE  FALSE
    BY <1>1, <2>1, <2>2, <2>6 DEF SftpInv, Locked, Gone, OpenSession
  <2> QED BY <2>4, <2>5, <2>6
<1>2. IInv /\ [Next]_vars =>
         [\A t \in Tasks :
            (file[t] \in up /\ file'[t] = file[t] /\ file[t] \notin up') =>
               faults' # faults \/ file[t] \in doubted]_sftpVars
  BY <1>1
<1> QED BY <1>2, Inductive, PTL DEF Spec, StreamsRunOn
=============================================================================
