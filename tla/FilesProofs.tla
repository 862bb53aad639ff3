----------------------------- MODULE FilesProofs -----------------------------
(***************************************************************************)
(* Proofs about the window's two ways of bringing in many files, for any   *)
(* number of them: the drops from the operating system (DropImport), and   *)
(* whole folders between the panes (FolderOps), with their deletion.       *)
(*                                                                         *)
(* The invariant of DropImport says, besides the limiter's books, that a   *)
(* drop which has not been taken up, and the files of the running one that *)
(* have not been looked at, have no task and no row (Fresh), and what      *)
(* state a file's row may be in beside its task (RowOfTask).               *)
(*                                                                         *)
(* That of FolderOps says that a directory is made before anything in it   *)
(* is asked for (FoldersFirst), what the cache of names stands for         *)
(* (CacheKnows), that a deletion has seen, or will yet be told of, all     *)
(* there is below its entry (AllSeen), and what is gone (Removing).        *)
(***************************************************************************)
EXTENDS DropImport, FolderOps, SequenceTheorems, FiniteSetTheorems,
        WellFoundedInduction, TLAPS

(* Who is in a queue, and that none is in it twice. *)
Members(s) == {s[i] : i \in DOMAIN s}
Distinct(s) == \A i, k \in DOMAIN s : s[i] = s[k] => i = k

Slots == {"sending", "leaving"}
Holding == {f \in Files : task[f] \in Slots}

Types ==
    /\ made \subseteq Drops
    /\ pending \in Seq(Drops)
    /\ current \in Drops \cup {NoDrop}
    /\ phase \in {"idle", "prepare", "check", "uploads"}
    /\ next \in 1..DropSize
    /\ abort \in BOOLEAN
    /\ limit \in Limits
    /\ slotWaiters \in Seq(Files)
    /\ task \in [Files -> {"none", "over"} \cup Parked \cup Slots]
    /\ row \in [Files -> {"none", "active"} \cup Settled]

(* Which drops wait, and that they are others than the running one. *)
Queue ==
    /\ Distinct(pending)
    /\ Members(pending) \cup ({current} \ {NoDrop}) \subseteq made
    /\ current \notin Members(pending)
    /\ phase = "idle" <=> current = NoDrop

Ahead(f) == \/ DropOf(f) \notin made
            \/ DropOf(f) \in Members(pending)
            \/ DropOf(f) = current /\ phase = "prepare"
            \/ DropOf(f) = current /\ phase = "check" /\ f[2] >= next
Fresh == \A f \in Files : Ahead(f) => task[f] = "none"

RowOfTask == \A f \in Files :
    /\ task[f] = "none" => row[f] = "none"
    /\ task[f] \in Parked => row[f] \in {"active", "failed"}
    /\ task[f] = "sending" => row[f] = "active"
    /\ task[f] \in {"leaving", "over"} => row[f] \in Settled

Limiter ==
    /\ IsFiniteSet(Holding)
    /\ inFlight = Cardinality(Holding)
    /\ \A f \in Files : task[f] = "parked" <=> f \in Members(slotWaiters)
    /\ Distinct(slotWaiters)
    /\ SomeoneWillWake

Own == \A f \in Files : task[f] \notin {"none", "over"} => DropOf(f) = current

IInv == Types /\ Queue /\ Fresh /\ RowOfTask /\ Limiter /\ Own

-----------------------------------------------------------------------------
(* An element appended is a member, once. *)
LEMMA Pushed ==
    ASSUME NEW S, NEW s \in Seq(S), NEW c \in S, Distinct(s), c \notin Members(s)
    PROVE  /\ Append(s, c) \in Seq(S) /\ Distinct(Append(s, c))
           /\ Members(Append(s, c)) = Members(s) \cup {c}
<1>1. /\ Append(s, c) \in Seq(S) /\ Len(Append(s, c)) = Len(s) + 1
      /\ \A i \in 1..Len(s) : Append(s, c)[i] = s[i]
      /\ Append(s, c)[Len(s) + 1] = c
      /\ DOMAIN s = 1..Len(s) /\ DOMAIN Append(s, c) = 1..(Len(s) + 1) /\ Len(s) \in Nat
  OBVIOUS
<1>2. Distinct(Append(s, c))
  <2> SUFFICES ASSUME NEW i \in 1..(Len(s) + 1), NEW k \in 1..(Len(s) + 1),
                      Append(s, c)[i] = Append(s, c)[k]
               PROVE  i = k
    BY <1>1 DEF Distinct
  <2>1. CASE i \in 1..Len(s) /\ k \in 1..Len(s)
    BY <2>1, <1>1 DEF Distinct
  <2>2. CASE i \in 1..Len(s) /\ k = Len(s) + 1
    BY <2>2, <1>1 DEF Members
  <2>3. CASE i = Len(s) + 1 /\ k \in 1..Len(s)
    BY <2>3, <1>1 DEF Members
  <2> QED BY <2>1, <2>2, <2>3, <1>1
<1>3. Members(Append(s, c)) = Members(s) \cup {c}
  <2>1. \A x : x \in Members(s) => x \in Members(Append(s, c))
    BY <1>1 DEF Members
  <2>2. c \in Members(Append(s, c))
    BY <1>1 DEF Members
  <2>3. \A i \in 1..(Len(s) + 1) : i \in 1..Len(s) \/ i = Len(s) + 1
    BY <1>1
  <2>4. \A x : x \in Members(Append(s, c)) => x \in Members(s) \/ x = c
    BY <1>1, <2>3 DEF Members
  <2> QED BY <2>1, <2>2, <2>4
<1> QED BY <1>1, <1>2, <1>3

(* Without its first element. *)
LEMMA Shifted ==
    ASSUME NEW S, NEW s \in Seq(S), s # <<>>, Distinct(s)
    PROVE  /\ Tail(s) \in Seq(S) /\ Distinct(Tail(s)) /\ Head(s) \in S
           /\ Head(s) \in Members(s)
           /\ Members(Tail(s)) = Members(s) \ {Head(s)}
<1>1. /\ Len(s) \in Nat /\ Len(s) > 0 /\ DOMAIN s = 1..Len(s) /\ Head(s) = s[1]
      /\ Head(s) \in S /\ Tail(s) \in Seq(S) /\ Len(Tail(s)) = Len(s) - 1
      /\ DOMAIN Tail(s) = 1..(Len(s) - 1)
      /\ \A i \in 1..(Len(s) - 1) : Tail(s)[i] = s[i + 1]
  BY HeadTailProperties
<1>2. \A i \in 1..(Len(s) - 1) : i + 1 \in 1..Len(s) /\ i + 1 # 1
  BY <1>1
<1>3. Distinct(Tail(s))
  BY <1>1, <1>2 DEF Distinct
<1>4. Head(s) \in Members(s)
  BY <1>1 DEF Members
<1>5. \A x : x \in Members(Tail(s)) => x \in Members(s) /\ x # Head(s)
  BY <1>1, <1>2 DEF Members, Distinct
<1>6. \A n \in Nat : \A i \in 1..n : i = 1 \/ (i - 1 \in 1..(n - 1) /\ i = (i - 1) + 1)
  OBVIOUS
<1>7. \A x : x \in Members(s) /\ x # Head(s) => x \in Members(Tail(s))
  <2> SUFFICES ASSUME NEW i \in 1..Len(s), s[i] # Head(s) PROVE s[i] \in Members(Tail(s))
    BY <1>1 DEF Members
  <2>1. i - 1 \in 1..(Len(s) - 1) /\ i = (i - 1) + 1
    BY <1>1, <1>6
  <2>2. Tail(s)[i - 1] = s[i]
    BY <1>1, <2>1
  <2> QED BY <1>1, <2>1, <2>2 DEF Members
<1> QED BY <1>1, <1>3, <1>4, <1>5, <1>7

-----------------------------------------------------------------------------
(* The limiter. *)

(* Where a slot is neither taken nor left, the holders are the same. *)
LEMMA SameHolders ==
    ASSUME Types, NEW f \in Files, NEW new, (task[f] \in Slots) <=> (new \in Slots),
           task' = [task EXCEPT ![f] = new]
    PROVE  Holding' = Holding
BY DEF Types, Holding

(* The counter of a limiter in order is a number. *)
LEMMA CountIsNat == ASSUME Limiter PROVE inFlight \in Nat
BY FS_CardinalityType DEF Limiter

(* A limit is never zero, so that a full limiter has someone in it. *)
LEMMA LimitIsPositive == ASSUME Types PROVE limit \in Nat /\ limit > 0
BY DropAssumption DEF Types

(* A file that looks for a slot takes one or is parked, once. *)
LEMMA EnterKeeps ==
    ASSUME Types, Limiter, RowOfTask, Own, NEW f \in Files, task[f] \in {"none", "woken"},
           DropOf(f) = current, Enter(f), UNCHANGED current
    PROVE  /\ Limiter' /\ RowOfTask' /\ Own'
           /\ slotWaiters' \in Seq(Files)
           /\ task' \in [Files -> {"none", "over"} \cup Parked \cup Slots]
           /\ row' \in [Files -> {"none", "active"} \cup Settled]
           /\ \A g \in Files : g # f => task'[g] = task[g]
<1>0. /\ inFlight \in Nat /\ limit \in Nat /\ limit > 0
      /\ f \notin Members(slotWaiters) /\ task[f] # "parked" /\ task[f] \notin Slots
      /\ row[f] \in {"none", "active", "failed"}
  BY CountIsNat, LimitIsPositive DEF Limiter, RowOfTask, Parked, Slots
<1>1. CASE inFlight >= limit
  <2>1. /\ slotWaiters' = Append(slotWaiters, f) /\ inFlight' = inFlight
        /\ task' = [task EXCEPT ![f] = "parked"]
        /\ row' = [row EXCEPT ![f] = IF @ = "none" THEN "active" ELSE @]
    BY <1>1 DEF Enter
  <2>2. /\ slotWaiters' \in Seq(Files) /\ Distinct(slotWaiters')
        /\ Members(slotWaiters') = Members(slotWaiters) \cup {f}
    BY <1>0, <2>1, Pushed DEF Types, Limiter
  <2>3. Holding' = Holding
    BY <1>0, <2>1, SameHolders DEF Slots
  <2>4. \A g \in Files : task'[g] = "parked" <=> g \in Members(slotWaiters')
    BY <2>1, <2>2 DEF Types, Limiter
  <2>5. Limiter'
    BY <1>0, <1>1, <2>1, <2>2, <2>3, <2>4 DEF Limiter, SomeoneWillWake
  <2>6. RowOfTask' /\ Own'
    BY <1>0, <2>1 DEF Types, RowOfTask, Own, Parked, Settled
  <2> QED BY <1>0, <2>1, <2>2, <2>5, <2>6 DEF Types, Parked, Settled
<1>2. CASE ~(inFlight >= limit)
  <2>1. /\ slotWaiters' = slotWaiters /\ inFlight' = inFlight + 1 /\ Start(f)
    BY <1>2 DEF Enter
  <2>2. PICK new \in Slots : /\ task' = [task EXCEPT ![f] = new]
                             /\ row' = [row EXCEPT ![f] = IF new = "sending" THEN "active"
                                                         ELSE "failed"]
    BY <2>1 DEF Start, Slots
  <2>3. Holding' = Holding \cup {f} /\ f \notin Holding
    BY <1>0, <2>2 DEF Types, Holding
  <2>4. IsFiniteSet(Holding') /\ inFlight' = Cardinality(Holding')
    BY <2>1, <2>3, FS_AddElement DEF Limiter
  <2>5. \A g \in Files : task'[g] = "parked" <=> g \in Members(slotWaiters')
    BY <1>0, <2>1, <2>2 DEF Types, Limiter, Slots
  <2>6. Limiter'
    BY <1>0, <2>1, <2>4, <2>5 DEF Limiter, SomeoneWillWake
  <2>7. RowOfTask' /\ Own'
    BY <1>0, <2>2 DEF Types, RowOfTask, Own, Parked, Settled, Slots
  <2> QED BY <1>0, <2>1, <2>2, <2>6, <2>7 DEF Types, Settled
<1> QED BY <1>1, <1>2

AllOver == \A f \in Files : task[f] \in {"none", "over"}

(* A limiter that begins anew is in order while nothing is under way. *)
LEMMA NewLimiter ==
    ASSUME AllOver, UNCHANGED task, inFlight' = 0, slotWaiters' = <<>>
    PROVE  Limiter' /\ slotWaiters' \in Seq(Files)
<1>1. Holding' = {}
  BY DEF AllOver, Holding, Slots
<1>2. Members(slotWaiters') = {} /\ Distinct(slotWaiters')
  BY DEF Members, Distinct
<1>3. \A f \in Files : task'[f] # "parked"
  BY DEF AllOver
<1> QED BY <1>1, <1>2, <1>3, FS_EmptySet DEF Limiter, SomeoneWillWake

-----------------------------------------------------------------------------
(* The steps. *)

(* An import that ends while none of its files is under way: the next begins. *)
LEMMA FinishKeeps ==
    ASSUME IInv, AllOver, current # NoDrop, Finish, UNCHANGED <<made, limit, changes, task, row>>
    PROVE  IInv'
<1>1. RowOfTask' /\ Own'
  BY DEF IInv, AllOver, RowOfTask, Own
<1>2. CASE pending = <<>>
  <2>1. /\ current' = NoDrop /\ phase' = "idle" /\ abort' = FALSE
        /\ UNCHANGED <<pending, next, inFlight, slotWaiters>>
    BY <1>2 DEF Finish, limiterVars
  <2>2. Types' /\ Limiter'
    BY <2>1 DEF IInv, Types, Limiter, Holding, SomeoneWillWake
  <2>3. Queue'
    BY <2>1, <1>2, DropAssumption DEF IInv, Types, Queue, Members
  <2>4. Fresh'
    <3> SUFFICES ASSUME NEW f \in Files, Ahead(f)' PROVE task[f] = "none"
      BY DEF Fresh
    <3>1. DropOf(f) \in Drops
      BY DEF Files, DropOf
    <3>2. Ahead(f)
      BY <2>1, <3>1, DropAssumption DEF Ahead
    <3> QED BY <3>2 DEF IInv, Fresh
  <2> QED BY <1>1, <2>2, <2>3, <2>4 DEF IInv
<1>3. CASE pending # <<>>
  <2>1. /\ current' = Head(pending) /\ phase' = "prepare" /\ next' = 1 /\ abort' = FALSE
        /\ inFlight' = 0 /\ slotWaiters' = <<>> /\ pending' = Tail(pending)
    BY <1>3 DEF Finish, Begin
  <2>2. /\ Tail(pending) \in Seq(Drops) /\ Distinct(Tail(pending)) /\ Head(pending) \in Drops
        /\ Head(pending) \in Members(pending)
        /\ Members(Tail(pending)) = Members(pending) \ {Head(pending)}
    BY <1>3, Shifted DEF IInv, Types, Queue
  <2>3. Limiter' /\ slotWaiters' \in Seq(Files)
    BY <2>1, NewLimiter
  <2>4. Types'
    <3>1. 1 \in 1..DropSize
      BY DropAssumption
    <3> QED BY <2>1, <2>2, <2>3, <3>1 DEF IInv, Types
  <2>5. Queue'
    BY <2>1, <2>2, DropAssumption DEF IInv, Queue
  <2>6. Fresh'
    <3> SUFFICES ASSUME NEW f \in Files, Ahead(f)' PROVE task[f] = "none"
      BY DEF Fresh
    <3>1. Ahead(f)
      BY <2>1, <2>2 DEF Ahead
    <3> QED BY <3>1 DEF IInv, Fresh
  <2> QED BY <1>1, <2>3, <2>4, <2>5, <2>6 DEF IInv
<1> QED BY <1>2, <1>3

(* A drop begins at once or waits behind the others. *)
LEMMA DropKeeps == ASSUME IInv, NEW d \in Drops, Drop(d) PROVE IInv'
<1>1. RowOfTask'
  BY DEF IInv, RowOfTask, Drop
<1>2. CASE current = NoDrop
  <2>1. /\ current' = d /\ phase' = "prepare" /\ next' = 1 /\ abort' = FALSE
        /\ inFlight' = 0 /\ slotWaiters' = <<>> /\ made' = made \cup {d} /\ d \notin made
        /\ UNCHANGED <<pending, limit, changes, task, row>>
    BY <1>2 DEF Drop, Begin
  <2>2. AllOver
    <3>1. \A f \in Files : DropOf(f) # NoDrop
      BY DropAssumption DEF Files, DropOf
    <3> QED BY <1>2, <3>1 DEF IInv, Own, AllOver
  <2>3. Limiter' /\ slotWaiters' \in Seq(Files)
    BY <2>1, <2>2, NewLimiter
  <2>4. Types' /\ Own'
    <3>1. 1 \in 1..DropSize
      BY DropAssumption
    <3>2. Types'
      BY <2>1, <2>3, <3>1 DEF IInv, Types
    <3> QED BY <2>1, <2>2, <3>2 DEF Own, AllOver
  <2>5. Queue'
    BY <2>1, DropAssumption DEF IInv, Queue
  <2>6. Fresh'
    <3> SUFFICES ASSUME NEW f \in Files, Ahead(f)' PROVE task[f] = "none"
      BY <2>1 DEF Fresh
    <3>1. Ahead(f)
      BY <2>1 DEF Ahead
    <3> QED BY <3>1 DEF IInv, Fresh
  <2> QED BY <1>1, <2>3, <2>4, <2>5, <2>6 DEF IInv
<1>3. CASE current # NoDrop
  <2>1. /\ pending' = Append(pending, d) /\ made' = made \cup {d} /\ d \notin made
        /\ UNCHANGED <<current, phase, next, abort, inFlight, slotWaiters, limit, changes, task, row>>
    BY <1>3 DEF Drop, limiterVars
  <2>2. /\ pending' \in Seq(Drops) /\ Distinct(pending')
        /\ Members(pending') = Members(pending) \cup {d}
    BY <2>1, Pushed DEF IInv, Types, Queue
  <2>3. Types' /\ Own' /\ Limiter'
    BY <2>1, <2>2 DEF IInv, Types, Own, Limiter, Holding, SomeoneWillWake
  <2>4. Queue'
    BY <1>3, <2>1, <2>2 DEF IInv, Queue
  <2>5. Fresh'
    <3> SUFFICES ASSUME NEW f \in Files, Ahead(f)' PROVE task[f] = "none"
      BY <2>1 DEF Fresh
    <3>1. Ahead(f)
      BY <2>1, <2>2 DEF Ahead
    <3> QED BY <3>1 DEF IInv, Fresh
  <2> QED BY <1>1, <2>3, <2>4, <2>5 DEF IInv
<1> QED BY <1>2, <1>3

(* Going on in the loop over the files, or leaving it, makes none fresh. *)
LEMMA AdvanceKeeps ==
    ASSUME Types, Queue, Fresh, phase = "check",
           \A f \in Files : task'[f] # task[f] => f = <<current, next>>,
           \/ Advance
           \/ phase' = "uploads" /\ next' = next,
           UNCHANGED <<made, pending, current>>
    PROVE  Queue' /\ Fresh' /\ next' \in 1..DropSize /\ phase' \in {"check", "uploads"}
<1>1. DropSize \in Nat \ {0} /\ next \in 1..DropSize
  BY DropAssumption DEF Types
<1>2. /\ phase' \in {"check", "uploads"}
      /\ phase' = "check" => next' = next + 1 /\ next # DropSize
      /\ next' \in 1..DropSize
  BY <1>1 DEF Advance
<1>3. Queue'
  BY <1>2 DEF Queue
<1>4. Fresh'
  <2> SUFFICES ASSUME NEW f \in Files, Ahead(f)' PROVE task'[f] = "none"
    BY DEF Fresh
  <2>1. f = <<DropOf(f), f[2]>> /\ DropOf(f) \in Drops /\ f[2] \in 1..DropSize
    BY DEF Files, DropOf
  <2>2. Ahead(f) /\ f # <<current, next>>
    <3>1. CASE DropOf(f) = current
      <4>1. DropOf(f) \in made /\ DropOf(f) \notin Members(pending)
        BY <2>1, <3>1, DropAssumption DEF Queue
      <4>2. phase' = "check" /\ f[2] >= next + 1
        BY <1>2, <4>1 DEF Ahead
      <4>3. f[2] >= next /\ f[2] # next
        BY <1>1, <2>1, <4>2
      <4> QED BY <3>1, <4>3 DEF Ahead
    <3>2. CASE DropOf(f) # current
      BY <2>1, <3>2 DEF Ahead
    <3> QED BY <3>1, <3>2
  <2> QED BY <2>2 DEF Fresh
<1> QED BY <1>2, <1>3, <1>4

(* The running import: its folders, its files and its end. *)
LEMMA ImportKeeps == ASSUME IInv, Import PROVE IInv'
<1>1. CASE Prepared
  <2>1. /\ phase = "prepare" /\ phase' \in {"check", "uploads"}
        /\ UNCHANGED <<made, pending, current, next, abort, limit, changes, inFlight, slotWaiters,
                       task, row>>
    BY <1>1 DEF Prepared, limiterVars
  <2>2. Fresh'
    BY <2>1 DEF IInv, Fresh, Ahead
  <2> QED BY <2>1, <2>2 DEF IInv, Types, Queue, RowOfTask, Limiter, Holding, SomeoneWillWake, Own
<1>2. CASE PrepareFails
  <2>1. AllOver
    <3> SUFFICES ASSUME NEW f \in Files, task[f] \notin {"none", "over"} PROVE FALSE
      BY DEF AllOver
    <3>1. Ahead(f)
      BY <1>2 DEF IInv, Own, Ahead, PrepareFails
    <3> QED BY <3>1 DEF IInv, Fresh
  <2>2. current # NoDrop
    BY <1>2 DEF IInv, Queue, PrepareFails
  <2> QED BY <1>2, <2>1, <2>2, FinishKeeps DEF PrepareFails
<1>3. CASE Accepted
  <2> DEFINE f == <<current, next>>
  <2>1. /\ phase = "check" /\ Enter(f) /\ Advance
        /\ UNCHANGED <<made, pending, current, abort, limit, changes>>
    BY <1>3 DEF Accepted
  <2>2. current # NoDrop /\ f \in Files /\ DropOf(f) = current /\ f[2] = next /\ next \in Int
    BY <2>1 DEF IInv, Types, Queue, Files, DropOf
  <2>3. task[f] = "none"
    <3>1. Ahead(f)
      BY <2>1, <2>2 DEF Ahead
    <3> QED BY <2>2, <3>1 DEF IInv, Fresh
  <2> HIDE DEF f
  <2>4. /\ Limiter' /\ RowOfTask' /\ Own' /\ slotWaiters' \in Seq(Files)
        /\ task' \in [Files -> {"none", "over"} \cup Parked \cup Slots]
        /\ row' \in [Files -> {"none", "active"} \cup Settled]
        /\ \A g \in Files : g # f => task'[g] = task[g]
    BY <2>1, <2>2, <2>3, EnterKeeps DEF IInv
  <2>5. Queue' /\ Fresh' /\ next' \in 1..DropSize /\ phase' \in {"check", "uploads"}
    BY <2>1, <2>4, AdvanceKeeps DEF IInv, f
  <2>6. Types'
    BY <2>1, <2>4, <2>5 DEF IInv, Types
  <2> QED BY <2>4, <2>5, <2>6 DEF IInv
<1>4. CASE Skipped \/ RestCancelled
  <2>1. /\ phase = "check"
        /\ \/ Advance
           \/ phase' = "uploads" /\ next' = next
        /\ UNCHANGED <<made, pending, current, abort, limit, changes, inFlight, slotWaiters,
                       task, row>>
    BY <1>4 DEF Skipped, RestCancelled, limiterVars
  <2>2. Queue' /\ Fresh' /\ next' \in 1..DropSize /\ phase' \in {"check", "uploads"}
    BY <2>1, AdvanceKeeps DEF IInv
  <2> QED BY <2>1, <2>2 DEF IInv, Types, RowOfTask, Limiter, Holding, SomeoneWillWake, Own
<1>5. CASE UploadsEnd
  <2>1. AllOver /\ current # NoDrop
    BY <1>5 DEF IInv, Queue, UploadsEnd, AllOver
  <2> QED BY <1>5, <2>1, FinishKeeps DEF UploadsEnd
<1> QED BY <1>1, <1>2, <1>3, <1>4, <1>5 DEF Import

(* A file that is under way is none that is still ahead. *)
LEMMA UnderWayKeeps ==
    ASSUME IInv, NEW f \in Files, task[f] # "none",
           \A g \in Files : g # f => (task[g] = "none" => task'[g] = "none"),
           UNCHANGED <<made, pending, current, phase, next>>
    PROVE  Queue' /\ Fresh'
BY DEF IInv, Queue, Fresh, Ahead

(* An upload resumes, ends, and leaves its slot to the next. *)
LEMMA UploadKeeps == ASSUME IInv, NEW f \in Files, Upload(f) PROVE IInv'
<1>1. CASE Resume(f)
  <2>1. /\ task[f] = "woken" /\ Enter(f)
        /\ UNCHANGED <<made, pending, current, phase, next, abort, limit, changes>>
    BY <1>1 DEF Resume, importVars
  <2>2. DropOf(f) = current
    BY <2>1 DEF IInv, Own
  <2>3. /\ Limiter' /\ RowOfTask' /\ Own' /\ slotWaiters' \in Seq(Files)
        /\ task' \in [Files -> {"none", "over"} \cup Parked \cup Slots]
        /\ row' \in [Files -> {"none", "active"} \cup Settled]
        /\ \A g \in Files : g # f => task'[g] = task[g]
    BY <2>1, <2>2, EnterKeeps DEF IInv
  <2>4. Queue' /\ Fresh'
    BY <2>1, <2>3, UnderWayKeeps
  <2> QED BY <2>1, <2>3, <2>4 DEF IInv, Types
<1>2. CASE Sent(f)
  <2>1. /\ task[f] = "sending" /\ task' = [task EXCEPT ![f] = "leaving"]
        /\ \E outcome \in Settled : row' = [row EXCEPT ![f] = outcome]
        /\ abort' \in {abort, TRUE}
        /\ UNCHANGED <<made, pending, current, phase, next, limit, changes, inFlight, slotWaiters>>
    BY <1>2 DEF Sent, limiterVars
  <2>2. Types'
    BY <2>1 DEF IInv, Types, Slots
  <2>3. Queue' /\ Fresh'
    BY <2>1, UnderWayKeeps DEF IInv, Types
  <2>4. RowOfTask' /\ Own'
    BY <2>1 DEF IInv, Types, RowOfTask, Own, Parked
  <2>5. Holding' = Holding
    BY <2>1, SameHolders DEF IInv, Slots
  <2>6. Limiter'
    BY <2>1, <2>5 DEF IInv, Types, Limiter, SomeoneWillWake
  <2> QED BY <2>2, <2>3, <2>4, <2>6 DEF IInv
<1>3. CASE Leave(f)
  <2> DEFINE h == Head(slotWaiters)
             over == [task EXCEPT ![f] = "over"]
  <2>1. /\ task[f] = "leaving" /\ inFlight' = inFlight - 1
        /\ UNCHANGED <<made, pending, current, phase, next, abort, limit, changes, row>>
    BY <1>3 DEF Leave, importVars
  <2>2. IsFiniteSet(Holding \ {f}) /\ inFlight' = Cardinality(Holding \ {f})
    <3>1. f \in Holding
      BY <2>1 DEF Holding, Slots
    <3> QED BY <2>1, <3>1, FS_RemoveElement DEF IInv, Limiter
  <2>3. CASE slotWaiters = <<>>
    <3>1. task' = over /\ slotWaiters' = slotWaiters
      BY <1>3, <2>3 DEF Leave
    <3>2. Types' /\ RowOfTask' /\ Own'
      BY <2>1, <3>1 DEF IInv, Types, RowOfTask, Own, Parked
    <3>3. Queue' /\ Fresh'
      BY <2>1, <3>1, UnderWayKeeps DEF IInv, Types
    <3>4. Holding' = Holding \ {f}
      BY <3>1 DEF IInv, Types, Holding, Slots
    <3>5. Limiter'
      BY <2>1, <2>2, <2>3, <3>1, <3>4 DEF IInv, Types, Limiter, SomeoneWillWake
    <3> QED BY <3>2, <3>3, <3>5 DEF IInv
  <2>4. CASE slotWaiters # <<>>
    <3>1. task' = [over EXCEPT ![h] = "woken"] /\ slotWaiters' = Tail(slotWaiters)
      BY <1>3, <2>4 DEF Leave
    <3>2. /\ slotWaiters' \in Seq(Files) /\ Distinct(slotWaiters') /\ h \in Files
          /\ h \in Members(slotWaiters)
          /\ Members(slotWaiters') = Members(slotWaiters) \ {h}
      BY <2>4, <3>1, Shifted DEF IInv, Types, Limiter
    <3> HIDE DEF h
    <3>3. task[h] = "parked" /\ h # f
      BY <2>1, <3>2 DEF IInv, Limiter
    <3>4. /\ task' \in [Files -> {"none", "over"} \cup Parked \cup Slots]
          /\ task'[f] = "over" /\ task'[h] = "woken"
          /\ \A g \in Files : g # f /\ g # h => task'[g] = task[g]
      BY <3>1, <3>2, <3>3 DEF IInv, Types, Parked
    <3>5. Types' /\ RowOfTask' /\ Own'
      BY <2>1, <3>2, <3>3, <3>4 DEF IInv, Types, RowOfTask, Own, Parked
    <3>6. Queue' /\ Fresh'
      BY <2>1, <3>3, <3>4, UnderWayKeeps
    <3>7. Holding' = Holding \ {f}
      BY <3>3, <3>4 DEF Holding, Slots
    <3>8. \A g \in Files : task'[g] = "parked" <=> g \in Members(slotWaiters')
      BY <2>1, <3>2, <3>3, <3>4 DEF IInv, Limiter
    <3>9. Limiter'
      BY <2>2, <3>2, <3>4, <3>7, <3>8 DEF Limiter, SomeoneWillWake
    <3> QED BY <3>5, <3>6, <3>9 DEF IInv
  <2> QED BY <2>3, <2>4
<1> QED BY <1>1, <1>2, <1>3 DEF Upload

(* The user cancels a row, stops the import or changes the limit. *)
LEMMA UserKeeps == ASSUME IInv, User PROVE IInv'
<1>1. ASSUME NEW f \in Files, CancelRow(f) PROVE IInv'
  <2>1. /\ task[f] \in Parked /\ row' = [row EXCEPT ![f] = "failed"]
        /\ UNCHANGED <<made, pending, current, phase, next, abort, limit, changes, inFlight,
                       slotWaiters, task>>
    BY <1>1 DEF CancelRow, importVars, limiterVars
  <2>2. Types' /\ RowOfTask'
    BY <2>1 DEF IInv, Types, RowOfTask, Settled, Parked
  <2> QED BY <2>1, <2>2 DEF IInv, Queue, Fresh, Ahead, Limiter, Holding, SomeoneWillWake, Own
<1>2. CASE Stop
  <2>1. /\ current # NoDrop /\ abort' = TRUE /\ pending' = <<>>
        /\ row' = [f \in Files |-> IF row[f] = "active" /\ task[f] \in Parked
                                   THEN "failed" ELSE row[f]]
        /\ UNCHANGED <<made, current, phase, next, limit, changes, inFlight, slotWaiters, task>>
    BY <1>2 DEF Stop, limiterVars
  <2>2. Members(pending') = {} /\ Distinct(pending')
    BY <2>1 DEF Members, Distinct
  <2>3. Types' /\ RowOfTask'
    BY <2>1 DEF IInv, Types, RowOfTask, Settled, Parked
  <2>4. Queue'
    BY <2>1, <2>2 DEF IInv, Queue
  <2>5. Fresh'
    BY <2>1, <2>2 DEF IInv, Fresh, Ahead
  <2> QED BY <2>1, <2>3, <2>4, <2>5 DEF IInv, Limiter, Holding, SomeoneWillWake, Own
<1>3. ASSUME NEW l \in Limits, SetLimit(l) PROVE IInv'
  <2>1. limit' = l /\ UNCHANGED <<made, pending, current, phase, next, abort, inFlight, row>>
    BY <1>3 DEF SetLimit, Change, importVars
  <2>2. CASE UNCHANGED <<task, slotWaiters>>
    BY <2>1, <2>2 DEF IInv, Types, Queue, Fresh, Ahead, RowOfTask, Limiter, Holding,
                      SomeoneWillWake, Own
  <2>3. CASE /\ task' = [f \in Files |-> IF task[f] = "parked" THEN "woken" ELSE task[f]]
             /\ slotWaiters' = <<>>
    <3>1. Types' /\ RowOfTask' /\ Own'
      BY <2>1, <2>3 DEF IInv, Types, RowOfTask, Own, Parked
    <3>2. Queue' /\ Fresh'
      BY <2>1, <2>3 DEF IInv, Queue, Fresh, Ahead
    <3>3. Holding' = Holding
      BY <2>3 DEF Holding, Slots
    <3>4. Members(slotWaiters') = {} /\ Distinct(slotWaiters')
      BY <2>3 DEF Members, Distinct
    <3>5. Limiter'
      BY <2>1, <2>3, <3>3, <3>4 DEF IInv, Limiter, SomeoneWillWake
    <3> QED BY <3>1, <3>2, <3>5 DEF IInv
  <2> QED BY <1>3, <2>2, <2>3 DEF SetLimit
<1>4. ASSUME NEW l \in Limits, SwitchTab(l) PROVE IInv'
  BY <1>4 DEF IInv, Types, Queue, Fresh, Ahead, RowOfTask, Limiter, Holding, SomeoneWillWake, Own,
              SwitchTab, Change, importVars, limiterVars
<1> QED BY <1>1, <1>2, <1>3, <1>4, DropKeeps DEF User

-----------------------------------------------------------------------------
(* The invariant. *)

(* No drop, no import and nothing in flight at the start. *)
LEMMA InitIInv == Init => IInv
<1> SUFFICES ASSUME Init PROVE IInv
  OBVIOUS
<1>1. 1 \in 1..DropSize
  BY DropAssumption
<1>2. Members(pending) = {} /\ Distinct(pending) /\ Members(slotWaiters) = {} /\ Distinct(slotWaiters)
  BY DEF Init, Members, Distinct
<1>3. Types
  <2>1. <<>> \in Seq(Drops) /\ <<>> \in Seq(Files)
    OBVIOUS
  <2>2. pending \in Seq(Drops) /\ slotWaiters \in Seq(Files)
    BY <2>1, Zenon DEF Init
  <2>3. /\ task \in [Files -> {"none", "over"} \cup Parked \cup Slots]
        /\ row \in [Files -> {"none", "active"} \cup Settled]
    BY DEF Init
  <2>4. /\ made \subseteq Drops /\ current \in Drops \cup {NoDrop} /\ limit \in Limits
        /\ phase \in {"idle", "prepare", "check", "uploads"}
        /\ next \in 1..DropSize /\ abort \in BOOLEAN
    BY <1>1 DEF Init
  <2> QED BY <2>2, <2>3, <2>4 DEF Types
<1>4. Holding = {}
  BY DEF Init, Holding, Slots
<1>5. Limiter
  BY <1>2, <1>4, FS_EmptySet DEF Init, Limiter, SomeoneWillWake
<1> QED BY <1>2, <1>3, <1>5 DEF Init, IInv, Queue, Fresh, RowOfTask, Own, Parked

(* Every step keeps the invariant. *)
LEMMA NextIInv == IInv /\ [Next]_vars => IInv'
<1> SUFFICES ASSUME IInv, [Next]_vars PROVE IInv'
  OBVIOUS
<1>1. CASE UNCHANGED vars
  BY <1>1 DEF IInv, Types, Queue, Fresh, Ahead, RowOfTask, Limiter, Holding, SomeoneWillWake, Own,
              vars, importVars, limiterVars
<1> QED BY <1>1, UserKeeps, ImportKeeps, UploadKeeps DEF Next

(* The counter of runLimited is the number of uploads that hold a slot, and *)
(* slotWaiters holds every parked upload once (main.js, runLimited).        *)
THEOREM DropLimiterExact == Spec => []LimiterExact
<1>1. IInv => LimiterExact
  BY DEF IInv, Limiter, LimiterExact, Holding, Slots, Members, Distinct
<1> QED BY <1>1, InitIInv, NextIInv, PTL DEF Spec

(* No change of the limit, cancel or stop leaves uploads parked with nobody *)
(* to wake them.                                                            *)
THEOREM DropSomeoneWillWake == Spec => []SomeoneWillWake
<1>1. IInv => SomeoneWillWake
  BY DEF IInv, Limiter
<1> QED BY <1>1, InitIInv, NextIInv, PTL DEF Spec

(* Imports never overlap: only files of the running one are under way or    *)
(* have an open row (runExternalImport).                                    *)
THEOREM DropOneImportAtATime == Spec => []OneImportAtATime
<1>1. IInv => OneImportAtATime
  BY DEF IInv, Types, RowOfTask, Own, OneImportAtATime, Parked, Slots, Settled
<1> QED BY <1>1, InitIInv, NextIInv, PTL DEF Spec

(* A step leaves a settled row and does not send its file. *)
LEMMA SettledStep ==
    ASSUME IInv, Next, NEW f \in Files, row[f] \in Settled
    PROVE  row'[f] = row[f] /\ (task'[f] = "sending" => task[f] = "sending")
<1>0. /\ task[f] \notin {"none", "sending"} /\ row[f] \notin {"none", "active"}
      /\ task[f] \in Parked => row[f] = "failed"
  BY DEF IInv, RowOfTask, Settled, Parked
<1>1. ASSUME NEW g \in Files, Enter(g), task[g] \in {"none", "woken"}
      PROVE  row'[f] = row[f] /\ task'[f] # "sending"
  <2>1. f = g => row[f] = "failed"
    BY <1>0, <1>1 DEF Parked
  <2>2. CASE inFlight >= limit
    BY <1>0, <1>1, <2>2 DEF IInv, Types, Enter
  <2>3. CASE ~(inFlight >= limit)
    BY <1>0, <1>1, <2>1, <2>3 DEF IInv, Types, Enter, Start
  <2> QED BY <2>2, <2>3
<1>2. CASE Accepted
  <2> DEFINE g == <<current, next>>
  <2>1. g \in Files /\ Enter(g) /\ phase = "check" /\ current # NoDrop /\ DropOf(g) = current
        /\ g[2] = next /\ next \in Int
    BY <1>2 DEF IInv, Types, Queue, Files, DropOf, Accepted
  <2>2. task[g] = "none"
    BY <2>1 DEF IInv, Fresh, Ahead
  <2> HIDE DEF g
  <2> QED BY <1>1, <2>1, <2>2
<1>3. ASSUME NEW g \in Files, Upload(g)
      PROVE  row'[f] = row[f] /\ task'[f] # "sending"
  <2>1. CASE Resume(g)
    BY <1>1, <2>1 DEF Resume
  <2>2. CASE Sent(g)
    BY <1>0, <2>2 DEF IInv, Types, Sent
  <2>3. CASE Leave(g)
    <3>1. row' = row /\ \E h : task' = [task EXCEPT ![g] = "over"]
                               \/ task' = [[task EXCEPT ![g] = "over"] EXCEPT ![h] = "woken"]
      BY <2>3 DEF Leave
    <3> QED BY <1>0, <3>1 DEF IInv, Types
  <2> QED BY <1>3, <2>1, <2>2, <2>3 DEF Upload
<1>4. CASE User
  BY <1>0, <1>4 DEF IInv, Types, User, Drop, CancelRow, Stop, SetLimit, SwitchTab
<1>5. CASE Import /\ ~Accepted
  BY <1>5 DEF Import, Prepared, PrepareFails, Skipped, RestCancelled, UploadsEnd
<1> QED BY <1>2, <1>3, <1>4, <1>5 DEF Next

(* A file cancelled while it waited, by its row or by Stop, is never sent,  *)
(* and no row settles twice (uploadDroppedFile).                            *)
THEOREM DropSettledStays == Spec => SettledStays
<1> DEFINE Kept == \A f \in Files : row[f] \in Settled =>
                      row'[f] = row[f] /\ (task'[f] = "sending" => task[f] = "sending")
<1>1. IInv /\ [Next]_vars => [Kept]_vars
  BY SettledStep
<1> QED BY <1>1, InitIInv, NextIInv, PTL DEF Spec, SettledStays

-----------------------------------------------------------------------------
(* Folders: transfers and deletions *)

Places == Conn \cup {Local}

(* The places: trees, and what an object store holds is no link. *)
Held ==
    /\ active \in Conn
    /\ held \in [Places -> SUBSET Path]
    /\ \A p \in Places : IsTree(held[p]) /\ IsFiniteSet(held[p])
    /\ \A p \in Cloud : held[p] \cap Links = {}

(* The walk and its messages. *)
Paths == Seq(Seq(Word))
WalkState == [st : {"off", "asked", "runs", "over"}, at : Places, root : Paths, pending : Seq(Path),
          listing : SUBSET Path, cancelled : BOOLEAN]
Message == [event : {"batch", "done", "error"}, dir : Paths, entries : SUBSET Path]
ToList == walk.listing \cup Range(walk.pending)
OneListing(m) ==
    /\ m.event # "batch" => m.entries = {}
    /\ \A e \in m.entries : Len(e) > 1 /\ Front(e) = m.dir /\ m.dir \in Dirs /\ e \notin Links
WalkTypes ==
    /\ walk \in WalkState /\ messages \in Seq(Message)
    /\ walk.st = "asked" => walk.root \in Dirs
    /\ walk.st # "runs" => ToList = {}
    /\ ToList \subseteq Dirs
    /\ IsFiniteSet(walk.listing) /\ Cardinality(walk.listing) <= Concurrency
    /\ \A n \in 1..Len(messages) : OneListing(messages[n])

-----------------------------------------------------------------------------
(* The transfer. *)

Making == {"mkdir", "each"}
Deciding == {"look", "prompt", "enqueue"}
InItem == {"wait", "files"} \cup Making \cup Deciding
Answers == [action : Policy \cup {NoRule}, aborted : BOOLEAN]
Shape(f) ==
    f = [pc |-> f.pc, items |-> f.items, up |-> f.up, batch |-> f.batch, single |-> f.single,
         dirs |-> f.dirs, files |-> f.files, file |-> f.file, name |-> f.name, how |-> f.how,
         cmp |-> f.cmp]
FtTypes ==
    /\ Shape(ft)
    /\ ft.pc \in {"idle", "item", "scan"} \cup InItem
    /\ ft.up \in BOOLEAN /\ ft.batch \in Answers
    /\ rule \in [BOOLEAN -> [setting : Policy, session : Policy \cup {NoRule}]]
    /\ ft.items \in Seq(Path) /\ \A i \in DOMAIN ft.items : Len(ft.items[i]) = 1
    /\ ft.pc # "idle" => ft.items # <<>>
    /\ ft.pc \in {"scan", "wait"} \cup Making => Head(ft.items) \in Dirs
    /\ ft.dirs \subseteq Dirs /\ ft.files \subseteq Path
    /\ ft.pc \in {"item", "scan"} => ft.files = {}
    /\ ft.pc \in Deciding => ft.file \in Path
    /\ ft.pc \in {"look", "prompt"} => ft.name = Last(ft.file)
    /\ unmade \subseteq Dirs
    /\ ~switched => \A q \in queued : q.at = Dest

(* Directories: there (or lost, at or below one whose mkdir failed), or about to be *)
(* made, or announced by a message to come.                                         *)
Lost(d) == \E u \in unmade : IsPrefix(u, d)
There(d) == d \in held[Dest] \/ Lost(d)
Ready(d) == There(d) \/ (ft.pc \in Making /\ d \in ft.dirs)
Announced(ms, d, n) == Ready(d) \/ \E i \in 1..n : d \in ms[i].entries
ParentsFirst(ms) ==
    \A n \in 1..Len(ms) : ms[n].entries = {} \/ Announced(ms, ms[n].dir, n - 1)
Based(e) == Len(e) = 1 \/ There(Front(e))
Laid ==
    /\ walk.st = "asked" => Ready(walk.root)
    /\ \A d \in ToList : Announced(messages, d, Len(messages))
    /\ ParentsFirst(messages)
FoldersFirst ==
    ~switched =>
        /\ ft.pc = "scan" => There(Head(ft.items))
        /\ ft.pc \in InItem /\ Head(ft.items) \in Dirs => Laid
        /\ ft.pc \in Making => \A d \in ft.dirs : Based(d)
        /\ ft.pc \in InItem => \A e \in ft.files : Based(e)
        /\ ft.pc \in Deciding => Based(ft.file)
        /\ FilesFollowFolders

(* The cache knows every file of a directory whose listing did not fail, where no   *)
(* object store is the target.                                                      *)
Target == Append(Front(ft.file), ft.name)
CacheKnows ==
    /\ cache = [k \in DOMAIN cache |-> cache[k]]
    /\ \A k \in DOMAIN cache : IsFiniteSet(cache[k])
    /\ ft.pc = "prompt" => Key(Front(ft.file)) \in DOMAIN cache
    /\ ~switched /\ Dest \notin Cloud =>
          /\ ft.pc \in InItem =>
                \A e \in held[Dest] \ Dirs :
                    Key(Front(e)) \in DOMAIN cache =>
                        Last(e) \in cache[Key(Front(e))] \/ Front(e) \in unlisted
          /\ ft.pc = "enqueue" /\ ft.how \in {"free", "rename"} =>
                Target \notin held[Dest] \ Dirs \/ Front(ft.file) \in unlisted
    /\ FreshTargets

-----------------------------------------------------------------------------
(* The deletion. *)

Exclusive ==
    /\ ft.pc # "idle" => rd.pc = "idle" /\ rd.told = {} /\ rest = {}
    /\ rd.pc # "idle" \/ rest # {} => queued = {}

Clearing == {"files", "dirs", "root"}
RdShape(r) ==
    r = [pc |-> r.pc, at |-> r.at, items |-> r.items, files |-> r.files, dirs |-> r.dirs,
         told |-> r.told]
RdTypes ==
    /\ RdShape(rd)
    /\ rd.pc \in {"idle", "confirm", "entry", "collect"} \cup Clearing
    /\ rd.at \in Places
    /\ rd.items \in Seq(Path) /\ IsInjective(rd.items)
    /\ \A i \in DOMAIN rd.items : Len(rd.items[i]) = 1
    /\ rd.pc # "idle" => rd.items # <<>>
    /\ rd.pc \in {"collect"} \cup Clearing => Head(rd.items) \in Dirs /\ rd.at # Local
    /\ rd.files \subseteq Path \ Dirs /\ rd.dirs \subseteq Dirs
    /\ rest \subseteq Path /\ faults \in Nat

Inside(e) == Len(e) > 1 /\ IsPrefix(Head(rd.items), e)
Sound(es) == es \subseteq held[rd.at] \ Links /\ \A e \in es : Inside(e)
Complete(es) == \A x \in held[rd.at] : Inside(x) => x \in es \cup Links
SentIn(ms) == UNION {ms[n].entries : n \in 1..Len(ms)}
Collected == rd.files \cup rd.dirs \cup SentIn(messages)
Strictly(d, x) == Len(x) > Len(d) /\ IsPrefix(d, x)
Ended == walk.st = "over"
Stream(ms, ended) ==
    /\ ended => ms # <<>>
    /\ \A n \in 1..Len(ms) : ms[n].event = "batch" <=> ~(ended /\ n = Len(ms))
Broken(ms, ended) == ended /\ ms[Len(ms)].event = "error"
AllSeen(es, above) ==
    \A x \in held[rd.at] : Inside(x) => x \in es \cup Links \/ \E d \in above : Strictly(d, x)
Collecting ==
    /\ walk.st # "off" /\ walk.at = rd.at /\ walk.root = Head(rd.items) /\ ~walk.cancelled
    /\ walk.st = "asked" => messages = <<>>
    /\ Stream(messages, Ended)
    /\ Sound(Collected)
    /\ \A d \in ToList : d = Head(rd.items) \/ Inside(d)
    /\ walk.st = "asked" \/ Broken(messages, Ended) \/ AllSeen(Collected, ToList)
Standing ==
    /\ rd.at \in {active, Local}
    /\ rd.pc # "idle" => Range(rd.items) \subseteq held[rd.at]
    /\ \A e \in rest : e \notin Links /\ \A i \in DOMAIN rd.items : ~IsPrefix(rd.items[i], e)
Removing ==
    ~switched =>
        /\ Standing
        /\ rd.pc \in {"confirm", "entry"} => rd.files = {} /\ rd.dirs = {}
        /\ rd.pc = "collect" => Collecting
        /\ rd.pc \in Clearing => Sound(rd.files \cup rd.dirs) /\ Complete(rd.files \cup rd.dirs)
        /\ rd.pc \in {"dirs", "root"} => rd.files = {}
        /\ rd.pc = "root" => rd.dirs = {}

FailedForAReason ==
    \A t \in rd.told : t.result = "failed" => faults > 0 \/ \E l \in Links : l \in Below(rd.at, t.item)
ToldIsSo ==
    ~switched =>
        /\ DeletedMeansGone /\ FailedForAReason
        /\ \A t \in rd.told : /\ t.item \in Path /\ Len(t.item) = 1
                              /\ \A i \in DOMAIN rd.items : t.item # rd.items[i]
(* The inductive invariant. *)
OpsInv ==
    /\ Held /\ WalkTypes /\ FtTypes /\ FoldersFirst /\ CacheKnows
    /\ Exclusive /\ RdTypes /\ Removing /\ ToldIsSo

-----------------------------------------------------------------------------
(* Paths. *)

(* What is in front of the last element of a sequence. *)
LEMMA FrontFacts ==
    ASSUME NEW S, NEW e \in Seq(S), e # <<>>
    PROVE  /\ Front(e) \in Seq(S) /\ Len(Front(e)) = Len(e) - 1 /\ Len(e) > 0
           /\ \A i \in 1..Len(e) - 1 : Front(e)[i] = e[i]
           /\ Last(e) \in S
<1>1. Len(e) \in Nat \ {0} /\ DOMAIN e = 1..Len(e)
  BY EmptySeq, LenProperties
<1>2. Last(e) \in S
  BY <1>1, ElementOfSeq DEF Last
<1>3. CASE Len(e) = 1
  BY <1>1, <1>2, <1>3, SMT DEF Front
<1>4. CASE Len(e) # 1
  BY <1>1, <1>2, <1>4, SMT DEF Front
<1> QED BY <1>3, <1>4

(* A prefix, element by element. *)
LEMMA PrefixFacts ==
    ASSUME NEW S, NEW d \in Seq(S), NEW x \in Seq(S)
    PROVE  IsPrefix(d, x) <=> (Len(d) <= Len(x) /\ \A i \in 1..Len(d) : d[i] = x[i])
<1>1. SubSeq(d, 1, Len(d)) = d
  BY SMT
<1>2. CASE Len(d) <= Len(x)
  <2>1. /\ SubSeq(x, 1, Len(d)) \in Seq(S) /\ Len(SubSeq(x, 1, Len(d))) = Len(d)
        /\ \A i \in 1..Len(d) : SubSeq(x, 1, Len(d))[i] = x[i]
    BY <1>2, SMT
  <2>2. (\A i \in 1..Len(d) : d[i] = x[i]) => d = SubSeq(x, 1, Len(d))
    BY <2>1, SeqEqual
  <2> QED BY <1>1, <1>2, <2>1, <2>2 DEF IsPrefix
<1> QED BY <1>2 DEF IsPrefix

(* A beginning of a path is one, and a prefix of it. *)
LEMMA Beginning ==
    ASSUME NEW x \in Path, NEW n \in 1..Len(x)
    PROVE  /\ SubSeq(x, 1, n) \in Path /\ Len(SubSeq(x, 1, n)) = n
           /\ \A i \in 1..n : SubSeq(x, 1, n)[i] = x[i]
           /\ IsPrefix(SubSeq(x, 1, n), x)
<1>1. x \in Seq(Seq(Word)) /\ Len(x) \in Nat
  BY DEF Path
<1> DEFINE y == SubSeq(x, 1, n)
<1>2. y \in Seq(Seq(Word)) /\ Len(y) = n /\ \A i \in 1..n : y[i] = x[i]
  BY <1>1, SMT
<1>3. y # <<>>
  BY <1>2, SMT
<1>4. IsPrefix(y, x)
  <2> HIDE DEF y
  <2> QED BY <1>1, <1>2, PrefixFacts
<1> QED BY <1>2, <1>3, <1>4 DEF Path

(* A prefix of a path is one of its beginnings, and the path if it is as long. *)
LEMMA PrefixIsBeginning ==
    ASSUME NEW d \in Path, NEW x \in Path, IsPrefix(d, x)
    PROVE  /\ Len(d) \in 1..Len(x) /\ d = SubSeq(x, 1, Len(d))
           /\ Len(d) = Len(x) => d = x
<1>1. d \in Seq(Seq(Word)) /\ x \in Seq(Seq(Word)) /\ d # <<>> /\ Len(d) \in Nat \ {0}
  BY EmptySeq DEF Path
<1>2. Len(d) <= Len(x) /\ SubSeq(d, 1, Len(d)) = SubSeq(x, 1, Len(d))
  BY DEF IsPrefix
<1>3. SubSeq(d, 1, Len(d)) = d /\ SubSeq(x, 1, Len(x)) = x
  BY <1>1, SMT
<1>4. Len(d) \in 1..Len(x)
  BY <1>1, <1>2
<1>5. d = SubSeq(x, 1, Len(d))
  BY <1>2, <1>3
<1>6. Len(d) = Len(x) => d = x
  BY <1>3, <1>5
<1> QED BY <1>4, <1>5, <1>6

(* Being below is transitive, and a path is below itself. *)
LEMMA PrefixOrder ==
    ASSUME NEW a \in Path, NEW b \in Path, NEW c \in Path
    PROVE  /\ IsPrefix(a, a)
           /\ IsPrefix(a, b) /\ IsPrefix(b, c) => IsPrefix(a, c)
           /\ IsPrefix(a, c) /\ IsPrefix(b, c) /\ Len(a) <= Len(b) => IsPrefix(a, b)
           /\ IsPrefix(a, b) => Len(a) <= Len(b)
<1>1. a \in Seq(Seq(Word)) /\ b \in Seq(Seq(Word)) /\ c \in Seq(Seq(Word))
  BY DEF Path
<1>2. Len(a) \in Nat /\ Len(b) \in Nat /\ Len(c) \in Nat
  BY <1>1
<1>3. /\ IsPrefix(a, b) <=> (Len(a) <= Len(b) /\ \A i \in 1..Len(a) : a[i] = b[i])
      /\ IsPrefix(b, c) <=> (Len(b) <= Len(c) /\ \A i \in 1..Len(b) : b[i] = c[i])
      /\ IsPrefix(a, c) <=> (Len(a) <= Len(c) /\ \A i \in 1..Len(a) : a[i] = c[i])
      /\ IsPrefix(a, a) <=> (Len(a) <= Len(a) /\ \A i \in 1..Len(a) : a[i] = a[i])
  BY <1>1, PrefixFacts
<1>4. IsPrefix(a, a) /\ (IsPrefix(a, b) => Len(a) <= Len(b))
  BY <1>2, <1>3
<1>5. IsPrefix(a, b) /\ IsPrefix(b, c) => IsPrefix(a, c)
  BY <1>2, <1>3
<1>6. IsPrefix(a, c) /\ IsPrefix(b, c) /\ Len(a) <= Len(b) => IsPrefix(a, b)
  BY <1>2, <1>3
<1> QED BY <1>4, <1>5, <1>6

(* What is above something in a tree is a directory of it. *)
LEMMA AboveInTree ==
    ASSUME NEW T, T \subseteq Path, IsTree(T), NEW x \in T, NEW d \in Path, IsPrefix(d, x), d # x
    PROVE  d \in T \cap Dirs
<1>1. x \in Path /\ Len(x) \in Nat
  BY DEF Path
<1>2. Len(d) \in 1..Len(x) /\ d = SubSeq(x, 1, Len(d)) /\ Len(d) # Len(x)
  BY <1>1, PrefixIsBeginning
<1>3. Len(d) \in 1..Len(x) - 1
  BY <1>1, <1>2
<1> QED BY <1>2, <1>3 DEF IsTree

(* A path has a parent unless it is a single name; the parent is above it. *)
LEMMA FrontOfPath ==
    ASSUME NEW e \in Path, Len(e) > 1
    PROVE  /\ Front(e) \in Path /\ Len(Front(e)) = Len(e) - 1 /\ IsPrefix(Front(e), e)
           /\ Front(e) # e
<1>1. e \in Seq(Seq(Word)) /\ Len(e) \in Nat
  BY DEF Path
<1>2. Len(e) - 1 \in 1..Len(e)
  BY <1>1
<1>3. /\ SubSeq(e, 1, Len(e) - 1) \in Path /\ Len(SubSeq(e, 1, Len(e) - 1)) = Len(e) - 1
      /\ IsPrefix(SubSeq(e, 1, Len(e) - 1), e)
  BY <1>2, Beginning
<1> QED BY <1>1, <1>3 DEF Front

(* Below a directory is one of its children, or what is below that. *)
LEMMA ChildAbove ==
    ASSUME NEW d \in Path, NEW x \in Path, Strictly(d, x)
    PROVE  \E c \in Path : /\ Front(c) = d /\ Len(c) = Len(d) + 1 /\ IsPrefix(c, x)
                           /\ c = x \/ Strictly(c, x)
<1>1. /\ d \in Seq(Seq(Word)) /\ x \in Seq(Seq(Word)) /\ Len(d) \in Nat \ {0} /\ Len(x) \in Nat
      /\ Len(d) < Len(x) /\ IsPrefix(d, x)
  BY EmptySeq DEF Path, Strictly
<1> DEFINE c == SubSeq(x, 1, Len(d) + 1)
<1>2. Len(d) + 1 \in 1..Len(x)
  BY <1>1
<1>3. c \in Path /\ Len(c) = Len(d) + 1 /\ IsPrefix(c, x)
  BY <1>2, Beginning
<1> HIDE DEF c
<1>4. Len(c) > 1
  BY <1>1, <1>3
<1>5. Front(c) \in Path /\ Len(Front(c)) = Len(d) /\ IsPrefix(Front(c), c)
  BY <1>1, <1>3, <1>4, FrontOfPath
<1>6. IsPrefix(Front(c), x)
  BY <1>3, <1>5, PrefixOrder
<1>7. Front(c) = SubSeq(x, 1, Len(Front(c))) /\ d = SubSeq(x, 1, Len(d))
  BY <1>1, <1>5, <1>6, PrefixIsBeginning
<1>8. Front(c) = d
  BY <1>5, <1>7
<1>9. c = x \/ Strictly(c, x)
  <2>1. Len(c) = Len(x) => c = x
    BY <1>3, PrefixIsBeginning
  <2>2. Len(c) <= Len(x)
    BY <1>2, <1>3
  <2> QED BY <1>1, <1>3, <2>1, <2>2 DEF Strictly
<1> QED BY <1>3, <1>8, <1>9

-----------------------------------------------------------------------------
(* Sequences of directories and of messages. *)

(* What is in a sequence after one element was appended. *)
LEMMA Appended ==
    ASSUME NEW S, NEW s \in Seq(S), NEW e \in S
    PROVE  /\ Append(s, e) \in Seq(S) /\ Len(Append(s, e)) = Len(s) + 1
           /\ Append(s, e)[Len(s) + 1] = e
           /\ \A i \in 1..Len(s) : Append(s, e)[i] = s[i]
BY SMT

(* What is left of a sequence without its head. *)
LEMMA Rest ==
    ASSUME NEW S, NEW s \in Seq(S), s # <<>>
    PROVE  /\ Head(s) \in S /\ Head(s) = s[1] /\ Len(s) \in Nat \ {0}
           /\ Tail(s) \in Seq(S) /\ Len(Tail(s)) = Len(s) - 1
           /\ \A i \in 1..Len(s) - 1 : Tail(s)[i] = s[i + 1]
BY EmptySeq, HeadTailProperties, SMT

(* The elements of a sequence are in the set it is over. *)
LEMMA RangeIn == ASSUME NEW S, NEW s \in Seq(S) PROVE Range(s) \subseteq S
BY LenProperties, ElementOfSeq DEF Range

(* What is in a sequence that is longer by another one. *)
LEMMA RangeOfConcat ==
    ASSUME NEW S, NEW s \in Seq(S), NEW t \in Seq(S)
    PROVE  s \o t \in Seq(S) /\ Range(s \o t) = Range(s) \cup Range(t)
<1>1. /\ s \o t \in Seq(S) /\ Len(s \o t) = Len(s) + Len(t)
      /\ \A i \in 1..Len(s) + Len(t) :
            (s \o t)[i] = IF i <= Len(s) THEN s[i] ELSE t[i - Len(s)]
      /\ Len(s) \in Nat /\ Len(t) \in Nat
  BY ConcatProperties, LenProperties
<1>2. /\ DOMAIN s = 1..Len(s) /\ DOMAIN t = 1..Len(t)
      /\ DOMAIN (s \o t) = 1..Len(s) + Len(t)
  BY <1>1, LenProperties
<1>3. ASSUME NEW i \in 1..Len(s) PROVE (s \o t)[i] = s[i] /\ i \in 1..Len(s) + Len(t)
  BY <1>1
<1>4. ASSUME NEW i \in 1..Len(t)
      PROVE  (s \o t)[i + Len(s)] = t[i] /\ i + Len(s) \in 1..Len(s) + Len(t)
  BY <1>1
<1>5. ASSUME NEW i \in 1..Len(s) + Len(t)
      PROVE  \/ i \in 1..Len(s) /\ (s \o t)[i] = s[i]
             \/ i - Len(s) \in 1..Len(t) /\ (s \o t)[i] = t[i - Len(s)]
  BY <1>1
<1> DEFINE u == s \o t
<1>6. Range(u) \subseteq Range(s) \cup Range(t)
  BY <1>2, <1>5 DEF Range
<1>7. Range(s) \subseteq Range(u)
  BY <1>2, <1>3 DEF Range
<1>8. Range(t) \subseteq Range(u)
  BY <1>2, <1>4 DEF Range
<1> QED BY <1>1, <1>6, <1>7, <1>8

(* SetToSeq lists the set. *)
LEMMA ListedOnce ==
    ASSUME NEW S, IsFiniteSet(S)
    PROVE  SetToSeq(S) \in Seq(S) /\ Range(SetToSeq(S)) = S
<1> DEFINE n == Cardinality(S)
<1>1. n \in Nat /\ ExistsBijection(1..n, S)
  BY FS_CardinalityType
<1>2. PICK f \in [1..n -> S] : IsInjective(f)
  BY <1>1 DEF ExistsBijection, Bijection, Injection
<1> DEFINE g == SetToSeq(S)
<1>3. g \in [1..n -> S] /\ IsInjective(g)
  BY <1>2 DEF SetToSeq
<1> HIDE DEF g
<1>4. g \in Injection(1..n, S) /\ IsFiniteSet(1..n) /\ Cardinality(1..n) = n
  BY <1>1, <1>3, FS_Interval DEF Injection
<1>5. g \in Surjection(1..n, S)
  BY <1>4, FS_Injection
<1>6. Range(g) = S
  BY <1>3, <1>5 DEF Range, Surjection
<1>7. g \in Seq(S)
  BY <1>1, <1>3, SeqDef
<1> QED BY <1>6, <1>7 DEF g

(* What walk_tree's loop does: it ends, or fills up the listings from what is pending. *)
LEMMA LoopFacts ==
    ASSUME NEW w \in WalkState, NEW sent, Loop(w, sent),
           IsFiniteSet(w.listing), Cardinality(w.listing) <= Concurrency
    PROVE  /\ walk' \in WalkState /\ IsFiniteSet(walk.listing') /\ Cardinality(walk.listing') <= Concurrency
           /\ walk.at' = w.at /\ walk.root' = w.root /\ walk.cancelled' = w.cancelled
           /\ \/ /\ w.cancelled \/ w.listing \cup Range(w.pending) = {}
                 /\ walk.st' = "over" /\ ToList' = {}
                 /\ messages' = Append(sent, Last_("done"))
              \/ /\ walk.st' = w.st /\ ToList' = w.listing \cup Range(w.pending)
                 /\ ~w.cancelled /\ messages' = sent
<1> DEFINE n == Len(w.pending)
           k == n - (Concurrency - Cardinality(w.listing))
           keep == IF k < 0 THEN 0 ELSE k
           more == {w.pending[i] : i \in keep + 1..n}
           now == w.listing \cup more
<1>1. /\ w.pending \in Seq(Path) /\ w.listing \subseteq Path /\ w.cancelled \in BOOLEAN
      /\ w.st \in {"off", "asked", "runs", "over"}
  BY DEF WalkState
<1>2. /\ n \in Nat /\ Concurrency \in Nat \ {0} /\ Cardinality(w.listing) \in Nat
      /\ DOMAIN w.pending = 1..n
  BY <1>1, LenProperties, FS_CardinalityType, WalkAssumption
<1>3. keep \in Nat /\ keep <= n /\ n - keep <= Concurrency - Cardinality(w.listing)
  BY <1>2
<1>4. Loop(w, sent) <=>
         IF w.cancelled \/ now = {}
         THEN /\ walk' = [w EXCEPT !.st = "over", !.listing = {}, !.pending = <<>>]
              /\ messages' = Append(sent, Last_("done"))
         ELSE /\ walk' = [w EXCEPT !.listing = now, !.pending = SubSeq(@, 1, keep)]
              /\ messages' = sent
  BY Zenon DEF Loop
<1> HIDE DEF keep
<1>5. IsFiniteSet(more) /\ Cardinality(more) <= n - keep
  <2> DEFINE f == [i \in keep + 1..n |-> w.pending[i]]
  <2>1. f \in Surjection(keep + 1..n, more)
    BY DEF Surjection
  <2>2. IsFiniteSet(keep + 1..n) /\ Cardinality(keep + 1..n) = n - keep
    <3>1. keep + 1 \in Int /\ n \in Int
      BY <1>2, <1>3
    <3>2. /\ IsFiniteSet(keep + 1..n)
          /\ Cardinality(keep + 1..n) = IF keep + 1 > n THEN 0 ELSE n - (keep + 1) + 1
      BY <3>1, FS_Interval
    <3> QED BY <1>2, <1>3, <3>2
  <2> HIDE DEF f, more
  <2> QED BY <2>1, <2>2, FS_Surjection
<1>6. more \subseteq Path /\ more \subseteq Range(w.pending)
  BY <1>1, <1>2, <1>3, ElementOfSeq DEF Range
<1>7. /\ SubSeq(w.pending, 1, keep) \in Seq(Path)
      /\ Range(SubSeq(w.pending, 1, keep)) \cup more = Range(w.pending)
  <2> DEFINE t == SubSeq(w.pending, 1, keep)
  <2>1. t \in Seq(Path) /\ Len(t) = keep /\ \A i \in 1..keep : t[i] = w.pending[i]
    BY <1>1, <1>2, <1>3, SMT
  <2> HIDE DEF t
  <2>2. DOMAIN t = 1..keep
    BY <2>1
  <2>3. Range(t) = {w.pending[i] : i \in 1..keep}
    BY <2>1, <2>2 DEF Range
  <2>4. 1..n = (1..keep) \cup (keep + 1..n)
    BY <1>2, <1>3
  <2>5. Range(w.pending) = {w.pending[i] : i \in 1..n}
    BY <1>2 DEF Range
  <2>6. Range(t) \cup more = Range(w.pending)
    BY <2>3, <2>4, <2>5
  <2> QED BY <2>1, <2>6 DEF t
<1>8. now = {} => w.listing \cup Range(w.pending) = {}
  <2> SUFFICES ASSUME now = {} PROVE w.listing \cup Range(w.pending) = {}
    OBVIOUS
  <2>1. w.listing = {} /\ more = {}
    OBVIOUS
  <2>2. Cardinality(w.listing) = 0
    BY <2>1, FS_EmptySet
  <2>3. keep = 0 \/ keep < n
    BY <1>2, <2>2 DEF keep
  <2>4. ~(keep < n)
    <3>1. keep < n => keep + 1 \in keep + 1..n
      BY <1>2, <1>3
    <3> QED BY <2>1, <3>1
  <2>5. keep = 0 /\ n = 0
    BY <1>2, <1>3, <2>3, <2>4
  <2> QED BY <1>2, <2>1, <2>5 DEF Range
<1>9. IsFiniteSet(now) /\ Cardinality(now) <= Concurrency
  <2> HIDE DEF more, n
  <2>1. /\ IsFiniteSet(now)
        /\ Cardinality(now) = Cardinality(w.listing) + Cardinality(more) - Cardinality(w.listing \cap more)
    BY <1>5, FS_Union
  <2>2. Cardinality(w.listing \cap more) \in Nat /\ Cardinality(more) \in Nat
    BY <1>5, FS_Intersection, FS_CardinalityType
  <2> QED BY <1>2, <1>3, <1>5, <2>1, <2>2
<1> HIDE DEF now, more, n
<1>10. CASE w.cancelled \/ now = {}
  <2>1. /\ walk' = [w EXCEPT !.st = "over", !.listing = {}, !.pending = <<>>]
        /\ messages' = Append(sent, Last_("done"))
    BY <1>4, <1>10
  <2>2. walk' \in WalkState /\ walk.st' = "over" /\ walk.listing' = {} /\ walk.pending' = <<>>
    <3>1. <<>> \in Seq(Path)
      BY EmptySeq
    <3> QED BY <2>1, <3>1 DEF WalkState
  <2>3. walk.at' = w.at /\ walk.root' = w.root /\ walk.cancelled' = w.cancelled
    BY <2>1 DEF WalkState
  <2>4. ToList' = {}
    BY <2>2 DEF ToList, Range
  <2>5. IsFiniteSet(walk.listing') /\ Cardinality(walk.listing') <= Concurrency
    BY <1>2, <2>2, FS_EmptySet
  <2> QED BY <1>8, <1>10, <2>1, <2>2, <2>3, <2>4, <2>5
<1>11. CASE ~(w.cancelled \/ now = {})
  <2>1. /\ walk' = [w EXCEPT !.listing = now, !.pending = SubSeq(@, 1, keep)]
        /\ messages' = sent
    BY <1>4, <1>11
  <2>2. now \subseteq Path
    BY <1>1, <1>6 DEF now
  <2>3. walk' \in WalkState /\ walk.listing' = now /\ walk.pending' = SubSeq(w.pending, 1, keep)
    BY <1>7, <2>1, <2>2 DEF WalkState
  <2>4. walk.at' = w.at /\ walk.root' = w.root /\ walk.cancelled' = w.cancelled /\ walk.st' = w.st
    BY <2>1 DEF WalkState
  <2>5. ToList' = w.listing \cup Range(w.pending)
    BY <1>7, <2>3 DEF ToList, now
  <2> QED BY <1>9, <1>11, <2>1, <2>3, <2>4, <2>5
<1> QED BY <1>10, <1>11

-----------------------------------------------------------------------------
(* The steps of a walk. *)

Listings(ms) == ms \in Seq(Message) /\ \A n \in 1..Len(ms) : OneListing(ms[n])
Found(dir) == Children(walk.at, dir) \ Links
Sends(dir) == IF Found(dir) = {} THEN messages ELSE Append(messages, Batch(dir, Found(dir)))

(* A last message lists nothing. *)
LEMMA LastMessage ==
    ASSUME NEW event \in {"done", "error"}
    PROVE  Last_(event) \in Message /\ OneListing(Last_(event))
<1>1. <<>> \in Paths
  BY EmptySeq DEF Paths
<1> QED BY <1>1 DEF Last_, Message, OneListing

(* Messages of single listings stay such when one more is appended. *)
LEMMA OneMore ==
    ASSUME NEW ms, Listings(ms), NEW m \in Message, OneListing(m)
    PROVE  Listings(Append(ms, m))
<1> DEFINE t == Append(ms, m)
<1>1. ms \in Seq(Message) /\ Len(ms) \in Nat
  BY LenProperties DEF Listings
<1>2. /\ t \in Seq(Message) /\ Len(t) = Len(ms) + 1 /\ t[Len(ms) + 1] = m
      /\ \A i \in 1..Len(ms) : t[i] = ms[i]
  BY <1>1, Appended
<1> HIDE DEF t
<1>3. ASSUME NEW n \in 1..Len(t) PROVE OneListing(t[n])
  <2>1. n = Len(ms) + 1 \/ n \in 1..Len(ms)
    BY <1>1, <1>2
  <2> QED BY <1>2, <2>1 DEF Listings
<1>4. Listings(t)
  BY <1>2, <1>3 DEF Listings
<1> QED BY <1>4 DEF t

(* What is found in a directory is below it, and there. *)
LEMMA FoundFacts ==
    ASSUME Held, WalkTypes, NEW dir \in Dirs
    PROVE  /\ Found(dir) \subseteq held[walk.at] \ Links /\ Found(dir) \subseteq Path
           /\ IsFiniteSet(Found(dir))
           /\ \A e \in Found(dir) : Len(e) > 1 /\ Front(e) = dir
           /\ Batch(dir, Found(dir)) \in Message /\ OneListing(Batch(dir, Found(dir)))
<1>1. walk.at \in Places /\ held[walk.at] \subseteq Path /\ IsFiniteSet(held[walk.at])
  BY DEF Held, WalkTypes, WalkState
<1>2. Found(dir) \subseteq held[walk.at] \ Links /\ Found(dir) \subseteq held[walk.at]
  BY DEF Found, Children
<1>3. dir \in Path /\ dir \in Paths /\ Len(dir) \in Nat \ {0}
  BY WalkAssumption, EmptySeq DEF Path, Paths
<1>4. ASSUME NEW e \in Found(dir) PROVE Len(e) > 1 /\ Front(e) = dir
  <2>1. e \in Seq(Seq(Word)) /\ e # <<>> /\ Front(e) = dir
    BY <1>1, <1>2 DEF Found, Children, Path
  <2>2. Len(Front(e)) = Len(e) - 1 /\ Len(e) \in Nat
    BY <2>1, FrontFacts, LenProperties
  <2> QED BY <1>3, <2>1, <2>2
<1>5. IsFiniteSet(Found(dir))
  BY <1>1, <1>2, FS_Subset
<1>6. Batch(dir, Found(dir)) \in Message /\ OneListing(Batch(dir, Found(dir)))
  <2>1. Batch(dir, Found(dir)) = [event |-> "batch", dir |-> dir, entries |-> Found(dir)]
    BY DEF Batch
  <2>2. Found(dir) \cap Links = {} /\ Found(dir) \subseteq Path
    BY <1>1, <1>2
  <2>3. Batch(dir, Found(dir)) \in Message
    BY <1>3, <2>1, <2>2 DEF Message
  <2>4. OneListing(Batch(dir, Found(dir)))
    BY <1>4, <2>1, <2>2 DEF OneListing
  <2> QED BY <2>3, <2>4
<1> QED BY <1>1, <1>2, <1>4, <1>5, <1>6

(* The walk begins at its root. *)
LEMMA StartFacts ==
    ASSUME WalkTypes, WalkStarts
    PROVE  /\ WalkTypes' /\ walk.st = "asked" /\ walk.root \in Dirs
           /\ walk.at' = walk.at /\ walk.root' = walk.root /\ walk.cancelled' = walk.cancelled
           /\ \/ /\ walk.cancelled /\ walk.st' = "over" /\ ToList' = {}
                 /\ messages' = Append(messages, Last_("done"))
              \/ /\ walk.st' = "runs" /\ ToList' = {walk.root} /\ messages' = messages
<1> DEFINE w == [walk EXCEPT !.st = "runs", !.pending = <<walk.root>>]
<1>1. /\ walk \in WalkState /\ walk.st = "asked" /\ walk.root \in Dirs /\ Loop(w, messages)
      /\ IsFiniteSet(walk.listing) /\ Cardinality(walk.listing) <= Concurrency
      /\ walk.listing = {} /\ Listings(messages)
  BY DEF WalkTypes, WalkStarts, ToList, Listings
<1>2. walk.root \in Path
  BY <1>1, WalkAssumption
<1>3. <<walk.root>> \in Seq(Path)
  BY <1>2
<1>4. /\ w \in WalkState /\ w.st = "runs" /\ w.pending = <<walk.root>> /\ w.listing = walk.listing
      /\ w.at = walk.at /\ w.root = walk.root /\ w.cancelled = walk.cancelled
  BY <1>1, <1>3 DEF WalkState
<1>5. Range(w.pending) = {walk.root}
  BY <1>4 DEF Range
<1> HIDE DEF w
<1>6. w.listing \cup Range(w.pending) = {walk.root}
  BY <1>1, <1>4, <1>5
<1>7. /\ walk' \in WalkState /\ IsFiniteSet(walk.listing') /\ Cardinality(walk.listing') <= Concurrency
      /\ walk.at' = w.at /\ walk.root' = w.root /\ walk.cancelled' = w.cancelled
      /\ \/ /\ w.cancelled \/ w.listing \cup Range(w.pending) = {}
            /\ walk.st' = "over" /\ ToList' = {}
            /\ messages' = Append(messages, Last_("done"))
         \/ /\ walk.st' = w.st /\ ToList' = w.listing \cup Range(w.pending)
            /\ ~w.cancelled /\ messages' = messages
  BY <1>1, <1>4, LoopFacts
<1>8. /\ walk.at' = walk.at /\ walk.root' = walk.root /\ walk.cancelled' = walk.cancelled
      /\ \/ /\ walk.cancelled /\ walk.st' = "over" /\ ToList' = {}
            /\ messages' = Append(messages, Last_("done"))
         \/ /\ walk.st' = "runs" /\ ToList' = {walk.root} /\ messages' = messages
  BY <1>4, <1>6, <1>7
<1>9. Listings(messages')
  BY <1>1, <1>8, LastMessage, OneMore
<1>10. WalkTypes'
  BY <1>1, <1>7, <1>8, <1>9 DEF WalkTypes, Listings
<1> QED BY <1>1, <1>8, <1>10

(* One listing arrives. *)
LEMMA ListedFacts ==
    ASSUME Held, WalkTypes, NEW dir \in walk.listing, Listed(dir)
    PROVE  /\ WalkTypes' /\ walk.st = "runs" /\ dir \in Dirs /\ Listings(Sends(dir))
           /\ walk.at' = walk.at /\ walk.root' = walk.root /\ walk.cancelled' = walk.cancelled
           /\ \/ /\ walk.st' = "over" /\ ToList' = {} /\ messages' = Append(Sends(dir), Last_("done"))
                 /\ walk.cancelled \/ ToList \cup (Found(dir) \cap Dirs) \subseteq {dir}
              \/ /\ walk.st' = "runs" /\ messages' = Sends(dir)
                 /\ ToList' \subseteq ToList \cup (Found(dir) \cap Dirs)
                 /\ ToList \cup (Found(dir) \cap Dirs) \subseteq ToList' \cup {dir}
<1> DEFINE more == SetToSeq(Found(dir) \cap Dirs)
           w == [walk EXCEPT !.listing = @ \ {dir}, !.pending = @ \o more]
<1>1. Loop(w, Sends(dir))
  BY Zenon DEF Listed, Found, Sends
<1>2. /\ walk \in WalkState /\ ToList \subseteq Dirs /\ IsFiniteSet(walk.listing)
      /\ Cardinality(walk.listing) <= Concurrency /\ Listings(messages)
  BY DEF WalkTypes, Listings
<1>3. dir \in ToList /\ dir \in Dirs /\ walk.st = "runs"
  BY <1>2 DEF ToList, WalkTypes
<1>4. /\ Found(dir) \subseteq Path /\ IsFiniteSet(Found(dir))
      /\ Batch(dir, Found(dir)) \in Message /\ OneListing(Batch(dir, Found(dir)))
  BY <1>3, FoundFacts
<1>5. more \in Seq(Path) /\ Range(more) = Found(dir) \cap Dirs
  <2> DEFINE S == Found(dir) \cap Dirs
  <2>1. IsFiniteSet(S) /\ S \subseteq Path
    BY <1>4, FS_Subset
  <2> HIDE DEF S
  <2>2. SetToSeq(S) \in Seq(S) /\ Range(SetToSeq(S)) = S
    BY <2>1, ListedOnce
  <2>3. SetToSeq(S) \in Seq(Path)
    BY <2>1, <2>2, SeqMonotonic
  <2> QED BY <2>2, <2>3 DEF S
<1> HIDE DEF more
<1>6. /\ walk.pending \in Seq(Path) /\ walk.listing \subseteq Path
  BY <1>2 DEF WalkState
<1>7. /\ walk.pending \o more \in Seq(Path)
      /\ Range(walk.pending \o more) = Range(walk.pending) \cup (Found(dir) \cap Dirs)
  BY <1>5, <1>6, RangeOfConcat
<1>8. /\ w \in WalkState /\ w.st = "runs" /\ w.pending = walk.pending \o more
      /\ w.listing = walk.listing \ {dir}
      /\ w.at = walk.at /\ w.root = walk.root /\ w.cancelled = walk.cancelled
  BY <1>2, <1>3, <1>6, <1>7 DEF WalkState
<1> HIDE DEF w
<1>9. IsFiniteSet(w.listing) /\ Cardinality(w.listing) <= Concurrency
  <2>1. /\ IsFiniteSet(walk.listing \ {dir})
        /\ Cardinality(walk.listing \ {dir}) = Cardinality(walk.listing) - 1
    BY <1>2, FS_RemoveElement
  <2>2. Cardinality(walk.listing) \in Nat /\ Concurrency \in Nat
    BY <1>2, FS_CardinalityType, WalkAssumption
  <2> QED BY <1>2, <1>8, <2>1, <2>2
<1>10. /\ walk' \in WalkState /\ IsFiniteSet(walk.listing') /\ Cardinality(walk.listing') <= Concurrency
       /\ walk.at' = w.at /\ walk.root' = w.root /\ walk.cancelled' = w.cancelled
       /\ \/ /\ w.cancelled \/ w.listing \cup Range(w.pending) = {}
             /\ walk.st' = "over" /\ ToList' = {}
             /\ messages' = Append(Sends(dir), Last_("done"))
          \/ /\ walk.st' = w.st /\ ToList' = w.listing \cup Range(w.pending)
             /\ ~w.cancelled /\ messages' = Sends(dir)
  BY <1>1, <1>8, <1>9, LoopFacts
<1>11. w.listing \cup Range(w.pending) =
          (walk.listing \ {dir}) \cup Range(walk.pending) \cup (Found(dir) \cap Dirs)
  BY <1>7, <1>8
<1>12. Listings(Sends(dir))
  BY <1>2, <1>4, OneMore DEF Sends
<1>13. Listings(messages')
  BY <1>10, <1>12, LastMessage, OneMore
<1>14. ToList' \subseteq Dirs /\ (walk.st' # "runs" => ToList' = {})
  BY <1>2, <1>8, <1>10, <1>11 DEF ToList
<1>15. walk.st' # "asked"
  BY <1>8, <1>10
<1>16. WalkTypes'
  BY <1>10, <1>13, <1>14, <1>15 DEF WalkTypes, Listings
<1>17. \/ /\ walk.st' = "over" /\ ToList' = {} /\ messages' = Append(Sends(dir), Last_("done"))
          /\ walk.cancelled \/ ToList \cup (Found(dir) \cap Dirs) \subseteq {dir}
       \/ /\ walk.st' = "runs" /\ messages' = Sends(dir)
          /\ ToList' \subseteq ToList \cup (Found(dir) \cap Dirs)
          /\ ToList \cup (Found(dir) \cap Dirs) \subseteq ToList' \cup {dir}
  BY <1>8, <1>10, <1>11 DEF ToList
<1> QED BY <1>3, <1>8, <1>10, <1>12, <1>16, <1>17

(* The walk fails. *)
LEMMA FailFacts ==
    ASSUME WalkTypes, WalkFails
    PROVE  /\ WalkTypes' /\ walk.st' = "over" /\ ToList' = {}
           /\ walk.at' = walk.at /\ walk.root' = walk.root /\ walk.cancelled' = walk.cancelled
           /\ messages' = Append(messages, Last_("error"))
<1>1. /\ walk' = [walk EXCEPT !.st = "over", !.listing = {}, !.pending = <<>>]
      /\ messages' = Append(messages, Last_("error"))
      /\ walk \in WalkState /\ Listings(messages)
  BY DEF WalkTypes, WalkFails, Listings
<1>2. <<>> \in Seq(Path)
  BY EmptySeq
<1>3. /\ walk' \in WalkState /\ walk.st' = "over" /\ walk.listing' = {} /\ walk.pending' = <<>>
      /\ walk.at' = walk.at /\ walk.root' = walk.root /\ walk.cancelled' = walk.cancelled
  BY <1>1, <1>2 DEF WalkState
<1>4. ToList' = {}
  BY <1>3 DEF ToList, Range
<1>5. IsFiniteSet(walk.listing') /\ Cardinality(walk.listing') <= Concurrency
  BY <1>3, FS_EmptySet, WalkAssumption
<1>6. Listings(messages')
  BY <1>1, LastMessage, OneMore
<1>7. WalkTypes'
  BY <1>3, <1>4, <1>5, <1>6 DEF WalkTypes, Listings
<1> QED BY <1>1, <1>3, <1>4, <1>7

(* A walk that has just been asked for. *)
LEMMA AskFacts ==
    ASSUME NEW p \in Places, NEW root \in Dirs, ListTree(p, root)
    PROVE  /\ WalkTypes' /\ walk.st' = "asked" /\ walk.at' = p /\ walk.root' = root
           /\ ~walk.cancelled' /\ ToList' = {} /\ messages' = <<>>
<1>1. walk' = [NoWalk EXCEPT !.st = "asked", !.at = p, !.root = root] /\ messages' = <<>>
  BY DEF ListTree
<1>2. root \in Path /\ root \in Paths /\ <<>> \in Seq(Path)
  BY WalkAssumption, EmptySeq DEF Path, Paths
<1>3. walk' = [st |-> "asked", at |-> p, root |-> root, pending |-> <<>>, listing |-> {},
               cancelled |-> FALSE]
  BY <1>1 DEF NoWalk
<1>4. walk' \in WalkState
  BY <1>2, <1>3 DEF WalkState
<1>5. ToList' = {}
  BY <1>3 DEF ToList, Range
<1>6. Listings(messages')
  BY <1>1, EmptySeq DEF Listings
<1>7. IsFiniteSet(walk.listing') /\ Cardinality(walk.listing') <= Concurrency
  BY <1>3, FS_EmptySet, WalkAssumption
<1>8. WalkTypes'
  BY <1>3, <1>4, <1>5, <1>6, <1>7 DEF WalkTypes, Listings
<1>9. walk.st' = "asked" /\ walk.at' = p /\ walk.root' = root /\ ~walk.cancelled'
  BY <1>3
<1> QED BY <1>1, <1>5, <1>8, <1>9

(* The caller has taken a message. *)
LEMMA TakeFacts ==
    ASSUME WalkTypes, messages # <<>>, messages' = Tail(messages), UNCHANGED walk
    PROVE  /\ WalkTypes' /\ ToList' = ToList
           /\ Len(messages) \in Nat \ {0} /\ Len(messages') = Len(messages) - 1
           /\ \A n \in 1..Len(messages) - 1 : messages'[n] = messages[n + 1]
           /\ Head(messages) = messages[1]
           /\ Head(messages) \in Message /\ OneListing(Head(messages))
<1>1. messages \in Seq(Message) /\ \A n \in 1..Len(messages) : OneListing(messages[n])
  BY DEF WalkTypes
<1>2. /\ Head(messages) \in Message /\ Head(messages) = messages[1] /\ Len(messages) \in Nat \ {0}
      /\ messages' \in Seq(Message) /\ Len(messages') = Len(messages) - 1
      /\ \A n \in 1..Len(messages) - 1 : messages'[n] = messages[n + 1]
  BY <1>1, Rest
<1>3. OneListing(Head(messages))
  BY <1>1, <1>2
<1>4. \A n \in 1..Len(messages') : OneListing(messages'[n])
  BY <1>1, <1>2
<1>5. ToList' = ToList
  BY DEF ToList
<1>6. WalkTypes'
  BY <1>2, <1>4, <1>5 DEF WalkTypes
<1> QED BY <1>2, <1>3, <1>5, <1>6

(* cancel_tree changes nothing but the flag. *)
LEMMA CancelFacts ==
    ASSUME WalkTypes, walk' \in {Cancelled(walk), walk}, UNCHANGED messages
    PROVE  WalkTypes' /\ ToList' = ToList /\ walk.st' = walk.st /\ walk.root' = walk.root
<1>1. walk \in WalkState
  BY DEF WalkTypes
<1>2. /\ walk' \in WalkState /\ walk.st' = walk.st /\ walk.root' = walk.root
      /\ walk.listing' = walk.listing /\ walk.pending' = walk.pending
  BY <1>1 DEF WalkState, Cancelled
<1>3. ToList' = ToList
  BY <1>2 DEF ToList
<1> QED BY <1>2, <1>3 DEF WalkTypes

(* A parent's directories stay announced, and in order, when a message is added. *)
LEMMA AnnouncedOneMore ==
    ASSUME NEW ms, Listings(ms), ParentsFirst(ms), NEW m \in Message,
           m.entries = {} \/ Announced(ms, m.dir, Len(ms))
    PROVE  /\ ParentsFirst(Append(ms, m))
           /\ \A d : Announced(ms, d, Len(ms)) \/ d \in m.entries =>
                        Announced(Append(ms, m), d, Len(Append(ms, m)))
<1> DEFINE t == Append(ms, m)
<1>1. /\ Len(ms) \in Nat /\ Len(t) = Len(ms) + 1 /\ t[Len(ms) + 1] = m
      /\ \A i \in 1..Len(ms) : t[i] = ms[i]
  BY Appended, LenProperties DEF Listings
<1> HIDE DEF t
<1>2. ASSUME NEW d, NEW n \in 0..Len(ms), Announced(ms, d, n) PROVE Announced(t, d, n)
  <2>1. CASE Ready(d)
    BY <2>1 DEF Announced
  <2>2. CASE ~Ready(d)
    <3>1. PICK i \in 1..n : d \in ms[i].entries
      BY <1>2, <2>2 DEF Announced
    <3>2. i \in 1..Len(ms)
      BY <1>1, <3>1
    <3> QED BY <1>1, <3>1, <3>2 DEF Announced
  <2> QED BY <2>1, <2>2
<1>3. ASSUME NEW n \in 1..Len(t) PROVE t[n].entries = {} \/ Announced(t, t[n].dir, n - 1)
  <2>1. CASE n \in 1..Len(ms)
    <3>1. t[n] = ms[n] /\ n - 1 \in 0..Len(ms)
      BY <1>1, <2>1
    <3> QED BY <1>2, <2>1, <3>1 DEF ParentsFirst
  <2>2. CASE n = Len(ms) + 1
    <3>1. t[n] = m /\ n - 1 = Len(ms) /\ Len(ms) \in 0..Len(ms)
      BY <1>1, <2>2
    <3> QED BY <1>2, <3>1
  <2> QED BY <1>1, <2>1, <2>2
<1>4. ASSUME NEW d, Announced(ms, d, Len(ms)) \/ d \in m.entries
      PROVE  Announced(t, d, Len(t))
  <2>1. CASE Ready(d)
    BY <2>1 DEF Announced
  <2>2. CASE d \in m.entries
    <3>1. Len(ms) + 1 \in 1..Len(t) /\ d \in t[Len(ms) + 1].entries
      BY <1>1, <2>2
    <3> QED BY <3>1 DEF Announced
  <2>3. CASE ~Ready(d) /\ d \notin m.entries
    <3>1. PICK i \in 1..Len(ms) : d \in ms[i].entries
      BY <1>4, <2>3 DEF Announced
    <3>2. i \in 1..Len(t) /\ t[i] = ms[i]
      BY <1>1
    <3> QED BY <3>1, <3>2 DEF Announced
  <2> QED BY <2>1, <2>2, <2>3
<1>5. ParentsFirst(t)
  BY <1>3 DEF ParentsFirst
<1> QED BY <1>4, <1>5 DEF t

(* What has been sent, when one more is. *)
LEMMA SentOneMore ==
    ASSUME NEW ms, Listings(ms), NEW m \in Message
    PROVE  /\ SentIn(Append(ms, m)) = SentIn(ms) \cup m.entries
           /\ Append(ms, m) # <<>> /\ Append(ms, m)[Len(Append(ms, m))] = m
           /\ Len(Append(ms, m)) = Len(ms) + 1 /\ Len(ms) \in Nat
           /\ \A n \in 1..Len(ms) : Append(ms, m)[n] = ms[n]
<1> DEFINE t == Append(ms, m)
<1>1. /\ Len(ms) \in Nat /\ Len(t) = Len(ms) + 1 /\ t[Len(ms) + 1] = m
      /\ \A i \in 1..Len(ms) : t[i] = ms[i] /\ t \in Seq(Message)
  BY Appended, LenProperties DEF Listings
<1>2. t # <<>>
  BY <1>1, EmptySeq
<1> HIDE DEF t
<1>3. 1..Len(t) = 1..Len(ms) \cup {Len(ms) + 1}
  BY <1>1
<1>4. SentIn(t) = SentIn(ms) \cup m.entries
  BY <1>1, <1>3 DEF SentIn
<1> QED BY <1>1, <1>2, <1>4 DEF t

(* Each step of the walk keeps the order of the directories. *)
LEMMA WalkKeepsLaid ==
    ASSUME Held, WalkTypes, Laid, Walk, UNCHANGED <<active, held, ft, unmade>>
    PROVE  Laid'
<1>1. Listings(messages)
  BY DEF WalkTypes, Listings
<1>2. ASSUME NEW d PROVE Ready(d) => Ready(d)'
  BY DEF Ready, There, Lost, Dest
<1>3. ASSUME NEW ms, NEW d, NEW n PROVE Announced(ms, d, n) => Announced(ms, d, n)'
  BY <1>2 DEF Announced
<1>4. ASSUME NEW ms PROVE ParentsFirst(ms) => ParentsFirst(ms)'
  BY <1>3 DEF ParentsFirst
<1>5. CASE WalkStarts
  <2>1. /\ WalkTypes' /\ walk.st = "asked" /\ walk.root \in Dirs
        /\ \/ /\ walk.cancelled /\ walk.st' = "over" /\ ToList' = {}
              /\ messages' = Append(messages, Last_("done"))
           \/ /\ walk.st' = "runs" /\ ToList' = {walk.root} /\ messages' = messages
    BY <1>5, StartFacts
  <2>2. CASE walk.st' = "over"
    <3>1. ToList' = {} /\ messages' = Append(messages, Last_("done"))
      BY <2>1, <2>2
    <3>2. ParentsFirst(Append(messages, Last_("done")))
      BY <1>1, LastMessage, AnnouncedOneMore DEF Laid, Last_
    <3>3. ParentsFirst(messages)'
      BY <1>4, <3>1, <3>2
    <3> QED BY <2>2, <3>1, <3>3 DEF Laid
  <2>3. CASE walk.st' # "over"
    <3>1. walk.st' = "runs" /\ ToList' = {walk.root} /\ messages' = messages
      BY <2>1, <2>3
    <3>2. Ready(walk.root)
      BY <2>1 DEF Laid
    <3>3. Announced(messages, walk.root, Len(messages))
      BY <3>2 DEF Announced
    <3>4. Announced(messages, walk.root, Len(messages))'
      <4>1. PICK x : x = walk.root
        OBVIOUS
      <4>2. PICK ms : ms = messages
        OBVIOUS
      <4>3. Announced(ms, x, Len(ms))'
        BY <1>3, <3>3, <4>1, <4>2
      <4>4. ms = messages' /\ x = walk.root'
        BY <1>5, <3>1, <4>1, <4>2, StartFacts
      <4> QED BY <4>3, <4>4
    <3>5. ParentsFirst(messages)'
      BY <1>4, <3>1 DEF Laid
    <3>6. \A d \in ToList' : d = walk.root'
      BY <1>5, <3>1, StartFacts
    <3> QED BY <3>1, <3>4, <3>5, <3>6 DEF Laid
  <2> QED BY <2>2, <2>3
<1>6. CASE WalkFails
  <2>1. walk.st' = "over" /\ ToList' = {} /\ messages' = Append(messages, Last_("error"))
    BY <1>6, FailFacts
  <2>2. ParentsFirst(Append(messages, Last_("error")))
    BY <1>1, LastMessage, AnnouncedOneMore DEF Laid, Last_
  <2>3. ParentsFirst(messages)'
    BY <1>4, <2>1, <2>2
  <2> QED BY <2>1, <2>3 DEF Laid
<1>7. ASSUME NEW dir \in walk.listing, Listed(dir) PROVE Laid'
  <2>1. /\ walk.st = "runs" /\ dir \in Dirs /\ Listings(Sends(dir))
        /\ \/ /\ walk.st' = "over" /\ ToList' = {} /\ messages' = Append(Sends(dir), Last_("done"))
           \/ /\ walk.st' = "runs" /\ messages' = Sends(dir)
              /\ ToList' \subseteq ToList \cup (Found(dir) \cap Dirs)
    BY <1>7, ListedFacts
  <2>2. Announced(messages, dir, Len(messages)) /\ ParentsFirst(messages)
    BY <1>7 DEF Laid, ToList
  <2> DEFINE m == Batch(dir, Found(dir))
             ms == Sends(dir)
  <2>3. /\ ParentsFirst(ms)
        /\ \A d \in ToList \cup (Found(dir) \cap Dirs) : Announced(ms, d, Len(ms))
    <3>1. CASE Found(dir) = {}
      BY <2>2, <3>1 DEF Sends, Laid
    <3>2. CASE Found(dir) # {}
      <4>1. m \in Message /\ m.dir = dir /\ m.entries = Found(dir) /\ ms = Append(messages, m)
        BY <2>1, <3>2, FoundFacts DEF Batch, Sends
      <4> HIDE DEF m, ms
      <4>2. /\ ParentsFirst(ms)
            /\ \A d : Announced(messages, d, Len(messages)) \/ d \in m.entries =>
                         Announced(ms, d, Len(ms))
        BY <1>1, <2>2, <4>1, AnnouncedOneMore
      <4> QED BY <4>1, <4>2 DEF Laid
    <3> QED BY <3>1, <3>2
  <2> HIDE DEF m, ms
  <2>4. CASE walk.st' = "over"
    <3>1. ToList' = {} /\ messages' = Append(ms, Last_("done"))
      BY <2>1, <2>4 DEF ms
    <3>2. ParentsFirst(Append(ms, Last_("done")))
      BY <2>1, <2>3, LastMessage, AnnouncedOneMore DEF Last_, ms
    <3>3. ParentsFirst(messages)'
      BY <1>4, <3>1, <3>2
    <3> QED BY <2>4, <3>1, <3>3 DEF Laid
  <2>5. CASE walk.st' # "over"
    <3>1. /\ walk.st' = "runs" /\ messages' = ms
          /\ ToList' \subseteq ToList \cup (Found(dir) \cap Dirs)
      BY <2>1, <2>5 DEF ms
    <3>2. PICK l : l = ms
      OBVIOUS
    <3>3. ParentsFirst(l)'
      BY <1>4, <2>3, <3>2
    <3>4. ASSUME NEW d \in ToList' PROVE Announced(l, d, Len(l))'
      <4>1. Announced(l, d, Len(l))
        BY <2>3, <3>1, <3>2
      <4> QED BY <1>3, <4>1
    <3>5. l = messages'
      BY <3>1, <3>2
    <3>6. ParentsFirst(messages)' /\ \A d \in ToList' : Announced(messages, d, Len(messages))'
      BY <3>3, <3>4, <3>5
    <3> QED BY <3>1, <3>6 DEF Laid
  <2> QED BY <2>4, <2>5
<1> QED BY <1>5, <1>6, <1>7 DEF Walk

(* A stream of batches with one more message: another batch, or the last one. *)
LEMMA StreamOneMore ==
    ASSUME NEW ms, Listings(ms), Stream(ms, FALSE), NEW m \in Message
    PROVE  /\ m.event = "batch" => Stream(Append(ms, m), FALSE)
           /\ m.event # "batch" => Stream(Append(ms, m), TRUE)
           /\ Broken(Append(ms, m), TRUE) <=> m.event = "error"
<1> DEFINE t == Append(ms, m)
<1>1. /\ t # <<>> /\ t[Len(t)] = m /\ Len(t) = Len(ms) + 1 /\ Len(ms) \in Nat
      /\ \A n \in 1..Len(ms) : t[n] = ms[n]
  BY SentOneMore
<1> HIDE DEF t
<1>2. ASSUME NEW n \in 1..Len(t)
      PROVE  \/ n = Len(t) /\ t[n] = m
             \/ n # Len(t) /\ n \in 1..Len(ms) /\ t[n] = ms[n]
  BY <1>1
<1>3. \A n \in 1..Len(ms) : ms[n].event = "batch"
  BY DEF Stream
<1>4. m.event = "batch" => Stream(t, FALSE)
  BY <1>1, <1>2, <1>3 DEF Stream
<1>5. m.event # "batch" => Stream(t, TRUE)
  BY <1>1, <1>2, <1>3 DEF Stream
<1>6. Broken(t, TRUE) <=> m.event = "error"
  BY <1>1 DEF Broken
<1> QED BY <1>4, <1>5, <1>6 DEF t

(* What a listed directory held is seen, or below what is pending now. *)
LEMMA SeenInListing ==
    ASSUME Held, WalkTypes, walk.at = rd.at, NEW dir \in Dirs, NEW es, AllSeen(es, ToList),
           NEW above, ToList \cup (Found(dir) \cap Dirs) \subseteq above \cup {dir}
    PROVE  AllSeen(es \cup Found(dir), above)
<1>1. walk.at \in Places /\ held[walk.at] \subseteq Path /\ IsTree(held[walk.at])
  BY DEF Held, WalkTypes, WalkState
<1>2. dir \in Path /\ Links \cap Dirs = {} /\ Len(dir) \in Nat \ {0}
  BY WalkAssumption, EmptySeq DEF Path
<1>3. SUFFICES ASSUME NEW x \in held[rd.at], Inside(x)
               PROVE  x \in es \cup Found(dir) \cup Links \/ \E d \in above : Strictly(d, x)
  BY DEF AllSeen
<1>4. x \in es \cup Links \/ \E d \in ToList : Strictly(d, x)
  BY <1>3 DEF AllSeen
<1>5. CASE Strictly(dir, x)
  <2>1. x \in Path
    BY <1>1
  <2>2. PICK c \in Path : /\ Front(c) = dir /\ Len(c) = Len(dir) + 1 /\ IsPrefix(c, x)
                          /\ c = x \/ Strictly(c, x)
    BY <1>2, <1>5, <2>1, ChildAbove
  <2>3. c # <<>>
    BY <2>2 DEF Path
  <2>4. CASE c = x
    BY <1>3, <2>2, <2>3, <2>4 DEF Found, Children
  <2>5. CASE c # x
    <3>1. c \in held[walk.at] \cap Dirs
      BY <1>1, <2>1, <2>2, <2>5, AboveInTree
    <3>2. c \in Found(dir) \cap Dirs
      BY <1>2, <2>2, <2>3, <3>1 DEF Found, Children
    <3>3. c # dir
      BY <1>2, <2>2
    <3> QED BY <2>2, <2>5, <3>2, <3>3
  <2> QED BY <2>4, <2>5
<1> QED BY <1>4, <1>5

(* What is found in a directory of the tree is in the tree. *)
LEMMA FoundInside ==
    ASSUME Held, WalkTypes, RdTypes, rd.pc = "collect", walk.at = rd.at, NEW dir \in Dirs,
           dir = Head(rd.items) \/ Inside(dir)
    PROVE  Sound(Found(dir))
<1>1. Found(dir) \subseteq held[walk.at] \ Links /\ Found(dir) \subseteq Path
      /\ \A e \in Found(dir) : Len(e) > 1 /\ Front(e) = dir
  BY FoundFacts
<1>2. dir \in Path /\ Head(rd.items) \in Path
  BY WalkAssumption DEF RdTypes
<1>3. ASSUME NEW e \in Found(dir) PROVE Inside(e)
  <2>1. e \in Path /\ Len(e) > 1 /\ IsPrefix(dir, e)
    BY <1>1, FrontOfPath
  <2>2. IsPrefix(Head(rd.items), dir)
    BY <1>2, PrefixOrder DEF Inside
  <2>3. IsPrefix(Head(rd.items), e)
    BY <1>2, <2>1, <2>2, PrefixOrder
  <2> QED BY <2>1, <2>3 DEF Inside
<1> QED BY <1>1, <1>3 DEF Sound

(* Each step of the walk keeps what the deletion knows of it. *)
LEMMA WalkKeepsCollecting ==
    ASSUME Held, WalkTypes, RdTypes, rd.pc = "collect", Collecting, Walk,
           UNCHANGED <<active, held, rd>>
    PROVE  Collecting'
<1>1. Listings(messages) /\ Head(rd.items) \in Dirs
  BY DEF WalkTypes, Listings, RdTypes
<1>2. /\ \A e : Inside(e) => Inside(e)'
      /\ \A es : Sound(es) => Sound(es)'
      /\ \A es, above : AllSeen(es, above) => AllSeen(es, above)'
      /\ rd' = rd
  <2>1. \A e : Inside(e) <=> Inside(e)'
    BY DEF Inside
  <2> QED BY <2>1 DEF Sound, AllSeen, Strictly
<1>3. CASE WalkStarts
  <2>1. /\ walk.st = "asked" /\ walk.root \in Dirs
        /\ walk.at' = walk.at /\ walk.root' = walk.root /\ ~walk.cancelled'
        /\ walk.st' = "runs" /\ ToList' = {walk.root} /\ messages' = messages /\ messages = <<>>
    BY <1>3, StartFacts DEF Collecting
  <2>2. walk.root = Head(rd.items) /\ walk.at = rd.at
    BY DEF Collecting
  <2>3. AllSeen(Collected, {walk.root})
    <3>1. Len(Head(rd.items)) = 1
      BY DEF RdTypes
    <3> QED BY <2>2, <3>1 DEF AllSeen, Inside, Strictly
  <2>4. Collected' = Collected
    BY <1>2, <2>1 DEF Collected, SentIn
  <2>5. PICK C, A : C = Collected /\ A = {walk.root}
    OBVIOUS
  <2>6. AllSeen(C, A)' /\ Sound(C)'
    BY <1>2, <2>3, <2>5 DEF Collecting
  <2>7. C = Collected' /\ A = ToList'
    BY <2>1, <2>4, <2>5
  <2>8. AllSeen(Collected, ToList)' /\ Sound(Collected)'
    BY <2>6, <2>7
  <2>9. Stream(messages, Ended)'
    BY <2>1 DEF Stream, Ended
  <2>10. \A d \in ToList' : d = Head(rd.items)'
    BY <1>2, <2>1, <2>2
  <2>11. walk.st' # "off" /\ walk.st' # "asked" /\ walk.at' = rd.at' /\ walk.root' = Head(rd.items)'
    BY <1>2, <2>1, <2>2
  <2> QED BY <2>1, <2>8, <2>9, <2>10, <2>11 DEF Collecting
<1>4. CASE WalkFails
  <2> DEFINE m == Last_("error")
  <2>1. /\ walk.st' = "over" /\ ToList' = {} /\ messages' = Append(messages, m)
        /\ walk.at' = walk.at /\ walk.root' = walk.root /\ walk.cancelled' = walk.cancelled
    BY <1>4, FailFacts
  <2>2. m \in Message /\ m.event = "error" /\ m.entries = {}
    BY LastMessage DEF Last_
  <2> HIDE DEF m
  <2>3. Stream(messages, FALSE)
    <3>1. ~Ended
      BY <1>4 DEF WalkFails, Ended
    <3> QED BY <3>1 DEF Collecting, Stream
  <2>4. Stream(Append(messages, m), TRUE) /\ Broken(Append(messages, m), TRUE)
    BY <1>1, <2>2, <2>3, StreamOneMore
  <2>5. Ended' = TRUE
    BY <2>1 DEF Ended
  <2>6. Stream(messages, Ended)' /\ Broken(messages, Ended)'
    <3>1. PICK l : l = Append(messages, m)
      OBVIOUS
    <3>2. Stream(l, TRUE)' /\ Broken(l, TRUE)'
      BY <2>4, <3>1 DEF Stream, Broken
    <3>3. l = messages' /\ Ended' = TRUE
      BY <2>1, <2>5, <3>1
    <3> QED BY <3>2, <3>3 DEF Stream, Broken
  <2>7. SentIn(messages') = SentIn(messages)
    <3>1. SentIn(Append(messages, m)) = SentIn(messages) \cup m.entries
      BY <1>1, <2>2, SentOneMore
    <3> QED BY <2>1, <2>2, <3>1
  <2>8. Collected' = Collected
    BY <1>2, <2>7 DEF Collected, SentIn
  <2>9. PICK C : C = Collected
    OBVIOUS
  <2>10. Sound(C)'
    BY <1>2, <2>9 DEF Collecting
  <2>11. Sound(Collected)'
    BY <2>8, <2>9, <2>10
  <2>12. /\ walk.st' # "off" /\ walk.st' # "asked" /\ walk.at' = rd.at' /\ ~walk.cancelled'
         /\ walk.root' = Head(rd.items)'
    BY <1>2, <2>1 DEF Collecting
  <2> QED BY <2>1, <2>6, <2>11, <2>12 DEF Collecting
<1>5. ASSUME NEW dir \in walk.listing, Listed(dir) PROVE Collecting'
  <2>1. /\ walk.st = "runs" /\ dir \in Dirs /\ Listings(Sends(dir))
        /\ walk.at' = walk.at /\ walk.root' = walk.root /\ walk.cancelled' = walk.cancelled
        /\ \/ /\ walk.st' = "over" /\ ToList' = {} /\ messages' = Append(Sends(dir), Last_("done"))
              /\ walk.cancelled \/ ToList \cup (Found(dir) \cap Dirs) \subseteq {dir}
           \/ /\ walk.st' = "runs" /\ messages' = Sends(dir)
              /\ ToList' \subseteq ToList \cup (Found(dir) \cap Dirs)
              /\ ToList \cup (Found(dir) \cap Dirs) \subseteq ToList' \cup {dir}
    BY <1>5, ListedFacts
  <2>2. /\ ~walk.cancelled /\ walk.at = rd.at /\ Sound(Collected) /\ AllSeen(Collected, ToList)
        /\ dir = Head(rd.items) \/ Inside(dir)
    BY <1>5, <2>1 DEF Collecting, Broken, Ended, ToList
  <2>3. Stream(messages, FALSE)
    BY <2>1 DEF Collecting, Stream, Ended
  <2>4. Sound(Found(dir))
    BY <2>1, <2>2, FoundInside
  <2>5. /\ SentIn(Sends(dir)) = SentIn(messages) \cup Found(dir)
        /\ Stream(Sends(dir), FALSE)
    <3>1. CASE Found(dir) = {}
      BY <2>3, <3>1 DEF Sends
    <3>2. CASE Found(dir) # {}
      <4> DEFINE m == Batch(dir, Found(dir))
      <4>1. /\ m \in Message /\ m.entries = Found(dir) /\ m.event = "batch"
            /\ Sends(dir) = Append(messages, m)
        BY <2>1, <3>2, FoundFacts DEF Batch, Sends
      <4> HIDE DEF m
      <4>2. SentIn(Append(messages, m)) = SentIn(messages) \cup m.entries
        BY <1>1, <4>1, SentOneMore
      <4>3. Stream(Append(messages, m), FALSE)
        BY <1>1, <2>3, <4>1, StreamOneMore
      <4> QED BY <4>1, <4>2, <4>3
    <3> QED BY <3>1, <3>2
  <2>6. PICK C, ms, D : C = Collected \cup Found(dir) /\ ms = Sends(dir) /\ D = Found(dir) \cap Dirs
    OBVIOUS
  <2>7. Sound(C)'
    <3>1. Sound(C)
      BY <2>2, <2>4, <2>6 DEF Sound
    <3> QED BY <1>2, <3>1
  <2>8. Collected' = C
    <3>1. SentIn(messages') = SentIn(ms)
      <4>1. CASE messages' = ms
        BY <4>1
      <4>2. CASE messages' = Append(ms, Last_("done"))
        <5>1. Last_("done") \in Message /\ Last_("done").entries = {}
          BY LastMessage DEF Last_
        <5> DEFINE m == Last_("done")
        <5>2. m \in Message /\ m.entries = {} /\ Listings(ms)
          BY <2>1, <2>6, <5>1
        <5> HIDE DEF m
        <5>3. SentIn(Append(ms, m)) = SentIn(ms) \cup m.entries
          BY <5>2, SentOneMore
        <5>4. messages' = Append(ms, m)
          BY <4>2 DEF m
        <5> QED BY <5>2, <5>3, <5>4
      <4> QED BY <2>1, <2>6, <4>1, <4>2
    <3>2. SentIn(messages') = SentIn(messages) \cup Found(dir)
      BY <2>5, <2>6, <3>1
    <3> QED BY <1>2, <2>6, <3>2 DEF Collected, SentIn
  <2>9. \A d \in D : Inside(d)
    BY <2>4, <2>6 DEF Sound
  <2>10. PICK A : A = ToList'
    OBVIOUS
  <2>11. AllSeen(C, A)'
    <3>1. ToList \cup (Found(dir) \cap Dirs) \subseteq A \cup {dir}
      BY <2>1, <2>2, <2>10
    <3>2. AllSeen(C, A)
      BY <2>1, <2>2, <2>6, <3>1, SeenInListing
    <3> QED BY <1>2, <3>2
  <2>12. AllSeen(Collected, ToList)' /\ Sound(Collected)'
    BY <2>7, <2>8, <2>10, <2>11
  <2>13. \A d \in ToList' : d = Head(rd.items)' \/ Inside(d)'
    <3>1. ASSUME NEW d \in A PROVE d = Head(rd.items) \/ Inside(d)
      <4>1. d \in ToList \/ d \in D
        BY <2>1, <2>6, <2>10, <3>1
      <4> QED BY <2>9, <4>1 DEF Collecting
    <3> QED BY <1>2, <2>10, <3>1
  <2>14. Stream(messages, Ended)'
    <3>1. CASE walk.st' = "over"
      <4>1. messages' = Append(ms, Last_("done")) /\ Ended' = TRUE
        BY <2>1, <2>6, <3>1 DEF Ended
      <4>2. Last_("done") \in Message /\ Last_("done").event # "batch"
        BY LastMessage DEF Last_
      <4>3. Stream(Append(ms, Last_("done")), TRUE)
        BY <2>1, <2>5, <2>6, <4>2, StreamOneMore
      <4> QED BY <4>1, <4>3 DEF Stream
    <3>2. CASE walk.st' # "over"
      <4>1. messages' = ms /\ Ended' = FALSE
        BY <2>1, <2>6, <3>2 DEF Ended
      <4> QED BY <2>5, <2>6, <4>1 DEF Stream
    <3> QED BY <3>1, <3>2
  <2>15. /\ walk.st' # "off" /\ walk.st' # "asked" /\ walk.at' = rd.at' /\ ~walk.cancelled'
         /\ walk.root' = Head(rd.items)'
    BY <1>2, <2>1 DEF Collecting
  <2> QED BY <2>12, <2>13, <2>14, <2>15 DEF Collecting
<1> QED BY <1>3, <1>4, <1>5 DEF Walk

-----------------------------------------------------------------------------
(* Names. *)

(* The names in a directory are finitely many. *)
LEMMA NamesFinite ==
    ASSUME Held, NEW p \in Places, NEW dir PROVE IsFiniteSet(Names(p, dir))
<1> DEFINE S == Children(p, dir)
           f == [e \in S |-> Name(e)]
<1>1. IsFiniteSet(held[p]) /\ S \subseteq held[p]
  BY DEF Held, Children
<1>2. IsFiniteSet(S)
  BY <1>1, FS_Subset
<1>3. f \in Surjection(S, Names(p, dir))
  BY DEF Surjection, Names
<1> HIDE DEF f, S
<1> QED BY <1>2, <1>3, FS_Surjection

(* Numbered names differ from each other. *)
LEMMA Numbered ==
    ASSUME NEW n \in Seq(Word), NEW i \in Nat, NEW k \in Nat, Append(n, i) = Append(n, k)
    PROVE  i = k
<1> DEFINE T == Word \cup {i, k}
<1>1. n \in Seq(T)
  BY SeqMonotonic
<1>2. i \in T /\ k \in T
  OBVIOUS
<1> HIDE DEF T
<1>3. Append(n, i)[Len(n) + 1] = i /\ Append(n, k)[Len(n) + 1] = k
  BY <1>1, <1>2, Appended
<1> QED BY <1>3

(* dedupeName finds a name that is not taken. *)
LEMMA Deduped ==
    ASSUME NEW n \in Seq(Word), NEW taken, IsFiniteSet(taken)
    PROVE  DedupeName(n, taken) \notin taken
<1> DEFINE c == Cardinality(taken) + 1
           Free == {k \in 1..c : Append(n, k) \notin taken}
           Least(k) == k \in Free /\ \A j \in 1..k - 1 : Append(n, j) \in taken
<1>1. c \in Nat /\ c = Cardinality(taken) + 1 /\ Cardinality(taken) \in Nat
  BY FS_CardinalityType
<1>2. Free # {}
  <2>1. SUFFICES ASSUME Free = {} PROVE FALSE
    OBVIOUS
  <2> DEFINE f == [k \in 1..c |-> Append(n, k)]
  <2>2. f \in [1..c -> taken]
    BY <2>1
  <2>3. IsFiniteSet(1..c) /\ Cardinality(1..c) = c
    BY <1>1, FS_Interval
  <2> HIDE DEF f, c
  <2>4. \E x, y \in 1..c : x # y /\ f[x] = f[y]
    BY <1>1, <2>2, <2>3, FS_PigeonHole
  <2> QED BY <1>1, <2>4, Numbered DEF f
<1> HIDE DEF c
<1>3. PICK k \in Free : \A j \in Free : ~(j < k)
  <2>1. Free \subseteq Nat
    BY <1>1
  <2>2. \E x \in Free : \A y \in Free : ~(<<y, x>> \in OpToRel(<, Nat))
    <3> HIDE DEF Free
    <3> QED BY <1>2, <2>1, NatLessThanWellFounded, WFMin
  <2> QED BY <2>1, <2>2 DEF OpToRel
<1>4. Least(k)
  <2>1. ASSUME NEW j \in 1..k - 1 PROVE Append(n, j) \in taken
    <3>1. j \in 1..c /\ j < k
      BY <1>1, <1>3
    <3> QED BY <1>3, <3>1
  <2> QED BY <1>3, <2>1
<1>5. DedupeName(n, taken) =
         Append(n, CHOOSE i \in 1..c : Append(n, i) \notin taken
                                       /\ \A j \in 1..i - 1 : Append(n, j) \in taken)
  BY DEF DedupeName, c
<1>6. \E i \in 1..c : Append(n, i) \notin taken /\ \A j \in 1..i - 1 : Append(n, j) \in taken
  BY <1>4
<1> QED BY <1>5, <1>6

(* What resolveConflict proposes is in the file's directory, under the name chosen. *)
LEMMA InItsPlace ==
    ASSUME NEW e \in Path, NEW name
    PROVE  /\ Len(Append(Front(e), name)) = Len(e)
           /\ Front(Append(Front(e), name)) = Front(e)
           /\ Last(Append(Front(e), name)) = name
<1> DEFINE T == Seq(Word) \cup {name}
<1>1. e \in Seq(Seq(Word)) /\ e # <<>>
  BY DEF Path
<1>2. Front(e) \in Seq(Seq(Word)) /\ Len(Front(e)) = Len(e) - 1 /\ Len(e) \in Nat \ {0}
  <2>1. Len(e) \in Nat \ {0}
    BY <1>1, EmptySeq
  <2> QED BY <1>1, <2>1, FrontFacts
<1>3. Front(e) \in Seq(T) /\ name \in T
  BY <1>2, SeqMonotonic
<1> DEFINE s == Front(e)
           t == Append(s, name)
<1> HIDE DEF T
<1>4. /\ t \in Seq(T) /\ Len(t) = Len(s) + 1 /\ t[Len(s) + 1] = name
      /\ \A i \in 1..Len(s) : t[i] = s[i]
  BY <1>3, Appended
<1>5. Len(t) = Len(e) /\ t # <<>>
  <2>1. Len(s) = Len(e) - 1
    BY <1>2
  <2> HIDE DEF s, t
  <2>2. Len(t) = Len(e) /\ Len(t) \in Nat \ {0}
    BY <1>2, <1>4, <2>1
  <2> QED BY <1>4, <2>2, EmptySeq
<1>6. Last(t) = name
  BY <1>2, <1>4 DEF Last
<1>7. /\ Front(t) \in Seq(T) /\ Len(Front(t)) = Len(t) - 1
      /\ \A i \in 1..Len(t) - 1 : Front(t)[i] = t[i]
  BY <1>4, <1>5, FrontFacts
<1>8. Front(t) = s
  <2> HIDE DEF t, s
  <2>1. Len(Front(t)) = Len(s) /\ \A i \in 1..Len(Front(t)) : Front(t)[i] = s[i]
    BY <1>2, <1>4, <1>7 DEF s
  <2>2. s \in Seq(T)
    BY <1>3 DEF s
  <2> QED BY <1>7, <2>1, <2>2, SeqEqual
<1> QED BY <1>5, <1>6, <1>8

-----------------------------------------------------------------------------
(* Making directories. *)

(* Both ends of a transfer are places. *)
LEMMA DestFacts == ASSUME Held, FtTypes PROVE Dest \in Places /\ Source \in Places
BY DEF Held, FtTypes, Dest, Source, Places

(* What is above a directory, and it, are a tree of directories. *)
LEMMA AboveFacts ==
    ASSUME NEW d \in Dirs
    PROVE  /\ d \in Above(d) /\ Above(d) \subseteq Dirs
           /\ \A e \in Above(d) : \A n \in 1..Len(e) - 1 : SubSeq(e, 1, n) \in Above(d)
<1>1. d \in Path /\ IsTree(Dirs) /\ d \in Seq(Seq(Word)) /\ Len(d) \in Nat \ {0}
  BY WalkAssumption, EmptySeq DEF Path
<1>2. SubSeq(d, 1, Len(d)) = d
  BY <1>1, SMT
<1>3. d \in Above(d)
  <2>1. Len(d) \in 1..Len(d)
    BY <1>1
  <2> QED BY <1>2, <2>1 DEF Above
<1>4. ASSUME NEW n \in 1..Len(d) PROVE SubSeq(d, 1, n) \in Dirs
  <2>1. n = Len(d) \/ n \in 1..Len(d) - 1
    BY <1>1
  <2> QED BY <1>1, <1>2, <2>1 DEF IsTree
<1>5. ASSUME NEW m \in 1..Len(d), NEW n \in 1..Len(SubSeq(d, 1, m)) - 1
      PROVE  SubSeq(SubSeq(d, 1, m), 1, n) \in Above(d)
  <2> DEFINE e == SubSeq(d, 1, m)
  <2>1. e \in Path /\ Len(e) = m /\ IsPrefix(e, d)
    BY <1>1, Beginning
  <2>2. n \in 1..m - 1 /\ m \in Nat
    BY <1>1, <2>1
  <2>3. n \in 1..Len(e)
    BY <2>1, <2>2
  <2> HIDE DEF e
  <2>4. SubSeq(e, 1, n) \in Path /\ Len(SubSeq(e, 1, n)) = n /\ IsPrefix(SubSeq(e, 1, n), e)
    BY <2>1, <2>3, Beginning
  <2>5. IsPrefix(SubSeq(e, 1, n), d)
    BY <1>1, <2>1, <2>4, PrefixOrder
  <2>6. SubSeq(e, 1, n) = SubSeq(d, 1, n) /\ n \in 1..Len(d)
    BY <1>1, <2>4, <2>5, PrefixIsBeginning
  <2> QED BY <2>6 DEF Above, e
<1> QED BY <1>3, <1>4, <1>5 DEF Above

(* A place after directories were made there. *)
LEMMA MakeFacts ==
    ASSUME Held, NEW p \in Places, NEW all \in SUBSET Dirs, NEW failed \in SUBSET all,
           Make(p, all, failed), UNCHANGED active
    PROVE  /\ Held' /\ unmade' = unmade \cup failed
           /\ held[p] \subseteq held'[p] /\ held'[p] \ Dirs = held[p] \ Dirs
           /\ \A d \in all \ failed : Len(d) = 1 \/ Front(d) \in held[p] => d \in held'[p]
<1> PICK ds \in SUBSET Dirs : ds = all \ failed
  OBVIOUS
<1> DEFINE new == UNION {Above(d) : d \in Makes(p, ds)}
<1>1. Makes(p, ds) \subseteq ds
  BY DEF Makes
<1>2. new \subseteq Dirs
  BY <1>1, AboveFacts
<1>3. held' = [held EXCEPT ![p] = @ \cup new] /\ held \in [Places -> SUBSET Path]
  BY DEF Make, Held
<1>4. /\ held'[p] = held[p] \cup new
      /\ \A q \in Places \ {p} : held'[q] = held[q]
  BY <1>3
<1>5. held' \in [Places -> SUBSET Path]
  BY <1>2, <1>3, WalkAssumption
<1>6. IsTree(held'[p])
  <2>1. SUFFICES ASSUME NEW e \in held'[p], NEW n \in 1..Len(e) - 1
                 PROVE  SubSeq(e, 1, n) \in held'[p] \cap Dirs
    BY DEF IsTree
  <2>2. CASE e \in held[p]
    <3>1. SubSeq(e, 1, n) \in held[p] \cap Dirs
      BY <2>1, <2>2 DEF Held, IsTree
    <3> QED BY <1>4, <3>1
  <2>3. CASE e \in new
    <3>1. PICK d \in Makes(p, ds) : e \in Above(d)
      BY <2>3
    <3>2. SubSeq(e, 1, n) \in Above(d) /\ Above(d) \subseteq new
      BY <1>1, <2>1, <3>1, AboveFacts
    <3> QED BY <1>2, <1>4, <3>2
  <2> QED BY <1>4, <2>1, <2>2, <2>3
<1>7. IsFiniteSet(held'[p])
  <2>1. IsFiniteSet(new)
    BY <1>2, WalkAssumption, FS_Subset
  <2>2. IsFiniteSet(held[p])
    BY DEF Held
  <2> HIDE DEF new
  <2> QED BY <1>4, <2>1, <2>2, FS_Union
<1>8. \A q \in Cloud : held'[q] \cap Links = {}
  <2>1. \A q \in Cloud : q \in Places
    BY WalkAssumption DEF Places
  <2> QED BY <1>2, <1>4, <2>1, WalkAssumption DEF Held
<1>9. Held'
  BY <1>4, <1>5, <1>6, <1>7, <1>8 DEF Held
<1>10. held'[p] \ Dirs = held[p] \ Dirs
  BY <1>2, <1>4
<1>11. ASSUME NEW d \in ds, Len(d) = 1 \/ Front(d) \in held[p] PROVE d \in held'[p]
  <2>1. d \in held[p] \/ d \in Makes(p, ds)
    BY <1>11 DEF Makes
  <2>2. CASE d \in Makes(p, ds)
    BY <1>4, <2>2, AboveFacts
  <2> QED BY <1>4, <2>1, <2>2
<1>12. unmade' = unmade \cup failed
  BY DEF Make
<1> QED BY <1>4, <1>9, <1>10, <1>11, <1>12

-----------------------------------------------------------------------------
(* The steps of a transfer.  Each keeps the invariant's part about it. *)

TransferInv == Held /\ WalkTypes /\ FtTypes /\ FoldersFirst /\ CacheKnows

(* A transfer with another state of its own is still of the same form. *)
LEMMA GotoFacts ==
    ASSUME Shape(ft), NEW pc, Goto(pc)
    PROVE  /\ Shape(ft') /\ ft'.pc = pc /\ ft'.up = ft.up /\ ft'.batch = ft.batch
           /\ ft'.items = ft.items /\ ft'.dirs = ft.dirs /\ ft'.files = ft.files
           /\ ft'.file = ft.file /\ ft'.name = ft.name /\ ft'.how = ft.how
<1>1. ft' = [ft EXCEPT !.pc = pc]
  BY DEF Goto
<1> QED BY <1>1 DEF Shape

(* The order of the directories stays where no directory is lost. *)
LEMMA LaidStays ==
    ASSUME Laid, ToList' = ToList, walk.st' = walk.st, walk.root' = walk.root,
           messages' = messages, \A d : Ready(d) => Ready(d)'
    PROVE  Laid'
<1>1. ASSUME NEW ms, NEW d, NEW n PROVE Announced(ms, d, n) => Announced(ms, d, n)'
  BY DEF Announced
<1>2. PICK ms : ms = messages
  OBVIOUS
<1>3. ParentsFirst(ms)' /\ \A d \in ToList : Announced(ms, d, Len(ms))'
  BY <1>1, <1>2 DEF Laid, ParentsFirst
<1>4. ms = messages'
  BY <1>2
<1>5. ParentsFirst(messages)' /\ \A d \in ToList' : Announced(messages, d, Len(messages))'
  BY <1>3, <1>4
<1>6. walk.st' = "asked" => Ready(walk.root)'
  <2>1. PICK root : root = walk.root
    OBVIOUS
  <2>2. walk.st = "asked" => Ready(root)'
    BY <2>1 DEF Laid
  <2> QED BY <2>1, <2>2
<1> QED BY <1>5, <1>6 DEF Laid

(* What the requests promise stays so where nothing moves. *)
LEMMA HeldStill ==
    ASSUME UNCHANGED <<active, held, queued, switched, unmade>>, ft'.up = ft.up,
           unlisted \subseteq unlisted'
    PROVE  /\ Dest' = Dest /\ (\A e : Based(e) => Based(e)') /\ \A d : There(d) => There(d)'
           /\ FilesFollowFolders => FilesFollowFolders'
           /\ FreshTargets => FreshTargets'
           /\ (~switched => \A q \in queued : q.at = Dest)
                 => (~switched => \A q \in queued : q.at = Dest)'
<1>1. Dest' = Dest
  BY DEF Dest
<1>6. \A d : There(d) => There(d)'
  BY <1>1 DEF There, Lost
<1>2. \A e : Based(e) => Based(e)'
  BY <1>6 DEF Based
<1>3. FilesFollowFolders => FilesFollowFolders'
  BY DEF FilesFollowFolders
<1>4. FreshTargets => FreshTargets'
  BY DEF FreshTargets, Unasked
<1>5. (~switched => \A q \in queued : q.at = Dest) => (~switched => \A q \in queued : q.at = Dest)'
  BY <1>1
<1> QED BY <1>1, <1>2, <1>3, <1>4, <1>5, <1>6

(* What is lost stays so, with what is below it. *)
LEMMA LostBelow ==
    ASSUME unmade \subseteq Dirs, NEW d \in Path, Len(d) > 1, Lost(Front(d)) PROVE Lost(d)
<1>1. PICK u \in unmade : IsPrefix(u, Front(d))
  BY DEF Lost
<1>2. u \in Path /\ Front(d) \in Path /\ IsPrefix(Front(d), d)
  BY WalkAssumption, FrontOfPath
<1>3. IsPrefix(u, d)
  BY <1>1, <1>2, PrefixOrder
<1> QED BY <1>3 DEF Lost

(* Making directories at the destination loses no promise: a directory is made, or  *)
(* lost.                                                                            *)
LEMMA Growth ==
    ASSUME Held, FtTypes, NEW ds \in SUBSET Dirs, NEW failed \in SUBSET ds,
           Make(Dest, ds, failed),
           UNCHANGED <<active, queued, switched, unlisted>>, ft'.up = ft.up
    PROVE  /\ Held' /\ Dest' = Dest /\ Dest \in Places /\ unmade' \subseteq Dirs
           /\ held[Dest] \subseteq held'[Dest] /\ held'[Dest] \ Dirs = held[Dest] \ Dirs
           /\ \A d : There(d) => There(d)'
           /\ \A d \in ds : Based(d) => There(d)'
           /\ \A e : Based(e) => Based(e)'
           /\ FilesFollowFolders => FilesFollowFolders'
           /\ FreshTargets => FreshTargets'
           /\ (~switched => \A q \in queued : q.at = Dest)'
<1>1. PICK p : p = Dest
  OBVIOUS
<1>2. p \in Places /\ Dest' = p
  BY <1>1, DestFacts DEF Dest
<1>3. /\ Held' /\ unmade' = unmade \cup failed
      /\ held[p] \subseteq held'[p] /\ held'[p] \ Dirs = held[p] \ Dirs
      /\ \A d \in ds \ failed : Len(d) = 1 \/ Front(d) \in held[p] => d \in held'[p]
  BY <1>1, <1>2, MakeFacts
<1>8. unmade \subseteq Dirs /\ unmade' \subseteq Dirs
  BY <1>3 DEF FtTypes
<1>9. \A d : There(d) => There(d)'
  BY <1>1, <1>2, <1>3 DEF There, Lost
<1>10. ASSUME NEW d \in ds, Based(d) PROVE There(d)'
  <2>1. d \in Path /\ Len(d) \in Nat \ {0}
    BY WalkAssumption, EmptySeq DEF Path
  <2>2. CASE d \in failed
    <3>1. IsPrefix(d, d) /\ d \in unmade'
      BY <1>3, <2>1, <2>2, PrefixOrder
    <3> QED BY <3>1 DEF There, Lost
  <2>3. CASE d \notin failed /\ (Len(d) = 1 \/ Front(d) \in held[p])
    BY <1>2, <1>3, <2>3 DEF There
  <2>4. CASE Len(d) # 1 /\ Lost(Front(d))
    <3>3. \A n \in Nat \ {0} : n # 1 => n > 1
      OBVIOUS
    <3>1. Len(d) > 1
      BY <2>1, <2>4, <3>3, Zenon
    <3>2. There(d)
      BY <1>8, <2>1, <2>4, <3>1, LostBelow DEF There
    <3> QED BY <1>9, <3>2
  <2> QED BY <1>1, <1>10, <2>2, <2>3, <2>4 DEF Based, There
<1>4. \A e : Based(e) => Based(e)'
  BY <1>9 DEF Based
<1>5. ~switched => \A q \in queued : q.at = p
  BY <1>1 DEF FtTypes
<1>6. FilesFollowFolders => FilesFollowFolders'
  <2>1. SUFFICES ASSUME FilesFollowFolders, ~switched, NEW q \in queued
                 PROVE  \/ Len(q.dst) = 1 \/ Front(q.dst) \in held'[q.at]
                        \/ \E d \in unmade' : IsPrefix(d, Front(q.dst))
    BY DEF FilesFollowFolders
  <2> QED BY <1>3, <1>5, <2>1 DEF FilesFollowFolders
<1>7. FreshTargets => FreshTargets'
  <2>1. SUFFICES ASSUME FreshTargets, ~switched, NEW q \in queued, q.how \in {"free", "rename"},
                        q.dst \in held'[q.at] \ Dirs
                 PROVE  q.at \in Cloud \/ Front(q.dst) \in unlisted
    BY DEF FreshTargets, Unasked
  <2>2. q.at = p /\ q.dst \in held[q.at] \ Dirs
    BY <1>3, <1>5, <2>1
  <2> QED BY <2>1, <2>2 DEF FreshTargets, Unasked
<1> QED BY <1>1, <1>2, <1>3, <1>4, <1>5, <1>6, <1>7, <1>8, <1>9, <1>10

(* On to the next item: nothing is promised of it yet. *)
LEMMA OnToTheNext ==
    ASSUME TransferInv, ft.pc # "idle", NEW f, Shape(f), NextItem(f),
           f.items = ft.items, f.up = ft.up, f.batch \in Answers,
           f.dirs = ft.dirs, f.files = ft.files,
           UNCHANGED <<active, held, cache, rule, queued, switched, unmade, unlisted>>
    PROVE  Held' /\ FtTypes' /\ FoldersFirst' /\ CacheKnows'
<1>1. /\ ft.items \in Seq(Path) /\ (\A i \in DOMAIN ft.items : Len(ft.items[i]) = 1)
      /\ ft.items # <<>> /\ ft.dirs \subseteq Dirs /\ ft.files \subseteq Path /\ ft.up \in BOOLEAN
      /\ rule \in [BOOLEAN -> [setting : Policy, session : Policy \cup {NoRule}]]
      /\ unmade \subseteq Dirs /\ (~switched => \A q \in queued : q.at = Dest)
  BY DEF TransferInv, FtTypes
<1> DEFINE rst == Tail(f.items)
<1>2. rst \in Seq(Path) /\ \A i \in DOMAIN rst : Len(rst[i]) = 1
  <2>1. /\ rst \in Seq(Path) /\ Len(rst) = Len(ft.items) - 1 /\ Len(ft.items) \in Nat \ {0}
        /\ \A i \in 1..Len(ft.items) - 1 : rst[i] = ft.items[i + 1]
    BY <1>1, Rest
  <2>2. DOMAIN rst = 1..Len(rst) /\ DOMAIN ft.items = 1..Len(ft.items)
    BY <1>1, <2>1, LenProperties
  <2> HIDE DEF rst
  <2>3. ASSUME NEW i \in DOMAIN rst PROVE Len(rst[i]) = 1
    <3>1. i \in 1..Len(ft.items) - 1 /\ i + 1 \in 1..Len(ft.items)
      BY <2>1, <2>2
    <3> QED BY <1>1, <2>1, <2>2, <3>1
  <2> QED BY <2>1, <2>3
<1>3. \/ ft' = [f EXCEPT !.pc = "idle", !.items = <<>>]
      \/ /\ rst # <<>>
         /\ ft' = [f EXCEPT !.pc = "item", !.items = rst, !.dirs = {}, !.files = {},
                            !.batch = IF f.single THEN NoBatch ELSE @]
  BY DEF NextItem
<1> HIDE DEF rst
<1>4. NoBatch \in Answers
  BY DEF NoBatch, Answers
<1>5. /\ Shape(ft') /\ ft'.up = ft.up /\ ft'.batch \in Answers
      /\ ft'.dirs \subseteq Dirs /\ ft'.files \subseteq Path
      /\ \/ ft'.pc = "idle" /\ ft'.items = <<>>
         \/ ft'.pc = "item" /\ ft'.items = rst /\ rst # <<>> /\ ft'.files = {}
  BY <1>1, <1>3, <1>4 DEF Shape
<1>6. ft'.items \in Seq(Path) /\ \A i \in DOMAIN ft'.items : Len(ft'.items[i]) = 1
  <2>1. <<>> \in Seq(Path) /\ DOMAIN <<>> = {}
    BY EmptySeq
  <2> QED BY <1>2, <1>5, <2>1
<1>7. ft'.pc \notin InItem /\ ft'.pc \notin Making /\ ft'.pc \notin Deciding /\ ft'.pc # "scan"
  BY <1>5 DEF InItem, Making, Deciding
<1>8. FtTypes'
  BY <1>1, <1>5, <1>6, <1>7, HeldStill DEF FtTypes, Making, Deciding
<1>9. FoldersFirst'
  BY <1>5, <1>7, HeldStill DEF TransferInv, FoldersFirst
<1>10. CacheKnows'
  BY <1>5, <1>7, HeldStill DEF TransferInv, CacheKnows, InItem, Deciding
<1>11. Held'
  BY DEF TransferInv, Held
<1> QED BY <1>8, <1>9, <1>10, <1>11

(* The first of the dropped items. *)
LEMMA FirstItem ==
    ASSUME FtTypes, ft.pc # "idle" PROVE Head(ft.items) \in Path /\ Len(Head(ft.items)) = 1
<1>1. ft.items \in Seq(Path) /\ ft.items # <<>> /\ \A i \in DOMAIN ft.items : Len(ft.items[i]) = 1
  BY DEF FtTypes
<1>2. Head(ft.items) \in Path /\ Head(ft.items) = ft.items[1] /\ Len(ft.items) \in Nat \ {0}
  BY <1>1, Rest
<1>3. 1 \in DOMAIN ft.items
  BY <1>1, <1>2, LenProperties
<1> QED BY <1>1, <1>2, <1>3

(* A file dropped by itself. *)
LEMMA FileStep ==
    ASSUME TransferInv, TransferFile PROVE TransferInv'
<1>1. /\ ft.pc = "item" /\ Head(ft.items) \notin Dirs
      /\ cache' = NoCache /\ ft' = [ft EXCEPT !.pc = "files", !.files = {Head(ft.items)}]
      /\ UNCHANGED <<active, held, walk, messages, rule, queued, switched, unmade, unlisted>>
  BY DEF TransferFile, walkVars, history
<1>2. /\ Shape(ft') /\ ft'.pc = "files" /\ ft'.files = {Head(ft.items)} /\ ft'.up = ft.up
      /\ ft'.batch = ft.batch /\ ft'.items = ft.items /\ ft'.dirs = ft.dirs
  BY <1>1 DEF TransferInv, FtTypes, Shape
<1>3. Head(ft.items) \in Path /\ Len(Head(ft.items)) = 1
  BY <1>1, FirstItem DEF TransferInv
<1>4. FtTypes'
  BY <1>1, <1>2, <1>3, HeldStill DEF TransferInv, FtTypes, InItem, Making, Deciding
<1>5. FoldersFirst'
  <2>1. \A e \in ft'.files : Based(e)'
    BY <1>2, <1>3 DEF Based
  <2> QED BY <1>1, <1>2, <2>1, HeldStill DEF TransferInv, FoldersFirst, Making, Deciding
<1>6. CacheKnows'
  BY <1>1, <1>2, HeldStill DEF TransferInv, CacheKnows, NoCache, Deciding
<1>7. Held' /\ WalkTypes'
  BY <1>1 DEF TransferInv, Held, WalkTypes, ToList
<1> QED BY <1>4, <1>5, <1>6, <1>7 DEF TransferInv

(* The root of a dropped folder is made. *)
LEMMA RootStep ==
    ASSUME TransferInv, MakeRoot PROVE TransferInv'
<1>1. /\ ft.pc = "item" /\ Head(ft.items) \in Dirs /\ Goto("scan")
      /\ UNCHANGED <<active, walk, messages, cache, rule, queued, switched, unlisted>>
  BY DEF MakeRoot, walkVars
<1>2. /\ Shape(ft') /\ ft'.pc = "scan" /\ ft'.files = ft.files /\ ft'.up = ft.up
      /\ ft'.batch = ft.batch /\ ft'.items = ft.items /\ ft'.dirs = ft.dirs
  BY <1>1, GotoFacts DEF TransferInv, FtTypes
<1>3. Held /\ FtTypes
  BY DEF TransferInv
<1>4. PICK ds : ds = {Head(ft.items)}
  OBVIOUS
<1>11. PICK failed \in SUBSET ds : Make(Dest, ds, failed)
  BY <1>4 DEF MakeRoot, Failing
<1>5. /\ Held' /\ Dest' = Dest /\ unmade' \subseteq Dirs
      /\ \A d \in ds : Based(d) => There(d)'
      /\ FilesFollowFolders => FilesFollowFolders'
      /\ FreshTargets => FreshTargets'
      /\ (~switched => \A q \in queued : q.at = Dest)'
  <2>1. ds \in SUBSET Dirs
    BY <1>1, <1>4
  <2> QED BY <1>1, <1>2, <1>3, <1>11, <2>1, Growth
<1>6. FtTypes'
  BY <1>1, <1>2, <1>3, <1>5 DEF FtTypes, InItem, Making, Deciding
<1>7. There(Head(ft.items))'
  <2>1. PICK d : d = Head(ft.items)
    OBVIOUS
  <2>2. d \in ds /\ Based(d)
    BY <1>1, <1>3, <1>4, <2>1, FirstItem DEF Based
  <2>3. There(d)' /\ d = Head(ft'.items)
    BY <1>2, <1>5, <2>1, <2>2
  <2> QED BY <2>3
<1>8. FoldersFirst'
  BY <1>1, <1>2, <1>5, <1>7 DEF TransferInv, FoldersFirst, InItem, Making, Deciding
<1>9. CacheKnows'
  BY <1>1, <1>2, <1>5 DEF TransferInv, CacheKnows, InItem, Making, Deciding
<1>10. WalkTypes'
  BY <1>1 DEF TransferInv, WalkTypes, ToList
<1> QED BY <1>5, <1>6, <1>8, <1>9, <1>10 DEF TransferInv

(* The walk of a dropped folder is asked for, its root being there. *)
LEMMA ScanStep ==
    ASSUME TransferInv, Scan PROVE TransferInv'
<1>1. /\ ft.pc = "scan" /\ ListTree(Source, Head(ft.items)) /\ cache' = NoCache /\ Goto("wait")
      /\ UNCHANGED <<active, held, rule, queued, switched, unmade, unlisted>>
  BY DEF Scan, history
<1>2. /\ Shape(ft') /\ ft'.pc = "wait" /\ ft'.files = ft.files /\ ft'.up = ft.up
      /\ ft'.batch = ft.batch /\ ft'.items = ft.items /\ ft'.dirs = ft.dirs
  BY <1>1, GotoFacts DEF TransferInv, FtTypes
<1>3. Head(ft.items) \in Dirs /\ ft.files = {} /\ Source \in Places
  BY <1>1, DestFacts DEF TransferInv, FtTypes
<1>4. /\ WalkTypes' /\ walk.st' = "asked" /\ walk.root' = Head(ft.items)
      /\ ToList' = {} /\ messages' = <<>>
  BY <1>1, <1>3, AskFacts
<1>5. FtTypes'
  BY <1>1, <1>2, <1>3, HeldStill DEF TransferInv, FtTypes, InItem, Making, Deciding
<1>6. FoldersFirst'
  <2>1. SUFFICES ASSUME ~switched PROVE FoldersFirst'
    BY <1>1 DEF FoldersFirst
  <2>2. There(Head(ft.items)) /\ FilesFollowFolders
    BY <1>1, <2>1 DEF TransferInv, FoldersFirst
  <2>3. Ready(walk.root)'
    <3>1. PICK d : d = Head(ft.items)
      OBVIOUS
    <3>2. There(d)' /\ d = walk.root'
      BY <1>1, <1>2, <1>4, <2>2, <3>1, HeldStill
    <3> QED BY <3>2 DEF Ready
  <2>4. ParentsFirst(messages)'
    BY <1>4, EmptySeq DEF ParentsFirst
  <2>5. Laid'
    BY <1>4, <2>3, <2>4 DEF Laid
  <2> QED BY <1>1, <1>2, <1>3, <2>2, <2>5, HeldStill DEF FoldersFirst, Making, Deciding
<1>7. CacheKnows'
  BY <1>1, <1>2, HeldStill DEF TransferInv, CacheKnows, NoCache, Deciding
<1>8. Held'
  BY <1>1 DEF TransferInv, Held
<1> QED BY <1>4, <1>5, <1>6, <1>7, <1>8 DEF TransferInv

(* What a message announced before is ready once it is taken, or announced still. *)
LEMMA TakenShift ==
    ASSUME WalkTypes, FtTypes, ft.pc = "wait", messages # <<>>, messages' = Tail(messages),
           NEW ms, ms = messages',
           UNCHANGED <<active, held, walk, unmade>>, ft'.up = ft.up,
           ft'.dirs = Head(messages).entries \cap Dirs, ft'.dirs # {} => ft'.pc = "mkdir",
           NEW n \in 1..Len(messages), NEW d \in Dirs, Announced(messages, d, n)
    PROVE  Announced(ms, d, n - 1)'
<1>1. /\ Len(messages) \in Nat \ {0} /\ Len(messages') = Len(messages) - 1
      /\ \A i \in 1..Len(messages) - 1 : messages'[i] = messages[i + 1]
      /\ Head(messages) = messages[1]
  BY TakeFacts
<1>2. \/ There(d)
      \/ d \in messages[1].entries
      \/ \E i \in 1..n - 1 : d \in ms[i].entries
  <2>1. Ready(d) => There(d)
    BY DEF Ready, Making
  <2>2. ASSUME NEW i \in 1..n, d \in messages[i].entries, i # 1
        PROVE  \E j \in 1..n - 1 : d \in ms[j].entries
    <3>1. i - 1 \in 1..n - 1 /\ i - 1 \in 1..Len(messages) - 1 /\ (i - 1) + 1 = i
      BY <1>1, <2>2
    <3> QED BY <1>1, <2>2, <3>1
  <2> QED BY <2>1, <2>2 DEF Announced
<1>4. There(d) => Ready(d)'
  BY DEF Ready, There, Lost, Dest
<1>5. d \in messages[1].entries => Ready(d)'
  BY <1>1 DEF Ready, Making
<1> QED BY <1>2, <1>4, <1>5 DEF Announced

(* The next message: the parents of what it lists are there. *)
LEMMA TakeStep ==
    ASSUME TransferInv, Take PROVE TransferInv'
<1> DEFINE m == Head(messages)
<1>1. /\ ft.pc = "wait" /\ messages # <<>> /\ messages' = Tail(messages)
      /\ UNCHANGED <<active, held, walk, cache, rule, queued, history>>
  BY DEF Take
<1>2. /\ WalkTypes' /\ ToList' = ToList
      /\ Len(messages) \in Nat \ {0} /\ Len(messages') = Len(messages) - 1
      /\ \A n \in 1..Len(messages) - 1 : messages'[n] = messages[n + 1]
      /\ m = messages[1] /\ m \in Message /\ OneListing(m)
  BY <1>1, TakeFacts DEF TransferInv
<1>3. /\ Held /\ WalkTypes /\ FtTypes /\ Shape(ft) /\ ft.batch \in Answers
      /\ Head(ft.items) \in Dirs /\ ft.items # <<>>
  BY <1>1 DEF TransferInv, FtTypes
<1>4. CASE m.event # "batch"
  <2>1. NextItem(ft)
    BY <1>4 DEF Take
  <2>2. PICK f : f = ft
    OBVIOUS
  <2>3. NextItem(f)
    BY <2>1, <2>2
  <2>4. Held' /\ FtTypes' /\ FoldersFirst' /\ CacheKnows'
    BY <1>1, <1>3, <2>2, <2>3, OnToTheNext DEF history
  <2> QED BY <1>2, <2>4 DEF TransferInv
<1>5. CASE m.event = "batch"
  <2>1. ft' = [ft EXCEPT !.pc = IF m.entries \cap Dirs = {} THEN "files" ELSE "mkdir",
                         !.dirs = m.entries \cap Dirs, !.files = m.entries \ Dirs]
    BY <1>5 DEF Take
  <2>2. /\ Shape(ft') /\ ft'.up = ft.up /\ ft'.batch = ft.batch /\ ft'.items = ft.items
        /\ ft'.pc = (IF m.entries \cap Dirs = {} THEN "files" ELSE "mkdir")
        /\ ft'.dirs = m.entries \cap Dirs /\ ft'.files = m.entries \ Dirs
    BY <1>3, <2>1 DEF Shape
  <2>3. m.entries \subseteq Path
    BY <1>2 DEF Message
  <2>4. FtTypes'
    BY <1>1, <1>3, <2>2, <2>3, HeldStill DEF FtTypes, history, InItem, Making, Deciding
  <2>5. FoldersFirst'
    <3>1. SUFFICES ASSUME ~switched PROVE FoldersFirst'
      BY <1>1 DEF FoldersFirst, history
    <3>2. Laid /\ FilesFollowFolders
      BY <1>1, <1>3, <3>1 DEF TransferInv, FoldersFirst, InItem
    <3>3. \A e \in m.entries : Based(e)
      <4>1. SUFFICES ASSUME NEW e \in m.entries PROVE Based(e)
        OBVIOUS
      <4>2. 1 \in 1..Len(messages) /\ messages[1].entries # {}
        BY <1>2
      <4>3. Announced(messages, messages[1].dir, 0)
        BY <3>2, <4>2 DEF Laid, ParentsFirst
      <4>4. There(Front(e))
        BY <1>1, <1>2, <4>3 DEF Announced, Ready, Making, OneListing
      <4> QED BY <4>4 DEF Based
    <3>4. \A e \in m.entries : Based(e)'
      BY <1>1, <2>2, <3>3, HeldStill DEF history
    <3>5. PICK ms : ms = messages'
      OBVIOUS
    <3>6. ASSUME NEW n \in 1..Len(messages), NEW d \in Dirs, Announced(messages, d, n)
          PROVE  Announced(ms, d, n - 1)'
      <4>1. ft'.dirs # {} => ft'.pc = "mkdir"
        BY <2>2
      <4> QED BY <1>1, <1>3, <2>2, <3>5, <3>6, <4>1, TakenShift DEF history
    <3>7. ParentsFirst(ms)'
      <4>1. SUFFICES ASSUME NEW n \in 1..Len(ms), ms[n].entries # {}
                     PROVE  Announced(ms, ms[n].dir, n - 1)'
        BY DEF ParentsFirst
      <4>2. /\ n + 1 \in 1..Len(messages) /\ n \in 1..Len(messages) /\ ms[n] = messages[n + 1]
            /\ (n + 1) - 1 = n
        BY <1>2, <3>5
      <4>3. Announced(messages, ms[n].dir, n)
        BY <3>2, <4>1, <4>2 DEF Laid, ParentsFirst
      <4>4. ms[n].dir \in Dirs
        <5>1. OneListing(messages[n + 1])
          BY <1>3, <4>2 DEF WalkTypes
        <5> QED BY <4>1, <4>2, <5>1 DEF OneListing
      <4> QED BY <3>6, <4>2, <4>3, <4>4
    <3>8. ASSUME NEW d \in ToList PROVE Announced(ms, d, Len(ms))'
      <4>1. Announced(messages, d, Len(messages)) /\ d \in Dirs
        BY <1>3, <3>2 DEF Laid, WalkTypes
      <4>2. Len(messages) \in 1..Len(messages) /\ Len(ms) = Len(messages) - 1
        BY <1>2, <3>5
      <4> QED BY <3>6, <4>1, <4>2
    <3>9. ParentsFirst(messages)' /\ \A d \in ToList' : Announced(messages, d, Len(messages))'
      <4>1. ms = messages'
        BY <3>5
      <4> QED BY <1>2, <3>7, <3>8, <4>1
    <3>10. walk.st' = "asked" => Ready(walk.root)'
      <4>1. PICK d : d = walk.root
        OBVIOUS
      <4>2. walk.st = "asked" => There(d)
        BY <1>1, <3>2, <4>1 DEF Laid, Ready, Making
      <4>3. (walk.st = "asked" => There(d)') /\ d = walk.root'
        BY <1>1, <2>2, <4>1, <4>2, HeldStill DEF history
      <4> QED BY <1>1, <4>3 DEF Ready
    <3>11. Laid'
      BY <3>9, <3>10 DEF Laid
    <3> QED BY <1>1, <2>2, <3>2, <3>4, <3>11, HeldStill DEF FoldersFirst, Deciding, history
  <2>6. CacheKnows'
    BY <1>1, <2>2, HeldStill DEF TransferInv, CacheKnows, InItem, Deciding, Key, history
  <2>7. Held'
    BY <1>1, <1>3 DEF Held
  <2> QED BY <1>2, <2>4, <2>5, <2>6, <2>7 DEF TransferInv
<1> QED BY <1>4, <1>5

(* The directories of a message are made at once, and known to be empty. *)
LEMMA MkdirManyStep ==
    ASSUME TransferInv, MkdirMany PROVE TransferInv'
<1>1. /\ ft.pc = "mkdir" /\ Goto("files")
      /\ UNCHANGED <<active, walk, messages, rule, queued, switched, unlisted>>
  BY DEF MkdirMany, walkVars
<1>10. PICK failed \in SUBSET ft.dirs :
          Make(Dest, ft.dirs, failed) /\ CacheSet(Makes(Dest, ft.dirs \ failed), {})
  BY DEF MkdirMany, Failing
<1>2. /\ Shape(ft') /\ ft'.pc = "files" /\ ft'.files = ft.files /\ ft'.up = ft.up
      /\ ft'.batch = ft.batch /\ ft'.items = ft.items /\ ft'.dirs = ft.dirs
  BY <1>1, GotoFacts DEF TransferInv, FtTypes
<1>3. Held /\ FtTypes /\ WalkTypes /\ Head(ft.items) \in Dirs /\ ft.dirs \subseteq Dirs
  BY <1>1 DEF TransferInv, FtTypes, Making
<1>4. PICK ds : ds = ft.dirs
  OBVIOUS
<1>5. /\ Held' /\ Dest' = Dest /\ Dest \in Places /\ unmade' \subseteq Dirs
      /\ held[Dest] \subseteq held'[Dest] /\ held'[Dest] \ Dirs = held[Dest] \ Dirs
      /\ \A d : There(d) => There(d)'
      /\ \A d \in ds : Based(d) => There(d)'
      /\ \A e : Based(e) => Based(e)'
      /\ FilesFollowFolders => FilesFollowFolders'
      /\ FreshTargets => FreshTargets'
      /\ (~switched => \A q \in queued : q.at = Dest)'
  <2>1. ds \in SUBSET Dirs /\ failed \in SUBSET ds /\ Make(Dest, ds, failed)
    BY <1>3, <1>4, <1>10
  <2> QED BY <1>1, <1>2, <1>3, <2>1, Growth
<1>6. FtTypes'
  BY <1>1, <1>2, <1>3, <1>5 DEF FtTypes, InItem, Making, Deciding
<1>7. FoldersFirst'
  <2>1. SUFFICES ASSUME ~switched PROVE FoldersFirst'
    BY <1>1 DEF FoldersFirst
  <2>2. /\ Laid /\ FilesFollowFolders /\ (\A d \in ft.dirs : Based(d))
        /\ \A e \in ft.files : Based(e)
    BY <1>1, <1>3, <2>1 DEF TransferInv, FoldersFirst, InItem, Making
  <2>3. \A d : Ready(d) => Ready(d)'
    BY <1>4, <1>5, <2>2 DEF Ready
  <2>4. Laid'
    BY <1>1, <2>2, <2>3, LaidStays DEF ToList
  <2> QED BY <1>1, <1>2, <1>5, <2>2, <2>4 DEF FoldersFirst, Making, Deciding
<1>8. CacheKnows'
  <2>1. PICK new : new = Makes(Dest, ft.dirs \ failed)
    OBVIOUS
  <2> DEFINE keys == {Key(d) : d \in new}
  <2>2. cache' = [k \in DOMAIN cache \cup keys |-> IF k \in keys THEN {} ELSE cache[k]]
    BY <1>10, <2>1 DEF CacheSet
  <2>3. \A k \in DOMAIN cache' : IsFiniteSet(cache'[k])
    BY <2>2, FS_EmptySet DEF TransferInv, CacheKnows
  <2>4. ASSUME ~switched, Dest \notin Cloud, NEW e \in held'[Dest] \ Dirs,
               Key(Front(e)) \in DOMAIN cache'
        PROVE  Last(e) \in cache'[Key(Front(e))] \/ Front(e) \in unlisted
    <3>1. e \in held[Dest] \ Dirs /\ e \in Path
      BY <1>3, <1>5, <2>4 DEF Held
    <3>2. Key(Front(e)) \notin keys
      <4>1. SUFFICES ASSUME NEW d \in new, Key(d) = Key(Front(e)) PROVE FALSE
        OBVIOUS
      <4>2. d = Front(e)
        BY <4>1 DEF Key
      <4>3. d \in Dirs /\ d \notin held[Dest]
        BY <1>3, <2>1, <2>4 DEF Makes
      <4>4. Len(d) \in Nat \ {0} /\ d \in Path
        BY <4>3, WalkAssumption, EmptySeq DEF Path
      <4>5. e \in Seq(Seq(Word)) /\ e # <<>>
        BY <3>1 DEF Path
      <4>6. Len(Front(e)) = Len(e) - 1 /\ Len(e) \in Nat
        BY <4>5, FrontFacts, LenProperties
      <4>7. Len(e) > 1
        BY <4>2, <4>4, <4>6
      <4>8. IsPrefix(d, e) /\ d # e
        BY <3>1, <4>2, <4>7, FrontOfPath
      <4>9. held[Dest] \subseteq Path /\ IsTree(held[Dest])
        BY <1>3, <1>5 DEF Held
      <4>10. d \in held[Dest]
        BY <3>1, <4>4, <4>8, <4>9, AboveInTree
      <4> QED BY <4>3, <4>10
    <3>3. Key(Front(e)) \in DOMAIN cache /\ cache'[Key(Front(e))] = cache[Key(Front(e))]
      BY <2>2, <2>4, <3>2
    <3> QED BY <1>1, <2>4, <3>1, <3>3 DEF TransferInv, CacheKnows, InItem, Making
  <2>5. cache' = [k \in DOMAIN cache' |-> cache'[k]]
    BY <2>2
  <2> HIDE DEF keys
  <2>6. \A x : Key(x)' = Key(x)
    BY <1>2 DEF Key
  <2> QED BY <1>1, <1>2, <1>5, <2>3, <2>4, <2>5, <2>6 DEF TransferInv, CacheKnows, InItem, Deciding
<1>9. WalkTypes'
  BY <1>1, <1>3 DEF WalkTypes, ToList
<1> QED BY <1>5, <1>6, <1>7, <1>8, <1>9 DEF TransferInv

(* mkdir_many fails: its directories are still to be made. *)
LEMMA FailsStep ==
    ASSUME TransferInv, MkdirManyFails PROVE TransferInv'
<1>1. /\ ft.pc = "mkdir" /\ Goto("each")
      /\ UNCHANGED <<active, held, walk, messages, cache, rule, queued, switched, unmade, unlisted>>
  BY DEF MkdirManyFails, walkVars, history
<1>2. /\ Shape(ft') /\ ft'.pc = "each" /\ ft'.files = ft.files /\ ft'.up = ft.up
      /\ ft'.batch = ft.batch /\ ft'.items = ft.items /\ ft'.dirs = ft.dirs
  BY <1>1, GotoFacts DEF TransferInv, FtTypes
<1>3. FtTypes'
  BY <1>1, <1>2, HeldStill DEF TransferInv, FtTypes, InItem, Making, Deciding
<1>4. FoldersFirst'
  <2>1. SUFFICES ASSUME ~switched PROVE FoldersFirst'
    BY <1>1 DEF FoldersFirst
  <2>2. /\ Head(ft.items) \in Dirs => Laid
        /\ FilesFollowFolders /\ (\A d \in ft.dirs : Based(d)) /\ \A e \in ft.files : Based(e)
    BY <1>1, <2>1 DEF TransferInv, FoldersFirst, InItem, Making
  <2>3. \A d : Ready(d) => Ready(d)'
    BY <1>1, <1>2, HeldStill DEF Ready, Making
  <2>4. Head(ft.items) \in Dirs => Laid'
    BY <1>1, <2>2, <2>3, LaidStays DEF ToList
  <2> QED BY <1>1, <1>2, <2>2, <2>4, HeldStill DEF FoldersFirst, Making, Deciding
<1>5. CacheKnows'
  BY <1>1, <1>2, HeldStill DEF TransferInv, CacheKnows, InItem, Making, Deciding, Key
<1>6. Held' /\ WalkTypes'
  BY <1>1 DEF TransferInv, Held, WalkTypes, ToList
<1> QED BY <1>3, <1>4, <1>5, <1>6 DEF TransferInv

(* The directories of a message are made one by one. *)
LEMMA EachStep ==
    ASSUME TransferInv, MkdirEach PROVE TransferInv'
<1>1. /\ ft.pc = "each"
      /\ UNCHANGED <<active, walk, messages, cache, rule, queued, switched, unlisted>>
  BY DEF MkdirEach, walkVars
<1>2. /\ Held /\ FtTypes /\ WalkTypes /\ Shape(ft) /\ Head(ft.items) \in Dirs
      /\ ft.dirs \subseteq Dirs
  BY <1>1 DEF TransferInv, FtTypes, Making
<1>3. WalkTypes'
  BY <1>1, <1>2 DEF WalkTypes, ToList
<1>4. ASSUME ~switched
      PROVE  /\ Laid /\ FilesFollowFolders /\ (\A d \in ft.dirs : Based(d))
             /\ \A e \in ft.files : Based(e)
  BY <1>1, <1>2, <1>4 DEF TransferInv, FoldersFirst, InItem, Making
<1>5. CASE ft.dirs = {}
  <2>1. Goto("files") /\ UNCHANGED <<held, unmade>>
    BY <1>5 DEF MkdirEach
  <2>2. /\ Shape(ft') /\ ft'.pc = "files" /\ ft'.files = ft.files /\ ft'.up = ft.up
        /\ ft'.batch = ft.batch /\ ft'.items = ft.items /\ ft'.dirs = ft.dirs
    BY <1>2, <2>1, GotoFacts
  <2>3. FtTypes'
    BY <1>1, <1>2, <2>1, <2>2, HeldStill DEF FtTypes, InItem, Making, Deciding
  <2>4. FoldersFirst'
    <3>1. SUFFICES ASSUME ~switched PROVE FoldersFirst'
      BY <1>1 DEF FoldersFirst
    <3>2. \A d : Ready(d) => Ready(d)'
      BY <1>1, <1>5, <2>1, <2>2, HeldStill DEF Ready
    <3>3. Laid'
      BY <1>1, <1>4, <3>1, <3>2, LaidStays DEF ToList
    <3> QED BY <1>1, <1>4, <2>1, <2>2, <3>1, <3>3, HeldStill DEF FoldersFirst, Making, Deciding
  <2>5. CacheKnows'
    BY <1>1, <2>1, <2>2, HeldStill DEF TransferInv, CacheKnows, InItem, Making, Deciding, Key
  <2>6. Held'
    BY <1>1, <1>2, <2>1 DEF Held
  <2> QED BY <1>3, <2>3, <2>4, <2>5, <2>6 DEF TransferInv
<1>6. CASE ft.dirs # {}
  <2>7. PICK d \in ft.dirs : \E failed \in Failing({d}) :
          Make(Dest, {d}, failed) /\ ft' = [ft EXCEPT !.dirs = @ \ {d}]
    BY <1>6 DEF MkdirEach
  <2>1. PICK failed \in SUBSET {d} :
          Make(Dest, {d}, failed) /\ ft' = [ft EXCEPT !.dirs = @ \ {d}]
    BY <2>7 DEF Failing
  <2>2. /\ Shape(ft') /\ ft'.pc = "each" /\ ft'.files = ft.files /\ ft'.up = ft.up
        /\ ft'.batch = ft.batch /\ ft'.items = ft.items /\ ft'.dirs = ft.dirs \ {d}
    BY <1>1, <1>2, <2>1 DEF Shape
  <2>3. /\ Held' /\ Dest' = Dest /\ unmade' \subseteq Dirs
        /\ held[Dest] \subseteq held'[Dest] /\ held'[Dest] \ Dirs = held[Dest] \ Dirs
        /\ \A x : There(x) => There(x)'
        /\ Based(d) => There(d)'
        /\ \A e : Based(e) => Based(e)'
        /\ FilesFollowFolders => FilesFollowFolders'
        /\ FreshTargets => FreshTargets'
        /\ (~switched => \A q \in queued : q.at = Dest)'
    <3>1. {d} \in SUBSET Dirs /\ failed \in SUBSET {d}
      BY <1>2
    <3> QED BY <1>1, <1>2, <2>1, <2>2, <3>1, Growth
  <2>4. FtTypes'
    BY <1>1, <1>2, <2>2, <2>3 DEF FtTypes, InItem, Making, Deciding
  <2>5. FoldersFirst'
    <3>1. SUFFICES ASSUME ~switched PROVE FoldersFirst'
      BY <1>1 DEF FoldersFirst
    <3>2. \A x : Ready(x) => Ready(x)'
      BY <1>1, <1>4, <2>2, <2>3, <3>1 DEF Ready, Making
    <3>3. Laid'
      BY <1>1, <1>4, <3>1, <3>2, LaidStays DEF ToList
    <3> QED BY <1>1, <1>4, <2>2, <2>3, <3>1, <3>3 DEF FoldersFirst, Making, Deciding
  <2>6. CacheKnows'
    BY <1>1, <2>2, <2>3 DEF TransferInv, CacheKnows, InItem, Making, Deciding, Key
  <2> QED BY <1>3, <2>3, <2>4, <2>5, <2>6 DEF TransferInv
<1> QED BY <1>5, <1>6

(* Nothing moves but what the transfer is busy with: what is left to show. *)
LEMMA FilesStill ==
    ASSUME TransferInv, ft.pc \in {"files"} \cup Deciding, ft'.pc \in {"files", "wait"} \cup Deciding,
           Shape(ft'), ft'.up = ft.up, ft'.batch \in Answers, ft'.items = ft.items,
           ft'.dirs = ft.dirs, ft'.files \subseteq ft.files,
           ft'.pc = "wait" => Head(ft.items) \in Dirs,
           ft'.pc \in Deciding => /\ ft'.file \in ft.files \/ (ft.pc \in Deciding /\ ft'.file = ft.file)
                                  /\ ft'.pc = "enqueue" \/ ft'.name = Last(ft'.file),
           rule' \in [BOOLEAN -> [setting : Policy, session : Policy \cup {NoRule}]],
           UNCHANGED <<active, held, walk, messages, queued, switched, unmade>>,
           unlisted \subseteq unlisted'
    PROVE  Held' /\ WalkTypes' /\ FtTypes' /\ FoldersFirst'
<1>1. FtTypes /\ ft.pc # "idle" /\ ft.pc \in InItem /\ ft.pc \notin Making
  BY DEF TransferInv, Deciding, InItem, Making
<1>2. /\ ft'.pc \in InItem /\ ft'.pc \notin Making /\ ft'.pc \notin {"idle", "item", "scan"}
      /\ UNCHANGED <<active, held, walk, messages, queued, switched, unmade>>
  BY DEF Deciding, InItem, Making
<1>3. FtTypes'
  <2>1. ft'.pc \in Deciding => ft'.file \in Path
    BY <1>1 DEF FtTypes
  <2>2. ft'.pc \in {"look", "prompt"} => ft'.name = Last(ft'.file)
    BY DEF Deciding
  <2>3. ft'.pc \in {"scan", "wait"} \cup Making => Head(ft'.items) \in Dirs
    BY <1>2
  <2> QED BY <1>1, <1>2, <2>1, <2>2, <2>3, HeldStill DEF FtTypes
<1>4. FoldersFirst'
  <2>1. SUFFICES ASSUME ~switched PROVE FoldersFirst'
    BY <1>2 DEF FoldersFirst
  <2>2. /\ Head(ft.items) \in Dirs => Laid
        /\ FilesFollowFolders /\ (\A e \in ft.files : Based(e))
        /\ ft.pc \in Deciding => Based(ft.file)
    BY <1>1, <2>1 DEF TransferInv, FoldersFirst
  <2>3. \A d : Ready(d) => Ready(d)'
    BY <1>1, <1>2, HeldStill DEF Ready
  <2>4. Head(ft.items) \in Dirs => Laid'
    BY <1>2, <2>2, <2>3, LaidStays DEF ToList
  <2>5. ft'.pc \in Deciding => Based(ft.file)'
    <3>1. PICK e : e = ft'.file
      OBVIOUS
    <3>2. ft'.pc \in Deciding => Based(e)'
      BY <1>2, <2>2, <3>1, HeldStill
    <3> QED BY <3>1, <3>2 DEF Based
  <2> QED BY <1>2, <2>2, <2>4, <2>5, HeldStill DEF FoldersFirst
<1>5. Held' /\ WalkTypes'
  BY <1>2 DEF TransferInv, Held, WalkTypes, ToList
<1> QED BY <1>3, <1>4, <1>5

(* The cache stays right where nothing is entered and nothing moves. *)
LEMMA CacheStill ==
    ASSUME TransferInv, ft.pc \in InItem, ft'.pc \in InItem \ {"prompt"}, ft'.up = ft.up,
           ft'.pc = "enqueue" => ft'.how \notin {"free", "rename"},
           UNCHANGED <<active, held, cache, queued, switched, unmade, unlisted>>
    PROVE  CacheKnows'
BY HeldStill DEF TransferInv, CacheKnows, Key

(* The next file of the message. *)
LEMMA NextFileStep ==
    ASSUME TransferInv, NextFile PROVE TransferInv'
<1>1. PICK e \in ft.files :
        ft' = [ft EXCEPT !.files = @ \ {e}, !.file = e, !.name = Name(e), !.how = "overwrite",
                         !.pc = IF Effective(ft) = "overwrite" THEN "enqueue" ELSE "look"]
  BY DEF NextFile
<1>2. /\ ft.pc = "files"
      /\ UNCHANGED <<active, held, walk, messages, cache, rule, queued, switched, unmade, unlisted>>
  BY DEF NextFile, walkVars, history
<1>3. /\ Shape(ft') /\ ft'.pc \in {"look", "enqueue"} /\ ft'.up = ft.up /\ ft'.batch = ft.batch
      /\ ft'.items = ft.items /\ ft'.dirs = ft.dirs /\ ft'.files = ft.files \ {e}
      /\ ft'.file = e /\ ft'.name = Last(e) /\ ft'.how = "overwrite"
  <2>1. Shape(ft)
    BY DEF TransferInv, FtTypes
  <2> DEFINE pc == IF Effective(ft) = "overwrite" THEN "enqueue" ELSE "look"
  <2>2. pc \in {"look", "enqueue"}
    OBVIOUS
  <2>3. ft' = [ft EXCEPT !.files = @ \ {e}, !.file = e, !.name = Last(e), !.how = "overwrite",
                         !.pc = pc]
    BY <1>1 DEF Name
  <2> HIDE DEF pc
  <2> QED BY <2>1, <2>2, <2>3 DEF Shape
<1>4. /\ ft.batch \in Answers
      /\ rule \in [BOOLEAN -> [setting : Policy, session : Policy \cup {NoRule}]]
  BY DEF TransferInv, FtTypes
<1>5. Held' /\ WalkTypes' /\ FtTypes' /\ FoldersFirst'
  BY <1>2, <1>3, <1>4, FilesStill DEF Deciding, history
<1>6. CacheKnows'
  BY <1>2, <1>3, CacheStill DEF InItem, Deciding
<1> QED BY <1>5, <1>6 DEF TransferInv

(* The files of a message are done: the next message, or the next item. *)
LEMMA FilesDoneStep ==
    ASSUME TransferInv, FilesDone PROVE TransferInv'
<1>1. /\ ft.pc = "files" /\ ft.files = {}
      /\ UNCHANGED <<active, held, walk, messages, cache, rule, queued, switched, unmade, unlisted>>
  BY DEF FilesDone, walkVars, history
<1>2. /\ Shape(ft) /\ ft.batch \in Answers
      /\ rule \in [BOOLEAN -> [setting : Policy, session : Policy \cup {NoRule}]]
  BY DEF TransferInv, FtTypes
<1>3. CASE Head(ft.items) \in Dirs
  <2>1. Goto("wait")
    BY <1>3 DEF FilesDone
  <2>2. /\ Shape(ft') /\ ft'.pc = "wait" /\ ft'.files = ft.files /\ ft'.up = ft.up
        /\ ft'.batch = ft.batch /\ ft'.items = ft.items /\ ft'.dirs = ft.dirs
    BY <1>2, <2>1, GotoFacts
  <2>3. Held' /\ WalkTypes' /\ FtTypes' /\ FoldersFirst'
    BY <1>1, <1>2, <1>3, <2>2, FilesStill DEF Deciding, history
  <2>4. CacheKnows'
    BY <1>1, <2>2, CacheStill DEF InItem, Deciding
  <2> QED BY <2>3, <2>4 DEF TransferInv
<1>4. CASE Head(ft.items) \notin Dirs
  <2>1. NextItem(ft)
    BY <1>4 DEF FilesDone
  <2>2. PICK f : f = ft
    OBVIOUS
  <2>3. NextItem(f)
    BY <2>1, <2>2
  <2>4. Held' /\ FtTypes' /\ FoldersFirst' /\ CacheKnows'
    BY <1>1, <1>2, <2>2, <2>3, OnToTheNext DEF history
  <2>5. WalkTypes'
    BY <1>1 DEF TransferInv, WalkTypes, ToList
  <2> QED BY <2>4, <2>5 DEF TransferInv
<1> QED BY <1>3, <1>4

(* What is known about a directory is all that is in it, unless its listing failed. *)
LEMMA Entered ==
    ASSUME Held, FtTypes, CacheKnows, ft.pc \in InItem, NEW dir, NEW taken,
           \/ taken = IF Key(dir) \in DOMAIN cache THEN cache[Key(dir)] ELSE Names(Dest, dir)
           \/ taken = {} /\ dir \in unlisted' /\ Key(dir) \notin DOMAIN cache,
           unlisted \subseteq unlisted', CacheSet({dir}, taken)
    PROVE  /\ IsFiniteSet(taken) /\ Key(dir) \in DOMAIN cache' /\ cache'[Key(dir)] = taken
           /\ cache' = [k \in DOMAIN cache' |-> cache'[k]]
           /\ \A k \in DOMAIN cache' : IsFiniteSet(cache'[k])
           /\ ~switched /\ Dest \notin Cloud =>
                 \A e \in held[Dest] \ Dirs :
                    Key(Front(e)) \in DOMAIN cache' =>
                        Last(e) \in cache'[Key(Front(e))] \/ Front(e) \in unlisted'
<1>1. cache' = [k \in DOMAIN cache \cup {Key(dir)} |-> IF k \in {Key(dir)} THEN taken ELSE cache[k]]
  <2>1. {Key(x) : x \in {dir}} = {Key(dir)}
    OBVIOUS
  <2> QED BY <2>1 DEF CacheSet
<1>2. Dest \in Places /\ held[Dest] \subseteq Path
  BY DestFacts DEF Held
<1>3. IsFiniteSet(taken)
  BY <1>2, NamesFinite, FS_EmptySet DEF CacheKnows
<1>4. ASSUME ~switched, Dest \notin Cloud, NEW e \in held[Dest] \ Dirs,
             Key(Front(e)) \in DOMAIN cache'
      PROVE  Last(e) \in cache'[Key(Front(e))] \/ Front(e) \in unlisted'
  <2>1. CASE Key(Front(e)) \in DOMAIN cache
    <3>1. Last(e) \in cache[Key(Front(e))] \/ Front(e) \in unlisted
      BY <1>4, <2>1 DEF CacheKnows
    <3> QED BY <1>1, <2>1, <3>1
  <2>2. CASE Key(Front(e)) \notin DOMAIN cache
    <3>1. Key(Front(e)) = Key(dir) /\ cache'[Key(Front(e))] = taken
      BY <1>1, <1>4, <2>2
    <3>2. Front(e) = dir /\ e # <<>>
      BY <1>2, <3>1 DEF Key, Path
    <3>3. e \in Children(Dest, dir)
      BY <3>2 DEF Children
    <3>4. taken = Names(Dest, dir) \/ dir \in unlisted'
      BY <2>2, <3>1
    <3> QED BY <3>1, <3>2, <3>3, <3>4 DEF Names, Name
  <2> QED BY <2>1, <2>2
<1>5. \A k \in DOMAIN cache' : IsFiniteSet(cache'[k])
  BY <1>1, <1>3 DEF CacheKnows
<1> QED BY <1>1, <1>3, <1>4, <1>5

(* What an answer makes of the file: it proceeds, or is skipped. *)
LEMMA AnswerFacts ==
    ASSUME NEW f, Shape(f), NEW policy, NEW taken, Answer(f, policy, taken),
           f.name \in Seq(Word), IsFiniteSet(taken)
    PROVE  /\ Shape(ft') /\ ft'.pc \in {"enqueue", "files"} /\ ft'.how = policy
           /\ ft'.up = f.up /\ ft'.batch = f.batch /\ ft'.items = f.items
           /\ ft'.dirs = f.dirs /\ ft'.files = f.files /\ ft'.file = f.file
           /\ policy = "rename" => ft'.name \notin taken
<1> DEFINE pc == IF Proceeds(policy, CanResume) THEN "enqueue" ELSE "files"
           name == IF policy = "rename" THEN DedupeName(f.name, taken) ELSE f.name
<1>1. ft' = [f EXCEPT !.pc = pc, !.how = policy, !.name = name]
  BY DEF Answer, Shape
<1>2. pc \in {"enqueue", "files"}
  OBVIOUS
<1>3. policy = "rename" => name \notin taken
  BY Deduped
<1> HIDE DEF pc, name
<1> QED BY <1>1, <1>2, <1>3 DEF Shape

(* The policy in force is one of the policies. *)
LEMMA PolicyInForce ==
    ASSUME FtTypes PROVE Effective(ft) \in Policy
<1>1. /\ ft.batch \in Answers /\ ft.up \in BOOLEAN
      /\ rule \in [BOOLEAN -> [setting : Policy, session : Policy \cup {NoRule}]]
  BY DEF FtTypes
<1>2. rule[ft.up].setting \in Policy /\ rule[ft.up].session \in Policy \cup {NoRule}
  BY <1>1
<1>3. ft.batch.action \in Policy \cup {NoRule}
  BY <1>1 DEF Answers
<1> QED BY <1>2, <1>3 DEF Effective

(* A name that the listing did not have is no file at the destination. *)
LEMMA DecisionKept ==
    ASSUME TransferInv, ft.pc \in {"look", "prompt"}, ft'.pc \in {"files", "prompt", "enqueue"},
           ft'.up = ft.up, ft'.file = ft.file, NEW k, k = Key(Front(ft.file)),
           k \in DOMAIN cache', cache' = [i \in DOMAIN cache' |-> cache'[i]],
           \A i \in DOMAIN cache' : IsFiniteSet(cache'[i]),
           ~switched /\ Dest \notin Cloud =>
              \A e \in held[Dest] \ Dirs :
                 Key(Front(e)) \in DOMAIN cache' =>
                     Last(e) \in cache'[Key(Front(e))] \/ Front(e) \in unlisted',
           ft'.pc = "enqueue" /\ ft'.how \in {"free", "rename"} => ft'.name \notin cache'[k],
           UNCHANGED <<active, held, queued, switched, unmade>>, unlisted \subseteq unlisted'
    PROVE  CacheKnows'
<1>1. Dest' = Dest /\ FreshTargets' /\ ft.file \in Path
  BY HeldStill DEF TransferInv, CacheKnows, FtTypes, Deciding
<1>2. \A x : Key(x)' = Key(x)
  BY DEF Key
<1>3. ASSUME ~switched, Dest \notin Cloud, ft'.pc = "enqueue", ft'.how \in {"free", "rename"},
             Target' \in held[Dest] \ Dirs
      PROVE  Front(ft.file) \in unlisted'
  <2>1. Target' = Append(Front(ft.file), ft'.name)
    BY DEF Target
  <2>2. Front(Target') = Front(ft.file) /\ Last(Target') = ft'.name
    BY <1>1, <2>1, InItsPlace
  <2>3. Key(Front(Target')) = k
    BY <2>2
  <2>4. ft'.name \in cache'[k] \/ Front(ft.file) \in unlisted'
    BY <1>3, <2>2, <2>3
  <2> QED BY <1>3, <2>4
<1> QED BY <1>1, <1>2, <1>3 DEF CacheKnows

(* The name is looked up: free, asked about, or answered by the policy in force. *)
LEMMA LookStep ==
    ASSUME TransferInv, Look PROVE TransferInv'
<1> DEFINE dir == Front(ft.file)
           known == IF Key(dir) \in DOMAIN cache THEN cache[Key(dir)] ELSE Names(Dest, dir)
           policy == Effective(ft)
<1>10. /\ ft.pc = "look"
       /\ UNCHANGED <<active, held, walk, messages, rule, queued, switched, unmade>>
       /\ \/ Compare(dir, known) /\ unlisted' = unlisted
          \/ /\ Compare(dir, {}) /\ Key(dir) \notin DOMAIN cache
             /\ unlisted' = unlisted \cup {dir}
  BY DEF Look, walkVars
<1>11. PICK taken : /\ Compare(dir, taken)
                    /\ \/ taken = known
                       \/ taken = {} /\ dir \in unlisted' /\ Key(dir) \notin DOMAIN cache
  BY <1>10
<1>1. /\ ft.pc = "look" /\ CacheSet({dir}, taken) /\ unlisted \subseteq unlisted'
      /\ UNCHANGED <<active, held, walk, messages, rule, queued, switched, unmade>>
      /\ \/ ft.name \notin taken /\ ft' = [ft EXCEPT !.pc = "enqueue", !.how = "free"]
         \/ Goto("prompt")
         \/ policy # "ask" /\ Answer(ft, policy, taken)
  BY <1>10, <1>11 DEF Compare
<1>2. /\ Held /\ FtTypes /\ CacheKnows /\ Shape(ft) /\ ft.batch \in Answers /\ ft.file \in Path
      /\ ft.name = Last(ft.file) /\ ft.pc \in InItem
      /\ rule \in [BOOLEAN -> [setting : Policy, session : Policy \cup {NoRule}]]
  BY <1>1 DEF TransferInv, FtTypes, InItem, Deciding
<1>3. ft.name \in Seq(Word)
  <2>1. ft.file \in Seq(Seq(Word)) /\ ft.file # <<>>
    BY <1>2 DEF Path
  <2> QED BY <1>2, <2>1, FrontFacts
<1>4. policy # "free"
  BY <1>2, PolicyInForce, TransferAssumption
<1>5. PICK t, d, pol : t = taken /\ d = dir /\ pol = policy
  OBVIOUS
<1>6. /\ IsFiniteSet(t) /\ Key(d) \in DOMAIN cache' /\ cache'[Key(d)] = t
      /\ cache' = [k \in DOMAIN cache' |-> cache'[k]]
      /\ \A k \in DOMAIN cache' : IsFiniteSet(cache'[k])
      /\ ~switched /\ Dest \notin Cloud =>
            \A e \in held[Dest] \ Dirs :
               Key(Front(e)) \in DOMAIN cache' =>
                   Last(e) \in cache'[Key(Front(e))] \/ Front(e) \in unlisted'
  BY <1>1, <1>2, <1>5, <1>11, Entered
<1> HIDE DEF dir, known, policy
<1>7. /\ Shape(ft') /\ ft'.pc \in {"files", "prompt", "enqueue"}
      /\ ft'.up = ft.up /\ ft'.batch = ft.batch /\ ft'.items = ft.items /\ ft'.dirs = ft.dirs
      /\ ft'.files = ft.files /\ ft'.file = ft.file
      /\ ft'.pc = "prompt" => ft'.name = ft.name
      /\ ft'.pc = "enqueue" /\ ft'.how \in {"free", "rename"} => ft'.name \notin t
  <2>1. CASE ft.name \notin taken /\ ft' = [ft EXCEPT !.pc = "enqueue", !.how = "free"]
    BY <1>2, <1>5, <2>1 DEF Shape
  <2>2. CASE Goto("prompt")
    BY <1>2, <2>2, GotoFacts
  <2>3. CASE Answer(ft, policy, taken)
    <3>1. PICK f : f = ft
      OBVIOUS
    <3>2. Answer(f, pol, t)
      BY <1>5, <2>3, <3>1
    <3>3. /\ Shape(ft') /\ ft'.pc \in {"enqueue", "files"} /\ ft'.how = pol
          /\ ft'.up = f.up /\ ft'.batch = f.batch /\ ft'.items = f.items
          /\ ft'.dirs = f.dirs /\ ft'.files = f.files /\ ft'.file = f.file
          /\ pol = "rename" => ft'.name \notin t
      BY <1>2, <1>3, <1>6, <3>1, <3>2, AnswerFacts
    <3> QED BY <1>4, <1>5, <3>1, <3>3
  <2> QED BY <1>1, <2>1, <2>2, <2>3
<1>8. Held' /\ WalkTypes' /\ FtTypes' /\ FoldersFirst'
  BY <1>1, <1>2, <1>7, FilesStill DEF Deciding, history
<1>9. CacheKnows'
  <2>1. PICK k : k = Key(Front(ft.file))
    OBVIOUS
  <2>2. k = Key(d)
    BY <1>5, <2>1 DEF dir
  <2> QED BY <1>1, <1>6, <1>7, <2>1, <2>2, DecisionKept
<1> QED BY <1>8, <1>9 DEF TransferInv

(* The user answers the dialog, perhaps for the files to come too. *)
LEMMA AnsweredStep ==
    ASSUME TransferInv, PromptAnswered PROVE TransferInv'
<1>1. /\ ft.pc = "prompt"
      /\ UNCHANGED <<active, held, walk, messages, cache, queued, switched, unmade, unlisted>>
  BY DEF PromptAnswered, walkVars, history
<1>2. PICK c \in Offered :
        /\ Answer([ft EXCEPT !.batch.action = IF c.scope = "batch" THEN c.action ELSE @],
                  c.action, cache[Key(Front(ft.file))])
        /\ rule' = [rule EXCEPT ![ft.up] =
              [session |-> IF c.scope = "session" THEN c.action ELSE @.session,
               setting |-> IF c.scope = "always" THEN c.action ELSE @.setting]]
  BY DEF PromptAnswered
<1>3. /\ Shape(ft) /\ ft.batch \in Answers /\ ft.file \in Path /\ ft.up \in BOOLEAN
      /\ ft.name = Last(ft.file) /\ ft.pc \in InItem
      /\ rule \in [BOOLEAN -> [setting : Policy, session : Policy \cup {NoRule}]]
  BY <1>1 DEF TransferInv, FtTypes, InItem, Deciding
<1>4. ft.name \in Seq(Word)
  <2>1. ft.file \in Seq(Seq(Word)) /\ ft.file # <<>>
    BY <1>3 DEF Path
  <2> QED BY <1>3, <2>1, FrontFacts
<1>5. c.action \in Policy /\ c.action # "free"
  BY TransferAssumption DEF Offered
<1>6. rule' \in [BOOLEAN -> [setting : Policy, session : Policy \cup {NoRule}]]
  BY <1>2, <1>3, <1>5
<1>7. PICK f, t, k : /\ f = [ft EXCEPT !.batch.action = IF c.scope = "batch" THEN c.action ELSE @]
                     /\ t = cache[Key(Front(ft.file))] /\ k = Key(Front(ft.file))
  OBVIOUS
<1>8. f = [ft EXCEPT !.batch = [ft.batch EXCEPT !.action =
                                   IF c.scope = "batch" THEN c.action ELSE ft.batch.action]]
  BY <1>3, <1>7 DEF Shape, Answers
<1>9. [ft.batch EXCEPT !.action = IF c.scope = "batch" THEN c.action ELSE ft.batch.action] \in Answers
  BY <1>3, <1>5 DEF Answers
<1>10. /\ Shape(f) /\ f.batch \in Answers /\ f.name = ft.name /\ f.up = ft.up /\ f.items = ft.items
       /\ f.dirs = ft.dirs /\ f.files = ft.files /\ f.file = ft.file
  BY <1>3, <1>8, <1>9 DEF Shape
<1>11. /\ k \in DOMAIN cache /\ IsFiniteSet(t)
       /\ cache = [i \in DOMAIN cache |-> cache[i]] /\ \A i \in DOMAIN cache : IsFiniteSet(cache[i])
       /\ ~switched /\ Dest \notin Cloud =>
             \A e \in held[Dest] \ Dirs :
                Key(Front(e)) \in DOMAIN cache =>
                    Last(e) \in cache[Key(Front(e))] \/ Front(e) \in unlisted
  BY <1>1, <1>3, <1>7 DEF TransferInv, CacheKnows
<1>12. Answer(f, c.action, t)
  BY <1>2, <1>7
<1>13. /\ Shape(ft') /\ ft'.pc \in {"enqueue", "files"} /\ ft'.how = c.action
       /\ ft'.up = f.up /\ ft'.batch = f.batch /\ ft'.items = f.items
       /\ ft'.dirs = f.dirs /\ ft'.files = f.files /\ ft'.file = f.file
       /\ c.action = "rename" => ft'.name \notin t
  BY <1>4, <1>10, <1>11, <1>12, AnswerFacts
<1>14. Held' /\ WalkTypes' /\ FtTypes' /\ FoldersFirst'
  BY <1>1, <1>6, <1>10, <1>13, FilesStill DEF Deciding, history
<1>15. CacheKnows'
  BY <1>1, <1>5, <1>7, <1>10, <1>11, <1>13, DecisionKept
<1> QED BY <1>14, <1>15 DEF TransferInv

(* A cancelled walk disturbs nothing of the transfer. *)
LEMMA CancelStep ==
    ASSUME TransferInv, walk' \in {Cancelled(walk), walk},
           UNCHANGED <<active, held, messages, ft, cache, rule, queued, switched, unmade, unlisted>>
    PROVE  TransferInv'
<1>1. WalkTypes' /\ ToList' = ToList /\ walk.st' = walk.st /\ walk.root' = walk.root
  BY CancelFacts DEF TransferInv
<1>2. \A d : Ready(d) => Ready(d)'
  BY DEF Ready, There, Lost, Dest
<1>3. Laid => Laid'
  BY <1>1, <1>2, LaidStays
<1>4. FoldersFirst'
  BY <1>3, HeldStill DEF TransferInv, FoldersFirst
<1>5. FtTypes'
  BY HeldStill DEF TransferInv, FtTypes
<1>6. CacheKnows'
  <2>1. \A x : Key(x)' = Key(x)
    BY DEF Key
  <2>2. Target' = Target
    BY DEF Target
  <2> QED BY <2>1, <2>2, HeldStill DEF TransferInv, CacheKnows
<1>7. Held'
  BY DEF TransferInv, Held
<1> QED BY <1>1, <1>4, <1>5, <1>6, <1>7 DEF TransferInv

(* The dialog is cancelled: the file is left out, or what is left of the batch is. *)
LEMMA PromptCancelledStep ==
    ASSUME TransferInv, PromptCancelled PROVE TransferInv'
<1>1. /\ ft.pc = "prompt" /\ walk' \in {Cancelled(walk), walk}
      /\ UNCHANGED <<active, held, messages, cache, rule, queued, switched, unmade, unlisted>>
  BY DEF PromptCancelled, history
<1>2. /\ Shape(ft) /\ ft.batch \in Answers
      /\ rule \in [BOOLEAN -> [setting : Policy, session : Policy \cup {NoRule}]]
  BY DEF TransferInv, FtTypes
<1>3. WalkTypes' /\ ToList' = ToList /\ walk.st' = walk.st /\ walk.root' = walk.root
  BY <1>1, CancelFacts DEF TransferInv
<1>4. CASE InBatch
  <2>1. NextItem([ft EXCEPT !.batch.aborted = TRUE])
    BY <1>4 DEF PromptCancelled
  <2>2. PICK f : f = [ft EXCEPT !.batch.aborted = TRUE]
    OBVIOUS
  <2>3. NextItem(f)
    BY <2>1, <2>2
  <2>4. f = [ft EXCEPT !.batch = [ft.batch EXCEPT !.aborted = TRUE]]
    BY <1>2, <2>2 DEF Shape, Answers
  <2>5. [ft.batch EXCEPT !.aborted = TRUE] \in Answers
    BY <1>2 DEF Answers
  <2>6. /\ Shape(f) /\ f.batch \in Answers /\ f.up = ft.up /\ f.items = ft.items
        /\ f.dirs = ft.dirs /\ f.files = ft.files
    BY <1>2, <2>4, <2>5 DEF Shape
  <2>7. Held' /\ FtTypes' /\ FoldersFirst' /\ CacheKnows'
    BY <1>1, <2>3, <2>6, OnToTheNext DEF history
  <2> QED BY <1>3, <2>7 DEF TransferInv
<1>5. CASE ~InBatch
  <2>1. Goto("files")
    BY <1>5 DEF PromptCancelled
  <2>2. walk' = walk
    BY <1>5 DEF PromptCancelled, InBatch
  <2>3. /\ Shape(ft') /\ ft'.pc = "files" /\ ft'.files = ft.files /\ ft'.up = ft.up
        /\ ft'.batch = ft.batch /\ ft'.items = ft.items /\ ft'.dirs = ft.dirs
    BY <1>2, <2>1, GotoFacts
  <2>4. Held' /\ WalkTypes' /\ FtTypes' /\ FoldersFirst'
    BY <1>1, <1>2, <2>2, <2>3, FilesStill DEF Deciding, history
  <2>5. CacheKnows'
    BY <1>1, <2>3, CacheStill DEF InItem, Deciding
  <2> QED BY <2>4, <2>5 DEF TransferInv
<1> QED BY <1>4, <1>5

(* A request is enqueued: its directory is there, and its name free if it should be. *)
LEMMA EnqueueStep ==
    ASSUME TransferInv, Enqueue PROVE TransferInv'
<1> DEFINE q == [src |-> ft.file, dst |-> Append(Front(ft.file), ft.name),
                 conn |-> active, at |-> Dest, how |-> ft.how]
<1>1. /\ ft.pc = "enqueue" /\ queued' = queued \cup {q} /\ Goto("files")
      /\ UNCHANGED <<active, held, walk, messages, cache, rule, switched, unmade, unlisted>>
  BY DEF Enqueue, walkVars, history
<1>2. /\ Shape(ft') /\ ft'.pc = "files" /\ ft'.files = ft.files /\ ft'.up = ft.up
      /\ ft'.batch = ft.batch /\ ft'.items = ft.items /\ ft'.dirs = ft.dirs
  BY <1>1, GotoFacts DEF TransferInv, FtTypes
<1>3. q.at = Dest /\ q.dst = Target /\ q.how = ft.how /\ ft.file \in Path
  BY <1>1 DEF Target, TransferInv, FtTypes, Deciding
<1> HIDE DEF q
<1>4. Len(Target) = Len(ft.file) /\ Front(Target) = Front(ft.file)
  BY <1>3, InItsPlace DEF Target
<1>5. /\ Dest' = Dest /\ (\A e : There(e) => There(e)')
      /\ (\A e : Based(e) => Based(e)') /\ \A x : Key(x)' = Key(x)
  BY <1>1, <1>2 DEF Dest, Based, There, Lost, Key
<1>6. ~switched => \A x \in queued : x.at = Dest
  BY DEF TransferInv, FtTypes
<1>7. FtTypes'
  BY <1>1, <1>2, <1>3, <1>5 DEF TransferInv, FtTypes, InItem, Making, Deciding
<1>8. FoldersFirst'
  <2>1. SUFFICES ASSUME ~switched PROVE FoldersFirst'
    BY <1>1 DEF FoldersFirst
  <2>2. /\ Head(ft.items) \in Dirs => Laid
        /\ FilesFollowFolders /\ (\A e \in ft.files : Based(e)) /\ Based(ft.file)
    BY <1>1, <2>1 DEF TransferInv, FoldersFirst, InItem, Deciding
  <2>3. \A d : Ready(d) => Ready(d)'
    BY <1>1, <1>5 DEF Ready, Making
  <2>4. Head(ft.items) \in Dirs => Laid'
    BY <1>1, <2>2, <2>3, LaidStays DEF ToList
  <2>5. \/ Len(q.dst) = 1 \/ Front(q.dst) \in held[q.at]
        \/ \E d \in unmade : IsPrefix(d, Front(q.dst))
    BY <1>3, <1>4, <2>2 DEF Based, There, Lost
  <2>6. FilesFollowFolders'
    BY <1>1, <2>1, <2>2, <2>5 DEF FilesFollowFolders
  <2> QED BY <1>1, <1>2, <1>5, <2>2, <2>4, <2>6 DEF FoldersFirst, Making, Deciding
<1>9. FreshTargets'
  <2>1. SUFFICES ASSUME ~switched, NEW x \in queued', x.how \in {"free", "rename"},
                        x.dst \in held[x.at] \ Dirs
                 PROVE  x.at \in Cloud \/ Front(x.dst) \in unlisted
    BY <1>1 DEF FreshTargets, Unasked
  <2>2. CASE x \in queued
    BY <2>1, <2>2 DEF TransferInv, CacheKnows, FreshTargets, Unasked
  <2>3. CASE x = q
    BY <1>1, <1>3, <1>4, <2>1, <2>3 DEF TransferInv, CacheKnows
  <2> QED BY <1>1, <2>1, <2>2, <2>3
<1>10. CacheKnows'
  BY <1>1, <1>2, <1>5, <1>9 DEF TransferInv, CacheKnows, InItem, Deciding
<1>11. Held' /\ WalkTypes'
  BY <1>1 DEF TransferInv, Held, WalkTypes, ToList
<1> QED BY <1>7, <1>8, <1>10, <1>11 DEF TransferInv

(* A step of the walk of a transfer. *)
LEMMA WalkTypesKept ==
    ASSUME Held, WalkTypes, Walk PROVE WalkTypes' /\ UNCHANGED <<active, held>>
<1>1. CASE WalkStarts
  BY <1>1, StartFacts DEF WalkStarts
<1>2. CASE WalkFails
  BY <1>2, FailFacts DEF WalkFails
<1>3. ASSUME NEW dir \in walk.listing, Listed(dir) PROVE WalkTypes' /\ UNCHANGED <<active, held>>
  BY <1>3, ListedFacts DEF Listed
<1> QED BY <1>1, <1>2, <1>3 DEF Walk

(* A walk that fails says so, which needs no count. *)
LEMMA WalkFaults == ASSUME Walk PROVE faults' = faults
BY DEF Walk, WalkStarts, WalkFails, Listed

(* The walk goes on beside the transfer. *)
LEMMA WalkStep ==
    ASSUME TransferInv, Walk, UNCHANGED <<ft, cache, rule, queued, switched, unmade, unlisted>>
    PROVE  TransferInv'
<1>1. WalkTypes' /\ UNCHANGED <<active, held>>
  BY WalkTypesKept DEF TransferInv
<1>2. Laid => Laid'
  BY <1>1, WalkKeepsLaid DEF TransferInv
<1>3. FoldersFirst'
  BY <1>1, <1>2, HeldStill DEF TransferInv, FoldersFirst
<1>4. FtTypes'
  BY <1>1, HeldStill DEF TransferInv, FtTypes
<1>5. CacheKnows'
  <2>1. \A x : Key(x)' = Key(x)
    BY DEF Key
  <2>2. Target' = Target
    BY DEF Target
  <2> QED BY <1>1, <2>1, <2>2, HeldStill DEF TransferInv, CacheKnows
<1>6. Held'
  BY <1>1 DEF TransferInv, Held
<1> QED BY <1>1, <1>3, <1>4, <1>5, <1>6 DEF TransferInv

(* Every step of a transfer keeps what holds of it. *)
LEMMA TransferStep ==
    ASSUME TransferInv, Transfer PROVE TransferInv'
BY FileStep, RootStep, ScanStep, TakeStep, MkdirManyStep, FailsStep, EachStep,
   NextFileStep, FilesDoneStep, LookStep, AnsweredStep, PromptCancelledStep, EnqueueStep
   DEF Transfer

-----------------------------------------------------------------------------
(* The steps of a deletion. *)

SaysSo(t) ==
    /\ t.result = "deleted" => Below(rd.at, t.item) = {}
    /\ t.result = "failed" => faults > 0 \/ \E l \in Links : l \in Below(rd.at, t.item)

(* What a removal, made or failed, leaves of the places. *)
LEMMA RemovalFacts ==
    ASSUME Held, faults \in Nat, NEW p \in Places, NEW e \in Path,
           Removes(p, e) \/ RemovalFails(p, e), UNCHANGED active
    PROVE  /\ Held' /\ faults' \in Nat /\ faults' >= faults
           /\ \A q \in Places : held'[q] \subseteq held[q] /\ (q # p => held'[q] = held[q])
           /\ \A x \in held[p] \ held'[p] : IsPrefix(e, x) /\ (p # Local => x = e)
<1>1. CASE RemovalFails(p, e)
  <2>1. held' = held /\ faults' \in Nat /\ faults' >= faults
    BY <1>1 DEF RemovalFails, Fault
  <2> QED BY <2>1 DEF Held
<1>2. CASE Removes(p, e)
  <2>1. held' = [held EXCEPT ![p] = @ \ Gone(p, e)] /\ faults' = faults
    BY <1>2 DEF Removes
  <2>2. held \in [Places -> SUBSET Path]
    BY DEF Held
  <2>3. held'[p] = held[p] \ Gone(p, e) /\ \A q \in Places : q # p => held'[q] = held[q]
    BY <2>1, <2>2
  <2>4. held' \in [Places -> SUBSET Path]
    BY <2>1, <2>2
  <2>5. Gone(p, e) = {} \/ Gone(p, e) = Below(p, e)
    BY DEF Gone
  <2>6. IsTree(held'[p])
    <3>1. SUFFICES ASSUME NEW x \in held'[p], NEW n \in 1..Len(x) - 1
                   PROVE  SubSeq(x, 1, n) \in held'[p] \cap Dirs
      BY DEF IsTree
    <3>2. SubSeq(x, 1, n) \in held[p] \cap Dirs
      BY <2>3, <3>1 DEF Held, IsTree
    <3>3. SubSeq(x, 1, n) \notin Gone(p, e)
      <4>1. SUFFICES ASSUME SubSeq(x, 1, n) \in Below(p, e) PROVE x \in Below(p, e)
        BY <2>3, <2>5, <3>1
      <4>2. x \in Path /\ x \in held[p] /\ SubSeq(x, 1, n) \in Path
        BY <2>2, <2>3, <3>2
      <4>3. n \in 1..Len(x)
        BY <4>2, LenProperties DEF Path
      <4>4. IsPrefix(SubSeq(x, 1, n), x)
        BY <4>2, <4>3, Beginning
      <4>5. IsPrefix(e, SubSeq(x, 1, n))
        BY <4>1 DEF Below
      <4>6. IsPrefix(e, x)
        BY <4>2, <4>4, <4>5, PrefixOrder
      <4> QED BY <4>2, <4>6 DEF Below
    <3> QED BY <2>3, <3>2, <3>3
  <2>7. IsFiniteSet(held'[p])
    BY <2>3, FS_Subset DEF Held
  <2>8. \A q \in Cloud : held'[q] \cap Links = {}
    <3>1. \A q \in Cloud : q \in Places
      BY WalkAssumption DEF Places
    <3> QED BY <2>3, <3>1 DEF Held
  <2>9. Held'
    BY <2>3, <2>4, <2>6, <2>7, <2>8 DEF Held
  <2>10. ASSUME NEW x \in Gone(p, e) PROVE IsPrefix(e, x) /\ (p # Local => x = e)
    BY DEF Gone, Below
  <2> QED BY <2>1, <2>3, <2>9, <2>10
<1> QED BY <1>1, <1>2

(* Below what is no directory there is nothing else. *)
LEMMA NothingBelow ==
    ASSUME Held, NEW p \in Places, NEW e \in held[p], e \notin Dirs
    PROVE  Below(p, e) = {e}
<1>1. held[p] \subseteq Path /\ IsTree(held[p])
  BY DEF Held
<1>2. IsPrefix(e, e)
  BY <1>1, PrefixOrder
<1>3. ASSUME NEW x \in held[p], IsPrefix(e, x), x # e PROVE FALSE
  <2>1. e \in Dirs
    BY <1>1, <1>3, AboveInTree
  <2> QED BY <2>1
<1> QED BY <1>2, <1>3 DEF Below

(* What was removed by itself is gone. *)
LEMMA GoneFacts ==
    ASSUME Held, NEW p \in Places, NEW e \in held[p], p = Local \/ Below(p, e) = {e},
           Removes(p, e)
    PROVE  /\ \A x \in held'[p] : ~IsPrefix(e, x)
           /\ p # Local => held'[p] = held[p] \ {e}
<1>1. held' = [held EXCEPT ![p] = @ \ Gone(p, e)] /\ held \in [Places -> SUBSET Path]
  BY DEF Removes, Held
<1>2. held'[p] = held[p] \ Gone(p, e)
  BY <1>1
<1>3. Gone(p, e) = Below(p, e)
  BY DEF Gone
<1> QED BY <1>2, <1>3 DEF Below

(* The selected entry that is being deleted. *)
LEMMA FirstSelected ==
    ASSUME RdTypes, rd.pc # "idle"
    PROVE  /\ Head(rd.items) \in Path /\ Len(Head(rd.items)) = 1
           /\ 1 \in DOMAIN rd.items /\ Head(rd.items) = rd.items[1]
           /\ Head(rd.items) \in Range(rd.items)
<1>1. rd.items \in Seq(Path) /\ rd.items # <<>> /\ \A i \in DOMAIN rd.items : Len(rd.items[i]) = 1
  BY DEF RdTypes
<1>2. Head(rd.items) \in Path /\ Head(rd.items) = rd.items[1] /\ Len(rd.items) \in Nat \ {0}
  BY <1>1, Rest
<1>3. 1 \in DOMAIN rd.items
  BY <1>1, <1>2, LenProperties
<1> QED BY <1>1, <1>2, <1>3 DEF Range

(* Nothing is below two selected entries. *)
LEMMA OneRoot ==
    ASSUME NEW a \in Path, NEW b \in Path, Len(a) = 1, Len(b) = 1, NEW x \in Path,
           IsPrefix(a, x), IsPrefix(b, x)
    PROVE  a = b
<1>1. IsPrefix(a, b)
  BY PrefixOrder
<1> QED BY <1>1, PrefixIsBeginning

(* The status line tells of an entry, and the deletion goes on to the next one. *)
LEMMA ToldFacts ==
    ASSUME RdTypes, rd.pc # "idle", NEW result, Told(result)
    PROVE  /\ RdShape(rd') /\ rd'.pc \in {"idle", "entry"} /\ rd'.at = rd.at
           /\ rd'.files = {} /\ rd'.dirs = {}
           /\ rd'.told = rd.told \cup {[item |-> Head(rd.items), result |-> result]}
           /\ rd'.items \in Seq(Path) /\ IsInjective(rd'.items)
           /\ rd'.pc # "idle" => rd'.items # <<>>
           /\ \A i \in DOMAIN rd'.items : /\ rd'.items[i] # Head(rd.items)
                                          /\ \E j \in DOMAIN rd.items : rd'.items[i] = rd.items[j]
<1>1. /\ rd.items \in Seq(Path) /\ rd.items # <<>> /\ IsInjective(rd.items) /\ RdShape(rd)
  BY DEF RdTypes
<1> DEFINE t == Tail(rd.items)
           pc == IF Len(rd.items) = 1 THEN "idle" ELSE "entry"
<1>2. /\ t \in Seq(Path) /\ Len(t) = Len(rd.items) - 1 /\ Len(rd.items) \in Nat \ {0}
      /\ (\A i \in 1..Len(rd.items) - 1 : t[i] = rd.items[i + 1]) /\ Head(rd.items) = rd.items[1]
  BY <1>1, Rest
<1>3. DOMAIN t = 1..Len(t) /\ DOMAIN rd.items = 1..Len(rd.items)
  BY <1>1, <1>2, LenProperties
<1>4. pc # "idle" => t # <<>>
  <2>1. pc # "idle" => Len(t) # 0
    BY <1>2
  <2> HIDE DEF t, pc
  <2> QED BY <1>2, <2>1, EmptySeq
<1>5. rd' = [rd EXCEPT !.pc = pc, !.items = t, !.files = {}, !.dirs = {},
                       !.told = rd.told \cup {[item |-> Head(rd.items), result |-> result]}]
  BY <1>1 DEF Told, RdShape
<1>6. pc \in {"idle", "entry"}
  OBVIOUS
<1> HIDE DEF t, pc
<1>7. /\ RdShape(rd') /\ rd'.pc = pc /\ rd'.at = rd.at /\ rd'.items = t
      /\ rd'.files = {} /\ rd'.dirs = {}
      /\ rd'.told = rd.told \cup {[item |-> Head(rd.items), result |-> result]}
  BY <1>1, <1>5 DEF RdShape
<1>8. \A i \in DOMAIN t : i + 1 \in DOMAIN rd.items /\ t[i] = rd.items[i + 1] /\ i + 1 # 1
  BY <1>2, <1>3
<1>9. 1 \in DOMAIN rd.items
  BY <1>2, <1>3
<1>10. \A i \in DOMAIN t : /\ t[i] # Head(rd.items)
                           /\ \E j \in DOMAIN rd.items : t[i] = rd.items[j]
  BY <1>1, <1>2, <1>8, <1>9 DEF IsInjective
<1>11. IsInjective(t)
  <2>1. SUFFICES ASSUME NEW i \in DOMAIN t, NEW j \in DOMAIN t, t[i] = t[j] PROVE i = j
    BY DEF IsInjective
  <2>2. i + 1 = j + 1
    BY <1>1, <1>8, <2>1 DEF IsInjective
  <2> QED BY <1>2, <1>3, <2>2
<1> QED BY <1>2, <1>4, <1>6, <1>7, <1>10, <1>11

DeletionInv == Exclusive /\ RdTypes /\ Removing /\ ToldIsSo

(* While a transfer runs there is no deletion to disturb. *)
LEMMA DeletionAtRest ==
    ASSUME DeletionInv, ft.pc # "idle", UNCHANGED <<active, rd, rest, switched>>, faults' \in Nat
    PROVE  DeletionInv'
<1>1. rd.pc = "idle" /\ rd.told = {} /\ rest = {}
  BY DEF DeletionInv, Exclusive
<1>2. Exclusive'
  BY <1>1 DEF Exclusive
<1>3. RdTypes'
  BY DEF DeletionInv, RdTypes
<1>4. Removing'
  BY <1>1 DEF DeletionInv, Removing, Standing, Clearing
<1>5. ToldIsSo'
  BY <1>1 DEF ToldIsSo, DeletedMeansGone, FailedForAReason
<1> QED BY <1>2, <1>3, <1>4, <1>5 DEF DeletionInv

(* Calls of a transfer may fail, which is counted. *)
LEMMA TransferFaults == ASSUME Transfer, faults \in Nat PROVE faults' \in Nat
<1>1. ASSUME NEW p, NEW ds, NEW failed, Make(p, ds, failed) PROVE faults' \in Nat
  BY <1>1 DEF Make, Fault
<1>2. CASE MakeRoot \/ MkdirMany \/ MkdirEach
  BY <1>1, <1>2 DEF MakeRoot, MkdirMany, MkdirEach
<1>3. CASE Look
  BY <1>3 DEF Look, Fault
<1>4. CASE ~(MakeRoot \/ MkdirMany \/ MkdirEach \/ Look)
  BY <1>4 DEF Transfer, TransferFile, Scan, Take, MkdirManyFails, NextFile, FilesDone,
     PromptAnswered, PromptCancelled, Enqueue, history
<1> QED BY <1>2, <1>3, <1>4

(* While a deletion runs there is no transfer to disturb. *)
LEMMA TransferAtRest ==
    ASSUME FtTypes, CacheKnows, Exclusive, rd.pc # "idle" \/ rest # {},
           UNCHANGED <<active, ft, cache, rule, queued, switched, unmade, unlisted>>
    PROVE  FtTypes' /\ FoldersFirst' /\ CacheKnows'
<1>1. ft.pc = "idle" /\ queued = {}
  BY DEF Exclusive
<1>2. FtTypes'
  BY <1>1 DEF FtTypes
<1>3. FoldersFirst'
  BY <1>1 DEF FoldersFirst, FilesFollowFolders, InItem, Making, Deciding
<1>4. CacheKnows'
  BY <1>1 DEF CacheKnows, FreshTargets, InItem, Making, Deciding
<1> QED BY <1>2, <1>3, <1>4

(* What was told stays so: of that entry nothing comes, and no link goes. *)
LEMMA SaidBefore ==
    ASSUME Held, faults \in Nat, faults' \in Nat, faults' >= faults, rd.at \in Places,
           rd'.at = rd.at, held'[rd.at] \subseteq held[rd.at],
           NEW t, SaysSo(t),
           \A l \in Links : l \in held[rd.at] \ held'[rd.at] => ~IsPrefix(t.item, l)
    PROVE  SaysSo(t)'
<1>1. Below(rd.at, t.item)' \subseteq Below(rd.at, t.item)
  BY DEF Below
<1>2. ASSUME NEW l \in Links, l \in Below(rd.at, t.item) PROVE l \in Below(rd.at, t.item)'
  BY <1>2 DEF Below
<1>3. t.result = "deleted" => Below(rd.at, t.item)' = {}
  BY <1>1 DEF SaysSo
<1>4. t.result = "failed" => faults' > 0 \/ \E l \in Links : l \in Below(rd.at, t.item)'
  BY <1>2 DEF SaysSo
<1> QED BY <1>3, <1>4 DEF SaysSo

(* The properties say that of everything told. *)
LEMMA AllSaySo ==
    ToldIsSo <=> (~switched =>
        \A t \in rd.told : /\ SaysSo(t) /\ t.item \in Path /\ Len(t.item) = 1
                           /\ \A i \in DOMAIN rd.items : t.item # rd.items[i])
BY DEF ToldIsSo, DeletedMeansGone, FailedForAReason, SaysSo

(* The deletion of an entry ends, and the status line says how. *)
LEMMA TellStep ==
    ASSUME Held, DeletionInv, Held', rd.pc \notin {"idle", "confirm"},
           NEW result, Told(result),
           faults' \in Nat, faults' >= faults,
           ~switched => held'[rd.at] \subseteq held[rd.at],
           ~switched => \A x \in held[rd.at] \ held'[rd.at] : IsPrefix(Head(rd.items), x),
           \A y \in rest' : y \in Path,
           ~switched => \A y \in rest' : y \in rest \/ (y \notin Links /\ Inside(y)),
           ~switched => \A t : t = [item |-> Head(rd.items), result |-> result] => SaysSo(t)',
           UNCHANGED <<active, switched, queued, ft>>
    PROVE  DeletionInv'
<1> DEFINE root == Head(rd.items)
<1>1. Exclusive /\ RdTypes /\ Removing /\ ToldIsSo
  BY DEF DeletionInv
<1>2. /\ RdShape(rd') /\ rd'.pc \in {"idle", "entry"} /\ rd'.at = rd.at
      /\ rd'.files = {} /\ rd'.dirs = {}
      /\ rd'.told = rd.told \cup {[item |-> root, result |-> result]}
      /\ rd'.items \in Seq(Path) /\ IsInjective(rd'.items)
      /\ rd'.pc # "idle" => rd'.items # <<>>
      /\ \A i \in DOMAIN rd'.items : /\ rd'.items[i] # root
                                     /\ \E j \in DOMAIN rd.items : rd'.items[i] = rd.items[j]
  BY <1>1, ToldFacts
<1>3. root \in Path /\ Len(root) = 1 /\ 1 \in DOMAIN rd.items /\ root = rd.items[1]
  BY <1>1, FirstSelected
<1> HIDE DEF root
<1>4. /\ rd.at \in Places /\ rd.items \in Seq(Path) /\ faults \in Nat
      /\ \A i \in DOMAIN rd.items : Len(rd.items[i]) = 1
      /\ \A x \in held[rd.at] : x \in Path
  BY <1>1 DEF RdTypes, Held
<1>5. \A i \in DOMAIN rd.items : rd.items[i] \in Path
  BY <1>4, RangeIn DEF Range
<1>6. Exclusive'
  BY <1>1 DEF Exclusive
<1>7. RdTypes'
  <2>1. \A i \in DOMAIN rd'.items : Len(rd'.items[i]) = 1
    BY <1>2, <1>4
  <2>2. rest' \subseteq Path
    OBVIOUS
  <2> QED BY <1>2, <1>4, <2>1, <2>2 DEF RdTypes, Clearing
<1>8. Removing'
  <2>1. SUFFICES ASSUME ~switched PROVE Removing'
    BY DEF Removing
  <2>2. /\ rd.at \in {active, Local} /\ Range(rd.items) \subseteq held[rd.at]
        /\ \A e \in rest : e \notin Links /\ \A i \in DOMAIN rd.items : ~IsPrefix(rd.items[i], e)
    BY <1>1, <2>1 DEF Removing, Standing
  <2>3. ASSUME NEW i \in DOMAIN rd'.items PROVE rd'.items[i] \in held'[rd.at]
    <3>1. PICK j \in DOMAIN rd.items : rd'.items[i] = rd.items[j] /\ rd.items[j] # root
      BY <1>2, <2>3
    <3>2. rd.items[j] \in held[rd.at] /\ rd.items[j] \in Path /\ Len(rd.items[j]) = 1
      BY <1>4, <1>5, <2>2 DEF Range
    <3>3. ~IsPrefix(root, rd.items[j])
      BY <1>3, <3>1, <3>2, PrefixIsBeginning
    <3> QED BY <2>1, <3>1, <3>2, <3>3 DEF root
  <2>4. ASSUME NEW e \in rest', NEW i \in DOMAIN rd'.items
        PROVE  e \notin Links /\ ~IsPrefix(rd'.items[i], e)
    <3>1. PICK j \in DOMAIN rd.items : rd'.items[i] = rd.items[j] /\ rd.items[j] # root
      BY <1>2, <2>4
    <3>2. CASE e \in rest
      BY <2>2, <3>1, <3>2
    <3>3. CASE e \notin Links /\ Inside(e)
      BY <1>3, <1>4, <1>5, <3>1, <3>3, OneRoot DEF Inside, root
    <3> QED BY <2>1, <3>2, <3>3
  <2>5. \A e \in rest' : e \notin Links
    BY <2>1, <2>2
  <2> QED BY <1>2, <2>2, <2>3, <2>4, <2>5 DEF Removing, Standing, Range, Clearing
<1>9. ToldIsSo'
  <2>1. SUFFICES ASSUME ~switched, NEW t \in rd'.told
                 PROVE  /\ SaysSo(t)' /\ t.item \in Path /\ Len(t.item) = 1
                        /\ \A i \in DOMAIN rd'.items : t.item # rd'.items[i]
    BY DEF ToldIsSo, DeletedMeansGone, FailedForAReason, SaysSo
  <2>2. CASE t \in rd.told
    <3>1. SaysSo(t) /\ t.item \in Path /\ Len(t.item) = 1 /\ \A i \in DOMAIN rd.items : t.item # rd.items[i]
      BY <1>1, <2>1, <2>2, AllSaySo
    <3>2. \A l \in Links : l \in held[rd.at] \ held'[rd.at] => ~IsPrefix(t.item, l)
      <4>1. SUFFICES ASSUME NEW l \in held[rd.at] \ held'[rd.at], IsPrefix(t.item, l) PROVE FALSE
        OBVIOUS
      <4>2. IsPrefix(root, l) /\ l \in Path
        BY <1>4, <2>1, <4>1 DEF root
      <4>3. t.item = root
        BY <1>3, <3>1, <4>1, <4>2, OneRoot
      <4> QED BY <1>3, <3>1, <4>3
    <3>3. SaysSo(t)'
      BY <1>2, <1>4, <2>1, <3>1, <3>2, SaidBefore
    <3> QED BY <1>2, <3>1, <3>3
  <2>3. CASE t = [item |-> root, result |-> result]
    BY <1>2, <1>3, <2>1, <2>3 DEF root
  <2> QED BY <1>2, <2>1, <2>2, <2>3
<1> QED BY <1>6, <1>7, <1>8, <1>9 DEF DeletionInv

(* The deletion of an entry goes on: what is selected stays, and what was told. *)
LEMMA KeepStep ==
    ASSUME Held, DeletionInv, Held', rd.pc # "idle", RdShape(rd'),
           rd'.pc \in {"entry", "collect"} \cup Clearing,
           rd'.at = rd.at, rd'.items = rd.items, rd'.told = rd.told,
           rd'.files \subseteq Path \ Dirs, rd'.dirs \subseteq Dirs,
           rd'.pc # "entry" => Head(rd.items) \in Dirs /\ rd.at # Local,
           faults' \in Nat, faults' >= faults,
           ~switched => held'[rd.at] \subseteq held[rd.at],
           ~switched => \A x \in held[rd.at] \ held'[rd.at] : Inside(x),
           UNCHANGED <<active, switched, queued, ft, rest>>
    PROVE  Exclusive' /\ RdTypes' /\ ToldIsSo' /\ (~switched => Standing')
<1>1. Exclusive /\ RdTypes /\ Removing /\ ToldIsSo
  BY DEF DeletionInv
<1>2. Head(rd.items) \in Path /\ Len(Head(rd.items)) = 1 /\ \E j \in DOMAIN rd.items : Head(rd.items) = rd.items[j]
  BY <1>1, FirstSelected
<1>3. /\ rd.at \in Places /\ faults \in Nat
      /\ \A i \in DOMAIN rd.items : Len(rd.items[i]) = 1
      /\ \A x \in held[rd.at] : x \in Path
  BY <1>1 DEF RdTypes, Held
<1>4. Exclusive'
  BY <1>1 DEF Exclusive
<1>5. RdTypes'
  BY <1>1 DEF RdTypes, Clearing
<1>6. ~switched => Standing'
  <2>1. SUFFICES ASSUME ~switched PROVE Standing'
    OBVIOUS
  <2>2. Standing
    BY <1>1, <2>1 DEF Removing
  <2>3. ASSUME NEW i \in DOMAIN rd.items PROVE rd.items[i] \in held'[rd.at]
    <3>1. rd.items[i] \in held[rd.at]
      <4>1. Range(rd.items) \subseteq held[rd.at]
        BY <2>2 DEF Standing
      <4>2. rd.items[i] \in Range(rd.items)
        BY <2>3 DEF Range
      <4> QED BY <4>1, <4>2
    <3>2. ~Inside(rd.items[i])
      <4>1. Len(rd.items[i]) = 1
        BY <1>3, <2>3
      <4>2. ~(Len(rd.items[i]) > 1)
        BY <4>1
      <4> QED BY <4>2 DEF Inside
    <3> QED BY <2>1, <3>1, <3>2
  <2> QED BY <2>2, <2>3 DEF Standing, Range
<1>7. ToldIsSo'
  <2>1. SUFFICES ASSUME ~switched, NEW t \in rd.told
                 PROVE  /\ SaysSo(t)' /\ t.item \in Path /\ Len(t.item) = 1
                        /\ \A i \in DOMAIN rd.items : t.item # rd.items[i]
    BY DEF ToldIsSo, DeletedMeansGone, FailedForAReason, SaysSo
  <2>2. /\ SaysSo(t) /\ t.item \in Path /\ Len(t.item) = 1
        /\ \A i \in DOMAIN rd.items : t.item # rd.items[i]
    BY <1>1, <2>1, AllSaySo
  <2>3. \A l \in Links : l \in held[rd.at] \ held'[rd.at] => ~IsPrefix(t.item, l)
    BY <1>2, <1>3, <2>1, <2>2, OneRoot DEF Inside
  <2>4. SaysSo(t)'
    BY <1>3, <2>1, <2>2, <2>3, SaidBefore
  <2> QED BY <2>2, <2>4
<1> QED BY <1>4, <1>5, <1>6, <1>7

(* Removals ask for the side the entries were selected on, unless the tab was switched. *)
LEMMA SideFacts ==
    ASSUME Held, RdTypes, Removing, rd.pc # "idle"
    PROVE  /\ active \in Places /\ active # Local /\ Side(rd.at) \in Places
           /\ ~switched => /\ Side(rd.at) = rd.at /\ (rd.at # Local => active = rd.at)
                           /\ Head(rd.items) \in held[rd.at]
<1>1. active \in Conn /\ Local \notin Conn
  BY WalkAssumption DEF Held
<1>2. active \in Places /\ active # Local /\ Side(rd.at) \in Places
  BY <1>1 DEF Places, Side
<1>3. ~switched => rd.at \in {active, Local} /\ Head(rd.items) \in held[rd.at]
  BY FirstSelected DEF Removing, Standing
<1> QED BY <1>2, <1>3 DEF Side

(* A file, or a folder of this computer, is removed by one call. *)
LEMMA RemoveOneStep ==
    ASSUME Held, DeletionInv, RemoveOne, UNCHANGED <<ftVars, switched, unmade, unlisted>>
    PROVE  Held' /\ DeletionInv'
<1> DEFINE e == Head(rd.items)
           p == Side(rd.at)
<1>1. /\ rd.pc = "entry" /\ (e \notin Dirs \/ rd.at = Local)
      /\ UNCHANGED <<active, rest, ft, queued, switched>>
  BY DEF RemoveOne, ftVars
<1>2. /\ Exclusive /\ RdTypes /\ Removing /\ ToldIsSo /\ faults \in Nat
  BY DEF DeletionInv, RdTypes
<1>3. e \in Path /\ Len(e) = 1
  BY <1>1, <1>2, FirstSelected
<1>4. p \in Places /\ (~switched => p = rd.at /\ e \in held[p])
  BY <1>1, <1>2, SideFacts
<1>5. \/ Removes(p, e) /\ Told("deleted")
      \/ RemovalFails(p, e) /\ Told("failed")
  BY DEF RemoveOne
<1> HIDE DEF e, p
<1>6. /\ Held' /\ faults' \in Nat /\ faults' >= faults
      /\ held'[p] \subseteq held[p]
      /\ \A x \in held[p] \ held'[p] : IsPrefix(e, x)
  BY <1>1, <1>2, <1>3, <1>4, <1>5, RemovalFacts
<1>7. ASSUME ~switched PROVE p = Local \/ Below(p, e) = {e}
  <2>1. e \notin Dirs => Below(p, e) = {e}
    BY <1>4, <1>7, NothingBelow
  <2> QED BY <1>1, <1>4, <1>7, <2>1 DEF e
<1>8. ASSUME NEW result \in {"deleted", "failed"}, Told(result),
             result = "deleted" => Removes(p, e), result = "failed" => RemovalFails(p, e)
      PROVE  DeletionInv'
  <2>1. rd'.at = rd.at
    BY <1>1, <1>2, <1>8, ToldFacts
  <2>2. ASSUME ~switched, NEW t, t = [item |-> e, result |-> result] PROVE SaysSo(t)'
    <3>1. p = rd.at /\ e \in held[p] /\ (p = Local \/ Below(p, e) = {e})
      BY <1>4, <1>7, <2>2
    <3>2. t.item = e /\ t.result = result
      BY <2>2
    <3>3. CASE result = "deleted"
      <4>1. \A x \in held'[p] : ~IsPrefix(e, x)
        BY <1>4, <1>8, <3>1, <3>3, GoneFacts
      <4>2. Below(rd.at, t.item)' = {}
        BY <2>1, <3>1, <3>2, <4>1 DEF Below
      <4> QED BY <3>2, <3>3, <4>2 DEF SaysSo
    <3>4. CASE result = "failed"
      <4>1. Removable(p, e)
        BY <3>1 DEF Removable
      <4>2. faults' > 0
        BY <1>2, <1>8, <3>4, <4>1 DEF RemovalFails, Fault
      <4> QED BY <3>2, <3>4, <4>2 DEF SaysSo
    <3> QED BY <3>3, <3>4
  <2>3. \A y \in rest' : y \in Path
    BY <1>1, <1>2 DEF RdTypes
  <2> QED BY <1>1, <1>4, <1>6, <1>8, <2>2, <2>3, TellStep DEF e
<1>9. CASE Removes(p, e) /\ Told("deleted")
  <2>1. PICK r : r = "deleted"
    OBVIOUS
  <2> QED BY <1>6, <1>8, <1>9, <2>1
<1>10. CASE RemovalFails(p, e) /\ Told("failed")
  BY <1>6, <1>8, <1>10
<1> QED BY <1>5, <1>9, <1>10

(* The user answers the dialog. *)
LEMMA ConfirmedStep ==
    ASSUME Held, DeletionInv, Confirmed, UNCHANGED <<ftVars, switched, unmade, unlisted>>
    PROVE  Held' /\ DeletionInv'
<1>1. /\ rd.pc = "confirm"
      /\ UNCHANGED <<active, held, rest, faults, ft, queued, switched>>
      /\ \/ rd' = [rd EXCEPT !.pc = "entry"]
         \/ rd' = [rd EXCEPT !.pc = "idle"]
  BY DEF Confirmed, ftVars
<1>2. /\ Exclusive /\ RdTypes /\ Removing /\ ToldIsSo /\ faults \in Nat /\ RdShape(rd)
      /\ rd.files \subseteq Path \ Dirs /\ rd.dirs \subseteq Dirs
  BY DEF DeletionInv, RdTypes
<1>3. Held'
  BY <1>1 DEF Held
<1>4. /\ RdShape(rd') /\ rd'.pc \in {"entry", "idle"} /\ rd'.at = rd.at /\ rd'.items = rd.items
      /\ rd'.told = rd.told /\ rd'.files = rd.files /\ rd'.dirs = rd.dirs
  BY <1>1, <1>2 DEF RdShape
<1>5. CASE rd'.pc = "entry"
  <2>1. Exclusive' /\ RdTypes' /\ ToldIsSo' /\ (~switched => Standing')
    BY <1>1, <1>2, <1>3, <1>4, <1>5, KeepStep
  <2>2. Removing'
    BY <1>1, <1>2, <1>4, <1>5, <2>1 DEF Removing, Clearing
  <2> QED BY <1>3, <2>1, <2>2 DEF DeletionInv
<1>6. CASE rd'.pc = "idle"
  <2>1. Exclusive'
    BY <1>1, <1>2, <1>6 DEF Exclusive
  <2>2. RdTypes'
    BY <1>1, <1>2, <1>4, <1>6 DEF RdTypes, Clearing
  <2>3. Removing'
    BY <1>1, <1>2, <1>4, <1>6 DEF Removing, Standing, Clearing
  <2>4. ToldIsSo'
    BY <1>1, <1>2, <1>4 DEF ToldIsSo, DeletedMeansGone, FailedForAReason, Below
  <2> QED BY <1>3, <2>1, <2>2, <2>3, <2>4 DEF DeletionInv
<1> QED BY <1>4, <1>5, <1>6

(* The walk of a folder to delete is asked for. *)
LEMMA CollectTreeStep ==
    ASSUME Held, DeletionInv, CollectTree, UNCHANGED <<ftVars, switched, unmade, unlisted>>
    PROVE  Held' /\ WalkTypes' /\ DeletionInv'
<1>1. /\ rd.pc = "entry" /\ Head(rd.items) \in Dirs /\ rd.at # Local
      /\ ListTree(active, Head(rd.items)) /\ rd' = [rd EXCEPT !.pc = "collect"]
      /\ UNCHANGED <<active, held, rest, faults, ft, queued, switched>>
  BY DEF CollectTree, ftVars
<1>2. /\ Exclusive /\ RdTypes /\ Removing /\ ToldIsSo /\ faults \in Nat /\ RdShape(rd)
      /\ rd.files \subseteq Path \ Dirs /\ rd.dirs \subseteq Dirs
  BY DEF DeletionInv, RdTypes
<1>3. Held'
  BY <1>1 DEF Held
<1>4. /\ RdShape(rd') /\ rd'.pc = "collect" /\ rd'.at = rd.at /\ rd'.items = rd.items
      /\ rd'.told = rd.told /\ rd'.files = rd.files /\ rd'.dirs = rd.dirs
  BY <1>1, <1>2 DEF RdShape
<1>5. active \in Places /\ (~switched => active = rd.at)
  BY <1>1, <1>2, SideFacts
<1>6. /\ WalkTypes' /\ walk.st' = "asked" /\ walk.at' = active /\ walk.root' = Head(rd.items)
      /\ ~walk.cancelled' /\ ToList' = {} /\ messages' = <<>>
  BY <1>1, <1>5, AskFacts
<1>7. Exclusive' /\ RdTypes' /\ ToldIsSo' /\ (~switched => Standing')
  BY <1>1, <1>2, <1>3, <1>4, KeepStep
<1>8. Removing'
  <2>1. SUFFICES ASSUME ~switched PROVE Removing'
    BY <1>1 DEF Removing
  <2>2. Collected' = {}
    BY <1>1, <1>2, <1>4, <1>6, <2>1, EmptySeq DEF Collected, SentIn, Removing
  <2>3. Sound(Collected)'
    BY <2>2 DEF Sound
  <2>4. Stream(messages, Ended)'
    BY <1>6, EmptySeq DEF Stream, Ended
  <2>5. Collecting'
    BY <1>4, <1>5, <1>6, <2>1, <2>3, <2>4 DEF Collecting
  <2> QED BY <1>1, <1>4, <1>7, <2>1, <2>5 DEF Removing, Clearing
<1> QED BY <1>3, <1>6, <1>7, <1>8 DEF DeletionInv

(* What is collected is the same wherever it is kept. *)
LEMMA CollectFacts ==
    ASSUME WalkTypes, messages # <<>>, messages' = Tail(messages), UNCHANGED walk,
           Stream(messages, Ended)
    PROVE  /\ SentIn(messages) = Head(messages).entries \cup SentIn(messages')
           /\ Head(messages).event = "batch" => Stream(messages, Ended)'
           /\ Head(messages).event = "batch" => (Broken(messages, Ended)' <=> Broken(messages, Ended))
           /\ Head(messages).event # "batch" => /\ Ended /\ Len(messages) = 1
                                                /\ messages[Len(messages)] = Head(messages)
                                                /\ Head(messages).entries = {}
           /\ Broken(messages, Ended) <=> (Ended /\ messages[Len(messages)].event = "error")
<1>1. /\ Len(messages) \in Nat \ {0} /\ Len(messages') = Len(messages) - 1
      /\ \A n \in 1..Len(messages) - 1 : messages'[n] = messages[n + 1]
      /\ Head(messages) = messages[1] /\ OneListing(Head(messages)) /\ WalkTypes'
  BY TakeFacts
<1>2. PICK l, ms : l = messages' /\ ms = messages
  OBVIOUS
<1>3. /\ Len(ms) \in Nat \ {0} /\ Len(l) = Len(ms) - 1
      /\ \A n \in 1..Len(ms) - 1 : l[n] = ms[n + 1]
  BY <1>1, <1>2
<1>4. SentIn(ms) = ms[1].entries \cup SentIn(l)
  <2>1. ASSUME NEW x \in SentIn(ms) PROVE x \in ms[1].entries \cup SentIn(l)
    <3>1. PICK n \in 1..Len(ms) : x \in ms[n].entries
      BY <2>1 DEF SentIn
    <3>2. n # 1 => n - 1 \in 1..Len(l) /\ l[n - 1] = ms[n]
      BY <1>3, <3>1
    <3> QED BY <3>1, <3>2 DEF SentIn
  <2>2. ASSUME NEW x \in SentIn(l) PROVE x \in SentIn(ms)
    <3>1. PICK n \in 1..Len(l) : x \in l[n].entries
      BY <2>2 DEF SentIn
    <3>2. n + 1 \in 1..Len(ms) /\ l[n] = ms[n + 1]
      BY <1>3, <3>1
    <3> QED BY <3>1, <3>2 DEF SentIn
  <2>3. 1 \in 1..Len(ms)
    BY <1>3
  <2> QED BY <2>1, <2>2, <2>3 DEF SentIn
<1>5. Ended' = Ended
  BY DEF Ended
<1>6. 1 \in 1..Len(ms) /\ (ms[1].event = "batch" <=> ~(Ended /\ 1 = Len(ms)))
  <2>1. Stream(ms, Ended)
    BY <1>2
  <2>2. 1 \in 1..Len(ms)
    BY <1>3
  <2> QED BY <2>1, <2>2 DEF Stream
<1>7. CASE ms[1].event = "batch"
  <2>1. Ended => Len(ms) # 1
    BY <1>7, <1>6
  <2>2. Ended => l # <<>>
    <3>1. Ended => Len(l) # 0
      BY <1>3, <2>1
    <3> QED BY <3>1, EmptySeq
  <2>3. ASSUME NEW n \in 1..Len(l) PROVE l[n].event = "batch" <=> ~(Ended /\ n = Len(l))
    <3>1. n + 1 \in 1..Len(ms) /\ l[n] = ms[n + 1] /\ (n + 1 = Len(ms) <=> n = Len(l))
      BY <1>3, <2>3
    <3> QED BY <1>2, <3>1 DEF Stream
  <2>4. Stream(l, Ended)
    BY <2>2, <2>3 DEF Stream
  <2>5. Stream(messages, Ended)'
    BY <1>2, <1>5, <2>4 DEF Stream
  <2>6. Ended => l[Len(l)] = ms[Len(ms)]
    <3>1. Ended => /\ Len(l) \in 1..Len(ms) - 1 /\ Len(l) + 1 = Len(ms)
      BY <1>3, <2>1
    <3> QED BY <1>3, <3>1
  <2>7. Broken(messages, Ended)' <=> Broken(messages, Ended)
    BY <1>2, <1>5, <2>6 DEF Broken
  <2> QED BY <1>1, <1>2, <1>4, <1>7, <2>5, <2>7 DEF Broken
<1>8. CASE ms[1].event # "batch"
  <2>1. 1 \in 1..Len(ms) /\ Ended /\ Len(ms) = 1
    BY <1>8, <1>6
  <2>2. ms[1].entries = {}
    BY <1>1, <1>2, <1>8 DEF OneListing
  <2> QED BY <1>1, <1>2, <1>4, <1>8, <2>1, <2>2 DEF Broken
<1> QED BY <1>7, <1>8

(* What the walk found is collected; at its end all of it is known. *)
LEMMA CollectStep ==
    ASSUME Held, WalkTypes, DeletionInv, Collect, UNCHANGED <<ftVars, switched, unmade, unlisted>>
    PROVE  Held' /\ WalkTypes' /\ DeletionInv'
<1> DEFINE m == Head(messages)
<1>1. /\ rd.pc = "collect" /\ messages # <<>> /\ messages' = Tail(messages)
      /\ UNCHANGED <<active, held, walk, rest, faults, ft, queued, switched>>
  BY DEF Collect, ftVars
<1>2. /\ Exclusive /\ RdTypes /\ Removing /\ ToldIsSo /\ faults \in Nat /\ RdShape(rd)
      /\ rd.files \subseteq Path \ Dirs /\ rd.dirs \subseteq Dirs
      /\ Head(rd.items) \in Dirs /\ rd.at # Local
  BY <1>1 DEF DeletionInv, RdTypes
<1>3. Held'
  BY <1>1 DEF Held
<1>4. WalkTypes' /\ ToList' = ToList /\ m \in Message
  BY <1>1, TakeFacts
<1>5. m.event \in {"batch", "done", "error"} /\ m.entries \subseteq Path
  BY <1>4 DEF Message
<1>6. ASSUME ~switched
      PROVE  /\ Collecting /\ SentIn(messages) = m.entries \cup SentIn(messages')
             /\ m.event = "batch" => Stream(messages, Ended)'
             /\ m.event = "batch" => (Broken(messages, Ended)' <=> Broken(messages, Ended))
             /\ m.event # "batch" => /\ Ended /\ Len(messages) = 1
                                     /\ messages[Len(messages)] = m /\ m.entries = {}
  <2>1. Collecting
    BY <1>1, <1>2, <1>6 DEF Removing
  <2>2. Stream(messages, Ended)
    BY <2>1 DEF Collecting
  <2> QED BY <1>1, <2>1, <2>2, CollectFacts
<1> HIDE DEF m
<1>7. CASE m.event = "batch"
  <2>1. rd' = [rd EXCEPT !.files = @ \cup (m.entries \ Dirs), !.dirs = @ \cup (m.entries \cap Dirs)]
    BY <1>7 DEF Collect, m
  <2>2. /\ RdShape(rd') /\ rd'.pc = "collect" /\ rd'.at = rd.at /\ rd'.items = rd.items
        /\ rd'.told = rd.told
        /\ rd'.files = rd.files \cup (m.entries \ Dirs) /\ rd'.dirs = rd.dirs \cup (m.entries \cap Dirs)
    BY <1>1, <1>2, <2>1 DEF RdShape
  <2>3. rd'.files \subseteq Path \ Dirs /\ rd'.dirs \subseteq Dirs
    BY <1>2, <1>5, <2>2
  <2>4. Exclusive' /\ RdTypes' /\ ToldIsSo' /\ (~switched => Standing')
    BY <1>1, <1>2, <1>3, <2>2, <2>3, KeepStep
  <2>5. ASSUME ~switched PROVE Collecting'
    <3>1. PICK C : C = Collected
      OBVIOUS
    <3>2. Collected' = C
      <4>1. SentIn(messages)' = SentIn(messages')
        BY DEF SentIn
      <4> QED BY <1>6, <2>2, <2>5, <3>1, <4>1 DEF Collected
    <3>3. \A e : Inside(e)' <=> Inside(e)
      BY <2>2 DEF Inside
    <3>4. Sound(C) => Sound(C)'
      BY <1>1, <2>2, <3>3 DEF Sound
    <3>5. PICK A : A = ToList
      OBVIOUS
    <3>6. AllSeen(C, A) => AllSeen(C, A)'
      BY <1>1, <2>2, <3>3 DEF AllSeen, Strictly
    <3>7. /\ Sound(C) /\ walk.at = rd.at /\ walk.root = Head(rd.items) /\ ~walk.cancelled
          /\ walk.st # "off" /\ walk.st # "asked"
          /\ \A d \in A : d = Head(rd.items) \/ Inside(d)
          /\ Broken(messages, Ended) \/ AllSeen(C, A)
      BY <1>1, <1>6, <2>5, <3>1, <3>5 DEF Collecting
    <3>8. Sound(Collected)'
      BY <3>2, <3>4, <3>7
    <3>9. Broken(messages, Ended)' \/ AllSeen(Collected, ToList)'
      <4>1. A = ToList' /\ C = Collected'
        BY <1>4, <3>2, <3>5
      <4> QED BY <1>6, <1>7, <2>5, <3>6, <3>7, <4>1
    <3>10. \A d \in ToList' : d = Head(rd.items)' \/ Inside(d)'
      BY <1>4, <2>2, <3>3, <3>5, <3>7
    <3> QED BY <1>1, <1>6, <1>7, <2>2, <2>5, <3>7, <3>8, <3>9, <3>10 DEF Collecting
  <2>6. Removing'
    BY <1>1, <2>2, <2>4, <2>5 DEF Removing, Clearing
  <2> QED BY <1>3, <1>4, <2>4, <2>6 DEF DeletionInv
<1>8. CASE m.event = "done"
  <2>1. rd' = [rd EXCEPT !.pc = "files"]
    BY <1>8 DEF Collect, m
  <2>2. /\ RdShape(rd') /\ rd'.pc = "files" /\ rd'.at = rd.at /\ rd'.items = rd.items
        /\ rd'.told = rd.told /\ rd'.files = rd.files /\ rd'.dirs = rd.dirs
    BY <1>2, <2>1 DEF RdShape
  <2>3. Exclusive' /\ RdTypes' /\ ToldIsSo' /\ (~switched => Standing')
    BY <1>1, <1>2, <1>3, <2>2, KeepStep DEF Clearing
  <2>4. ASSUME ~switched PROVE (Sound(rd.files \cup rd.dirs) /\ Complete(rd.files \cup rd.dirs))'
    <3>1. PICK C : C = rd.files \cup rd.dirs
      OBVIOUS
    <3>2. /\ Ended /\ Len(messages) = 1 /\ messages[1] = m /\ m.entries = {}
      BY <1>6, <1>8, <2>4
    <3>3. Collected = C
      <4>1. SentIn(messages) = {}
        <5>1. 1..Len(messages) = {1}
          BY <3>2
        <5> QED BY <3>2, <5>1 DEF SentIn
      <4> QED BY <3>1, <4>1 DEF Collected
    <3>4. ToList = {} /\ walk.st # "asked"
      BY <3>2 DEF Ended, WalkTypes
    <3>5. ~Broken(messages, Ended)
      BY <1>8, <3>2 DEF Broken
    <3>6. Sound(C) /\ AllSeen(C, {})
      BY <1>6, <2>4, <3>3, <3>4, <3>5 DEF Collecting
    <3>7. \A e : Inside(e)' <=> Inside(e)
      BY <2>2 DEF Inside
    <3>8. Sound(C)' /\ Complete(C)'
      BY <1>1, <2>2, <3>6, <3>7 DEF Sound, Complete, AllSeen
    <3>9. C = (rd.files \cup rd.dirs)'
      BY <2>2, <3>1
    <3> QED BY <3>8, <3>9
  <2>5. Removing'
    BY <1>1, <2>2, <2>3, <2>4 DEF Removing, Clearing
  <2> QED BY <1>3, <1>4, <2>3, <2>5 DEF DeletionInv
<1>9. CASE m.event = "error"
  <2>1. Told("unread")
    BY <1>9 DEF Collect, m
  <2>2. PICK result : result = "unread"
    OBVIOUS
  <2>3. \A t : t = [item |-> Head(rd.items), result |-> result] => SaysSo(t)'
    BY <2>2 DEF SaysSo
  <2>4. (\A y \in rest' : y \in Path) /\ \A y \in rest' : y \in rest
    BY <1>1, <1>2 DEF RdTypes
  <2>5. DeletionInv'
    BY <1>1, <1>2, <1>3, <2>1, <2>2, <2>3, <2>4, TellStep
  <2> QED BY <1>3, <1>4, <2>5
<1> QED BY <1>5, <1>7, <1>8, <1>9

(* The last calls of a deletion: a member of the tree, or its root, is removed or not. *)
LEMMA FailedStep ==
    ASSUME Held, DeletionInv, rd.pc \in Clearing, NEW e \in Path, RemovalFails(active, e), Told("failed"),
           ~switched => e = Head(rd.items) \/ Inside(e),
           ~switched => Removable(active, e) \/ \E l \in Links : l \in held[rd.at] /\ Inside(l),
           \A y \in rest' : y \in Path,
           ~switched => \A y \in rest' : y \in rest \/ (y \notin Links /\ Inside(y)),
           UNCHANGED <<active, switched, queued, ft>>
    PROVE  Held' /\ DeletionInv'
<1>1. /\ Exclusive /\ RdTypes /\ Removing /\ faults \in Nat /\ active \in Places
      /\ rd.pc \notin {"idle", "confirm"}
  BY SideFacts DEF DeletionInv, RdTypes, Clearing
<1>2. held' = held /\ faults' \in Nat /\ faults' >= faults
  BY <1>1 DEF RemovalFails, Fault
<1>3. Held'
  BY <1>2 DEF Held
<1>4. PICK result : result = "failed"
  OBVIOUS
<1>5. ASSUME ~switched, NEW t, t = [item |-> Head(rd.items), result |-> result] PROVE SaysSo(t)'
  <2>1. rd'.at = rd.at
    BY <1>1, ToldFacts
  <2>2. CASE Removable(active, e)
    <3>1. faults' > 0
      BY <1>1, <2>2 DEF RemovalFails, Fault
    <3> QED BY <1>4, <1>5, <3>1 DEF SaysSo
  <2>3. CASE \E l \in Links : l \in held[rd.at] /\ Inside(l)
    <3>1. PICK l \in Links : l \in held[rd.at] /\ Inside(l)
      BY <2>3
    <3>2. l \in Below(rd.at, t.item)'
      BY <1>2, <1>5, <2>1, <3>1 DEF Below, Inside
    <3> QED BY <1>4, <1>5, <3>2 DEF SaysSo
  <2> QED BY <1>5, <2>2, <2>3
<1>6. DeletionInv'
  BY <1>1, <1>2, <1>3, <1>4, <1>5, TellStep
<1> QED BY <1>3, <1>6

(* A member of the tree is removed; the others are still known. *)
LEMMA RemovedStep ==
    ASSUME Held, DeletionInv, rd.pc \in {"files", "dirs"}, NEW e \in rd.files \cup rd.dirs,
           Removes(active, e), ~switched => Below(active, e) = {e},
           RdShape(rd'), rd'.pc = rd.pc, rd'.at = rd.at, rd'.items = rd.items,
           rd'.told = rd.told, rd'.files = rd.files \ {e}, rd'.dirs = rd.dirs \ {e},
           UNCHANGED <<active, rest, ft, queued, switched>>
    PROVE  Held' /\ DeletionInv'
<1>1. /\ Exclusive /\ RdTypes /\ Removing /\ faults \in Nat /\ active \in Places
      /\ rd.pc # "idle" /\ rd.pc \in Clearing
      /\ rd.files \subseteq Path \ Dirs /\ rd.dirs \subseteq Dirs
      /\ Head(rd.items) \in Dirs /\ rd.at # Local
  BY SideFacts DEF DeletionInv, RdTypes, Clearing
<1>2. e \in Path
  BY <1>1, WalkAssumption
<1>3. Held' /\ faults' \in Nat /\ faults' >= faults /\ held'[active] \subseteq held[active]
  BY <1>1, <1>2, RemovalFacts
<1>4. ASSUME ~switched
      PROVE  /\ active = rd.at /\ Sound(rd.files \cup rd.dirs) /\ Complete(rd.files \cup rd.dirs)
             /\ held'[rd.at] = held[rd.at] \ {e} /\ Inside(e)
             /\ rd.pc = "dirs" => rd.files = {}
  <2>1. active = rd.at /\ active # Local
    BY <1>1, <1>4, SideFacts
  <2>2. /\ Sound(rd.files \cup rd.dirs) /\ Complete(rd.files \cup rd.dirs)
        /\ rd.pc = "dirs" => rd.files = {}
    BY <1>1, <1>4 DEF Removing
  <2>3. e \in held[active] /\ Inside(e)
    BY <2>1, <2>2 DEF Sound
  <2>4. held'[active] = held[active] \ {e}
    BY <1>1, <1>4, <2>1, <2>3, GoneFacts
  <2> QED BY <2>1, <2>2, <2>3, <2>4
<1>5. Exclusive' /\ RdTypes' /\ ToldIsSo' /\ (~switched => Standing')
  <2>1. rd'.files \subseteq Path \ Dirs /\ rd'.dirs \subseteq Dirs
    BY <1>1
  <2>2. rd'.pc \in {"entry", "collect"} \cup Clearing /\ rd'.pc # "entry"
    BY DEF Clearing
  <2>3. ~switched => /\ held'[rd.at] \subseteq held[rd.at]
                     /\ \A x \in held[rd.at] \ held'[rd.at] : Inside(x)
    BY <1>4
  <2> QED BY <1>1, <1>3, <2>1, <2>2, <2>3, KeepStep
<1>6. Removing'
  <2>1. SUFFICES ASSUME ~switched PROVE Removing'
    BY DEF Removing
  <2>2. \A x : Inside(x)' <=> Inside(x)
    BY DEF Inside
  <2>3. Sound(rd.files \cup rd.dirs)' /\ Complete(rd.files \cup rd.dirs)'
    BY <1>4, <2>1, <2>2 DEF Sound, Complete
  <2> QED BY <1>4, <1>5, <2>1, <2>3 DEF Removing, Clearing
<1> QED BY <1>3, <1>5, <1>6 DEF DeletionInv

(* The files and directories are removed in turn; then it is the directories', the root's turn. *)
LEMMA NextStage ==
    ASSUME Held, DeletionInv, NEW pc \in {"dirs", "root"}, rd' = [rd EXCEPT !.pc = pc],
           pc = "dirs" => rd.pc = "files" /\ rd.files = {},
           pc = "root" => rd.pc = "dirs" /\ rd.dirs = {},
           UNCHANGED <<active, held, rest, faults, ft, queued, switched>>
    PROVE  Held' /\ DeletionInv'
<1>1. /\ Removing /\ RdTypes /\ faults \in Nat /\ RdShape(rd) /\ rd.pc \in Clearing /\ rd.pc # "idle"
      /\ rd.files \subseteq Path \ Dirs /\ rd.dirs \subseteq Dirs
      /\ Head(rd.items) \in Dirs /\ rd.at # Local
  BY DEF DeletionInv, RdTypes, Clearing
<1>2. Held'
  BY DEF Held
<1>3. /\ RdShape(rd') /\ rd'.pc = pc /\ rd'.at = rd.at /\ rd'.items = rd.items
      /\ rd'.told = rd.told /\ rd'.files = rd.files /\ rd'.dirs = rd.dirs
  BY <1>1 DEF RdShape
<1>4. Exclusive' /\ RdTypes' /\ ToldIsSo' /\ (~switched => Standing')
  BY <1>1, <1>2, <1>3, KeepStep DEF Clearing
<1>5. Removing'
  <2>1. SUFFICES ASSUME ~switched PROVE Removing'
    BY DEF Removing
  <2>2. /\ Sound(rd.files \cup rd.dirs) /\ Complete(rd.files \cup rd.dirs)
        /\ rd.pc = "dirs" => rd.files = {}
    BY <1>1, <2>1 DEF Removing
  <2>3. \A x : Inside(x)' <=> Inside(x)
    BY <1>3 DEF Inside
  <2>4. Sound(rd.files \cup rd.dirs)' /\ Complete(rd.files \cup rd.dirs)'
    BY <1>3, <2>2, <2>3 DEF Sound, Complete
  <2> QED BY <1>3, <1>4, <2>1, <2>2, <2>4 DEF Removing, Clearing
<1> QED BY <1>2, <1>4, <1>5 DEF DeletionInv

(* A file of the tree, of which there is nothing below. *)
LEMMA RemoveFileStep ==
    ASSUME Held, DeletionInv, RemoveFile, UNCHANGED <<ftVars, switched, unmade, unlisted>>
    PROVE  Held' /\ DeletionInv'
<1>1. rd.pc = "files" /\ UNCHANGED <<active, ft, queued, switched>>
  BY DEF RemoveFile, ftVars
<1>2. /\ RdTypes /\ Removing /\ RdShape(rd) /\ active \in Places /\ rest \subseteq Path
      /\ rd.files \subseteq Path \ Dirs /\ rd.dirs \subseteq Dirs
      /\ (~switched => active = rd.at)
  BY <1>1, SideFacts DEF DeletionInv, RdTypes, Clearing
<1>3. CASE rd.files = {}
  <2>1. rd' = [rd EXCEPT !.pc = "dirs"] /\ UNCHANGED <<held, rest, faults>>
    BY <1>3 DEF RemoveFile
  <2>2. PICK pc : pc = "dirs"
    OBVIOUS
  <2> QED BY <1>1, <1>3, <2>1, <2>2, NextStage
<1>4. CASE rd.files # {}
  <2>1. PICK e \in rd.files :
           \/ /\ Removes(active, e)
              /\ rd' = [rd EXCEPT !.files = @ \ {e}]
              /\ UNCHANGED rest
           \/ RemovalFails(active, e) /\ Told("failed") /\ rest' = rest \cup (rd.files \ {e})
    BY <1>4 DEF RemoveFile
  <2>2. ASSUME ~switched
        PROVE  /\ Below(active, e) = {e} /\ e \in held[active] /\ Inside(e)
               /\ \A x \in rd.files : x \notin Links /\ Inside(x)
    <3>1. Sound(rd.files \cup rd.dirs) /\ active = rd.at
      BY <1>1, <1>2, <2>2 DEF Removing, Clearing
    <3>2. e \in held[active] /\ e \notin Dirs
      BY <1>2, <3>1 DEF Sound
    <3> QED BY <1>2, <3>1, <3>2, NothingBelow DEF Sound
  <2>3. CASE Removes(active, e) /\ rd' = [rd EXCEPT !.files = @ \ {e}] /\ UNCHANGED rest
    <3>1. /\ RdShape(rd') /\ rd'.pc = rd.pc /\ rd'.at = rd.at /\ rd'.items = rd.items
          /\ rd'.told = rd.told /\ rd'.files = rd.files \ {e} /\ rd'.dirs = rd.dirs
      BY <1>2, <2>3 DEF RdShape
    <3>2. rd.dirs = rd.dirs \ {e}
      BY <1>2
    <3> QED BY <1>1, <2>2, <2>3, <3>1, <3>2, RemovedStep
  <2>4. CASE RemovalFails(active, e) /\ Told("failed") /\ rest' = rest \cup (rd.files \ {e})
    <3>1. rd.pc \in Clearing /\ e \in Path
      BY <1>1, <1>2 DEF Clearing
    <3>2. ~switched => Removable(active, e)
      BY <2>2 DEF Removable
    <3>3. \A y \in rest' : y \in Path
      BY <1>2, <2>4
    <3>4. ~switched => \A y \in rest' : y \in rest \/ (y \notin Links /\ Inside(y))
      BY <2>2, <2>4
    <3> QED BY <1>1, <2>2, <2>4, <3>1, <3>2, <3>3, <3>4, FailedStep
  <2> QED BY <2>1, <2>3, <2>4
<1> QED BY <1>3, <1>4

(* One of the deepest directories left: below it there is at most a link. *)
LEMMA RemoveDirStep ==
    ASSUME Held, DeletionInv, RemoveDir, UNCHANGED <<ftVars, switched, unmade, unlisted>>
    PROVE  Held' /\ DeletionInv'
<1> DEFINE level == Deepest(rd.dirs)
<1>1. rd.pc = "dirs" /\ UNCHANGED <<active, ft, queued, switched>>
  BY DEF RemoveDir, ftVars
<1>2. /\ RdTypes /\ Removing /\ RdShape(rd) /\ active \in Places /\ rest \subseteq Path
      /\ rd.files \subseteq Path \ Dirs /\ rd.dirs \subseteq Dirs /\ active # Local
      /\ (~switched => active = rd.at)
  BY <1>1, SideFacts DEF DeletionInv, RdTypes, Clearing
<1>3. CASE rd.dirs = {}
  <2>1. rd' = [rd EXCEPT !.pc = "root"] /\ UNCHANGED <<held, rest, faults>>
    BY <1>3 DEF RemoveDir
  <2>2. PICK pc : pc = "root"
    OBVIOUS
  <2> QED BY <1>1, <1>3, <2>1, <2>2, NextStage
<1>4. CASE rd.dirs # {}
  <2>1. PICK d \in level :
           \/ /\ Removes(active, d)
              /\ rd' = [rd EXCEPT !.dirs = @ \ {d}]
              /\ UNCHANGED rest
           \/ RemovalFails(active, d) /\ Told("failed") /\ rest' = rest \cup (level \ {d})
    BY <1>4 DEF RemoveDir
  <2>2. level \subseteq rd.dirs /\ \A x \in rd.dirs : Len(x) <= Len(d)
    BY <2>1 DEF Deepest
  <2>3. d \in rd.dirs /\ d \in Dirs /\ d \in Path /\ Len(d) \in Nat
    BY <1>2, <2>1, <2>2, WalkAssumption DEF Path
  <2> HIDE DEF level
  <2>4. ASSUME ~switched
        PROVE  /\ d \in held[active] /\ Inside(d) /\ active = rd.at
               /\ \A x \in rd.dirs : x \notin Links /\ Inside(x)
               /\ \A x \in Below(active, d) : x = d \/ (x \in Links /\ x \in held[rd.at] /\ Inside(x))
    <3>1. /\ Sound(rd.files \cup rd.dirs) /\ Complete(rd.files \cup rd.dirs) /\ active = rd.at
          /\ rd.files = {}
      BY <1>1, <1>2, <2>4 DEF Removing, Clearing
    <3>2. d \in held[active] /\ Inside(d) /\ \A x \in rd.dirs : x \notin Links /\ Inside(x)
      BY <2>3, <3>1 DEF Sound
    <3>3. ASSUME NEW x \in Below(active, d), x # d PROVE x \in Links /\ x \in held[rd.at] /\ Inside(x)
      <4>1. x \in held[active] /\ x \in Path /\ IsPrefix(d, x) /\ Len(x) \in Nat
        BY <1>2, <3>3 DEF Below, Held, Path
      <4>2. Len(x) > Len(d)
        BY <2>3, <3>3, <4>1, PrefixIsBeginning
      <4>3. Head(rd.items) \in Path
        BY <1>1, <1>2, FirstSelected
      <4>4. Inside(x)
        BY <2>3, <3>2, <4>1, <4>2, <4>3, PrefixOrder DEF Inside
      <4>5. x \notin rd.dirs
        BY <2>2, <2>3, <4>1, <4>2
      <4> QED BY <3>1, <4>1, <4>4, <4>5 DEF Complete
    <3> QED BY <3>1, <3>2, <3>3
  <2>5. CASE Removes(active, d) /\ rd' = [rd EXCEPT !.dirs = @ \ {d}] /\ UNCHANGED rest
    <3>1. /\ RdShape(rd') /\ rd'.pc = rd.pc /\ rd'.at = rd.at /\ rd'.items = rd.items
          /\ rd'.told = rd.told /\ rd'.dirs = rd.dirs \ {d} /\ rd'.files = rd.files
      BY <1>2, <2>5 DEF RdShape
    <3>2. rd.files = rd.files \ {d}
      BY <1>2, <2>3
    <3>3. ASSUME ~switched PROVE Below(active, d) = {d}
      <4>1. d \in Below(active, d)
        BY <2>3, <2>4, <3>3, PrefixOrder DEF Below
      <4>2. CASE active \in Cloud
        <5>1. \A x \in held[active] : x \notin Links
          BY <4>2 DEF Held
        <5> QED BY <2>4, <3>3, <4>1, <5>1
      <4>3. CASE active \notin Cloud
        BY <1>2, <2>5, <4>3 DEF Removes, Removable
      <4> QED BY <4>2, <4>3
    <3> QED BY <1>1, <2>3, <2>5, <3>1, <3>2, <3>3, RemovedStep
  <2>6. CASE RemovalFails(active, d) /\ Told("failed") /\ rest' = rest \cup (level \ {d})
    <3>1. rd.pc \in Clearing
      BY <1>1 DEF Clearing
    <3>2. ~switched => Removable(active, d) \/ \E l \in Links : l \in held[rd.at] /\ Inside(l)
      <4>1. SUFFICES ASSUME ~switched, ~\E l \in Links : l \in held[rd.at] /\ Inside(l)
                     PROVE  Removable(active, d)
        OBVIOUS
      <4>2. d \in Below(active, d)
        BY <2>3, <2>4, <4>1, PrefixOrder DEF Below
      <4>3. Below(active, d) = {d}
        BY <2>4, <4>1, <4>2
      <4> QED BY <2>4, <4>1, <4>3 DEF Removable
    <3>3. \A y \in rest' : y \in Path
      BY <1>2, <2>2, <2>6, WalkAssumption
    <3>4. ~switched => \A y \in rest' : y \in rest \/ (y \notin Links /\ Inside(y))
      BY <2>2, <2>4, <2>6
    <3> QED BY <1>1, <2>3, <2>4, <2>6, <3>1, <3>2, <3>3, <3>4, FailedStep
  <2> QED BY <2>1, <2>5, <2>6
<1> QED BY <1>3, <1>4

(* The emptied folder itself. *)
LEMMA RemoveRootStep ==
    ASSUME Held, DeletionInv, RemoveRoot, UNCHANGED <<ftVars, switched, unmade, unlisted>>
    PROVE  Held' /\ DeletionInv'
<1> DEFINE e == Head(rd.items)
<1>1. rd.pc = "root" /\ UNCHANGED <<active, rest, ft, queued, switched>>
  BY DEF RemoveRoot, ftVars
<1>2. /\ RdTypes /\ Removing /\ active \in Places /\ rest \subseteq Path /\ active # Local
      /\ (~switched => active = rd.at /\ e \in held[active])
      /\ faults \in Nat /\ rd.pc \in Clearing /\ rd.pc \notin {"idle", "confirm"}
  BY <1>1, SideFacts DEF DeletionInv, RdTypes, Clearing
<1>3. e \in Path /\ Len(e) = 1
  BY <1>2, FirstSelected
<1> HIDE DEF e
<1>4. ASSUME ~switched, NEW x \in Below(active, e), x # e
      PROVE  x \in Links /\ x \in held[rd.at] /\ Inside(x)
  <2>1. Complete(rd.files \cup rd.dirs) /\ rd.files = {} /\ rd.dirs = {} /\ active = rd.at
    BY <1>1, <1>2, <1>4 DEF Removing, Clearing
  <2>2. x \in held[active] /\ x \in Path /\ IsPrefix(e, x)
    BY <1>2, <1>4 DEF Below, Held
  <2>3. Len(e) \in 1..Len(x) /\ Len(e) # Len(x) /\ Len(x) \in Nat
    BY <1>3, <1>4, <2>2, PrefixIsBeginning DEF Path
  <2>4. Inside(x)
    BY <1>3, <2>2, <2>3 DEF Inside, e
  <2> QED BY <2>1, <2>2, <2>4 DEF Complete
<1>5. ~switched => e \in Below(active, e)
  BY <1>2, <1>3, PrefixOrder DEF Below
<1>6. CASE Removes(active, e) /\ Told("deleted")
  <2>1. /\ Held' /\ faults' \in Nat /\ faults' >= faults /\ held'[active] \subseteq held[active]
        /\ \A x \in held[active] \ held'[active] : IsPrefix(e, x)
    BY <1>1, <1>2, <1>3, <1>6, RemovalFacts
  <2>2. PICK result : result = "deleted"
    OBVIOUS
  <2>3. rd'.at = rd.at
    BY <1>2, <1>6, ToldFacts
  <2>4. ASSUME ~switched, NEW t, t = [item |-> e, result |-> result] PROVE SaysSo(t)'
    <3>1. Below(active, e) = {e}
      <4>1. CASE active \in Cloud
        <5>1. \A x \in held[active] : x \notin Links
          BY <4>1 DEF Held
        <5> QED BY <1>2, <1>4, <1>5, <2>4, <5>1
      <4>2. CASE active \notin Cloud
        BY <1>2, <1>6, <4>2 DEF Removes, Removable
      <4> QED BY <4>1, <4>2
    <3>2. \A x \in held'[active] : ~IsPrefix(e, x)
      BY <1>2, <1>6, <2>4, <3>1, GoneFacts
    <3>3. Below(rd.at, t.item)' = {}
      BY <1>2, <2>3, <2>4, <3>2 DEF Below
    <3> QED BY <2>2, <2>4, <3>3 DEF SaysSo
  <2>5. \A y \in rest' : y \in Path /\ y \in rest
    BY <1>1, <1>2
  <2>6. DeletionInv'
    BY <1>1, <1>2, <1>6, <2>1, <2>2, <2>4, <2>5, TellStep DEF e
  <2> QED BY <2>1, <2>6
<1>7. CASE RemovalFails(active, e) /\ Told("failed")
  <2>1. ~switched => Removable(active, e) \/ \E l \in Links : l \in held[rd.at] /\ Inside(l)
    <3>1. SUFFICES ASSUME ~switched, ~\E l \in Links : l \in held[rd.at] /\ Inside(l)
                   PROVE  Removable(active, e)
      OBVIOUS
    <3>2. Below(active, e) = {e}
      BY <1>4, <1>5, <3>1
    <3> QED BY <1>2, <3>1, <3>2 DEF Removable
  <2>2. \A y \in rest' : y \in Path /\ y \in rest
    BY <1>1, <1>2
  <2> QED BY <1>1, <1>2, <1>3, <1>7, <2>1, <2>2, FailedStep DEF e
<1> QED BY <1>6, <1>7 DEF RemoveRoot, e

(* A removal nobody waits for concerns an entry already told of. *)
LEMMA StragglerStep ==
    ASSUME Held, WalkTypes, DeletionInv, Straggler, UNCHANGED <<ftVars, switched, unmade, unlisted>>
    PROVE  Held' /\ DeletionInv'
<1>1. UNCHANGED <<active, walk, messages, rd, ft, queued, switched>>
  BY DEF Straggler, walkVars, ftVars
<1>2. PICK e \in rest : rest' = rest \ {e} /\ (Removes(active, e) \/ RemovalFails(active, e))
  BY DEF Straggler
<1>3. /\ Exclusive /\ RdTypes /\ Removing /\ ToldIsSo /\ faults \in Nat /\ rest \subseteq Path
      /\ rd.at \in Places /\ e \in Path
  BY <1>2 DEF DeletionInv, RdTypes
<1>4. active \in Places /\ active # Local
  BY WalkAssumption DEF Held, Places
<1>5. /\ Held' /\ faults' \in Nat /\ faults' >= faults
      /\ \A q \in Places : held'[q] \subseteq held[q] /\ (q # active => held'[q] = held[q])
      /\ \A x \in held[active] \ held'[active] : x = e
  BY <1>1, <1>2, <1>3, <1>4, RemovalFacts
<1>6. held'[rd.at] \subseteq held[rd.at] /\ \A x \in held[rd.at] \ held'[rd.at] : x = e
  BY <1>3, <1>5
<1>7. Exclusive'
  BY <1>1, <1>2, <1>3 DEF Exclusive
<1>8. RdTypes'
  BY <1>1, <1>2, <1>3, <1>5 DEF RdTypes
<1>9. ASSUME ~switched PROVE Standing /\ e \notin Links /\ \A i \in DOMAIN rd.items : ~IsPrefix(rd.items[i], e)
  BY <1>2, <1>3, <1>9 DEF Removing, Standing
<1>10. ~switched => Standing'
  <2>1. SUFFICES ASSUME ~switched PROVE Standing'
    OBVIOUS
  <2>2. ASSUME rd.pc # "idle", NEW x \in Range(rd.items) PROVE x \in held'[rd.at]
    <3>1. x \in held[rd.at] /\ x \in Path
      <4>1. Range(rd.items) \subseteq held[rd.at]
        BY <1>9, <2>1, <2>2 DEF Standing
      <4>2. held[rd.at] \subseteq Path
        BY <1>3 DEF Held
      <4> QED BY <2>2, <4>1, <4>2
    <3>2. PICK i \in DOMAIN rd.items : x = rd.items[i]
      BY <2>2 DEF Range
    <3>3. x # e
      BY <1>9, <2>1, <3>1, <3>2, PrefixOrder
    <3> QED BY <1>6, <3>1, <3>3
  <2> QED BY <1>1, <1>2, <1>9, <2>1, <2>2 DEF Standing
<1>11. \A x : Inside(x)' <=> Inside(x)
  BY <1>1 DEF Inside
<1>12. ASSUME ~switched, rd.pc # "idle", NEW C
       PROVE  /\ Sound(C) => Sound(C)'
              /\ Complete(C) => Complete(C)'
              /\ \A A : AllSeen(C, A) => AllSeen(C, A)'
  <2>1. ~Inside(e)
    BY <1>3, <1>9, <1>12, FirstSelected DEF Inside
  <2>2. Sound(C) => Sound(C)'
    BY <1>1, <1>6, <1>11, <2>1 DEF Sound
  <2>3. Complete(C) => Complete(C)'
    BY <1>1, <1>6, <1>11 DEF Complete
  <2>4. \A A : AllSeen(C, A) => AllSeen(C, A)'
    BY <1>1, <1>6, <1>11 DEF AllSeen, Strictly
  <2> QED BY <2>2, <2>3, <2>4
<1>13. Removing'
  <2>1. SUFFICES ASSUME ~switched PROVE Removing'
    BY <1>1 DEF Removing
  <2>2. PICK C, D, A : C = Collected /\ D = rd.files \cup rd.dirs /\ A = ToList
    OBVIOUS
  <2>3. C = Collected' /\ D = (rd.files \cup rd.dirs)' /\ A = ToList'
    BY <1>1, <2>2 DEF Collected, SentIn, ToList
  <2>4. rd.pc = "collect" => Collecting'
    <3>1. SUFFICES ASSUME rd.pc = "collect" PROVE Collecting'
      OBVIOUS
    <3>2. Collecting
      BY <1>3, <2>1, <3>1 DEF Removing
    <3>3. Sound(C)' /\ (AllSeen(C, A) => AllSeen(C, A)')
      BY <1>12, <2>1, <2>2, <3>1, <3>2 DEF Collecting
    <3>4. Sound(Collected)' /\ (AllSeen(Collected, ToList) => AllSeen(Collected, ToList)')
      BY <2>2, <2>3, <3>3
    <3>5. /\ Stream(messages, Ended)' <=> Stream(messages, Ended)
          /\ Broken(messages, Ended)' <=> Broken(messages, Ended)
      BY <1>1 DEF Stream, Broken, Ended
    <3>6. \A d \in ToList' : d = Head(rd.items)' \/ Inside(d)'
      BY <1>1, <1>11, <2>2, <2>3, <3>2 DEF Collecting
    <3> QED BY <1>1, <3>2, <3>4, <3>5, <3>6 DEF Collecting
  <2>5. rd.pc \in Clearing => Sound(rd.files \cup rd.dirs)' /\ Complete(rd.files \cup rd.dirs)'
    <3>1. SUFFICES ASSUME rd.pc \in Clearing PROVE Sound(D)' /\ Complete(D)'
      BY <2>3
    <3>2. Sound(D) /\ Complete(D) /\ rd.pc # "idle"
      BY <1>3, <2>1, <2>2, <3>1 DEF Removing, Clearing
    <3> QED BY <1>12, <2>1, <3>2
  <2> QED BY <1>1, <1>3, <1>10, <2>1, <2>4, <2>5 DEF Removing
<1>14. ToldIsSo'
  <2>1. SUFFICES ASSUME ~switched, NEW t \in rd.told
                 PROVE  /\ SaysSo(t)' /\ t.item \in Path /\ Len(t.item) = 1
                        /\ \A i \in DOMAIN rd.items : t.item # rd.items[i]
    BY <1>1 DEF ToldIsSo, DeletedMeansGone, FailedForAReason, SaysSo
  <2>2. /\ SaysSo(t) /\ t.item \in Path /\ Len(t.item) = 1
        /\ \A i \in DOMAIN rd.items : t.item # rd.items[i]
    BY <1>3, <2>1, AllSaySo
  <2>3. SaysSo(t)'
    BY <1>1, <1>3, <1>5, <1>6, <1>9, <2>1, <2>2, SaidBefore
  <2> QED BY <2>2, <2>3
<1> QED BY <1>5, <1>7, <1>8, <1>13, <1>14 DEF DeletionInv

-----------------------------------------------------------------------------
(* The user, and all of it together. *)

(* Every step of a deletion keeps what holds of it. *)
LEMMA DeleteStep ==
    ASSUME OpsInv, Delete, UNCHANGED <<ftVars, switched, unmade, unlisted>>
    PROVE  OpsInv'
<1>1. /\ Held /\ WalkTypes /\ FtTypes /\ FoldersFirst /\ CacheKnows /\ DeletionInv
  BY DEF OpsInv, DeletionInv
<1>2. UNCHANGED <<active, ft, cache, rule, queued, switched, unmade, unlisted>>
  BY DEF Delete, Confirmed, RemoveOne, CollectTree, Collect, RemoveFile, RemoveDir, RemoveRoot,
         Straggler, ftVars
<1>3. rd.pc # "idle" \/ rest # {}
  BY DEF Delete, Confirmed, RemoveOne, CollectTree, Collect, RemoveFile, RemoveDir, RemoveRoot,
         Straggler
<1>4. FtTypes' /\ FoldersFirst' /\ CacheKnows'
  BY <1>1, <1>2, <1>3, TransferAtRest DEF DeletionInv
<1>5. Held' /\ WalkTypes' /\ DeletionInv'
  <2>1. UNCHANGED <<walk, messages>> => WalkTypes'
    BY <1>1 DEF WalkTypes, ToList
  <2>2. CASE Confirmed
    BY <1>1, <2>1, <2>2, ConfirmedStep DEF Confirmed, walkVars
  <2>3. CASE RemoveOne
    BY <1>1, <2>1, <2>3, RemoveOneStep DEF RemoveOne, walkVars
  <2>4. CASE CollectTree
    BY <1>1, <2>4, CollectTreeStep
  <2>5. CASE Collect
    BY <1>1, <2>5, CollectStep
  <2>6. CASE RemoveFile
    BY <1>1, <2>1, <2>6, RemoveFileStep DEF RemoveFile, walkVars
  <2>7. CASE RemoveDir
    BY <1>1, <2>1, <2>7, RemoveDirStep DEF RemoveDir, walkVars
  <2>8. CASE RemoveRoot
    BY <1>1, <2>1, <2>8, RemoveRootStep DEF RemoveRoot, walkVars
  <2>9. CASE Straggler
    BY <1>1, <2>1, <2>9, StragglerStep DEF Straggler, walkVars
  <2> QED BY <2>2, <2>3, <2>4, <2>5, <2>6, <2>7, <2>8, <2>9 DEF Delete
<1> QED BY <1>4, <1>5 DEF OpsInv, DeletionInv

(* One or two selected entries are single names, and differ. *)
LEMMA SelectedFacts ==
    ASSUME Held, NEW p \in Places, NEW items \in Selected(p)
    PROVE  /\ items \in Seq(Path) /\ items # <<>>
           /\ \A i \in DOMAIN items : items[i] \in held[p] /\ Len(items[i]) = 1
<1>1. \A e \in Top(p) : e \in Path /\ e \in held[p] /\ Len(e) = 1
  BY DEF Top, Held
<1>2. CASE \E e \in Top(p) : items = <<e>>
  <2>1. PICK e \in Top(p) : items = <<e>>
    BY <1>2
  <2>2. e \in Path /\ e \in held[p] /\ Len(e) = 1
    BY <1>1
  <2> QED BY <2>1, <2>2
<1>3. CASE \E e, f \in Top(p) : items = <<e, f>>
  <2>1. PICK e \in Top(p), f \in Top(p) : items = <<e, f>>
    BY <1>3
  <2>2. e \in Path /\ e \in held[p] /\ Len(e) = 1 /\ f \in Path /\ f \in held[p] /\ Len(f) = 1
    BY <1>1
  <2> QED BY <2>1, <2>2
<1> QED BY <1>2, <1>3 DEF Selected

(* A transfer begins. *)
LEMMA UserTransfersStep ==
    ASSUME OpsInv, UserTransfers PROVE OpsInv'
<1>1. PICK up \in BOOLEAN : \E items \in Selected(IF up THEN Local ELSE active) :
         IsInjective(items) /\ TransferManyTo(up, items)
  BY DEF UserTransfers
<1>2. PICK items \in Selected(IF up THEN Local ELSE active) : TransferManyTo(up, items)
  BY <1>1
<1>3. /\ rd' = RdIdle /\ rest = {} /\ UNCHANGED <<rest, faults>>
      /\ UNCHANGED <<active, held, walk, messages, cache, rule>>
      /\ switched' = FALSE /\ unmade' = {} /\ unlisted' = {} /\ queued' = {}
  BY <1>2 DEF UserTransfers, Begins, TransferManyTo, walkVars
<1>4. PICK c \in Comparison :
        ft' = [FtIdle EXCEPT !.pc = "item", !.items = items, !.up = up, !.cmp = c,
                             !.single = (Len(items) = 1)]
  BY <1>2 DEF TransferManyTo
<1>5. /\ Shape(ft') /\ ft'.pc = "item" /\ ft'.items = items /\ ft'.up = up /\ ft'.batch = NoBatch
      /\ ft'.dirs = {} /\ ft'.files = {}
  BY <1>4 DEF FtIdle, Shape
<1>6. Held /\ FtTypes /\ WalkTypes /\ CacheKnows /\ RdTypes
  BY DEF OpsInv
<1>7. items \in Seq(Path) /\ items # <<>> /\ \A i \in DOMAIN items : Len(items[i]) = 1
  <2>1. (IF up THEN Local ELSE active) \in Places
    BY <1>6 DEF Held, Places
  <2> QED BY <1>2, <1>6, <2>1, SelectedFacts
<1>8. Held' /\ WalkTypes'
  BY <1>3, <1>6 DEF Held, WalkTypes, ToList
<1>9. NoBatch \in Answers
  BY DEF NoBatch, Answers
<1>10. FtTypes'
  BY <1>3, <1>5, <1>6, <1>7, <1>9 DEF FtTypes, InItem, Making, Deciding
<1>11. FoldersFirst'
  BY <1>3, <1>5 DEF FoldersFirst, FilesFollowFolders, InItem, Making, Deciding
<1>12. CacheKnows'
  BY <1>3, <1>5, <1>6 DEF CacheKnows, FreshTargets, InItem, Making, Deciding
<1>13. rd'.pc = "idle" /\ rd'.at = Local /\ rd'.items = <<>> /\ rd'.files = {} /\ rd'.dirs = {}
       /\ rd'.told = {} /\ RdShape(rd')
  BY <1>3 DEF RdIdle, RdShape
<1>14. Exclusive'
  BY <1>3, <1>13 DEF Exclusive
<1>15. RdTypes'
  <2>1. <<>> \in Seq(Path) /\ DOMAIN <<>> = {} /\ IsInjective(<<>>)
    BY EmptySeq DEF IsInjective
  <2> QED BY <1>3, <1>6, <1>13, <2>1 DEF RdTypes, Clearing, Places
<1>16. Removing'
  BY <1>3, <1>13 DEF Removing, Standing, Clearing
<1>17. ToldIsSo'
  BY <1>13 DEF ToldIsSo, DeletedMeansGone, FailedForAReason
<1> QED BY <1>8, <1>10, <1>11, <1>12, <1>14, <1>15, <1>16, <1>17 DEF OpsInv

(* A deletion begins. *)
LEMMA UserDeletesStep ==
    ASSUME OpsInv, UserDeletes PROVE OpsInv'
<1>1. PICK p \in {Local, active} : \E items \in Selected(p) :
         IsInjective(items) /\ DeleteEntries(p, items)
  BY DEF UserDeletes
<1>2. PICK items \in Selected(p) : IsInjective(items) /\ DeleteEntries(p, items)
  BY <1>1
<1>3. /\ ft.pc = "idle" /\ rest = {} /\ UNCHANGED <<rest, faults>>
      /\ UNCHANGED <<active, held, walk, messages, ft, cache, rule>>
      /\ switched' = FALSE /\ unmade' = {} /\ unlisted' = {} /\ queued' = {}
      /\ rd' = [RdIdle EXCEPT !.pc = "confirm", !.at = p, !.items = items]
  BY <1>2 DEF UserDeletes, Begins, Idle, DeleteEntries, walkVars
<1>4. Held /\ FtTypes /\ WalkTypes /\ CacheKnows /\ RdTypes
  BY DEF OpsInv
<1>5. /\ RdShape(rd') /\ rd'.pc = "confirm" /\ rd'.at = p /\ rd'.items = items
      /\ rd'.files = {} /\ rd'.dirs = {} /\ rd'.told = {}
  BY <1>3 DEF RdIdle, RdShape
<1>6. p \in Places
  BY <1>4 DEF Held, Places
<1>7. /\ items \in Seq(Path) /\ items # <<>>
      /\ \A i \in DOMAIN items : items[i] \in held[p] /\ Len(items[i]) = 1
  BY <1>4, <1>6, SelectedFacts
<1>8. Held' /\ WalkTypes'
  BY <1>3, <1>4 DEF Held, WalkTypes, ToList
<1>9. FtTypes'
  BY <1>3, <1>4 DEF FtTypes
<1>10. FoldersFirst'
  BY <1>3 DEF FoldersFirst, FilesFollowFolders, InItem, Making, Deciding
<1>11. CacheKnows'
  BY <1>3, <1>4 DEF CacheKnows, FreshTargets, InItem, Making, Deciding
<1>12. Exclusive'
  BY <1>3 DEF Exclusive
<1>13. RdTypes'
  BY <1>2, <1>3, <1>4, <1>5, <1>6, <1>7 DEF RdTypes, Clearing
<1>14. Removing'
  <2>1. Range(items) \subseteq held[p]
    BY <1>7 DEF Range
  <2> QED BY <1>3, <1>5, <2>1 DEF Removing, Standing, Clearing
<1>15. ToldIsSo'
  BY <1>5 DEF ToldIsSo, DeletedMeansGone, FailedForAReason
<1> QED BY <1>8, <1>9, <1>10, <1>11, <1>12, <1>13, <1>14, <1>15 DEF OpsInv

(* Every step of the program keeps the invariant. *)
LEMMA OpsStep == OpsInv /\ [OpsNext]_opsVars => OpsInv'
<1> SUFFICES ASSUME OpsInv, [OpsNext]_opsVars PROVE OpsInv'
  OBVIOUS
<1>1. /\ Held /\ WalkTypes /\ FtTypes /\ FoldersFirst /\ CacheKnows
      /\ Exclusive /\ RdTypes /\ Removing /\ ToldIsSo
      /\ TransferInv /\ DeletionInv
  BY DEF OpsInv, TransferInv, DeletionInv
<1>2. CASE UserTransfers
  BY <1>2, UserTransfersStep
<1>3. CASE UserDeletes
  BY <1>3, UserDeletesStep
<1>4. CASE ActivateTab
  <2>1. /\ active' \in Conn /\ switched' = TRUE
        /\ UNCHANGED <<held, walk, messages, ft, cache, rule, queued, unmade, unlisted>>
        /\ UNCHANGED <<rd, rest, faults>>
    BY <1>4 DEF ActivateTab, walkVars, ftVars, rdVars
  <2>2. Held' /\ WalkTypes' /\ FtTypes' /\ FoldersFirst'
    BY <1>1, <2>1 DEF Held, WalkTypes, ToList, FtTypes, FoldersFirst
  <2>3. CacheKnows'
    <3>1. \A x : Key(x)' = Key(x)
      BY <2>1 DEF Key
    <3> QED BY <1>1, <2>1, <3>1 DEF CacheKnows, FreshTargets
  <2>4. Exclusive' /\ RdTypes' /\ Removing' /\ ToldIsSo'
    BY <1>1, <2>1 DEF Exclusive, RdTypes, Removing, ToldIsSo
  <2> QED BY <2>2, <2>3, <2>4 DEF OpsInv
<1>5. CASE Walks
  <2>1. /\ Walk /\ UNCHANGED <<ft, cache, rule, queued, switched, unmade, unlisted, rd, rest, faults>>
    BY <1>5, WalkFaults DEF Walks, ftVars, rdVars
  <2>2. TransferInv' /\ UNCHANGED <<active, held>>
    BY <1>1, <2>1, WalkStep, WalkTypesKept
  <2>3. Exclusive' /\ RdTypes'
    BY <1>1, <2>1 DEF Exclusive, RdTypes
  <2>4. ToldIsSo'
    BY <1>1, <2>1, <2>2 DEF ToldIsSo, DeletedMeansGone, FailedForAReason, Below
  <2>5. Removing'
    <3>1. Standing => Standing'
      BY <2>1, <2>2 DEF Standing
    <3>2. rd.pc = "collect" /\ Collecting => Collecting'
      BY <1>1, <2>1, <2>2, WalkKeepsCollecting
    <3>3. \A x : Inside(x)' <=> Inside(x)
      BY <2>1 DEF Inside
    <3>4. /\ Sound(rd.files \cup rd.dirs) => Sound(rd.files \cup rd.dirs)'
          /\ Complete(rd.files \cup rd.dirs) => Complete(rd.files \cup rd.dirs)'
      BY <2>1, <2>2, <3>3 DEF Sound, Complete
    <3> QED BY <1>1, <2>1, <3>1, <3>2, <3>4 DEF Removing
  <2> QED BY <2>2, <2>3, <2>4, <2>5 DEF OpsInv, TransferInv
<1>6. CASE Transfers
  <2>1. Transfer /\ UNCHANGED <<rd, rest>> /\ faults' \in Nat
    BY <1>1, <1>6, TransferFaults DEF Transfers, rdVars, RdTypes
  <2>2. TransferInv'
    BY <1>1, <2>1, TransferStep
  <2>3. ft.pc # "idle" /\ UNCHANGED <<active, switched>>
    BY <2>1 DEF Transfer, TransferFile, MakeRoot, Scan, Take, MkdirMany, MkdirManyFails, MkdirEach, NextFile, FilesDone, Look, PromptAnswered, PromptCancelled,
       Enqueue, history
  <2>4. DeletionInv'
    BY <1>1, <2>1, <2>3, DeletionAtRest
  <2> QED BY <2>2, <2>4 DEF OpsInv, TransferInv, DeletionInv
<1>7. CASE Deletes
  BY <1>7, DeleteStep DEF Deletes
<1>8. CASE Stops
  <2>1. /\ walk' = Cancelled(walk) /\ ft.pc # "idle"
        /\ UNCHANGED <<active, held, messages, ft, cache, rule, queued, switched, unmade, unlisted>>
        /\ UNCHANGED <<rd, rest, faults>>
    BY <1>8 DEF Stops, StopWalk, ftVars, history, rdVars
  <2>2. TransferInv'
    BY <1>1, <2>1, CancelStep
  <2>3. DeletionInv'
    BY <1>1, <2>1, DeletionAtRest DEF RdTypes
  <2> QED BY <2>2, <2>3 DEF OpsInv, TransferInv, DeletionInv
<1>9. CASE UNCHANGED opsVars
  <2>1. /\ UNCHANGED <<active, held, walk, messages, ft, cache, rule, queued, switched, unmade, unlisted>>
        /\ UNCHANGED <<rd, rest, faults>>
    BY <1>9 DEF opsVars, walkVars, ftVars, history, rdVars
  <2>2. TransferInv'
    BY <1>1, <2>1, CancelStep
  <2>3. Exclusive' /\ RdTypes'
    BY <1>1, <2>1 DEF Exclusive, RdTypes
  <2>4. ToldIsSo'
    BY <1>1, <2>1 DEF ToldIsSo, DeletedMeansGone, FailedForAReason, Below
  <2>5. Removing'
    <3>1. Standing => Standing'
      BY <2>1 DEF Standing
    <3>2. Collecting => Collecting'
      BY <2>1 DEF Collecting, Stream, Broken, Ended, Sound, AllSeen, Inside, Collected, SentIn,
         Strictly, ToList
    <3>3. /\ Sound(rd.files \cup rd.dirs) => Sound(rd.files \cup rd.dirs)'
          /\ Complete(rd.files \cup rd.dirs) => Complete(rd.files \cup rd.dirs)'
      BY <2>1 DEF Sound, Complete, Inside
    <3> QED BY <1>1, <2>1, <3>1, <3>2, <3>3 DEF Removing
  <2> QED BY <2>2, <2>3, <2>4, <2>5 DEF OpsInv, TransferInv
<1> QED BY <1>2, <1>3, <1>4, <1>5, <1>6, <1>7, <1>8, <1>9 DEF OpsNext

(* The program starts in it. *)
LEMMA OpsStart == OpsInit => OpsInv
<1> SUFFICES ASSUME OpsInit PROVE OpsInv
  OBVIOUS
<1>1. /\ active \in Conn /\ held = Content /\ walk = NoWalk /\ messages = <<>> /\ ft = FtIdle
      /\ cache = NoCache /\ queued = {} /\ switched = FALSE /\ unmade = {} /\ unlisted = {}
      /\ \E s \in Saved : rule = [up \in BOOLEAN |-> [setting |-> s[up], session |-> NoRule]]
      /\ rd = RdIdle /\ rest = {} /\ faults = 0
  BY DEF OpsInit, WalkInit, FtInit, RdInit
<1>2. Held
  <2>1. held \in [Places -> SUBSET Path]
    BY <1>1, FolderAssumption DEF Places
  <2> QED BY <1>1, <2>1, FolderAssumption, WalkAssumption DEF Held, Places
<1>3. WalkTypes
  <2>1. <<>> \in Seq(Path) /\ <<>> \in Paths /\ <<>> \in Seq(Message)
    BY EmptySeq DEF Paths
  <2>2. walk \in WalkState /\ ToList = {} /\ walk.listing = {} /\ walk.st = "off"
    BY <1>1, <2>1 DEF NoWalk, WalkState, ToList, Range, Places
  <2> QED BY <1>1, <2>1, <2>2, FS_EmptySet, EmptySeq, WalkAssumption DEF WalkTypes
<1>4. FtTypes
  <2>1. NoBatch \in Answers
    BY DEF NoBatch, Answers
  <2>2. rule \in [BOOLEAN -> [setting : Policy, session : Policy \cup {NoRule}]]
    BY <1>1, TransferAssumption
  <2>3. Shape(ft) /\ ft.pc = "idle" /\ ft.up = TRUE /\ ft.batch = NoBatch /\ ft.items = <<>>
        /\ ft.dirs = {} /\ ft.files = {}
    BY <1>1 DEF FtIdle, Shape
  <2>4. <<>> \in Seq(Path) /\ DOMAIN <<>> = {}
    BY EmptySeq
  <2> QED BY <1>1, <2>1, <2>2, <2>3, <2>4 DEF FtTypes, InItem, Making, Deciding
<1>5. FoldersFirst
  BY <1>1 DEF FoldersFirst, FilesFollowFolders, FtIdle, InItem, Making, Deciding
<1>6. CacheKnows
  BY <1>1 DEF CacheKnows, FreshTargets, NoCache, FtIdle, InItem, Making, Deciding
<1>7. Exclusive
  BY <1>1 DEF Exclusive, FtIdle, RdIdle
<1>8. RdTypes
  <2>1. <<>> \in Seq(Path) /\ DOMAIN <<>> = {} /\ IsInjective(<<>>)
    BY EmptySeq DEF IsInjective
  <2>2. RdShape(rd) /\ rd.pc = "idle" /\ rd.at = Local /\ rd.items = <<>> /\ rd.files = {}
        /\ rd.dirs = {} /\ rd.told = {}
    BY <1>1 DEF RdIdle, RdShape
  <2> QED BY <1>1, <2>1, <2>2 DEF RdTypes, Clearing, Places
<1>9. Removing /\ ToldIsSo
  BY <1>1 DEF Removing, Standing, ToldIsSo, DeletedMeansGone, FailedForAReason, RdIdle, Clearing
<1> QED BY <1>2, <1>3, <1>4, <1>5, <1>6, <1>7, <1>8, <1>9 DEF OpsInv

(* The invariant holds throughout. *)
LEMMA OpsInvariant == OpsSpec => []OpsInv
BY OpsStart, OpsStep, PTL DEF OpsSpec

(* While the tab is not switched, every file is enqueued into a directory that is
   there, or at or below one whose own mkdir failed and nobody was told: the walk
   announces a directory before what is in it, and the directories of a message are
   made before its files. *)
THEOREM FolderFilesFollow == OpsSpec => []FilesFollowFolders
<1>1. OpsInv => FilesFollowFolders
  BY DEF OpsInv, FoldersFirst, FilesFollowFolders
<1> QED BY <1>1, OpsInvariant, PTL

(* A file under a free or a new name replaces no other one, whatever the cache of
   listings knew, except on an object store, or where the listing of its directory
   failed and the directory counts as empty. *)
THEOREM FolderFreshTargets == OpsSpec => []FreshTargets
<1>1. OpsInv => FreshTargets
  BY DEF OpsInv, CacheKnows
<1> QED BY <1>1, OpsInvariant, PTL

(* What the status line says of a deletion is so: what is said to be deleted is
   gone with all that was below it, and a failure has a reason. *)
THEOREM FolderDeletionTold == OpsSpec => []DeletionTold
<1>1. OpsInv => DeletionTold
  BY DEF OpsInv, ToldIsSo, DeletionTold, FailedForAReason
<1> QED BY <1>1, OpsInvariant, PTL
=============================================================================
