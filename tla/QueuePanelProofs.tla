-------------------------- MODULE QueuePanelProofs --------------------------
(***************************************************************************)
(* Proofs about QueuePanel, for any number of transfers, retries and       *)
(* dropped files.                                                          *)
(*                                                                         *)
(* The invariant says where the events of a transfer are while the panel   *)
(* lags behind the engine (InOrder, RowOfJob), that an active row has no   *)
(* outcome yet (OpenRows), and that the tally and the count of active rows *)
(* are those of the rows and outcomes there are (Books).                   *)
(***************************************************************************)
EXTENDS QueuePanel, SequenceTheorems, FiniteSetTheorems, TLAPS

EventOf == Engine!Event \ {"none"}
Outcomes == {"none", "Done", "Error", "Cancelled"}
Waits(j, e) == \E k \in DOMAIN events : events[k].id = j /\ events[k].event = e

Types ==
    /\ shown \in [Jobs -> Engine!Event]
    /\ events \in Seq([id : Jobs, event : EventOf])
    /\ replies \subseteq Jobs /\ requests \subseteq Jobs
    /\ row \in [Items -> {Absent, "active", "success", "failed"}]
    /\ outcome \in [Items -> Outcomes]
    /\ reported \in [Items -> BOOLEAN]
    /\ importing \in BOOLEAN

(* Where the events of a transfer are, and what the panel has made of them. *)
InOrder == \A k \in DOMAIN events : LET j == events[k].id IN
    /\ outcome[j] = "none" /\ shown[j] # "none"
    /\ events[k].event = "Queued" =>
          row[j] = Absent /\ \A m \in DOMAIN events : m < k => events[m].id # j
    /\ events[k].event \in Engine!Terminal =>
          events[k].event = shown[j] /\ \A m \in DOMAIN events : m > k => events[m].id # j

RowOfJob == \A j \in Jobs :
    /\ shown[j] = "none" => row[j] = Absent /\ outcome[j] = "none"
    /\ outcome[j] = "none" /\ shown[j] # "none" => row[j] = "active" \/ Waits(j, "Queued")
    /\ outcome[j] # "none" => outcome[j] = shown[j]
    /\ shown[j] \in Engine!Terminal => outcome[j] = shown[j] \/ Waits(j, shown[j])
    /\ row[j] # Absent \/ Waits(j, "Queued") => j \in replies \cup requests

OpenRows == \A i \in Items : row[i] = "active" => outcome[i] = "none"

(* Outcomes that no report has covered, and what the panel counts. *)
Untold(oc, rp, e) == {i \in Items : oc[i] = e /\ ~rp[i]}
Books ==
    /\ IsFiniteSet(Active(row)) /\ prevActiveCount = Cardinality(Active(row))
    /\ IsFiniteSet(Untold(outcome, reported, "Done"))
    /\ success = Cardinality(Untold(outcome, reported, "Done"))
    /\ IsFiniteSet(Untold(outcome, reported, "Error"))
    /\ failed = Cardinality(Untold(outcome, reported, "Error"))
    /\ \A i \in Items : reported[i] => outcome[i] \in {"Done", "Error"}
    /\ Active(row) = {} /\ ~importing =>
          \A e \in {"Done", "Error"} : Untold(outcome, reported, e) = {}

IInv == Types /\ InOrder /\ RowOfJob /\ OpenRows /\ Books

(* No dropped file has the id of a transfer. *)
LEMMA JobsAreItems == Jobs \subseteq Items /\ Jobs \cap Dropped = {}
BY PanelAssumption DEF Jobs, Items

-----------------------------------------------------------------------------
(* The engine emits an event. *)

(* An event names a transfer. *)
LEMMA EventTypes ==
    ASSUME Types
    PROVE  \A k \in DOMAIN events : events[k].id \in Jobs /\ events[k].event \in EventOf
<1> DEFINE S == [id : Jobs, event : EventOf]
<1>1. \A x \in S : x.id \in Jobs /\ x.event \in EventOf
  OBVIOUS
<1>2. events \in Seq(S)
  BY DEF Types
<1> HIDE DEF S
<1>3. \A k \in DOMAIN events : events[k] \in S
  BY <1>2
<1> QED BY <1>1, <1>3

(* An event appended is the last, and those before it stay where they are. *)
LEMMA AppendedEvent ==
    ASSUME Types, NEW j \in Jobs, NEW e \in EventOf,
           events' = Append(events, [id |-> j, event |-> e])
    PROVE  /\ events' \in Seq([id : Jobs, event : EventOf])
           /\ Len(events) \in Nat /\ DOMAIN events = 1..Len(events)
           /\ DOMAIN events' = 1..(Len(events) + 1)
           /\ \A k \in 1..Len(events) : events'[k] = events[k]
           /\ events'[Len(events) + 1] = [id |-> j, event |-> e]
           /\ \A i, x : Waits(i, x)' <=> Waits(i, x) \/ (i = j /\ x = e)
<1>1. /\ events \in Seq([id : Jobs, event : EventOf])
      /\ [id |-> j, event |-> e] \in [id : Jobs, event : EventOf]
  BY DEF Types
<1>2. /\ events' \in Seq([id : Jobs, event : EventOf])
      /\ Len(events) \in Nat /\ DOMAIN events = 1..Len(events)
      /\ DOMAIN events' = 1..(Len(events) + 1)
      /\ \A k \in 1..Len(events) : events'[k] = events[k]
      /\ events'[Len(events) + 1] = [id |-> j, event |-> e]
  BY <1>1
<1>3. \A k \in 1..(Len(events) + 1) : k \in 1..Len(events) \/ k = Len(events) + 1
  BY <1>2
<1>4. ASSUME NEW i, NEW x PROVE Waits(i, x)' <=> Waits(i, x) \/ (i = j /\ x = e)
  <2>1. Waits(i, x) => Waits(i, x)'
    BY <1>2 DEF Waits
  <2>2. i = j /\ x = e => Waits(i, x)'
    BY <1>2 DEF Waits
  <2>3. Waits(i, x)' => Waits(i, x) \/ (i = j /\ x = e)
    BY <1>2, <1>3 DEF Waits
  <2> QED BY <2>1, <2>2, <2>3
<1> QED BY <1>2, <1>4

(* A step of the engine for one transfer: its first event, or a later one. *)
Emits(j, e) ==
    /\ shown' = [shown EXCEPT ![j] = e]
    /\ events' = Append(events, [id |-> j, event |-> e])
    /\ \/ shown[j] = "none" /\ e = "Queued" /\ replies' = replies \cup {j}
       \/ shown[j] \in {"Queued", "Start", "Retry"} /\ e \in EventOf \ {"Queued"}
          /\ replies' = replies

(* Whatever the engine does for a transfer is such a step. *)
LEMMA EmitsIsStep ==
    ASSUME Types, NEW j \in Jobs, Emit(j),
           \/ Engine!Submit(j) /\ replies' = replies \cup {j}
           \/ (Engine!Begin(j) \/ Engine!Retry(j) \/ Engine!Settle(j)) /\ replies' = replies
    PROVE  \E e \in EventOf : Emits(j, e)
<1>1. PICK e \in EventOf :
        /\ shown' = [shown EXCEPT ![j] = e]
        /\ \/ shown[j] = "none" /\ e = "Queued" /\ replies' = replies \cup {j}
           \/ shown[j] \in {"Queued", "Start", "Retry"} /\ e \in EventOf \ {"Queued"}
              /\ replies' = replies
  BY DEF Types, Engine!Submit, Engine!Begin, Engine!Retry, Engine!Settle, Engine!Running,
         Engine!Terminal, Engine!Event, EventOf
<1>2. shown'[j] = e
  BY <1>1 DEF Types
<1> QED BY <1>1, <1>2 DEF Emits, Emit

(* A settled row has its outcome, and once there is one no event is left. *)
LEMMA SettledRow ==
    ASSUME Types, InOrder, RowOfJob, NEW i \in Jobs
    PROVE  /\ outcome[i] # "none" => shown[i] = outcome[i] /\ \A x : ~Waits(i, x)
           /\ row[i] \in {"success", "failed"} => outcome[i] # "none"
<1>1. outcome[i] # "none" => shown[i] = outcome[i]
  BY DEF RowOfJob
<1>2. outcome[i] # "none" => \A x : ~Waits(i, x)
  BY DEF InOrder, Waits
<1>3. Waits(i, "Queued") => row[i] = Absent
  BY DEF InOrder, Waits
<1>4. row[i] \in {"success", "failed"} => outcome[i] # "none"
  BY <1>3 DEF RowOfJob, Absent
<1> QED BY <1>1, <1>2, <1>4

(* Rows that are there keep their requests; settled rows may be cleared. *)
ClearsSettled == \A i \in Jobs :
    \/ row'[i] = row[i] /\ (i \in requests => i \in requests')
    \/ row[i] \in {"success", "failed"} /\ row'[i] = Absent

(* The event sets out behind those there are. *)
LEMMA EmitKeeps ==
    ASSUME Types, InOrder, RowOfJob, NEW j \in Jobs, NEW e \in EventOf, Emits(j, e),
           UNCHANGED outcome, ClearsSettled
    PROVE  InOrder' /\ RowOfJob' /\ shown' \in [Jobs -> Engine!Event]
           /\ events' \in Seq([id : Jobs, event : EventOf]) /\ replies' \subseteq Jobs
<1> DEFINE n == Len(events)
<1>1. /\ events' \in Seq([id : Jobs, event : EventOf])
      /\ n \in Nat /\ DOMAIN events = 1..n /\ DOMAIN events' = 1..(n + 1)
      /\ \A k \in 1..n : events'[k] = events[k]
      /\ events'[n + 1] = [id |-> j, event |-> e]
      /\ \A i, x : Waits(i, x)' <=> Waits(i, x) \/ (i = j /\ x = e)
  BY AppendedEvent DEF Emits
<1>2. /\ shown' \in [Jobs -> Engine!Event] /\ replies' \subseteq Jobs
      /\ shown'[j] = e /\ e # "none" /\ \A i \in Jobs : i # j => shown'[i] = shown[i]
  BY DEF Types, Emits, EventOf
<1>3. /\ outcome[j] = "none" /\ shown[j] \notin Engine!Terminal
      /\ e = "Queued" => row[j] = Absent /\ \A k \in 1..n : events[k].id # j
      /\ e # "Queued" => shown[j] # "none"
  <2>1. shown[j] \in {"none", "Queued", "Start", "Retry"} /\ (e = "Queued" <=> shown[j] = "none")
    BY DEF Emits
  <2>2. outcome[j] \in Outcomes
    BY JobsAreItems DEF Types
  <2>3. outcome[j] = "none"
    BY <2>1, <2>2 DEF RowOfJob, Outcomes
  <2>4. shown[j] = "none" => row[j] = Absent /\ \A k \in 1..n : events[k].id # j
    BY <1>1 DEF InOrder, RowOfJob
  <2> QED BY <2>1, <2>3, <2>4 DEF Engine!Terminal
<1>0. \A k \in 1..n : events[k].id \in Jobs /\ events[k].event \in EventOf
  BY <1>1, EventTypes
<1>a. \A i \in Jobs : outcome[i] = "none" => row'[i] = row[i] /\ (i \in requests => i \in requests')
  BY SettledRow DEF ClearsSettled
<1>b. \A i \in Jobs : outcome[i] # "none" => shown[i] = outcome[i] /\ ~Waits(i, "Queued")
  BY SettledRow
<1>c. \A i \in Jobs : row'[i] # Absent => row'[i] = row[i] /\ (i \in requests => i \in requests')
  BY DEF ClearsSettled
<1> HIDE DEF n
<1>4. ASSUME NEW k \in 1..(n + 1)
      PROVE  LET i == events'[k].id IN
             /\ outcome[i] = "none" /\ shown'[i] # "none"
             /\ events'[k].event = "Queued" =>
                   row'[i] = Absent /\ \A m \in 1..(n + 1) : m < k => events'[m].id # i
             /\ events'[k].event \in Engine!Terminal =>
                   events'[k].event = shown'[i] /\ \A m \in 1..(n + 1) : m > k => events'[m].id # i
  <2>1. CASE k = n + 1
    <3>1. \A m \in 1..(n + 1) : m < k => m \in 1..n
      BY <1>1, <2>1
    <3>2. \A m \in 1..(n + 1) : ~(m > k)
      BY <1>1, <2>1
    <3> QED BY <1>a, <1>1, <1>2, <1>3, <2>1, <3>1, <3>2
  <2>2. CASE k \in 1..n
    <3>1. \A m \in 1..(n + 1) : m \in 1..n \/ m = n + 1
      BY <1>1
    <3>2. /\ outcome[events[k].id] = "none" /\ shown[events[k].id] # "none"
          /\ events[k].id \in Jobs
      BY <1>0, <1>1, <2>2 DEF InOrder
    <3>3. events[k].event = "Queued" =>
             row'[events[k].id] = Absent /\ \A m \in 1..(n + 1) : m < k => events'[m].id # events[k].id
      <4>1. ~(n + 1 < k)
        BY <1>1, <2>2
      <4> QED BY <1>a, <1>1, <2>2, <3>1, <3>2, <4>1 DEF InOrder
    <3>4. events[k].event \in Engine!Terminal =>
             /\ events[k].event = shown[events[k].id] /\ events[k].id # j
             /\ \A m \in 1..(n + 1) : m > k => events'[m].id # events[k].id
      BY <1>1, <1>3, <2>2, <3>1 DEF InOrder
    <3> QED BY <1>1, <1>2, <2>2, <3>2, <3>3, <3>4
  <2> QED BY <1>1, <2>1, <2>2
<1>5. InOrder'
  BY <1>1, <1>4 DEF InOrder
<1>6. RowOfJob'
  <2> SUFFICES ASSUME NEW i \in Jobs
               PROVE  /\ shown'[i] = "none" => row'[i] = Absent /\ outcome[i] = "none"
                      /\ outcome[i] = "none" /\ shown'[i] # "none"
                            => row'[i] = "active" \/ Waits(i, "Queued")'
                      /\ outcome[i] # "none" => outcome[i] = shown'[i]
                      /\ \A x \in Engine!Terminal :
                            shown'[i] = x => outcome[i] = x \/ Waits(i, x)'
                      /\ row'[i] # Absent \/ Waits(i, "Queued")' => i \in replies' \cup requests'
    BY DEF RowOfJob, Waits
  <2>1. CASE i = j
    BY <1>a, <1>1, <1>2, <1>3, <2>1 DEF RowOfJob, Emits
  <2>2. CASE i # j
    <3>1. shown'[i] = shown[i] /\ replies \subseteq replies' /\ \A x : Waits(i, x)' <=> Waits(i, x)
      BY <1>1, <1>2, <2>2 DEF Emits
    <3>2. CASE outcome[i] = "none"
      BY <1>a, <3>1, <3>2 DEF RowOfJob
    <3>3. CASE outcome[i] # "none"
      <4>1. shown[i] = outcome[i] /\ ~Waits(i, "Queued")'
        BY <1>b, <3>1, <3>3
      <4>2. row'[i] # Absent => i \in replies' \cup requests'
        BY <1>c, <3>1 DEF RowOfJob
      <4> QED BY <3>1, <3>3, <4>1, <4>2
    <3> QED BY <3>2, <3>3
  <2> QED BY <2>1, <2>2
<1> QED BY <1>1, <1>2, <1>5, <1>6

-----------------------------------------------------------------------------
(* The books. *)

(* What the panel's step does to the books, when it counts the active rows  *)
(* afresh: if the last one has settled, everything told is reported.        *)
LEMMA CountKeeps ==
    ASSUME Types, Books, NEW s, NEW f, UpdateQueueCounts(s, f), UNCHANGED importing,
           outcome' \in [Items -> Outcomes],
           IsFiniteSet(Active(row')),
           IsFiniteSet(Untold(outcome', reported, "Done")),
           s = Cardinality(Untold(outcome', reported, "Done")),
           IsFiniteSet(Untold(outcome', reported, "Error")),
           f = Cardinality(Untold(outcome', reported, "Error")),
           \A i \in Items : reported[i] => outcome'[i] \in {"Done", "Error"},
           Active(row) = {} /\ Active(row') = {} /\ ~importing =>
              \A e \in {"Done", "Error"} : Untold(outcome', reported, e) = {}
    PROVE  Books' /\ reported' \in [Items -> BOOLEAN]
<1>1. /\ prevActiveCount' = Cardinality(Active(row'))
      /\ prevActiveCount' \in Nat /\ prevActiveCount \in Nat
      /\ prevActiveCount = 0 <=> Active(row) = {}
      /\ prevActiveCount' = 0 <=> Active(row') = {}
  BY FS_CardinalityType, FS_EmptySet DEF UpdateQueueCounts, Books
<1>2. CASE prevActiveCount > 0 /\ prevActiveCount' = 0 /\ ~importing
  <2>1. success' = 0 /\ failed' = 0 /\ reported' = [i \in Items |-> i \in Told(outcome')]
    BY <1>2 DEF UpdateQueueCounts, Drained
  <2>2. /\ Untold(outcome', reported', "Done") = {} /\ Untold(outcome', reported', "Error") = {}
        /\ \A i \in Items : reported'[i] => outcome'[i] \in {"Done", "Error"}
    BY <2>1 DEF Untold, Told
  <2> QED BY <1>1, <2>1, <2>2, FS_EmptySet DEF Books
<1>3. CASE ~(prevActiveCount > 0 /\ prevActiveCount' = 0 /\ ~importing)
  <2>1. success' = s /\ failed' = f /\ reported' = reported
    BY <1>3 DEF UpdateQueueCounts, Tally
  <2>2. Active(row') = {} /\ ~importing => Active(row) = {}
    BY <1>1, <1>3
  <2> QED BY <1>1, <2>1, <2>2 DEF Books, Types
<1> QED BY <1>2, <1>3

(* Where no outcome comes and no row opens or settles there is nothing to count. *)
LEMMA RecountKeeps ==
    ASSUME Types, Books, Recount, UNCHANGED <<importing, outcome>>, Active(row') = Active(row)
    PROVE  Books' /\ reported' \in [Items -> BOOLEAN]
BY CountKeeps DEF Recount, Books, Types

(* A report outside a count empties the tally as well. *)
LEMMA DrainedKeeps ==
    ASSUME Types, Books, UNCHANGED <<row, outcome, prevActiveCount>>, Drained(success, failed)
    PROVE  Books' /\ reported' \in [Items -> BOOLEAN]
<1>1. success' = 0 /\ failed' = 0 /\ reported' = [i \in Items |-> i \in Told(outcome')]
  BY DEF Drained
<1>2. /\ Untold(outcome', reported', "Done") = {} /\ Untold(outcome', reported', "Error") = {}
      /\ \A i \in Items : reported'[i] => outcome'[i] \in {"Done", "Error"}
  BY <1>1 DEF Untold, Told
<1> QED BY <1>1, <1>2, FS_EmptySet DEF Books, Active

(* A row that opens or settles is one active row more, or less. *)
LEMMA ActiveAfter ==
    ASSUME Types, Books, NEW i \in Items, NEW status, row' = [row EXCEPT ![i] = status]
    PROVE  /\ IsFiniteSet(Active(row'))
           /\ status = "active" => i \in Active(row')
<1>1. CASE status = "active"
  <2>1. Active(row') = Active(row) \cup {i}
    BY <1>1 DEF Types, Active
  <2> QED BY <2>1, FS_AddElement DEF Books
<1>2. CASE status # "active"
  <2>1. Active(row') = Active(row) \ {i}
    BY <1>2 DEF Types, Active
  <2>2. IsFiniteSet(Active(row) \ {i})
    BY FS_RemoveElement DEF Books
  <2> QED BY <1>2, <2>1, <2>2
<1> QED BY <1>1, <1>2

(* An outcome that comes is told once: in the tally if it counts. *)
LEMMA OutcomeKeeps ==
    ASSUME Types, Books, OpenRows, NEW i \in Items, row[i] = "active",
           NEW status \in {"success", "failed"}, NEW end \in {"Done", "Error", "Cancelled"},
           row' = [row EXCEPT ![i] = status], outcome' = [outcome EXCEPT ![i] = end],
           UpdateQueueCounts(success + (IF end = "Done" THEN 1 ELSE 0),
                             failed + (IF end = "Error" THEN 1 ELSE 0)),
           UNCHANGED importing
    PROVE  Books' /\ reported' \in [Items -> BOOLEAN]
<1>1. outcome[i] = "none" /\ ~reported[i] /\ i \in Active(row)
  BY DEF OpenRows, Books, Active
<1>2. IsFiniteSet(Active(row'))
  BY ActiveAfter
<1>3. \A e \in {"Done", "Error"} :
         /\ i \notin Untold(outcome, reported, e)
         /\ Untold(outcome', reported, e) =
               IF end = e THEN Untold(outcome, reported, e) \cup {i} ELSE Untold(outcome, reported, e)
  BY <1>1 DEF Types, Untold
<1>4. success \in Nat /\ failed \in Nat
  BY FS_CardinalityType DEF Books
<1>5. /\ IsFiniteSet(Untold(outcome', reported, "Done"))
      /\ success + (IF end = "Done" THEN 1 ELSE 0) = Cardinality(Untold(outcome', reported, "Done"))
  BY <1>3, <1>4, FS_AddElement DEF Books
<1>6. /\ IsFiniteSet(Untold(outcome', reported, "Error"))
      /\ failed + (IF end = "Error" THEN 1 ELSE 0) = Cardinality(Untold(outcome', reported, "Error"))
  BY <1>3, <1>4, FS_AddElement DEF Books
<1>7. /\ outcome' \in [Items -> Outcomes]
      /\ \A k \in Items : reported[k] => outcome'[k] \in {"Done", "Error"}
  BY <1>1 DEF Types, Outcomes, Books
<1> QED BY <1>1, <1>2, <1>5, <1>6, <1>7, CountKeeps

-----------------------------------------------------------------------------
(* The steps. *)

(* The events behind the one that is handled. *)
LEMMA TakenEvent ==
    ASSUME Types, events # <<>>, events' = Tail(events)
    PROVE  /\ events' \in Seq([id : Jobs, event : EventOf])
           /\ Len(events) \in Nat /\ 1 \in DOMAIN events /\ Head(events) = events[1]
           /\ DOMAIN events = 1..Len(events) /\ DOMAIN events' = 1..(Len(events) - 1)
           /\ \A k \in DOMAIN events' : events'[k] = events[k + 1] /\ k + 1 \in DOMAIN events
           /\ \A i, x : Waits(i, x) => Waits(i, x)' \/ (i = events[1].id /\ x = events[1].event)
           /\ \A i, x : Waits(i, x)' => Waits(i, x)
<1>1. /\ events' \in Seq([id : Jobs, event : EventOf])
      /\ Len(events) \in Nat /\ Len(events) > 0 /\ Head(events) = events[1]
      /\ DOMAIN events = 1..Len(events) /\ DOMAIN events' = 1..(Len(events) - 1)
      /\ \A k \in DOMAIN events' : events'[k] = events[k + 1]
  BY HeadTailProperties DEF Types
<1>2. /\ 1 \in DOMAIN events
      /\ \A k \in DOMAIN events' : k + 1 \in DOMAIN events
      /\ \A k \in DOMAIN events : k = 1 \/ (k - 1 \in DOMAIN events' /\ (k - 1) + 1 = k)
  BY <1>1
<1>3. ASSUME NEW i, NEW x, Waits(i, x)
      PROVE  Waits(i, x)' \/ (i = events[1].id /\ x = events[1].event)
  <2>1. PICK k \in DOMAIN events : events[k].id = i /\ events[k].event = x
    BY <1>3 DEF Waits
  <2>2. CASE k = 1
    BY <2>1, <2>2
  <2>3. CASE k # 1
    <3>1. k - 1 \in DOMAIN events' /\ events'[k - 1] = events[k]
      BY <1>1, <1>2, <2>3
    <3> QED BY <2>1, <3>1 DEF Waits
  <2> QED BY <2>2, <2>3
<1>4. ASSUME NEW i, NEW x, Waits(i, x)' PROVE Waits(i, x)
  BY <1>1, <1>2, <1>4 DEF Waits
<1> QED BY <1>1, <1>2, <1>3, <1>4

(* What the event at the head finds. *)
LEMMA HeadEvent ==
    ASSUME Types, InOrder, RowOfJob, events # <<>>, events' = Tail(events)
    PROVE  LET j == events[1].id
               e == events[1].event
           IN /\ j \in Jobs /\ e \in EventOf /\ outcome[j] = "none"
              /\ shown[j] # "none"
              /\ e = "Queued" => row[j] = Absent /\ j \in replies \cup requests
              /\ e # "Queued" => row[j] = "active"
              /\ e \in Engine!Terminal => e = shown[j]
              /\ e \in {"Queued"} \cup Engine!Terminal =>
                    \A k \in DOMAIN events' : events'[k].id = j => e = "Queued"
              /\ \A k \in DOMAIN events' : events'[k].id = j => events'[k].event # "Queued"
<1> DEFINE j == events[1].id
           e == events[1].event
<1>1. /\ 1 \in DOMAIN events /\ j \in Jobs /\ e \in EventOf
      /\ DOMAIN events = 1..Len(events) /\ Len(events) \in Nat
      /\ \A k \in DOMAIN events' : events'[k] = events[k + 1] /\ k + 1 \in DOMAIN events /\ k + 1 > 1
  <2>1. \A k \in DOMAIN events' : k + 1 > 1
    BY TakenEvent
  <2> QED BY <2>1, TakenEvent, EventTypes
<1>2. /\ outcome[j] = "none" /\ shown[j] # "none"
      /\ e = "Queued" => row[j] = Absent
      /\ e \in Engine!Terminal =>
            e = shown[j] /\ \A m \in DOMAIN events : m > 1 => events[m].id # j
  BY <1>1 DEF InOrder
<1>3. \A k \in DOMAIN events : events[k].event = "Queued" /\ events[k].id = j => k = 1
  <2> SUFFICES ASSUME NEW k \in DOMAIN events, events[k].event = "Queued", events[k].id = j, k # 1
               PROVE  FALSE
    OBVIOUS
  <2>1. 1 < k
    BY <1>1
  <2> QED BY <1>1, <2>1 DEF InOrder
<1>4. \A k \in DOMAIN events' : events'[k].id = j => events'[k].event # "Queued"
  <2>1. \A k \in DOMAIN events' : k + 1 # 1
    BY TakenEvent
  <2> QED BY <1>1, <1>3, <2>1
<1>5. e # "Queued" => row[j] = "active"
  <2>1. e # "Queued" => ~Waits(j, "Queued")
    BY <1>3 DEF Waits
  <2> QED BY <1>1, <1>2, <2>1 DEF RowOfJob
<1>6. e = "Queued" => j \in replies \cup requests
  <2>1. e = "Queued" => Waits(j, "Queued")
    BY <1>1 DEF Waits
  <2> QED BY <1>1, <2>1 DEF RowOfJob
<1>7. e \in {"Queued"} \cup Engine!Terminal =>
         \A k \in DOMAIN events' : events'[k].id = j => e = "Queued"
  BY <1>1, <1>2
<1> QED BY <1>1, <1>2, <1>4, <1>5, <1>6, <1>7

(* onTransferUpdate: the row follows, and the outcome is told once. *)
LEMMA UpdateKeeps == ASSUME IInv, OnTransferUpdate PROVE IInv'
<1> DEFINE j == events[1].id
           e == events[1].event
           end == IF e \in Engine!Terminal THEN e ELSE "none"
           status == CASE e = "Queued" -> "active" [] e = "Done" -> "success"
                       [] e \in {"Error", "Cancelled"} -> "failed" [] OTHER -> "active"
<1>1. /\ events # <<>> /\ events' = Tail(events) /\ Handled(j, e)
      /\ UNCHANGED <<shown, attempt, replies, requests, importing>>
  <2>1. Head(events) = events[1]
    BY HeadTailProperties DEF IInv, Types, OnTransferUpdate
  <2> QED BY <2>1 DEF OnTransferUpdate, engineVars
<1>2. /\ events' \in Seq([id : Jobs, event : EventOf])
      /\ 1 \in DOMAIN events
      /\ \A k \in DOMAIN events' : events'[k] = events[k + 1] /\ k + 1 \in DOMAIN events
      /\ \A i, x : Waits(i, x) => Waits(i, x)' \/ (i = j /\ x = e)
      /\ \A i, x : Waits(i, x)' => Waits(i, x)
  BY <1>1, TakenEvent DEF IInv
<1>3. /\ j \in Jobs /\ e \in EventOf /\ outcome[j] = "none" /\ shown[j] # "none"
      /\ e = "Queued" => row[j] = Absent /\ j \in replies \cup requests
      /\ e # "Queued" => row[j] = "active"
      /\ e \in Engine!Terminal => e = shown[j]
      /\ e \in {"Queued"} \cup Engine!Terminal =>
            \A k \in DOMAIN events' : events'[k].id = j => e = "Queued"
      /\ \A k \in DOMAIN events' : events'[k].id = j => events'[k].event # "Queued"
      /\ j \in Items
  BY <1>1, HeadEvent, JobsAreItems DEF IInv
<1>4. /\ row' = [row EXCEPT ![j] = status] /\ outcome' = [outcome EXCEPT ![j] = end]
      /\ status \in {"active", "success", "failed"} /\ end \in Outcomes
      /\ (status = "active" <=> end = "none") /\ (end # "none" => end = shown[j])
  BY <1>1, <1>3 DEF Handled, Hear, NewRow, Engine!Terminal, Engine!Running, Engine!Event, EventOf, Outcomes,
                    Absent
<1>5. Books' /\ reported' \in [Items -> BOOLEAN]
  <2>1. CASE e \in Engine!Terminal
    <3>1. row[j] = "active" /\ row[j] # Absent
      BY <1>3, <2>1 DEF Engine!Terminal, Absent
    <3>2. UpdateQueueCounts(success + (IF end = "Done" THEN 1 ELSE 0),
                            failed + (IF end = "Error" THEN 1 ELSE 0))
      <4>1. success \in Nat /\ failed \in Nat
        BY FS_CardinalityType DEF IInv, Books
      <4>2. CASE e \in {"Done", "Error"}
        BY <1>1, <3>1, <4>2, <2>1 DEF Handled
      <4>3. CASE e = "Cancelled"
        <5>1. Recount
          BY <1>1, <4>3 DEF Handled
        <5>2. success + (IF end = "Done" THEN 1 ELSE 0) = success
              /\ failed + (IF end = "Error" THEN 1 ELSE 0) = failed
          BY <2>1, <4>1, <4>3
        <5> QED BY <5>1, <5>2 DEF Recount
      <4> QED BY <2>1, <4>2, <4>3 DEF Engine!Terminal
    <3>3. status \in {"success", "failed"} /\ end \in {"Done", "Error", "Cancelled"}
      BY <2>1 DEF Engine!Terminal
    <3> HIDE DEF status, end
    <3> QED BY <1>1, <1>3, <1>4, <3>1, <3>2, <3>3, OutcomeKeeps DEF IInv
  <2>2. CASE e \notin Engine!Terminal
    <3>1. status = "active" /\ end = "none" /\ outcome' = outcome
      BY <1>3, <1>4, <2>2 DEF IInv, Types, Engine!Terminal
    <3>2. Recount
      BY <1>1, <2>2 DEF Handled, Engine!Terminal
    <3>3. IsFiniteSet(Active(row')) /\ j \in Active(row')
      BY <1>3, <1>4, <3>1, ActiveAfter DEF IInv
    <3> QED BY <1>1, <3>1, <3>2, <3>3, CountKeeps DEF IInv, Types, Books, Recount
  <2> QED BY <2>1, <2>2
<1>6. Types' /\ OpenRows'
  BY <1>1, <1>2, <1>3, <1>4, <1>5 DEF IInv, Types, OpenRows
<1>7. InOrder'
  <2> SUFFICES ASSUME NEW k \in DOMAIN events'
               PROVE  LET i == events'[k].id IN
                      /\ outcome'[i] = "none" /\ shown[i] # "none"
                      /\ events'[k].event = "Queued" =>
                            row'[i] = Absent /\ \A m \in DOMAIN events' : m < k => events'[m].id # i
                      /\ events'[k].event \in Engine!Terminal =>
                            events'[k].event = shown[i]
                            /\ \A m \in DOMAIN events' : m > k => events'[m].id # i
    BY <1>1 DEF InOrder
  <2>1. /\ k + 1 \in DOMAIN events /\ events'[k] = events[k + 1] /\ k \in Int
        /\ \A m \in DOMAIN events' : m + 1 \in DOMAIN events /\ events'[m] = events[m + 1] /\ m \in Int
    BY <1>1, <1>2, TakenEvent DEF IInv
  <2>2. /\ outcome[events'[k].id] = "none" /\ shown[events'[k].id] # "none"
        /\ events'[k].event = "Queued" =>
              row[events'[k].id] = Absent
              /\ \A m \in DOMAIN events' : m < k => events'[m].id # events'[k].id
        /\ events'[k].event \in Engine!Terminal =>
              events'[k].event = shown[events'[k].id]
              /\ \A m \in DOMAIN events' : m > k => events'[m].id # events'[k].id
    BY <2>1 DEF IInv, InOrder
  <2>3. CASE events'[k].id # j
    BY <1>4, <2>2, <2>3 DEF IInv, Types
  <2>4. CASE events'[k].id = j
    <3>1. events'[k].event # "Queued" /\ e \notin Engine!Terminal
      BY <1>3, <2>4 DEF Engine!Terminal
    <3>2. outcome'[j] = "none"
      BY <1>3, <1>4, <3>1 DEF IInv, Types
    <3> QED BY <2>2, <2>4, <3>1, <3>2
  <2> QED BY <2>3, <2>4
<1>8. RowOfJob'
  <2> HIDE DEF status, end
  <2> SUFFICES ASSUME NEW i \in Jobs
               PROVE  /\ shown[i] = "none" => row'[i] = Absent /\ outcome'[i] = "none"
                      /\ outcome'[i] = "none" /\ shown[i] # "none"
                            => row'[i] = "active" \/ Waits(i, "Queued")'
                      /\ outcome'[i] # "none" => outcome'[i] = shown[i]
                      /\ \A x \in Engine!Terminal :
                            shown[i] = x => outcome'[i] = x \/ Waits(i, x)'
                      /\ row'[i] # Absent \/ Waits(i, "Queued")' => i \in replies \cup requests
    BY <1>1 DEF RowOfJob, Waits
  <2>0. i \in Items
    BY JobsAreItems
  <2>1. CASE i # j
    <3>1. row'[i] = row[i] /\ outcome'[i] = outcome[i]
      BY <1>4, <2>0, <2>1 DEF IInv, Types
    <3>2. \A x : Waits(i, x) <=> Waits(i, x)'
      BY <1>2, <2>1
    <3> QED BY <3>1, <3>2 DEF IInv, RowOfJob
  <2>2. CASE i = j
    <3>1. outcome'[i] = end /\ row'[i] = status
      BY <1>4, <2>0, <2>2 DEF IInv, Types
    <3>2. ASSUME NEW x \in Engine!Terminal, shown[i] = x
          PROVE  outcome'[i] = x \/ Waits(i, x)'
      <4>1. CASE e \in Engine!Terminal
        BY <1>3, <2>2, <3>1, <3>2, <4>1 DEF end
      <4>2. CASE e \notin Engine!Terminal
        <5>1. Waits(i, x)
          BY <1>3, <2>2, <3>2 DEF IInv, RowOfJob, Engine!Terminal
        <5> QED BY <1>2, <3>2, <4>2, <5>1
      <4> QED BY <4>1, <4>2
    <3>3. i \in replies \cup requests
      BY <1>3, <2>2 DEF IInv, RowOfJob, Absent
    <3>4. end = "none" => row'[i] = "active"
      BY <1>4, <3>1
    <3> QED BY <1>3, <1>4, <2>2, <3>1, <3>2, <3>3, <3>4
  <2> QED BY <2>1, <2>2
<1> QED BY <1>5, <1>6, <1>7, <1>8 DEF IInv

(* A step that leaves the engine and the outcomes of its transfers alone, *)
(* and of their rows clears settled ones at most. *)
LEMMA RowsKeep ==
    ASSUME Types, InOrder, RowOfJob, UNCHANGED <<shown, events>>, ClearsSettled,
           \A i \in Jobs : outcome'[i] = outcome[i],
           \A i \in Jobs : i \in replies \cup requests /\ row'[i] = row[i]
                             => i \in replies' \cup requests'
    PROVE  InOrder' /\ RowOfJob'
<1>1. \A k \in DOMAIN events : events[k].id \in Jobs
  BY EventTypes
<1>2. \A i \in Jobs : outcome[i] = "none" => row'[i] = row[i]
  BY SettledRow DEF ClearsSettled
<1>3. \A i \in Jobs : outcome[i] # "none" => shown[i] = outcome[i] /\ ~Waits(i, "Queued")
  BY SettledRow
<1>4. \A i \in Jobs : row'[i] # Absent => row'[i] = row[i]
  BY DEF ClearsSettled
<1>5. InOrder'
  BY <1>1, <1>2 DEF InOrder
<1>6. \A i, x : Waits(i, x)' <=> Waits(i, x)
  BY DEF Waits
<1>7. RowOfJob'
  <2> SUFFICES ASSUME NEW i \in Jobs
               PROVE  /\ shown[i] = "none" => row'[i] = Absent /\ outcome[i] = "none"
                      /\ outcome[i] = "none" /\ shown[i] # "none"
                            => row'[i] = "active" \/ Waits(i, "Queued")
                      /\ outcome[i] # "none" => outcome[i] = shown[i]
                      /\ shown[i] \in Engine!Terminal => outcome[i] = shown[i] \/ Waits(i, shown[i])
                      /\ row'[i] # Absent \/ Waits(i, "Queued") => i \in replies' \cup requests'
    BY DEF RowOfJob, Waits
  <2>1. CASE outcome[i] = "none"
    BY <1>2, <2>1 DEF RowOfJob
  <2>2. CASE outcome[i] # "none"
    <3>1. row'[i] # Absent => i \in replies' \cup requests'
      BY <1>4 DEF RowOfJob
    <3> QED BY <1>3, <2>2, <3>1
  <2> QED BY <2>1, <2>2
<1> QED BY <1>5, <1>7

(* A transfer is enqueued, or goes on in the engine: the panel does not know. *)
LEMMA EngineKeeps == ASSUME IInv, Enqueue \/ EngineRuns PROVE IInv'
<1>1. PICK j \in Jobs : /\ Emit(j)
                        /\ \/ Engine!Submit(j) /\ replies' = replies \cup {j}
                           \/ (Engine!Begin(j) \/ Engine!Retry(j) \/ Engine!Settle(j))
                              /\ replies' = replies
  BY DEF Enqueue, EngineRuns, Submit
<1>2. PICK e \in EventOf : Emits(j, e)
  BY <1>1, EmitsIsStep DEF IInv
<1>3. UNCHANGED <<row, requests, success, failed, prevActiveCount, reported, importing, outcome>>
  BY DEF Enqueue, EngineRuns, panelVars, runVars
<1>4. ClearsSettled
  BY <1>3 DEF ClearsSettled
<1>5. InOrder' /\ RowOfJob' /\ shown' \in [Jobs -> Engine!Event]
      /\ events' \in Seq([id : Jobs, event : EventOf]) /\ replies' \subseteq Jobs
  BY <1>2, <1>3, <1>4, EmitKeeps DEF IInv
<1> QED BY <1>3, <1>5 DEF IInv, Types, OpenRows, Books, Active, Untold

(* retryTransfer: the row goes, and a new transfer is enqueued. *)
LEMMA RetryKeeps == ASSUME IInv, NEW i \in Jobs, RetryTransfer(i) PROVE IInv'
<1>1. PICK j \in Jobs : Submit(j)
  BY DEF RetryTransfer
<1>2. Emit(j) /\ Engine!Submit(j) /\ replies' = replies \cup {j}
  BY <1>1 DEF Submit
<1>3. PICK e \in EventOf : Emits(j, e)
  BY <1>2, EmitsIsStep DEF IInv
<1>4. /\ row[i] = "failed" /\ row' = [row EXCEPT ![i] = Absent] /\ requests' = requests \ {i}
      /\ UNCHANGED <<success, failed, prevActiveCount, reported, importing, outcome>>
  BY DEF RetryTransfer, runVars
<1>5. ClearsSettled
  BY <1>4, JobsAreItems DEF ClearsSettled, IInv, Types
<1>6. InOrder' /\ RowOfJob' /\ shown' \in [Jobs -> Engine!Event]
      /\ events' \in Seq([id : Jobs, event : EventOf]) /\ replies' \subseteq Jobs
  BY <1>3, <1>4, <1>5, EmitKeeps DEF IInv
<1>7. Active(row') = Active(row)
  BY <1>4 DEF Active, IInv, Types, Absent
<1>8. OpenRows' /\ row' \in [Items -> {Absent, "active", "success", "failed"}]
  BY <1>4 DEF OpenRows, IInv, Types, Absent
<1> QED BY <1>4, <1>6, <1>7, <1>8 DEF IInv, Types, Books, Untold

(* The reply brings the request, and changes no row. *)
LEMMA ReplyKeeps == ASSUME IInv, NEW j \in Jobs, Reply(j) PROVE IInv'
<1>1. /\ replies' = replies \ {j} /\ requests' = requests \cup {j}
      /\ UNCHANGED <<row, shown, events, importing, outcome>> /\ Recount
  BY DEF Reply, engineVars
<1>2. ClearsSettled
  BY <1>1 DEF ClearsSettled
<1>3. InOrder' /\ RowOfJob'
  BY <1>1, <1>2, RowsKeep DEF IInv
<1>4. Books' /\ reported' \in [Items -> BOOLEAN]
  BY <1>1, RecountKeeps DEF IInv, Active
<1> QED BY <1>1, <1>3, <1>4 DEF IInv, Types, OpenRows

(* clearFinished leaves the active rows. *)
LEMMA ClearKeeps == ASSUME IInv, ClearFinished PROVE IInv'
<1>1. /\ row' = [i \in Items |-> IF row[i] = "active" THEN "active" ELSE Absent]
      /\ requests' = {j \in requests : row[j] \notin {"success", "failed"}}
      /\ UNCHANGED <<shown, events, replies, importing, outcome>> /\ Recount
  BY DEF ClearFinished, engineVars
<1>2. Active(row') = Active(row) /\ OpenRows'
      /\ row' \in [Items -> {Absent, "active", "success", "failed"}]
  BY <1>1 DEF Active, IInv, OpenRows, Absent
<1>3. \A i \in Jobs : row[i] \in {Absent, "active", "success", "failed"}
  BY JobsAreItems DEF IInv, Types
<1>4. ClearsSettled
  BY <1>1, <1>3, JobsAreItems DEF ClearsSettled, Absent
<1>5. \A i \in Jobs : i \in replies \cup requests /\ row'[i] = row[i]
                        => i \in replies' \cup requests'
  BY <1>1, <1>3, JobsAreItems DEF Absent
<1>6. InOrder' /\ RowOfJob'
  BY <1>1, <1>4, <1>5, RowsKeep DEF IInv
<1>7. Books' /\ reported' \in [Items -> BOOLEAN]
  BY <1>1, <1>2, RecountKeeps DEF IInv
<1> QED BY <1>1, <1>2, <1>6, <1>7 DEF IInv, Types

(* The rows of skipped files, and the begin and end of an import, open and *)
(* settle no row.                                                          *)
LEMMA RestKeeps == ASSUME IInv, AddSkippedRow \/ ImportBegins \/ ImportEnds PROVE IInv'
<1>1. UNCHANGED <<shown, events, replies, row, requests, outcome, prevActiveCount>>
  BY DEF AddSkippedRow, ImportBegins, ImportEnds, engineVars, panelVars, runVars
<1>2. ClearsSettled
  BY <1>1 DEF ClearsSettled
<1>3. InOrder' /\ RowOfJob'
  BY <1>1, <1>2, RowsKeep DEF IInv
<1>4. importing' \in BOOLEAN
  BY DEF IInv, Types, AddSkippedRow, ImportBegins, ImportEnds
<1>5. Books' /\ reported' \in [Items -> BOOLEAN]
  <2>1. CASE Drained(success, failed)
    BY <1>1, <2>1, DrainedKeeps DEF IInv
  <2>2. CASE UNCHANGED <<success, failed, reported>> /\ (importing' \/ Active(row) # {} \/ UNCHANGED importing)
    BY <1>1, <2>2 DEF IInv, Types, Books, Active, Untold
  <2>3. \/ Drained(success, failed)
        \/ UNCHANGED <<success, failed, reported>>
           /\ (importing' \/ Active(row) # {} \/ UNCHANGED importing)
    <3>1. CASE AddSkippedRow
      BY <3>1 DEF AddSkippedRow, Tally
    <3>2. CASE ImportBegins
      BY <3>2 DEF ImportBegins, runVars
    <3>3. CASE ImportEnds
      <4>1. prevActiveCount # 0 => Active(row) # {}
        BY FS_EmptySet DEF IInv, Books
      <4> QED BY <3>3, <4>1 DEF ImportEnds, Tally
    <3> QED BY <3>1, <3>2, <3>3
  <2> QED BY <2>1, <2>2, <2>3
<1> QED BY <1>1, <1>3, <1>4, <1>5 DEF IInv, Types, OpenRows

(* A dropped file gets its row, or its row settles. *)
LEMMA DroppedKeeps ==
    ASSUME IInv, NEW d \in Dropped, AddDroppedRow(d) \/ DroppedRowSettles(d)
    PROVE  IInv'
<1>1. /\ d \in Items
      /\ UNCHANGED <<shown, events, replies, requests, importing>>
  BY DEF Items, AddDroppedRow, DroppedRowSettles, engineVars
<1>2. /\ row \in [Items -> {Absent, "active", "success", "failed"}]
      /\ outcome \in [Items -> Outcomes]
  BY DEF IInv, Types
<1>3. /\ Books' /\ reported' \in [Items -> BOOLEAN]
      /\ \E status \in {"active", "success", "failed"} : row' = [row EXCEPT ![d] = status]
      /\ \E end \in Outcomes : outcome' = [outcome EXCEPT ![d] = end]
      /\ row'[d] = "active" => outcome'[d] = "none"
  <2>1. CASE AddDroppedRow(d)
    <3>1. /\ row' = [row EXCEPT ![d] = "active"] /\ outcome' = outcome /\ Recount
          /\ outcome[d] = "none"
      BY <2>1 DEF AddDroppedRow
    <3>2. IsFiniteSet(Active(row')) /\ d \in Active(row')
      BY <1>1, <3>1, ActiveAfter DEF IInv
    <3>3. Books' /\ reported' \in [Items -> BOOLEAN]
      BY <1>1, <3>1, <3>2, CountKeeps DEF IInv, Types, Books, Recount
    <3>4. outcome' = [outcome EXCEPT ![d] = "none"] /\ "none" \in Outcomes
      BY <1>2, <3>1 DEF Outcomes
    <3> QED BY <3>1, <3>3, <3>4
  <2>2. CASE DroppedRowSettles(d)
    <3>1. PICK status \in {"success", "failed"}, end \in {"Done", "Error", "Cancelled"} :
            /\ row' = [row EXCEPT ![d] = status] /\ outcome' = [outcome EXCEPT ![d] = end]
            /\ \/ end = "Done" /\ UpdateQueueCounts(success + 1, failed)
               \/ end = "Error" /\ UpdateQueueCounts(success, failed + 1)
               \/ end = "Cancelled" /\ UpdateQueueCounts(success, failed)
      BY <2>2 DEF DroppedRowSettles, Recount
    <3>2. success \in Nat /\ failed \in Nat /\ row[d] = "active"
      BY <2>2, FS_CardinalityType DEF IInv, Books, DroppedRowSettles
    <3>3. success + 0 = success /\ failed + 0 = failed
      BY <3>2
    <3>4. UpdateQueueCounts(success + (IF end = "Done" THEN 1 ELSE 0),
                            failed + (IF end = "Error" THEN 1 ELSE 0))
      <4>1. CASE end = "Done"
        BY <3>1, <3>3, <4>1
      <4>2. CASE end = "Error"
        BY <3>1, <3>3, <4>2
      <4>3. CASE end = "Cancelled"
        BY <3>1, <3>3, <4>3
      <4> QED BY <4>1, <4>2, <4>3
    <3>5. Books' /\ reported' \in [Items -> BOOLEAN]
      BY <1>1, <3>1, <3>2, <3>4, OutcomeKeeps DEF IInv
    <3>6. row'[d] # "active" /\ end \in Outcomes
      BY <1>1, <1>2, <3>1 DEF Outcomes
    <3> QED BY <3>1, <3>5, <3>6
  <2> QED BY <2>1, <2>2
<1>4. /\ \A i \in Items : i # d => row'[i] = row[i] /\ outcome'[i] = outcome[i]
      /\ row' \in [Items -> {Absent, "active", "success", "failed"}]
      /\ outcome' \in [Items -> Outcomes]
  BY <1>2, <1>3
<1>5. \A i \in Jobs : row'[i] = row[i] /\ outcome'[i] = outcome[i]
  BY <1>4, JobsAreItems
<1>6. ClearsSettled
  BY <1>1, <1>5 DEF ClearsSettled
<1>7. InOrder' /\ RowOfJob'
  BY <1>1, <1>5, <1>6, RowsKeep DEF IInv
<1>8. OpenRows'
  BY <1>3, <1>4 DEF IInv, OpenRows
<1> QED BY <1>1, <1>3, <1>4, <1>7, <1>8 DEF IInv, Types

(* At first nothing has been enqueued, and nothing counted. *)
LEMMA InitIInv == Init => IInv
<1> SUFFICES ASSUME Init PROVE IInv
  OBVIOUS
<1>0. shown = [j \in Jobs |-> "none"] /\ events = <<>> /\ \A j, e : ~Waits(j, e)
  BY DEF Init, Engine!Init, Engine!Jobs, Jobs, Waits
<1>1. Types
  <2>1. events \in Seq([id : Jobs, event : EventOf])
    BY <1>0
  <2>2. shown \in [Jobs -> Engine!Event]
    BY <1>0 DEF Engine!Event
  <2> QED BY <2>1, <2>2 DEF Init, Types, Outcomes
<1>2. InOrder /\ RowOfJob
  BY <1>0, JobsAreItems DEF Init, InOrder, RowOfJob, Engine!Terminal
<1>3. OpenRows
  BY DEF Init, OpenRows, Absent
<1>4. Active(row) = {} /\ \A e \in {"Done", "Error"} : Untold(outcome, reported, e) = {}
  BY DEF Init, Active, Untold, Absent
<1>5. Books
  BY <1>4, FS_EmptySet DEF Init, Books
<1> QED BY <1>1, <1>2, <1>3, <1>5 DEF IInv

(* Every step keeps the invariant. *)
LEMMA NextIInv == IInv /\ [Next]_vars => IInv'
<1> SUFFICES ASSUME IInv, [Next]_vars PROVE IInv'
  OBVIOUS
<1>1. CASE Next
  BY <1>1, EngineKeeps, RetryKeeps, ReplyKeeps, ClearKeeps, RestKeeps, DroppedKeeps, UpdateKeeps
     DEF Next, User
<1>2. CASE UNCHANGED vars
  BY <1>2 DEF vars, engineVars, panelVars, runVars, IInv, Types, InOrder, RowOfJob, OpenRows,
              Books, Active, Untold, Waits
<1> QED BY <1>1, <1>2

-----------------------------------------------------------------------------
(* The tally counts each outcome that no report has covered, once. *)
THEOREM PanelTallyExact == Spec => []TallyExact
<1>1. IInv => TallyExact
  <2>1. \A e \in {"Done", "Error"} :
           {i \in Unreported(outcome) : outcome[i] = e} = Untold(outcome, reported, e)
    BY DEF Unreported, Told, Untold
  <2> QED BY <2>1 DEF IInv, Books, TallyExact
<1> QED BY <1>1, InitIInv, NextIInv, PTL DEF Spec

(* With no row active and no import running, every outcome was reported. *)
THEOREM PanelQuietMeansReported == Spec => []QuietMeansReported
<1>1. IInv => QuietMeansReported
  BY DEF IInv, Books, QuietMeansReported, Unreported, Told, Untold
<1> QED BY <1>1, InitIInv, NextIInv, PTL DEF Spec

(* With no event of it under way, a transfer's row is as the engine has it. *)
THEOREM PanelRowsFollow == Spec => []RowsFollow
<1>1. IInv => RowsFollow
  <2> SUFFICES ASSUME IInv, NEW j \in Jobs
               PROVE  /\ (\A k \in DOMAIN events : events[k].id # j) =>
                            (row[j] = "active" <=> shown[j] \in {"Queued"} \union Engine!Running)
                      /\ (row[j] = "failed" /\ j \notin replies) => j \in requests
    BY DEF RowsFollow
  <2>1. row[j] = "failed" /\ j \notin replies => j \in requests
    BY DEF IInv, RowOfJob, Absent
  <2>2. ASSUME \A k \in DOMAIN events : events[k].id # j
        PROVE  row[j] = "active" <=> shown[j] \in {"Queued"} \union Engine!Running
    <3>1. \A x : ~Waits(j, x)
      BY <2>2 DEF Waits
    <3>2. shown[j] \in Engine!Event /\ outcome[j] \in Outcomes /\ j \in Items
      BY JobsAreItems DEF IInv, Types
    <3>3. row[j] = "active" => outcome[j] = "none" /\ shown[j] # "none"
      BY <3>2 DEF IInv, OpenRows, RowOfJob, Absent
    <3>4. outcome[j] = "none" => shown[j] \notin Engine!Terminal
      BY <3>1 DEF IInv, RowOfJob, Engine!Terminal
    <3>5. outcome[j] # "none" => shown[j] \in Engine!Terminal
      BY <3>2 DEF IInv, RowOfJob, Outcomes, Engine!Terminal
    <3>6. outcome[j] = "none" /\ shown[j] # "none" => row[j] = "active"
      BY <3>1 DEF IInv, RowOfJob
    <3> QED BY <3>2, <3>3, <3>4, <3>5, <3>6 DEF Engine!Event, Engine!Terminal, Engine!Running
  <2> QED BY <2>1, <2>2
<1> QED BY <1>1, InitIInv, NextIInv, PTL DEF Spec

(* A step that covers an outcome by a report leaves no row active and no *)
(* import running.                                                       *)
LEMMA ReportStep ==
    ASSUME IInv, IInv', Next, reported' # reported
    PROVE  Active(row') = {} /\ ~importing'
<1>1. prevActiveCount' = 0 => Active(row') = {}
  BY FS_EmptySet DEF IInv, Books
<1>2. \A s, f : UpdateQueueCounts(s, f) => prevActiveCount' = 0 /\ ~importing
  BY DEF UpdateQueueCounts, Tally
<1>3. UNCHANGED reported \/ (prevActiveCount' = 0 /\ ~importing')
  <2>1. ASSUME Recount \/ \E s, f : UpdateQueueCounts(s, f), UNCHANGED importing
        PROVE  prevActiveCount' = 0 /\ ~importing'
    BY <1>2, <2>1 DEF Recount
  <2>2. CASE Enqueue \/ EngineRuns \/ ImportBegins \/ \E j \in Jobs : RetryTransfer(j)
    BY <2>2 DEF Enqueue, EngineRuns, ImportBegins, RetryTransfer, runVars
  <2>3. CASE AddSkippedRow \/ ImportEnds
    BY <2>3 DEF AddSkippedRow, ImportEnds, Tally
  <2>4. CASE ClearFinished \/ \E j \in Jobs : Reply(j)
    BY <2>1, <2>4 DEF ClearFinished, Reply
  <2>5. CASE \E d \in Dropped : AddDroppedRow(d) \/ DroppedRowSettles(d)
    BY <2>1, <2>5 DEF AddDroppedRow, DroppedRowSettles
  <2>6. CASE OnTransferUpdate
    BY <2>1, <2>6 DEF OnTransferUpdate, Handled
  <2> QED BY <2>2, <2>3, <2>4, <2>5, <2>6 DEF Next, User
<1> QED BY <1>1, <1>3

(* A report is made only with no row active and no import running. *)
THEOREM PanelReportsAtRest == Spec => ReportsAtRest
<1>1. IInv /\ IInv' /\ [Next]_vars
      => [reported' # reported => Active(row') = {} /\ ~importing']_vars
  BY ReportStep
<1> QED BY <1>1, InitIInv, NextIInv, PTL DEF Spec, ReportsAtRest
=============================================================================
