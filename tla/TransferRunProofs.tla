------------------------- MODULE TransferRunProofs -------------------------
(***************************************************************************)
(* Proofs about TransferRun, for every file size, writer capacity, number  *)
(* of retries and number of requests.                                      *)
(*                                                                         *)
(* The inductive invariant adds to the properties what a copy has in       *)
(* flight: the chunks a writer has accepted and not yet applied continue   *)
(* the destination exactly, chunk by chunk, up to where the reader is.     *)
(***************************************************************************)
EXTENDS TransferRun, TLAPS

Ordered(s, base) == \A k \in DOMAIN s : s[k] = base + k

(* How much of the source has been handed to the writer. *)
Copied == IF pc = "write" THEN pos - 1 ELSE pos

Phases ==
    /\ pc \notin Copying => ~opened /\ pending = <<>>
    /\ pc = "open_dst" => ~opened /\ pending = <<>> /\ pos = request.offset
    /\ pc \in {"read", "write", "close", "closing"} => pos >= request.offset
    /\ pc = "write" => pos > request.offset
    /\ pc \in {"close", "closing"} => pos = FileSize
    /\ outcome # "none" => pc = "ended"
    /\ kind = "object" => request.offset = 0 /\ rows \subseteq {0} /\ ~misaligned

InFlight ==
    /\ (pc \in Copying /\ (~opened \/ kind = "object")) =>
          /\ Ordered(pending, request.offset)
          /\ Len(pending) = Copied - request.offset
    /\ (pc \in Copying /\ opened /\ kind # "object" /\ ~misaligned) =>
          /\ Ordered(pending, Len(dst))
          /\ Len(pending) = Copied - Len(dst)

(* A request made from the destination's length still finds it so when its *)
(* first attempt opens the file.                                           *)
FirstAppend ==
    (request.offset > 0 /\ ~request.again /\ attempt = 0 /\ ~opened /\ pc # "ended")
        => Len(dst) = request.offset

IInv == TypeOK /\ Phases /\ InFlight /\ FirstAppend
        /\ LeftoverIsBeginning /\ DoneIsExact /\ SkippedIsComplete

(* A destination in order that is as long as the source is the source. *)
LEMMA WholeIsSource ==
    ASSUME NEW s \in Seq(1 .. FileSize), InOrder(s), Len(s) >= FileSize
    PROVE  s = Source
<1>1. Len(s) = FileSize
  BY RunAssumption DEF InOrder
<1>2. s \in [1 .. FileSize -> 1 .. FileSize] /\ \A k \in 1 .. FileSize : s[k] = k
  BY <1>1 DEF InOrder
<1> QED BY <1>2 DEF Source

(* Appending the next chunk keeps a destination in order. *)
LEMMA AppendInOrder ==
    ASSUME NEW s \in Seq(1 .. FileSize), NEW c \in 1 .. FileSize, InOrder(s), c = Len(s) + 1
    PROVE  Append(s, c) \in Seq(1 .. FileSize) /\ InOrder(Append(s, c))
BY DEF InOrder

(* The empty destination is in order. *)
LEMMA EmptyInOrder == <<>> \in Seq(1 .. FileSize) /\ InOrder(<<>>)
BY RunAssumption DEF InOrder

(* What an object store's writer holds when it is closed is the source. *)
LEMMA ObjectIsWhole ==
    ASSUME IInv, kind = "object", pc = "closing"
    PROVE  pending \in Seq(1 .. FileSize) /\ pending = Source
<1>1. pending \in Seq(1 .. FileSize) /\ Len(pending) = FileSize /\ Ordered(pending, 0)
  BY RunAssumption DEF IInv, TypeOK, Phases, InFlight, Copied, Copying
<1>2. InOrder(pending)
  BY <1>1, RunAssumption DEF InOrder, Ordered
<1> QED BY <1>1, <1>2, WholeIsSource, RunAssumption

(* The source itself is in order. *)
LEMMA SourceInOrder == InOrder(Source)
BY RunAssumption DEF InOrder, Source

(* The inductive invariant holds initially. *)
LEMMA InitIInv == ASSUME Init PROVE IInv
<1> USE RunAssumption
<1>1. PICK n \in 0 .. FileSize : dst = [k \in 1 .. n |-> k]
  BY DEF Init
<1>2. dst \in Seq(1 .. FileSize) /\ Len(dst) = n
  BY <1>1
<1>3. InOrder(dst)
  BY <1>1, <1>2 DEF InOrder
<1>4. TypeOK
  <2>1. pending \in Seq(1 .. FileSize)
    BY DEF Init
  <2>2. request \in [offset : 0 .. FileSize, again : BOOLEAN]
    BY DEF Init
  <2>3. /\ kind \in Kind /\ pc = "ended" /\ rows = {} /\ outcome = "none"
        /\ requests = 0 /\ pos = 0 /\ attempt = 0
        /\ opened = FALSE /\ cancel = FALSE /\ misaligned = FALSE
    BY DEF Init
  <2>4. requests \in 0 .. MaxRequests /\ pos \in 0 .. FileSize /\ attempt \in 0 .. MAX_RETRIES
    BY <2>3
  <2> QED BY <1>2, <2>1, <2>2, <2>3, <2>4 DEF TypeOK
<1>5. Phases /\ InFlight /\ FirstAppend
  BY DEF Init, Phases, InFlight, FirstAppend, Copying
<1> QED BY <1>3, <1>4, <1>5
         DEF IInv, Init, LeftoverIsBeginning, DoneIsExact, SkippedIsComplete

(* A dropped writer leaves the destination alone or, at an object store,   *)
(* may have replaced it by the whole source.                               *)
LEMMA DroppedDestination ==
    ASSUME IInv, DropDestination
    PROVE  dst' = dst \/ (dst' = Source /\ kind = "object" /\ dst' \in Seq(1 .. FileSize))
BY ObjectIsWhole DEF DropDestination

(* Every step preserves the inductive invariant. *)
LEMMA StepIInv == ASSUME IInv, [Next]_vars PROVE IInv'
<1> USE RunAssumption
<1> DEFINE Contents == LeftoverIsBeginning /\ DoneIsExact /\ SkippedIsComplete
<1>1. ASSUME Overwrite PROVE IInv'
  <2>1. TypeOK'
    BY <1>1 DEF IInv, Phases, TypeOK, Copying, Overwrite, Ask, userVars, copyVars
  <2>2. Phases'
    BY <1>1 DEF IInv, Phases, TypeOK, Copying, Overwrite, Ask, userVars, copyVars
  <2>3. InFlight'
    BY <1>1 DEF IInv, Phases, InFlight, Copied, Ordered, TypeOK, Copying, Overwrite, Ask, userVars, copyVars
  <2>4. FirstAppend'
    BY <1>1 DEF IInv, FirstAppend, Phases, TypeOK, Copying, Overwrite, Ask, userVars, copyVars
  <2>5. Contents'
    BY <1>1 DEF IInv, Phases, LeftoverIsBeginning, DoneIsExact, SkippedIsComplete, Copying, Overwrite, Ask, userVars, copyVars
  <2> QED BY <2>1, <2>2, <2>3, <2>4, <2>5 DEF IInv
<1>2. ASSUME ResumePartial PROVE IInv'
  <2>1. TypeOK'
    BY <1>2 DEF IInv, Phases, TypeOK, Copying, ResumePartial, Ask, userVars, copyVars
  <2>2. Phases'
    BY <1>2 DEF IInv, Phases, TypeOK, Copying, ResumePartial, Ask, userVars, copyVars
  <2>3. InFlight'
    BY <1>2 DEF IInv, Phases, InFlight, Copied, Ordered, TypeOK, Copying, ResumePartial, Ask, userVars, copyVars
  <2>4. FirstAppend'
    BY <1>2 DEF IInv, FirstAppend, Phases, TypeOK, Copying, ResumePartial, Ask, userVars, copyVars
  <2>5. Contents'
    BY <1>2 DEF IInv, Phases, LeftoverIsBeginning, DoneIsExact, SkippedIsComplete, Copying, ResumePartial, Ask, userVars, copyVars
  <2> QED BY <2>1, <2>2, <2>3, <2>4, <2>5 DEF IInv
<1>3. ASSUME ResumeSkips PROVE IInv'
  <2>1. TypeOK'
    BY <1>3 DEF IInv, Phases, TypeOK, Copying, ResumeSkips, userVars, copyVars
  <2>2. Phases'
    BY <1>3 DEF IInv, Phases, TypeOK, Copying, ResumeSkips, userVars, copyVars
  <2>3. InFlight'
    BY <1>3 DEF IInv, Phases, InFlight, Copied, Ordered, TypeOK, Copying, ResumeSkips, userVars, copyVars
  <2>4. FirstAppend'
    BY <1>3 DEF IInv, FirstAppend, Phases, TypeOK, Copying, ResumeSkips, userVars, copyVars
  <2>5. Contents'
    <3>1. dst \in Seq(1 .. FileSize) /\ Len(dst) >= FileSize /\ dst' = dst /\ misaligned' = misaligned
      BY <1>3 DEF IInv, TypeOK, ResumeSkips, copyVars
    <3>2. ~misaligned => InOrder(dst)
      BY DEF IInv, LeftoverIsBeginning
    <3> QED BY <1>3, <3>1, <3>2, WholeIsSource
            DEF ResumeSkips, LeftoverIsBeginning, DoneIsExact, SkippedIsComplete
  <2> QED BY <2>1, <2>2, <2>3, <2>4, <2>5 DEF IInv
<1>4. ASSUME RetryRow PROVE IInv'
  <2>1. TypeOK'
    BY <1>4 DEF IInv, Phases, TypeOK, Copying, RetryRow, Ask, userVars, copyVars
  <2>2. Phases'
    BY <1>4 DEF IInv, Phases, TypeOK, Copying, RetryRow, Ask, userVars, copyVars
  <2>3. InFlight'
    BY <1>4 DEF IInv, Phases, InFlight, Copied, Ordered, TypeOK, Copying, RetryRow, Ask, userVars, copyVars
  <2>4. FirstAppend'
    BY <1>4 DEF IInv, FirstAppend, Phases, TypeOK, Copying, RetryRow, Ask, userVars, copyVars
  <2>5. Contents'
    BY <1>4 DEF IInv, Phases, LeftoverIsBeginning, DoneIsExact, SkippedIsComplete, Copying, RetryRow, Ask, userVars, copyVars
  <2> QED BY <2>1, <2>2, <2>3, <2>4, <2>5 DEF IInv
<1>5. ASSUME Cancel PROVE IInv'
  <2>1. TypeOK'
    BY <1>5 DEF IInv, Phases, TypeOK, Copying, Cancel, userVars, copyVars
  <2>2. Phases'
    BY <1>5 DEF IInv, Phases, TypeOK, Copying, Cancel, userVars, copyVars
  <2>3. InFlight'
    BY <1>5 DEF IInv, Phases, InFlight, Copied, Ordered, TypeOK, Copying, Cancel, userVars, copyVars
  <2>4. FirstAppend'
    BY <1>5 DEF IInv, FirstAppend, Phases, TypeOK, Copying, Cancel, userVars, copyVars
  <2>5. Contents'
    BY <1>5 DEF IInv, Phases, LeftoverIsBeginning, DoneIsExact, SkippedIsComplete, Copying, Cancel, userVars, copyVars
  <2> QED BY <2>1, <2>2, <2>3, <2>4, <2>5 DEF IInv
<1>6. ASSUME CancelledInQueue PROVE IInv'
  <2>1. TypeOK'
    BY <1>6 DEF IInv, Phases, TypeOK, Copying, CancelledInQueue, End, userVars, copyVars
  <2>2. Phases'
    BY <1>6 DEF IInv, Phases, TypeOK, Copying, CancelledInQueue, End, userVars, copyVars
  <2>3. InFlight'
    BY <1>6 DEF IInv, Phases, InFlight, Copied, Ordered, TypeOK, Copying, CancelledInQueue, End, userVars, copyVars
  <2>4. FirstAppend'
    BY <1>6 DEF IInv, FirstAppend, Phases, TypeOK, Copying, CancelledInQueue, End, userVars, copyVars
  <2>5. Contents'
    BY <1>6 DEF IInv, Phases, LeftoverIsBeginning, DoneIsExact, SkippedIsComplete, Copying, CancelledInQueue, End, userVars, copyVars
  <2> QED BY <2>1, <2>2, <2>3, <2>4, <2>5 DEF IInv
<1>7. ASSUME Start PROVE IInv'
  <2>1. TypeOK'
    BY <1>7 DEF IInv, Phases, TypeOK, Copying, Start, userVars, copyVars
  <2>2. Phases'
    BY <1>7 DEF IInv, Phases, TypeOK, Copying, Start, userVars, copyVars
  <2>3. InFlight'
    BY <1>7 DEF IInv, Phases, InFlight, Copied, Ordered, TypeOK, Copying, Start, userVars, copyVars
  <2>4. FirstAppend'
    BY <1>7 DEF IInv, FirstAppend, Phases, TypeOK, Copying, Start, userVars, copyVars
  <2>5. Contents'
    BY <1>7 DEF IInv, Phases, LeftoverIsBeginning, DoneIsExact, SkippedIsComplete, Copying, Start, userVars, copyVars
  <2> QED BY <2>1, <2>2, <2>3, <2>4, <2>5 DEF IInv
<1>8. ASSUME OpenSource PROVE IInv'
  <2>1. TypeOK'
    BY <1>8 DEF IInv, Phases, TypeOK, Copying, OpenSource, userVars, copyVars
  <2>2. Phases'
    BY <1>8 DEF IInv, Phases, TypeOK, Copying, OpenSource, userVars, copyVars
  <2>3. InFlight'
    BY <1>8 DEF IInv, Phases, InFlight, Copied, Ordered, TypeOK, Copying, OpenSource, userVars, copyVars
  <2>4. FirstAppend'
    BY <1>8 DEF IInv, FirstAppend, Phases, TypeOK, Copying, OpenSource, userVars, copyVars
  <2>5. Contents'
    BY <1>8 DEF IInv, Phases, LeftoverIsBeginning, DoneIsExact, SkippedIsComplete, Copying, OpenSource, userVars, copyVars
  <2> QED BY <2>1, <2>2, <2>3, <2>4, <2>5 DEF IInv
<1>9. ASSUME OpenDestination PROVE IInv'
  <2>1. TypeOK'
    <3>1. dst' \in Seq(1 .. FileSize)
      BY <1>9, EmptyInOrder DEF IInv, TypeOK, OpenDestination
    <3> QED BY <1>9, <3>1 DEF IInv, TypeOK, Copying, OpenDestination, userVars
  <2>2. Phases'
    BY <1>9 DEF IInv, Phases, TypeOK, Copying, OpenDestination, userVars, copyVars
  <2>3. InFlight'
    BY <1>9 DEF IInv, Phases, InFlight, Copied, Ordered, TypeOK, Copying, OpenDestination, userVars, copyVars
  <2>4. FirstAppend'
    BY <1>9 DEF IInv, FirstAppend, Phases, TypeOK, Copying, OpenDestination, userVars, copyVars
  <2>5. Contents'
    <3>1. outcome' = "none"
      BY <1>9 DEF IInv, Phases, TypeOK, Copying, OpenDestination
    <3>2. ~misaligned' => InOrder(dst')
      BY <1>9, EmptyInOrder DEF IInv, TypeOK, Phases, LeftoverIsBeginning, OpenDestination
    <3> QED BY <3>1, <3>2 DEF LeftoverIsBeginning, DoneIsExact, SkippedIsComplete
  <2> QED BY <2>1, <2>2, <2>3, <2>4, <2>5 DEF IInv
<1>10. ASSUME Read PROVE IInv'
  <2>1. TypeOK'
    BY <1>10 DEF IInv, Phases, TypeOK, Copying, Read, userVars, copyVars
  <2>2. Phases'
    BY <1>10 DEF IInv, Phases, TypeOK, Copying, Read, userVars, copyVars
  <2>3. InFlight'
    BY <1>10 DEF IInv, Phases, InFlight, Copied, Ordered, TypeOK, Copying, Read, userVars, copyVars
  <2>4. FirstAppend'
    BY <1>10 DEF IInv, FirstAppend, Phases, TypeOK, Copying, Read, userVars, copyVars
  <2>5. Contents'
    BY <1>10 DEF IInv, Phases, LeftoverIsBeginning, DoneIsExact, SkippedIsComplete, Copying, Read, userVars, copyVars
  <2> QED BY <2>1, <2>2, <2>3, <2>4, <2>5 DEF IInv
<1>11. ASSUME Write PROVE IInv'
  <2>1. TypeOK'
    BY <1>11 DEF IInv, Phases, TypeOK, Copying, Write, userVars, copyVars
  <2>2. Phases'
    BY <1>11 DEF IInv, Phases, TypeOK, Copying, Write, userVars, copyVars
  <2>3. InFlight'
    <3> DEFINE base == IF ~opened \/ kind = "object" THEN request.offset ELSE Len(dst)
    <3>1. /\ pending \in Seq(1 .. FileSize) /\ pos \in 1 .. FileSize /\ base \in Nat
          /\ pending' = Append(pending, pos) /\ pc = "write" /\ pc' = "read" /\ pos' = pos
          /\ UNCHANGED <<kind, dst, opened, misaligned, request>>
      BY <1>11 DEF IInv, TypeOK, Phases, Write, userVars
    <3>2. ASSUME Ordered(pending, base), Len(pending) = pos - 1 - base
          PROVE  Ordered(pending', base) /\ Len(pending') = pos - base
      <4> HIDE DEF base
      <4> QED BY <3>1, <3>2 DEF Ordered
    <3> QED BY <3>1, <3>2 DEF IInv, InFlight, Copied, Copying
  <2>4. FirstAppend'
    BY <1>11 DEF IInv, FirstAppend, Phases, TypeOK, Copying, Write, userVars, copyVars
  <2>5. Contents'
    BY <1>11 DEF IInv, Phases, LeftoverIsBeginning, DoneIsExact, SkippedIsComplete, Copying, Write, userVars, copyVars
  <2> QED BY <2>1, <2>2, <2>3, <2>4, <2>5 DEF IInv
<1>12. ASSUME Apply PROVE IInv'
  <2>1. TypeOK'
    BY <1>12 DEF IInv, Phases, TypeOK, Copying, Apply, userVars, copyVars
  <2>2. Phases'
    BY <1>12 DEF IInv, Phases, TypeOK, Copying, Apply, userVars, copyVars
  <2>3. InFlight'
    <3>1. /\ Len(pending') = Len(pending) - 1
          /\ \A k \in DOMAIN pending' : k + 1 \in DOMAIN pending /\ pending'[k] = pending[k + 1]
      BY <1>12 DEF IInv, TypeOK, Apply
    <3>2. Len(dst') = Len(dst) + 1 /\ Len(dst) \in Nat
      BY <1>12 DEF IInv, TypeOK, Apply
    <3>3. ASSUME Ordered(pending, Len(dst)) PROVE Ordered(pending', Len(dst'))
      BY <3>1, <3>2, <3>3, <1>12 DEF Ordered, IInv, TypeOK, Apply
    <3>4. /\ UNCHANGED <<kind, request, pos, opened, misaligned, pc>>
          /\ opened /\ kind # "object" /\ pc \in Copying /\ Copied' = Copied
      BY <1>12 DEF Copied, Apply, userVars
    <3>5. ASSUME ~misaligned
          PROVE  Ordered(pending, Len(dst)) /\ Len(pending) = Copied - Len(dst)
      BY <3>4, <3>5 DEF IInv, InFlight
    <3>6. Copied \in Int
      BY DEF IInv, TypeOK, Copied
    <3>7. ASSUME ~misaligned PROVE Len(pending') = Copied' - Len(dst')
      BY <3>1, <3>2, <3>4, <3>5, <3>6, <3>7
    <3> QED BY <3>3, <3>4, <3>5, <3>7 DEF InFlight
  <2>4. FirstAppend'
    BY <1>12 DEF IInv, FirstAppend, Phases, TypeOK, Copying, Apply, userVars, copyVars
  <2>5. Contents'
    <3>1. outcome' = "none" /\ misaligned' = misaligned
      BY <1>12 DEF IInv, Phases, TypeOK, Copying, Apply
    <3>2. ASSUME ~misaligned PROVE Head(pending) = Len(dst) + 1 /\ Head(pending) \in 1 .. FileSize
      <4>1. pending \in Seq(1 .. FileSize) /\ pending # <<>> /\ Ordered(pending, Len(dst))
        BY <1>12, <3>2 DEF IInv, TypeOK, InFlight, Apply
      <4>2. 1 \in DOMAIN pending /\ Head(pending) = pending[1]
        BY <4>1
      <4>3. Len(dst) \in Nat
        BY DEF IInv, TypeOK
      <4> QED BY <4>1, <4>2, <4>3 DEF Ordered
    <3>3. ~misaligned => InOrder(dst')
      BY <1>12, <3>2, AppendInOrder DEF IInv, TypeOK, LeftoverIsBeginning, Apply
    <3> QED BY <3>1, <3>3 DEF LeftoverIsBeginning, DoneIsExact, SkippedIsComplete
  <2> QED BY <2>1, <2>2, <2>3, <2>4, <2>5 DEF IInv
<1>13. ASSUME CloseBegins PROVE IInv'
  <2>1. TypeOK'
    BY <1>13 DEF IInv, Phases, TypeOK, Copying, CloseBegins, userVars, copyVars
  <2>2. Phases'
    BY <1>13 DEF IInv, Phases, TypeOK, Copying, CloseBegins, userVars, copyVars
  <2>3. InFlight'
    BY <1>13 DEF IInv, Phases, InFlight, Copied, Ordered, TypeOK, Copying, CloseBegins, userVars, copyVars
  <2>4. FirstAppend'
    BY <1>13 DEF IInv, FirstAppend, Phases, TypeOK, Copying, CloseBegins, userVars, copyVars
  <2>5. Contents'
    BY <1>13 DEF IInv, Phases, LeftoverIsBeginning, DoneIsExact, SkippedIsComplete, Copying, CloseBegins, userVars, copyVars
  <2> QED BY <2>1, <2>2, <2>3, <2>4, <2>5 DEF IInv
<1>14. ASSUME Closed PROVE IInv'
  <2>1. TypeOK'
    <3>1. dst' \in Seq(1 .. FileSize) /\ pending' \in Seq(1 .. FileSize)
      BY <1>14, EmptyInOrder DEF IInv, TypeOK, Closed, Drop
    <3> QED BY <1>14, <3>1 DEF IInv, TypeOK, Copying, Closed, End, Drop
  <2>2. Phases'
    BY <1>14 DEF IInv, Phases, TypeOK, Copying, Closed, End, Drop, userVars, copyVars
  <2>3. InFlight'
    BY <1>14 DEF IInv, Phases, InFlight, Copied, Ordered, TypeOK, Copying, Closed, End, Drop, userVars, copyVars
  <2>4. FirstAppend'
    BY <1>14 DEF IInv, FirstAppend, Phases, TypeOK, Copying, Closed, End, Drop, userVars, copyVars
  <2>5. Contents'
    <3>1. ~misaligned => dst' = Source
      <4>1. ASSUME kind # "object", ~misaligned PROVE dst' = Source
        <5>1. dst' = dst /\ InOrder(dst) /\ Len(dst) = FileSize /\ dst \in Seq(1 .. FileSize)
          BY <1>14, <4>1 DEF IInv, TypeOK, Phases, InFlight, Copied, Copying, LeftoverIsBeginning, Closed
        <5> QED BY <5>1, WholeIsSource
      <4> QED BY <1>14, <4>1, ObjectIsWhole DEF Closed
    <3>2. misaligned' = misaligned /\ outcome' = "Done"
      BY <1>14 DEF Closed, Drop, End
    <3> QED BY <3>1, <3>2, SourceInOrder DEF LeftoverIsBeginning, DoneIsExact, SkippedIsComplete
  <2> QED BY <2>1, <2>2, <2>3, <2>4, <2>5 DEF IInv
<1>15. ASSUME AttemptCancelled PROVE IInv'
  <2>1. TypeOK'
    <3>1. dst' \in Seq(1 .. FileSize) /\ pending' \in Seq(1 .. FileSize)
      BY <1>15, DroppedDestination, EmptyInOrder DEF IInv, TypeOK, AttemptCancelled, Drop
    <3> QED BY <1>15, <3>1 DEF IInv, TypeOK, Copying, AttemptCancelled, End, Drop, userVars
  <2>2. Phases'
    BY <1>15 DEF IInv, Phases, TypeOK, Copying, AttemptCancelled, End, Drop, DropDestination, userVars, copyVars
  <2>3. InFlight'
    BY <1>15 DEF IInv, Phases, InFlight, Copied, Ordered, TypeOK, Copying, AttemptCancelled, End, Drop, DropDestination, userVars, copyVars
  <2>4. FirstAppend'
    BY <1>15 DEF IInv, FirstAppend, Phases, TypeOK, Copying, AttemptCancelled, End, Drop, DropDestination, userVars, copyVars
  <2>5. Contents'
    <3>1. misaligned' = misaligned /\ outcome' = "Cancelled"
      BY <1>15 DEF IInv, Phases, TypeOK, Copying, AttemptCancelled, End, Drop
    <3>2. ~misaligned' => InOrder(dst')
      BY <1>15, <3>1, DroppedDestination, SourceInOrder DEF IInv, LeftoverIsBeginning, AttemptCancelled
    <3> QED BY <3>1, <3>2 DEF LeftoverIsBeginning, DoneIsExact, SkippedIsComplete
  <2> QED BY <2>1, <2>2, <2>3, <2>4, <2>5 DEF IInv
<1>16. ASSUME AttemptRetries PROVE IInv'
  <2>1. TypeOK'
    <3>1. dst' \in Seq(1 .. FileSize) /\ pending' \in Seq(1 .. FileSize)
      BY <1>16, DroppedDestination, EmptyInOrder DEF IInv, TypeOK, AttemptRetries, Drop
    <3>2. attempt' \in 0 .. MAX_RETRIES
      BY <1>16 DEF IInv, TypeOK, AttemptRetries
    <3> QED BY <1>16, <3>1, <3>2 DEF IInv, TypeOK, AttemptRetries, Drop, userVars
  <2>2. Phases'
    BY <1>16 DEF IInv, Phases, TypeOK, Copying, AttemptRetries, Drop, DropDestination, userVars, copyVars
  <2>3. InFlight'
    BY <1>16 DEF IInv, Phases, InFlight, Copied, Ordered, TypeOK, Copying, AttemptRetries, Drop, DropDestination, userVars, copyVars
  <2>4. FirstAppend'
    BY <1>16 DEF IInv, FirstAppend, Phases, TypeOK, Copying, AttemptRetries, Drop, DropDestination, userVars, copyVars
  <2>5. Contents'
    <3>1. misaligned' = misaligned /\ outcome' = "none"
      BY <1>16 DEF IInv, Phases, TypeOK, Copying, AttemptRetries, Drop
    <3>2. ~misaligned' => InOrder(dst')
      BY <1>16, <3>1, DroppedDestination, SourceInOrder DEF IInv, LeftoverIsBeginning, AttemptRetries
    <3> QED BY <3>1, <3>2 DEF LeftoverIsBeginning, DoneIsExact, SkippedIsComplete
  <2> QED BY <2>1, <2>2, <2>3, <2>4, <2>5 DEF IInv
<1>17. ASSUME AttemptFails PROVE IInv'
  <2>1. TypeOK'
    <3>1. dst' \in Seq(1 .. FileSize) /\ pending' \in Seq(1 .. FileSize)
      BY <1>17, DroppedDestination, EmptyInOrder DEF IInv, TypeOK, AttemptFails, Drop
    <3> QED BY <1>17, <3>1 DEF IInv, TypeOK, Copying, AttemptFails, End, Drop, userVars
  <2>2. Phases'
    BY <1>17 DEF IInv, Phases, TypeOK, Copying, AttemptFails, End, Drop, DropDestination, userVars, copyVars
  <2>3. InFlight'
    BY <1>17 DEF IInv, Phases, InFlight, Copied, Ordered, TypeOK, Copying, AttemptFails, End, Drop, DropDestination, userVars, copyVars
  <2>4. FirstAppend'
    BY <1>17 DEF IInv, FirstAppend, Phases, TypeOK, Copying, AttemptFails, End, Drop, DropDestination, userVars, copyVars
  <2>5. Contents'
    <3>1. misaligned' = misaligned /\ outcome' = "Error"
      BY <1>17 DEF IInv, Phases, TypeOK, Copying, AttemptFails, End, Drop
    <3>2. ~misaligned' => InOrder(dst')
      BY <1>17, <3>1, DroppedDestination, SourceInOrder DEF IInv, LeftoverIsBeginning, AttemptFails
    <3> QED BY <3>1, <3>2 DEF LeftoverIsBeginning, DoneIsExact, SkippedIsComplete
  <2> QED BY <2>1, <2>2, <2>3, <2>4, <2>5 DEF IInv
<1>18. ASSUME BackoffEnds PROVE IInv'
  <2>1. TypeOK'
    BY <1>18 DEF IInv, Phases, TypeOK, Copying, BackoffEnds, End, userVars, copyVars
  <2>2. Phases'
    BY <1>18 DEF IInv, Phases, TypeOK, Copying, BackoffEnds, End, userVars, copyVars
  <2>3. InFlight'
    BY <1>18 DEF IInv, Phases, InFlight, Copied, Ordered, TypeOK, Copying, BackoffEnds, End, userVars, copyVars
  <2>4. FirstAppend'
    BY <1>18 DEF IInv, FirstAppend, Phases, TypeOK, Copying, BackoffEnds, End, userVars, copyVars
  <2>5. Contents'
    BY <1>18 DEF IInv, Phases, LeftoverIsBeginning, DoneIsExact, SkippedIsComplete, Copying, BackoffEnds, End, userVars, copyVars
  <2> QED BY <2>1, <2>2, <2>3, <2>4, <2>5 DEF IInv
<1>19. ASSUME UNCHANGED vars PROVE IInv'
  BY <1>19 DEF IInv, vars, userVars, copyVars, TypeOK, Phases, InFlight, FirstAppend, Copied,
               LeftoverIsBeginning, DoneIsExact, SkippedIsComplete
<1> QED BY <1>1, <1>2, <1>3, <1>4, <1>5, <1>6, <1>7, <1>8, <1>9, <1>10, <1>11, <1>12, <1>13, <1>14, <1>15, <1>16, <1>17, <1>18, <1>19 DEF Next, User, Engine

(* The inductive invariant holds throughout. *)
LEMMA Invariance == Spec => []IInv
<1>1. Init => IInv
  BY InitIInv
<1>2. IInv /\ [Next]_vars => IInv'
  BY StepIInv
<1> QED BY <1>1, <1>2, PTL DEF Spec

(* Every variable of a transfer stays in its type, whatever fails. *)
THEOREM RunTypeCorrect == Spec => []TypeOK
<1>1. IInv => TypeOK
  BY DEF IInv
<1> QED BY <1>1, Invariance, PTL

(* A transfer reported Done has made the destination equal to the source,  *)
(* unless an append began elsewhere than at its offset.                    *)
THEOREM RunDoneIsExact == Spec => []DoneIsExact
<1>1. IInv => DoneIsExact
  BY DEF IInv
<1> QED BY <1>1, Invariance, PTL

(* An interrupted transfer leaves a beginning of the source behind. *)
THEOREM RunLeavesBeginning == Spec => []LeftoverIsBeginning
<1>1. IInv => LeftoverIsBeginning
  BY DEF IInv
<1> QED BY <1>1, Invariance, PTL

(* What resume skips as complete is complete. *)
THEOREM RunSkipsComplete == Spec => []SkippedIsComplete
<1>1. IInv => SkippedIsComplete
  BY DEF IInv
<1> QED BY <1>1, Invariance, PTL

(* An append only ever goes astray on a retry of a resumed request. *)
THEOREM RunOnlyRetriesMisalign == Spec => OnlyRetriesMisalign
<1>1. ASSUME IInv, Next, misaligned', ~misaligned
      PROVE  attempt > 0 \/ request.again
  <2>1. OpenDestination
    BY <1>1 DEF IInv, TypeOK, Next, User, Engine, Overwrite, ResumePartial, ResumeSkips, RetryRow, Ask,
                Cancel, CancelledInQueue, Start, OpenSource, Read, Write, Apply, CloseBegins, Closed,
                AttemptCancelled, AttemptRetries, AttemptFails, BackoffEnds, Drop, copyVars
  <2>2. request.offset # 0 /\ Len(dst) # request.offset
    BY <1>1, <2>1, Zenon DEF OpenDestination
  <2>3. request.offset > 0 /\ request.again \in BOOLEAN /\ attempt \in Nat
    BY <1>1, <2>2, RunAssumption DEF IInv, TypeOK
  <2>4. ~opened /\ pc # "ended"
    BY <2>1 DEF OpenDestination, Copying
  <2>5. (~request.again /\ attempt = 0) => Len(dst) = request.offset
    BY <1>1, <2>3, <2>4 DEF IInv, FirstAppend
  <2> QED BY <2>2, <2>3, <2>5
<1>2. IInv /\ [Next]_vars => [(misaligned' /\ ~misaligned) => (attempt > 0 \/ request.again)]_vars
  BY <1>1 DEF IInv, TypeOK
<1> QED BY <1>2, Invariance, PTL DEF Spec, OnlyRetriesMisalign

(* A resumed transfer keeps every byte the destination had. *)
THEOREM RunKeepsPartial == Spec => ResumeKeepsPartial
<1> DEFINE Kept == request.offset > 0 =>
                      /\ Len(dst') >= Len(dst)
                      /\ \A k \in DOMAIN dst : dst'[k] = dst[k]
<1>1. ASSUME IInv, Next, request.offset > 0
      PROVE  Len(dst') >= Len(dst) /\ \A k \in DOMAIN dst : dst'[k] = dst[k]
  <2>1. dst \in Seq(1 .. FileSize) /\ kind # "object"
    BY <1>1 DEF IInv, TypeOK, Phases
  <2>2. CASE Apply
    <3>1. dst' = Append(dst, Head(pending))
      BY <2>2 DEF Apply
    <3> QED BY <2>1, <3>1
  <2>3. CASE ~Apply
    <3>1. dst' = dst
      BY <1>1, <2>1, <2>3
         DEF Next, User, Engine, Overwrite, ResumePartial, ResumeSkips, RetryRow, Ask, Cancel,
             CancelledInQueue, Start, OpenSource, OpenDestination, Read, Write, CloseBegins, Closed,
             AttemptCancelled, AttemptRetries, AttemptFails, BackoffEnds, DropDestination, copyVars
    <3> QED BY <2>1, <3>1
  <2> QED BY <2>2, <2>3
<1>2. IInv /\ [Next]_vars => [Kept]_vars
  BY <1>1
<1> QED BY <1>2, Invariance, PTL DEF Spec, ResumeKeepsPartial

(* An object store shows the old object or the whole new one. *)
THEOREM RunReplacesWhole == Spec => ObjectIsReplacedWhole
<1>1. ASSUME IInv, Next, kind = "object", dst' # dst
      PROVE  dst' = Source
  <2>1. CASE Closed
    BY <1>1, <2>1, ObjectIsWhole DEF Closed
  <2>2. CASE DropDestination
    BY <1>1, <2>2, DroppedDestination
  <2>3. Closed \/ DropDestination
    BY <1>1 DEF Next, User, Engine, Overwrite, ResumePartial, ResumeSkips, RetryRow, Ask, Cancel,
                CancelledInQueue, Start, OpenSource, OpenDestination, Read, Write, Apply, CloseBegins,
                AttemptCancelled, AttemptRetries, AttemptFails, BackoffEnds, copyVars
  <2> QED BY <2>1, <2>2, <2>3
<1>2. IInv /\ [Next]_vars => [(kind = "object" /\ dst' # dst) => dst' = Source]_vars
  BY <1>1
<1> QED BY <1>2, Invariance, PTL DEF Spec, ObjectIsReplacedWhole
=============================================================================
