------------------------------ MODULE TreeWalk ------------------------------
(***************************************************************************)
(* The recursive listing behind folder transfers and deletions: list_tree, *)
(* walk_tree and cancel_tree of src/src-tauri/src/lib.rs, and the places   *)
(* it reads.  It streams one batch per listed directory.                   *)
(*                                                                         *)
(* A path is the sequence of its names, and a name is a sequence too, so   *)
(* that "a (1)" is <<"a", 1>>.  held[p] is what there is at place p, this  *)
(* computer or a connection, at and below the folders in question.         *)
(* A call of the back end takes effect when it is made.                    *)
(***************************************************************************)
EXTENDS Integers, Sequences, SequencesExt, FiniteSets

CONSTANTS Conn,         \* the connections, one tab each
          Cloud,        \* those that are object stores
          Local,        \* this computer
          Word,         \* what names are made of
          Dirs, Links,  \* which paths are directories and symbolic links
          Concurrency,  \* WALK_CONCURRENCY
          MaxFaults     \* bound on calls that fail without a reason in the model

Path == Seq(Seq(Word)) \ {<<>>}
\* What there is above a path is a directory and is there.
IsTree(paths) == \A e \in paths : \A n \in 1..Len(e) - 1 : SubSeq(e, 1, n) \in paths \cap Dirs

ASSUME WalkAssumption ==
    /\ Local \notin Conn /\ Cloud \subseteq Conn /\ Concurrency \in Nat \ {0} /\ MaxFaults \in Nat
    /\ Dirs \subseteq Path /\ IsTree(Dirs) /\ IsFiniteSet(Dirs) /\ Links \cap Dirs = {}

VARIABLES active,    \* activeTabId
          held,
          walk,      \* the walk: its state, place, pending, listings in flight, cancel flag
          messages,  \* what it has sent and its caller has not yet taken
          faults     \* calls that failed without a reason, up to MaxFaults

walkVars == <<walk, messages>>
Fault == faults < MaxFaults /\ faults' = faults + 1

Children(p, dir) == {e \in held[p] : e # <<>> /\ Front(e) = dir}
Batch(dir, entries) == [event |-> "batch", dir |-> dir, entries |-> entries]
Last_(event) == [event |-> event, dir |-> <<>>, entries |-> {}]

NoWalk == [st |-> "off", at |-> Local, root |-> <<>>, pending |-> <<>>,
           listing |-> {}, cancelled |-> FALSE]
WalkInit == walk = NoWalk /\ messages = <<>> /\ faults = 0

\* The caller's part: a new channel, and the command on its way.
ListTree(p, root) ==
    /\ walk' = [NoWalk EXCEPT !.st = "asked", !.at = p, !.root = root]
    /\ messages' = <<>>

\* The top of walk_tree's loop: leave if cancelled, else fill up the listings.
Loop(w, sent) ==
    LET n == Len(w.pending)
        k == n - (Concurrency - Cardinality(w.listing))
        keep == IF k < 0 THEN 0 ELSE k
        now == w.listing \cup {w.pending[i] : i \in keep + 1..n}
    IN IF w.cancelled \/ now = {}
       THEN /\ walk' = [w EXCEPT !.st = "over", !.listing = {}, !.pending = <<>>]
            /\ messages' = Append(sent, Last_("done"))
       ELSE /\ walk' = [w EXCEPT !.listing = now, !.pending = SubSeq(@, 1, keep)]
            /\ messages' = sent

WalkStarts ==
    /\ walk.st = "asked"
    /\ Loop([walk EXCEPT !.st = "runs", !.pending = <<walk.root>>], messages)
    /\ UNCHANGED <<active, held, faults>>

\* One listing arrives, in any order.  Its entries go out, links left out, before its
\* directories are queued.
Listed(dir) ==
    LET found == Children(walk.at, dir) \ Links
        sent == IF found = {} THEN messages ELSE Append(messages, Batch(dir, found))
    IN /\ dir \in walk.listing
       /\ Loop([walk EXCEPT !.listing = @ \ {dir},
                            !.pending = @ \o SetToSeq(found \cap Dirs)], sent)
       /\ UNCHANGED <<active, held, faults>>

\* A listing fails, or there are too many entries: the walk ends with that.
WalkFails_Silently ==
    /\ walk.st = "runs"
    /\ walk' = [walk EXCEPT !.st = "over", !.listing = {}, !.pending = <<>>]
    /\ UNCHANGED <<active, held, messages, faults>>
WalkFails ==
    /\ walk.st = "runs"
    /\ walk' = [walk EXCEPT !.st = "over", !.listing = {}, !.pending = <<>>]
    /\ messages' = Append(messages, Last_("error"))
    /\ UNCHANGED <<active, held, faults>>

\* cancel_tree: a walk that is not registered, yet or any more, does not notice.
Cancelled(w) == [w EXCEPT !.cancelled = (w.st = "runs")]

Walk == WalkStarts \/ WalkFails \/ \E dir \in walk.listing : Listed(dir)
=============================================================================
