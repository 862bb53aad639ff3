---------------------------- MODULE RemoteDelete ----------------------------
(***************************************************************************)
(* Deleting what is selected in a pane: deleteEntries, removeEntry and     *)
(* collectTree of src/src/main.js.  A remote folder is walked and removed  *)
(* from the leaves up, each removal on the tab active when it is made.     *)
(* The limiter's eight removals at a time are one at a time here, in any   *)
(* order.                                                                  *)
(***************************************************************************)
EXTENDS TreeWalk

VARIABLES rd,       \* the deletion: see RdIdle
          rest      \* removals of a failed deletion that still run

rdVars == <<rd, rest>>

\* at: history, where the rows were that the user selected; told: what the status said
RdIdle == [pc |-> "idle", at |-> Local, items |-> <<>>, files |-> {}, dirs |-> {}, told |-> {}]
RdInit == rd = RdIdle /\ rest = {}

Below(p, e) == {x \in held[p] : IsPrefix(e, x)}
\* What a removal does: a local folder goes with its contents, a remote one must be empty;
\* in an object store it goes on being there while something is below it.
Removable(p, e) == \/ p \in Cloud
                   \/ e \in held[p] /\ (p # Local => Below(p, e) = {e})
Gone(p, e) == IF p # Local /\ Below(p, e) # {e} THEN {} ELSE Below(p, e)
Removes(p, e) ==
    /\ Removable(p, e)
    /\ held' = [held EXCEPT ![p] = @ \ Gone(p, e)]
    /\ UNCHANGED faults
RemovalFails(p, e) ==
    /\ IF Removable(p, e) THEN Fault ELSE UNCHANGED faults
    /\ UNCHANGED held
Side(p) == IF p = Local THEN Local ELSE active

\* The dialog, and the user's answer.
DeleteEntries(p, items) ==
    /\ rd.pc = "idle"
    /\ \A i \in DOMAIN items : items[i] \in held[p]
    /\ rd' = [RdIdle EXCEPT !.pc = "confirm", !.at = p, !.items = items]
    /\ UNCHANGED <<active, held, walkVars, rest, faults>>
Confirmed ==
    /\ rd.pc = "confirm"
    /\ \/ rd' = [rd EXCEPT !.pc = "entry"]
       \/ rd' = [rd EXCEPT !.pc = "idle"]
    /\ UNCHANGED <<active, held, walkVars, rest, faults>>

\* removeEntry has ended one way or the other: on to the next.
Told(result) ==
    rd' = [rd EXCEPT !.pc = IF Len(rd.items) = 1 THEN "idle" ELSE "entry",
                     !.items = Tail(@), !.files = {}, !.dirs = {},
                     !.told = @ \cup {[item |-> Head(rd.items), result |-> result]}]

RemoveOne ==
    LET e == Head(rd.items) IN
    /\ rd.pc = "entry" /\ (e \notin Dirs \/ rd.at = Local)
    /\ \/ Removes(Side(rd.at), e) /\ Told("deleted")
       \/ RemovalFails(Side(rd.at), e) /\ Told("failed")
    /\ UNCHANGED <<active, walkVars, rest>>
CollectTree ==
    /\ rd.pc = "entry" /\ Head(rd.items) \in Dirs /\ rd.at # Local
    /\ ListTree(active, Head(rd.items))
    /\ rd' = [rd EXCEPT !.pc = "collect"]
    /\ UNCHANGED <<active, held, rest, faults>>
Collect ==
    /\ rd.pc = "collect" /\ messages # <<>>
    /\ LET m == Head(messages) IN
       CASE m.event = "batch" -> rd' = [rd EXCEPT !.files = @ \cup (m.entries \ Dirs),
                                                  !.dirs = @ \cup (m.entries \cap Dirs)]
         [] m.event = "done" -> rd' = [rd EXCEPT !.pc = "files"]
         [] m.event = "error" -> Told("unread")
    /\ messages' = Tail(messages)
    /\ UNCHANGED <<active, held, walk, rest, faults>>

RemoveFile_SwallowsFailure ==
    /\ rd.pc = "files"
    /\ IF rd.files = {} THEN rd' = [rd EXCEPT !.pc = "dirs"] /\ UNCHANGED <<held, faults>>
       ELSE \E e \in rd.files : /\ Removes(active, e) \/ RemovalFails(active, e)
                               /\ rd' = [rd EXCEPT !.files = @ \ {e}]
    /\ UNCHANGED <<active, walkVars, rest>>
\* Promise.all: the first failure ends the deletion, the others of its round run on.
RemoveFile ==
    /\ rd.pc = "files"
    /\ IF rd.files = {} THEN rd' = [rd EXCEPT !.pc = "dirs"] /\ UNCHANGED <<held, rest, faults>>
       ELSE \E e \in rd.files :
               \/ /\ Removes(active, e)
                  /\ rd' = [rd EXCEPT !.files = @ \ {e}]
                  /\ UNCHANGED rest
               \/ RemovalFails(active, e) /\ Told("failed") /\ rest' = rest \cup (rd.files \ {e})
    /\ UNCHANGED <<active, walkVars>>

Deepest(ds) == {d \in ds : \A x \in ds : Len(x) <= Len(d)}
RemoveDir ==
    LET level == Deepest(rd.dirs) IN
    /\ rd.pc = "dirs"
    /\ IF rd.dirs = {} THEN rd' = [rd EXCEPT !.pc = "root"] /\ UNCHANGED <<held, rest, faults>>
       ELSE \E d \in level :
               \/ /\ Removes(active, d)
                  /\ rd' = [rd EXCEPT !.dirs = @ \ {d}]
                  /\ UNCHANGED rest
               \/ RemovalFails(active, d) /\ Told("failed") /\ rest' = rest \cup (level \ {d})
    /\ UNCHANGED <<active, walkVars>>
RemoveRoot ==
    /\ rd.pc = "root"
    /\ \/ Removes(active, Head(rd.items)) /\ Told("deleted")
       \/ RemovalFails(active, Head(rd.items)) /\ Told("failed")
    /\ UNCHANGED <<active, walkVars, rest>>

\* A removal that nobody waits for any more.
Straggler ==
    /\ \E e \in rest : /\ rest' = rest \ {e}
                       /\ Removes(active, e) \/ RemovalFails(active, e)
    /\ UNCHANGED <<active, walkVars, rd>>

Delete == Confirmed \/ RemoveOne \/ CollectTree \/ Collect \/ RemoveFile \/ RemoveDir
          \/ RemoveRoot \/ Straggler
=============================================================================
