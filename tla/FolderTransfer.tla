--------------------------- MODULE FolderTransfer ---------------------------
(***************************************************************************)
(* Transferring folders between the panes: transferManyTo, transferFolder, *)
(* resolveConflict and its cache in src/src/main.js.  Every call to a      *)
(* connection asks for the active tab at the moment it is made.            *)
(***************************************************************************)
EXTENDS TreeWalk

CONSTANTS Policy,       \* the answers explored
          Saved,        \* the settings explored, by direction
          Comparison    \* how files that exist compare with the source's

ASSUME TransferAssumption ==
    /\ Policy \subseteq {"ask", "overwrite", "newer", "size", "rename", "resume", "skip"}
    /\ Saved \subseteq [BOOLEAN -> Policy]

VARIABLES ft,       \* the transfer: see FtInit
          cache,    \* conflictCache: side and directory |-> the names known in it
          rule,     \* the saved policy and the session's, by direction (TRUE is up)
          queued,   \* the requests enqueued
          switched, \* history: the tab was switched during the operation
          unmade,   \* history: directories whose mkdir failed, and nobody was told
          unlisted  \* history: directories whose listing failed, and nobody was told

ftVars == <<ft, cache, rule, queued>>
history == <<switched, unmade, unlisted, faults>>
NoRule == "none"

NoBatch == [action |-> NoRule, aborted |-> FALSE]
FtIdle == [pc |-> "idle", items |-> <<>>, up |-> TRUE, batch |-> NoBatch, single |-> TRUE,
           dirs |-> {}, files |-> {}, file |-> <<>>, name |-> <<>>, how |-> NoRule,
           cmp |-> CHOOSE c \in Comparison : TRUE]
NoCache == [k \in {} |-> {}]
Key(dir) == <<ft.up, dir>>
\* conflictCache.set: the names known in some directories.
CacheSet(dirs, names) ==
    LET keys == {Key(d) : d \in dirs}
    IN cache' = [k \in DOMAIN cache \cup keys |-> IF k \in keys THEN names ELSE cache[k]]
FtInit == /\ ft = FtIdle /\ cache = NoCache
          /\ \E s \in Saved : rule = [up \in BOOLEAN |-> [setting |-> s[up], session |-> NoRule]]
          /\ queued = {} /\ switched = FALSE /\ unmade = {} /\ unlisted = {}

Dest == IF ft.up THEN active ELSE Local
Source == IF ft.up THEN Local ELSE active
Goto(pc) == ft' = [ft EXCEPT !.pc = pc]
\* The mkdirs that succeed.  The parent must be there and the directory must not, but
\* an object store just writes its marker (again), and what is above a marker is there.
Makes(p, ds) == {d \in ds : \/ p \in Cloud
                            \/ d \notin held[p] /\ (Len(d) = 1 \/ Front(d) \in held[p])}
Above(d) == {SubSeq(d, 1, n) : n \in 1..Len(d)}
\* Other mkdirs may fail for want of permission, of a connection or of a session: the
\* answer is an error that is swallowed, or FALSE, which is passed over.
Failing(ds) == IF faults < MaxFaults THEN SUBSET ds ELSE {{}}
Make(p, ds, failed) ==
    /\ held' = [held EXCEPT ![p] = @ \cup UNION {Above(d) : d \in Makes(p, ds \ failed)}]
    /\ unmade' = unmade \cup failed
    /\ IF failed = {} THEN UNCHANGED faults ELSE Fault

\* The user drops files and folders on the other pane.
TransferManyTo(up, items) ==
    /\ ft.pc = "idle"
    /\ \A i \in DOMAIN items : items[i] \in held[IF up THEN Local ELSE active]
    /\ \E c \in Comparison :
          ft' = [FtIdle EXCEPT !.pc = "item", !.items = items, !.up = up, !.cmp = c,
                               !.single = (Len(items) = 1)]
    /\ switched' = FALSE /\ unmade' = {} /\ unlisted' = {} /\ queued' = {}
    /\ UNCHANGED <<active, held, walkVars, cache, rule, faults>>

\* transferTo: a file by itself; a folder begins with its new root, then the walk.
TransferFile ==
    /\ ft.pc = "item" /\ Head(ft.items) \notin Dirs
    /\ cache' = NoCache
    /\ ft' = [ft EXCEPT !.pc = "files", !.files = {Head(ft.items)}]
    /\ UNCHANGED <<active, held, walkVars, rule, queued, history>>
MakeRoot ==
    /\ ft.pc = "item" /\ Head(ft.items) \in Dirs
    /\ \E failed \in Failing({Head(ft.items)}) : Make(Dest, {Head(ft.items)}, failed)
    /\ Goto("scan")
    /\ UNCHANGED <<active, walkVars, cache, rule, queued, switched, unlisted>>
Scan ==
    /\ ft.pc = "scan"
    /\ ListTree(Source, Head(ft.items))
    /\ cache' = NoCache
    /\ Goto("wait")
    /\ UNCHANGED <<active, held, rule, queued, history>>

\* On to the next dropped item, unless the batch was cancelled.
NextItem(f) ==
    LET rest == Tail(f.items) IN
    ft' = IF rest = <<>> \/ f.batch.aborted THEN [f EXCEPT !.pc = "idle", !.items = <<>>]
          ELSE [f EXCEPT !.pc = "item", !.items = rest, !.dirs = {}, !.files = {},
                         !.batch = IF f.single THEN NoBatch ELSE @]

Take_FilesFirst ==
    /\ ft.pc = "wait" /\ messages # <<>>
    /\ LET m == Head(messages) IN
       IF m.event # "batch" THEN NextItem(ft)
       ELSE ft' = [ft EXCEPT !.pc = IF m.entries \subseteq Dirs THEN "mkdir" ELSE "files",
                             !.dirs = m.entries \cap Dirs, !.files = m.entries \ Dirs]
    /\ messages' = Tail(messages)
    /\ UNCHANGED <<active, held, walk, cache, rule, queued, history>>
Take ==
    /\ ft.pc = "wait" /\ messages # <<>>
    /\ LET m == Head(messages) IN
       IF m.event # "batch" THEN NextItem(ft)
       ELSE ft' = [ft EXCEPT !.pc = IF m.entries \cap Dirs = {} THEN "files" ELSE "mkdir",
                             !.dirs = m.entries \cap Dirs, !.files = m.entries \ Dirs]
    /\ messages' = Tail(messages)
    /\ UNCHANGED <<active, held, walk, cache, rule, queued, history>>

\* mkdir_many: directories it made are known to be empty; if it fails, one by one.
MkdirMany_SeedsAll ==
    /\ ft.pc = "mkdir"
    /\ \E failed \in Failing(ft.dirs) : Make(Dest, ft.dirs, failed)
    /\ CacheSet(ft.dirs, {})
    /\ Goto("files")
    /\ UNCHANGED <<active, walkVars, rule, queued, switched, unlisted>>
MkdirMany ==
    /\ ft.pc = "mkdir"
    /\ \E failed \in Failing(ft.dirs) :
          /\ Make(Dest, ft.dirs, failed)
          /\ CacheSet(Makes(Dest, ft.dirs \ failed), {})
    /\ Goto("files")
    /\ UNCHANGED <<active, walkVars, rule, queued, switched, unlisted>>
MkdirManyFails ==
    /\ ft.pc = "mkdir"
    /\ Goto("each")
    /\ UNCHANGED <<active, held, walkVars, cache, rule, queued, history>>
MkdirEach ==
    /\ ft.pc = "each"
    /\ IF ft.dirs = {} THEN Goto("files") /\ UNCHANGED <<held, unmade, faults>>
       ELSE \E d \in ft.dirs : \E failed \in Failing({d}) :
               /\ Make(Dest, {d}, failed)
               /\ ft' = [ft EXCEPT !.dirs = @ \ {d}]
    /\ UNCHANGED <<active, walkVars, cache, rule, queued, switched, unlisted>>

-----------------------------------------------------------------------------
(* resolveConflict *)

Effective(f) == IF f.batch.action # NoRule THEN f.batch.action
                ELSE IF rule[f.up].session # NoRule THEN rule[f.up].session
                ELSE rule[f.up].setting
Name(p) == Last(p)
Names(p, dir) == {Name(e) : e \in Children(p, dir)}
\* dedupeName: the first "name (n)" the listing does not have.
DedupeName(n, taken) ==
    Append(n, CHOOSE k \in 1..Cardinality(taken) + 1 :
                 /\ Append(n, k) \notin taken
                 /\ \A j \in 1..k - 1 : Append(n, j) \in taken)

\* The next file; an overwrite needs no listing.
NextFile ==
    /\ ft.pc = "files" /\ ft.files # {}
    /\ \E e \in ft.files :
          ft' = [ft EXCEPT !.files = @ \ {e}, !.file = e, !.name = Name(e), !.how = "overwrite",
                           !.pc = IF Effective(ft) = "overwrite" THEN "enqueue" ELSE "look"]
    /\ UNCHANGED <<active, held, walkVars, cache, rule, queued, history>>
FilesDone ==
    /\ ft.pc = "files" /\ ft.files = {}
    /\ IF Head(ft.items) \in Dirs THEN Goto("wait") ELSE NextItem(ft)
    /\ UNCHANGED <<active, held, walkVars, cache, rule, queued, history>>

\* The answer for a file that exists: proceed under a name, or skip.
Proceeds(policy, canResume) ==
    CASE policy = "newer" -> ft.cmp.newer
      [] policy = "size" -> ft.cmp.differs
      [] policy = "resume" -> ~canResume \/ ft.cmp.shorter
      [] policy = "skip" -> FALSE
      [] OTHER -> TRUE
CanResume == ~ft.up \/ active \notin Cloud
Answer(f, policy, taken) ==
    ft' = [f EXCEPT !.pc = IF Proceeds(policy, CanResume) THEN "enqueue" ELSE "files",
                    !.how = policy,
                    !.name = IF policy = "rename" THEN DedupeName(@, taken) ELSE @]

\* dirEntries: by side and directory, from the cache if it is there.  A listing that fails
\* is taken, and cached, for an empty directory.
Compare(dir, taken) ==
    /\ CacheSet({dir}, taken)
    /\ IF ft.name \notin taken THEN ft' = [ft EXCEPT !.pc = "enqueue", !.how = "free"]
       ELSE IF Effective(ft) = "ask" THEN Goto("prompt")
       ELSE Answer(ft, Effective(ft), taken)
Look ==
    /\ ft.pc = "look"
    /\ LET dir == Front(ft.file)
           known == Key(dir) \in DOMAIN cache
       IN \/ /\ Compare(dir, IF known THEN cache[Key(dir)] ELSE Names(Dest, dir))
             /\ UNCHANGED <<unlisted, faults>>
          \/ /\ ~known /\ Fault /\ unlisted' = unlisted \cup {dir}
             /\ Compare(dir, {})
    /\ UNCHANGED <<active, held, walkVars, rule, queued, switched, unmade>>

\* A folder is a batch of its own even when dropped alone.
InBatch == ~ft.single \/ Head(ft.items) \in Dirs
\* promptConflict: what the dialog offers.
Offered == {c \in [action : Policy \ {"ask"}, scope : {"once", "batch", "session", "always"}] :
               /\ c.scope = "batch" => InBatch
               /\ c.action = "resume" => CanResume /\ ft.cmp.shorter}
PromptAnswered ==
    /\ ft.pc = "prompt"
    /\ \E c \in Offered :
          /\ Answer([ft EXCEPT !.batch.action = IF c.scope = "batch" THEN c.action ELSE @],
                    c.action, cache[Key(Front(ft.file))])
          /\ rule' = [rule EXCEPT ![ft.up] =
                [session |-> IF c.scope = "session" THEN c.action ELSE @.session,
                 setting |-> IF c.scope = "always" THEN c.action ELSE @.setting]]
    /\ UNCHANGED <<active, held, walkVars, cache, queued, history>>
PromptCancelled ==
    /\ ft.pc = "prompt"
    /\ IF InBatch THEN NextItem([ft EXCEPT !.batch.aborted = TRUE]) ELSE Goto("files")
    /\ walk' = IF Head(ft.items) \in Dirs THEN Cancelled(walk) ELSE walk
    /\ UNCHANGED <<active, held, messages, cache, rule, queued, history>>

Enqueue ==
    /\ ft.pc = "enqueue"
    /\ queued' = queued \cup {[src |-> ft.file, dst |-> Append(Front(ft.file), ft.name),
                               conn |-> active, at |-> Dest, how |-> ft.how]}
    /\ Goto("files")
    /\ UNCHANGED <<active, held, walkVars, cache, rule, history>>

\* The Stop button: what is buffered is still handled.
StopWalk ==
    /\ ft.pc \notin {"idle", "item", "scan"} /\ Head(ft.items) \in Dirs
    /\ walk' = Cancelled(walk) /\ walk' # walk
    /\ UNCHANGED <<active, held, messages, ftVars, history>>

Transfer == TransferFile \/ MakeRoot \/ Scan \/ Take \/ MkdirMany \/ MkdirManyFails
            \/ MkdirEach \/ NextFile \/ FilesDone \/ Look \/ PromptAnswered \/ PromptCancelled
            \/ Enqueue
=============================================================================
