----------------------------- MODULE FolderOps ------------------------------
(***************************************************************************)
(* Folder transfers and deletions together: they walk trees with the same  *)
(* list_tree and call whichever connection's tab is active.  The user      *)
(* starts one at a time, and may switch tabs while it runs.                *)
(***************************************************************************)
EXTENDS FolderTransfer, RemoteDelete

CONSTANTS Content,      \* what each place holds at first
          MaxOps,       \* bound on the operations
          MaxSwitches   \* bound on tab switches

ASSUME FolderAssumption ==
    /\ Content \in [Conn \cup {Local} -> SUBSET Path]
    /\ \A p \in Conn \cup {Local} :
          /\ IsFiniteSet(Content[p]) /\ IsTree(Content[p])
          /\ p \in Cloud => Content[p] \cap Links = {}
    /\ MaxOps \in Nat /\ MaxSwitches \in Nat

VARIABLES ops, switches

opsVars == <<active, held, walkVars, ftVars, history, rdVars, ops, switches>>

OpsInit == /\ active \in Conn /\ held = Content
        /\ WalkInit /\ FtInit /\ RdInit
        /\ ops = 0 /\ switches = 0

Idle == ft.pc = "idle" /\ rd.pc = "idle"
Top(p) == {e \in held[p] : Len(e) = 1}
Selected(p) == {<<e>> : e \in Top(p)} \cup {<<e, f>> : e, f \in Top(p)}

\* The user selects one or two entries of a pane and acts on them.
Begins == Idle /\ rest = {} /\ ops < MaxOps /\ ops' = ops + 1 /\ UNCHANGED switches
UserTransfers ==
    /\ Begins
    /\ \E up \in BOOLEAN : \E items \in Selected(IF up THEN Local ELSE active) :
          IsInjective(items) /\ TransferManyTo(up, items)
    /\ rd' = RdIdle
    /\ UNCHANGED rest
UserDeletes ==
    /\ Begins
    /\ \E p \in {Local, active} : \E items \in Selected(p) :
          IsInjective(items) /\ DeleteEntries(p, items)
    /\ switched' = FALSE /\ unmade' = {} /\ unlisted' = {} /\ queued' = {}
    /\ UNCHANGED <<ft, cache, rule>>

\* A click on another tab; the prompts leave only the notification's.
ActivateTab ==
    /\ switches < MaxSwitches /\ switches' = switches + 1
    /\ active' \in Conn \ {active}
    /\ switched' = TRUE
    /\ UNCHANGED <<held, walkVars, ftVars, unmade, unlisted, faults, rdVars, ops>>

Walks == Walk /\ UNCHANGED <<ftVars, switched, unmade, unlisted, rdVars, ops, switches>>
Transfers == Transfer /\ UNCHANGED <<rdVars, ops, switches>>
Deletes == Delete /\ UNCHANGED <<ftVars, switched, unmade, unlisted, ops, switches>>
Stops == StopWalk /\ UNCHANGED <<rdVars, ops, switches>>

OpsNext == UserTransfers \/ UserDeletes \/ ActivateTab \/ Walks \/ Transfers \/ Deletes \/ Stops

\* Assumed: every listing and call returns, with an answer or an error, and the user
\* answers the prompts.  The code does not see to the first: calls of an FTP control
\* connection (ftp.rs:79) and of an object store (cloud.rs:44) have no timeout.
Fairness == WF_opsVars(Walks) /\ WF_opsVars(Transfers) /\ WF_opsVars(Deletes)
OpsSpec == OpsInit /\ [][OpsNext]_opsVars /\ Fairness

-----------------------------------------------------------------------------
(* Properties *)

\* The directory of every enqueued file is there, or it is below one whose own mkdir
\* failed (its error is swallowed, main.js:2997, and a FALSE of mkdir_many passed over,
\* main.js:2958), although up to eight listings answer in any order and the files of one
\* are enqueued while others are still under way (lib.rs:373): unless the tab was switched.
FilesFollowFolders ==
    ~switched =>
        \A q \in queued : \/ Len(q.dst) = 1 \/ Front(q.dst) \in held[q.at]
                          \/ \E d \in unmade : IsPrefix(d, Front(q.dst))

\* A file that no listing showed, or that was renamed because one did, replaces
\* no other, whatever the cache knew (main.js:2660): unless the listing of its directory
\* failed, which counts as an empty one (main.js:2670), or it is in an object store.
Unasked(q) == q.how \in {"free", "rename"} /\ q.dst \in held[q.at] \ Dirs
FreshTargets == ~switched => \A q \in queued : Unasked(q) => q.at \in Cloud \/ Front(q.dst) \in unlisted

\* What the status line says of a deletion is so: "deleted" and nothing is left of the
\* entry; "failed" for a reason: a call failed, or a symbolic link was left behind.
DeletedMeansGone ==
    \A t \in rd.told : t.result = "deleted" => Below(rd.at, t.item) = {}
DeletionTold ==
    ~switched /\ rest = {} => 
        /\ DeletedMeansGone
        /\ \A t \in rd.told : t.result = "failed" =>
              \/ faults > 0 \/ \E l \in Links : l \in Below(rd.at, t.item)

\* Every transfer and deletion of folders comes to an end: no walk leaves its caller
\* waiting for the last message (main.js:3213), provided every call returns.
FoldersFinish == ~Idle ~> Idle
=============================================================================
