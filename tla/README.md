# A TLA+ model of Packetboat

Packetboat is a two-pane file transfer client (FTP, FTPS, SFTP and cloud stores): a Tauri
application whose back end is Rust (`src-tauri/src`) and whose front end is one JavaScript program
(`src/main.js`). Paths in this document are relative to the repository's root, with lines of the
commit that was modelled.

The specifications are written from the code. `PROJECT.json` lists the runs, the source lines each
definition stands for, the mutants that show each property can fail, the hazards and the theorems.

    tlc -config TransferQueue.cfg MCTransferQueue.tla     # a model-checking run
    tlapm TransferQueueProofs.tla                         # the proofs

## 1. The system

| Part | State | Operations | Works with | What makes it correct |
|---|---|---|---|---|
| **Transfer engine**, `transfer.rs` | channel of requests, `cancel` set, eight atomic limits and counters, one task per transfer | enqueue, cancel, set_limits; dispatcher; run_one, run, guarded | backends; sends `transfer://update` to the panel | limits honoured, no slot lost, no missed wakeup, cancel answered, bounded retry, every transfer settles; the destination ends equal to the source |
| **FTP transfers and pool**, `backend/ftp.rs` | `XferPool.idle`, a spawned task and a channel per transfer | open_*, ChannelReader/Writer, stream_*, acquire, release | engine's copy loop; the server | only connections in step with the server are pooled; failures are not taken for the end of the file; no mutual wait |
| **FTP control connection**, `backend/ftp.rs` | one `Conn` behind a mutex | list, mkdir, remove, rename through `with_reconnect` | server; tree walk | a reply belongs to its command; one reconnect |
| **FTPS certificates**, `backend/ftp.rs` | `known_certs.json` | verify, capture, trust | connect commands | only a shown fingerprint is trusted; other hosts keep theirs |
| **SFTP session**, `backend/sftp.rs` | one shared session in an RwLock, `known_hosts.json` | every operation through `with_reconnect`; open_* on a live session | server | one reconnect per loss, never a good session replaced |
| **Local, cloud backends**, `backend/local.rs`, `cloud.rs` | none of their own | one call each of the system or of OpenDAL | disk, store | what a writer has stored after it is dropped |
| **Backend interface**, `backend/mod.rs` | none | `safe_component`, the trait | all | a name is one path component |
| **Connections**, `lib.rs` | `connections` map, next id | connect_*, disconnect | engine, commands | ids never reused |
| **Tree walk**, `lib.rs:316-436` | pending directories, listings in flight, cancel flags | list_tree, cancel_tree | folder transfer, deletion | a parent's batch precedes its children's; stops when told |
| **Folder transfer and conflicts**, `main.js:2657-2992` | conflict cache, batch answer, session answer | resolveConflict, transferTo, transferFolder | tree walk, engine, prompts | each file gets its answer, on the connection it was meant for |
| **Queue panel**, `main.js:3373-3687` | rows, requests by id, run tally | onTransferUpdate, retry, clear, counts, notification | engine | each transfer counted once, one notification per run |
| **Drops**, `main.js:3022-3336` | the running import, waiting drops | runExternalImport, put_bytes | conflicts, panel | one at a time, each runs, Stop stops |
| **Panes, tabs, navigation, sync**, `main.js:430-1214` | per tab: folders, history, sync anchors; the active tab | navigate, connect, switch, close | backends | an answer is shown only where it was asked |
| **Deletion**, `main.js:3785-3912` | limiter, counts | removeEntry | tree walk, backends | children before parents, at most 8 at once |
| **Sites and secrets**, `main.js:1404-2366`, `lib.rs:640-740` | `sites.json`, keychain | load, save, delete, import | disk, keychain | a crash loses no sites; secrets match sites |
| **Path helpers**, `src/util.js` | none | join, parent, relative | all panes | |

### Hard behaviour

The dispatcher, one task per transfer and the main thread share counters without a lock. FTP adds a
second task per transfer and a bounded channel between the two. Either end may be dropped at any
moment, by a cancel or by the stall timeout. Connections die, also while idle. Retries repeat work
that may have had effects. In the front end every `await` is a point where the user may have changed
tabs, stopped the queue or dropped more files, and updates arrive from the engine in between.
`PROJECT.json`, "hazards", lists each such spot; one without a property says why.

## 2. Modules

| Module | Models | Kind |
|---|---|---|
| `TransferLifecycle` | what the engine promises the panel: the events of each transfer, in order, and that each settles | abstract specification |
| `TransferQueue` | `transfer.rs` without the bytes: commands, channel, dispatcher, limits, run_one | detailed; implements `TransferLifecycle` |
| `MCTransferQueue` | instances of it for TLC | |
| `TransferQueueProofs` | its safety theorems | proofs |
| `TransferRun` | `run`, `guarded`, retries and what the panel asks of one file, with the bytes | detailed |
| `TransferRunProofs` | its safety theorems | proofs |
| `FtpTransfer` | engine, spawned tasks, channel and connection pool of FTP transfers | detailed |
| `FtpTransferProofs` | its safety theorems | proofs |
| `RemoteOps` | operations that tasks ask of a back end, to be made once more after a reconnect | part of the next two |
| `FtpControl` | the FTP control connection: mutex, commands and replies, `with_reconnect` | detailed, over `RemoteOps` |
| `SftpSession` | the shared SFTP session: `RwLock`, `with_reconnect`, keepalive, open files | detailed, over `RemoteOps` |
| `Reconnect` | a connection of either protocol | composition |
| `ReconnectProofs` | its safety theorems | proofs |
| `QueuePanel` | the queue panel of `main.js`: rows, kept requests, tally; the engine is `TransferLifecycle` | detailed, over an abstract engine |
| `QueuePanelProofs` | its safety theorems | proofs |
| `DropImport` | drops from the operating system: imports in turn and the limiter of their uploads | detailed |
| `Tabs`, `MCTabs` | both panes, tabs, connecting, synchronised browsing | detailed |
| `TabsProofs` | its safety theorems | proofs |
| `TreeWalk` | `list_tree`, `walk_tree`, `cancel_tree`, and the places they read | detailed; part of the next three |
| `FolderTransfer` | folder transfers, the file-exists policies and their cache | detailed, over `TreeWalk` |
| `RemoteDelete` | deletions | detailed, over `TreeWalk` |
| `FolderOps`, `MCFolderOps` | `FolderTransfer` and `RemoteDelete` on one `TreeWalk`, with tab switches | composition |
| `FilesProofs` | the safety theorems of `DropImport` and of `FolderOps` | proofs |
| `SitesStore`, `MCSitesStore` | the Site Manager, the sites file and the keychain | detailed |
| `SitesStoreProofs` | its safety theorems | proofs |

`TransferQueue` and `QueuePanel` instantiate the same abstract specification: `TransferQueue` is shown to
implement it (`LifecycleSafety`, `EveryTransferSettles`), and `QueuePanel` builds on it as its engine.

An operator `Action_Fault` is an action with a plausible bug in it. No specification uses it; the
mutant that replaces the action by it shows which property notices.

### TransferQueue

| Code | Model |
|---|---|
| `connections` map | `connected` |
| `TransferRequest` by id | `request` (direction and connection; the rest is `TransferRun`'s) |
| mpsc channel | `rx` |
| `max`, `max_sftp`, `max_dl`, `max_ul` | `limits["plain"]`, `["sftp"]`, `["Download"]`, `["Upload"]` |
| `active*` | `active`, indexed alike |
| `slot_freed: Notify` | `permit`, the one permit it stores, and `disp.pc = "wait"` |
| dispatcher's locals and program counter | `disp` |
| each run_one's | `pc`, `attempt`, `result`, `is_sftp` |
| last event emitted | `shown` |

One step is one atomic operation that another thread may see the effect of: has_slot reads the pool
and then the direction (`TestPool`, `TestDirection`), `Limits::set` writes pools, then directions,
then notifies, `release` takes one counter down, then the other, then notifies. The two pool limits are
stored in one step, as the two direction limits are: the dispatcher reads only one of each pair for a
job. `acquire` raises both counters in one step, since nobody else reads them. The synchronous commands are
called on one thread, so no two overlap. Memory order is not modelled: every access is to one atomic
at a time, and Notify orders the accesses before it with those after.

An attempt is four steps: `Opened`, `LastCheck` (guarded's cancel check before the final flush),
`AttemptDone`, or a failure or cancellation in between. Opening is not guarded, so a cancel request is not seen there.

### TransferRun

One file of `FileSize` chunks and a destination that is a sequence of chunks. `pos` is how far
the reader is, `pending` what the writer has accepted and the destination not yet stored.
Kinds of destination: `file` (local, SFTP: opening truncates or appends before the copy starts),
`ftp` (`open_*` only spawns the task, so the file is opened while the copy runs and already fills
the channel) and `object` (cloud: the object appears when the upload is closed; no append).

Requests come from the panel as the code makes them: overwrite, resume at the length found in the
listing (`resolveConflict`), skip a destination that is at least as long, or retry a failed row with
its old request (`retryTransfer`). What is assumed:

- requests for one destination follow each other; the queue does let two run at once when the user asks for
  the same file twice, and nothing is claimed about that;
- the source does not change, and the first content of the destination is what an earlier transfer
  of it left behind, a beginning of it. Resume cannot tell another file of the same name from that;
- bytes still under way when a writer is dropped are lost or land before the destination is looked
  at again.

### FtpTransfer

`eng` is the engine's copy loop, `task` the spawned task, `chan` the bounded channel, `errored` an
error queued behind its chunks. `conn` and `idle` hold connections, `alive` those open at both ends,
`owes` those on which the server has yet to send the reply that closes a transfer. Dropping a reader
or writer aborts its task (`AbortTask`) and so closes the connection it holds. An abort takes effect at the
task's next await in the code; in the model it does at once, so a task that finishes in that
instant counts as aborted.

`cause` is what the task failed of, as `is_retryable` would class the message; `WriteBroken` is the
writer's own message. The server, the data connection and the network are external: `Lose`,
`DataCutShort`, `ServerRefuses`. A server is taken to report a download it has cut short in its final reply.

### RemoteOps, FtpControl, SftpSession, Reconnect

A task (a listing of the tree walk, a command of the front end) asks an operation of a back end and goes through its `pc`.
`Reconnect` takes one of the two back ends, which share nothing but that.

| Code | Model |
|---|---|
| `FtpBackend.conn`, its mutex | `conn`, `holder` |
| what the server has sent and the client not read | `replies`, each with the operation and try it answers, which the client does not see |
| a guard, `reconnect`'s `fresh` | `cmd`, `fresh` |
| `SftpBackend.session`, its RwLock | `slot`, `writer` (readers hold it for the clone only) |
| clones of the `Arc<Session>` | `held`; a session nobody has is torn down |
| a session whose handle is closed | `closed`; `up` are those whose link works |

An FTP operation is a sequence of commands and replies: 227, 150 and 226 or 250 for what uses a data connection (`list`,
`read_file`, `write_file`; active mode has 200 in place of 227), 257 for `mkdir` and `pwd`, 250 for a removal, 350 and 250
for a rename, or an error at any of them. The sequence is the FTP library's. A listing may be aborted at any moment, for
`walk_tree` drops its listings when it ends early. A lost connection is seen when the next reply is read; what has
already been sent to it may have had its effect, and no property speaks of that. `suspect`, `slipped` and `doubted` are
history: connections found lost and not yet replaced, those on which an aborted listing left a reply `is_ftp_conn_error`
does not know, and SFTP sessions on which a refused write was taken for a lost link.

In `SftpSession` a request over a dead link ends in a timeout, in an error that tells it, or is not made because
the keepalives have closed the session (`Notices`). `batch` is `mkdir_many`, which reconnects up front only; `open` gives a transfer its file,
and the file breaks when its session is torn down.

### QueuePanel

The panel sees the engine only through its promise, `TransferLifecycle`, which `TransferQueue` is
shown to keep. Each of the engine's steps appends its event to `events`; the panel handles them in that order
(`OnTransferUpdate`). The reply of `enqueue_transfer`, which carries the id, comes on its own (`Reply`): before
it the row is there and its request is not.

| Code | Model |
|---|---|
| `queue`, a row's `dataset.status` | `row`; `"absent"` is no entry |
| `transferRequests` | `requests`, its keys |
| `queueRun` | `success`, `failed` |
| `prevActiveCount`, `externalImportActive` | the same, `importing` |

`outcome` and `reported` are history: how each file ended as the panel was told, and whether a tally with
it was reset. They let `TallyExact` and `QuietMeansReported` say what "once per run" means without
repeating the arithmetic. Whether the user is looking (`document.hasFocus()`) is a free choice. A skipped
file's row is active and settled within one call, which can make the queue drain on its own
(`AddSkippedRow`). `importing` covers imports that follow each other without a pause, and a dropped file
settles as `DropImport` lets it: done, failed or cancelled, always before the import ends.

### DropImport

One step is what JavaScript runs between two awaits. `current`, `pending` and `abort` are
`externalImportActive`, `pendingImports` and `externalImportAbort`; `phase` is where the running
import waits: for its folders, for the conflict check of file `next`, or for its uploads. `task` is where
each accepted file is in `runLimited` and `uploadDroppedFile`. A waiter taken from `slotWaiters` runs in
a step of its own (`Resume`), so another file may take its slot before it and it parks again. The limit is what
`limitNow` returns: new settings change it and wake the parked files (`SetLimit`), a switch to a tab of another
protocol changes it and wakes none (`SwitchTab`). Walking the dropped tree and creating its folders is one
step that may fail; files over the size limit are among the skipped ones.

### Tabs

`call[c]` is the stack of `async` functions that wait for each other, innermost first. A frame that waits for
an answer (`Awaited`) may get it at any time, before or after any other; every other frame is code due now and runs
before anything else (`Quiet`). So one action is what JavaScript runs from one `await` to the next, and
`await navigateLocal(...)` in `restoreTabPanes` is a frame on top of a `restoreRemote` frame.

| Code | Model |
|---|---|
| `tabs`, `activeTabId` | `tabs`, `active` |
| `state.local.path`, `tab.remote.path`, `tab.localPath` | `local`, `rpath`, `lpath` |
| `tab.sync`, `tab.localRoot`, `tab.remoteRoot`, `syncing` | `sync`, `root`, `syncing` |
| what a pane's body shows | `pane`: a listing, "Loading...", an error or nothing, and of which tab and path |

A path is the sequence of its names. Directories are only added, by the prompt of `syncMirror`. A listing fails if
its directory is missing or its tab is closed, and up to `MaxFaults` times for no reason in the model, the looks of
`resolveStartDir` among them. Connecting is
the call, one question about a host key or certificate, one more try, `addTab`, and then the start directories one
`await` after the other. The folder tree beside a pane only follows the listing and is left out. `parted` is history:
requests that overlapped, a call that failed or a prompt that was declined. Only then may synchronised panes part.

### TreeWalk, FolderTransfer, RemoteDelete, FolderOps

`held[p]` is what there is at place `p`: this computer or a connection, at and below the folders in question. A call
of a back end takes effect when it is made. `TreeWalk` keeps the walk's own state in `walk` and the channel to its caller in
`messages`; listings in flight answer in any order, up to `Concurrency` (`WALK_CONCURRENCY`, 8).

`ft` is the running folder transfer with its program counter: `item`, `scan`, `wait` (for a message), `mkdir`,
`each` (directories one by one after `mkdir_many` threw), `files`, `look` (`dirEntries`), `prompt`, `enqueue`. Every
action that calls a connection asks for `active` at that moment, as the code asks for `activeTabId`. `cache` is
`conflictCache`, `rule` the saved and the session's policy for each direction, `batch` the answer for this transfer; `Saved` are the
saved policies a run begins with. How a file that exists compares
with the source (`newer`, `size`, `resume`) is chosen once for an operation. A name is a sequence, so that
`"a (1)"` is `<<"a", 1>>`. An object store has no directories of its own: one is there while its marker or anything below it is, so
making one leaves what is above it there too (`Above`), and removing one with something left below it removes nothing (`Gone`). `rd` is the running deletion. The limiter lets eight removals run; since each takes effect at one
moment they are made one at a time, in any order, and those of a round that has failed go on by themselves (`Straggler`).

A mkdir, a removal, a listing of `dirEntries` and a walk may fail, up to `MaxFaults` times, for no reason in the model: want of permission,
a connection that is lost, an error of the store. Of a mkdir and of a listing of `dirEntries` the code tells nobody: `safeMkdir` catches
everything (`main.js:2994-3001`), an answer `false` of `mkdir_many` is passed over (2957-2960), and a listing that failed is cached as
an empty directory (2670-2673). So a mkdir that fails leaves the transfer going on (`failed` in `Make`), and a failed listing
compares with no names (`Look`). `unmade` and `unlisted` are history: the directories of which that was so.

What is assumed: the user starts one operation at a time (two at once share `conflictCache`, and nothing is claimed
about that); nobody else changes either side meanwhile; characters that Windows forbids do not occur.

### SitesStore

One step is what runs between two awaits. `sites_save` and the keychain commands are synchronous, so they run on the main
thread in the order they are made; a call takes effect when it is made and its answer comes later. A task is an `async` function
under way with the calls it has still to make; `gets` are answers of `secret_get` to come. Of a site only its logon type
(`cloud` for an object store) and whose data it holds are kept, of a secret whose it is. `sites_save` writes a temporary
file and renames it, so it is one step; a `Crash` may come between any two. An import is one site of the file, as
a copy or over one that looks the same; the file dialogs and the questions are left out. `LoadSites` is `sites_load` with the `catch` of
`loadSites`: what cannot be read counts as no file, what cannot be parsed is moved away, and either way the list is empty; so it goes when the
manager is opened and when the application starts (`Crash`). `secret_delete` may fail and says nothing of it (`Erases`), and `secret_get` then
has no answer. `own` and `odd` are history. `odd` records what a property excepts: the form or the selection moved under a save (`moved`), a site
chosen while the form was still to be blanked (`early`), a protocol changed to or from an object store (`recast`), a site imported over one with another
logon type (`replaced`), a save that failed or was killed before its last call (`cut`), a task begun while another ran (`overlap`), a list that could not be
read (`unread`) and a deletion of the keychain that failed (`kept`).

## 3. Runs

| Run | Instance | States | Shows |
|---|---|---|---|
| `transfer_queue` | 2 transfers, one SFTP and one other connection, 1 limit change, 1 retry, fair | 0.55 M | types, slot conservation, no lost wakeup, order, limits, cancel, refinement of `TransferLifecycle`, every transfer settles |
| `transfer_run` | 3 chunks, writer of 2, 2 retries, 3 requests, fair | 0.22 M | what the destination holds; every attempt that got through its opens ends |
| `transfer_run_resume` | 2 chunks, 1 request | violation | finding 1 |
| `ftp_transfer` | 2 transfers of either direction, 2 chunks, channel of 1, pool of 1, 1 retry, 2 faults, fair | 0.47 M | pool in step, connections accounted for, nothing half done, failures reach the engine without the stall timeout |
| `ftp_masked` | 1 fault | violation | finding 2 |
| `drop_import` | 2 drops of 3 files, limits 1 and 2, 2 changes, fair | 0.30 M | limiter exact, no one parked for ever, one import at a time, each drop ends |
| `queue_panel` | 2 transfers with 1 retry, 2 dropped files | 5.3 M | exact tally, one report per run, rows follow the engine |
| `tabs` | 3 connections, 3 calls in flight, 4 requests | 1.3 M | panes and tabs agree, synchronised panes correspond at rest |
| `folder_ops` | 2 operations, a connection and an object store, 2 listings at once, 1 fault, 1 tab switch, fair | 1.1 M | folders before files, nothing fresh replaced, deletions told as they went, each operation ends |
| `folder_delete_tab` | 1 operation | violation | finding 3 |
| `sites` | 2 sites and room for one, 4 logon types, 6 requests, 1 fault | 7.8 M | secrets and data stay with their site, no orphans |
| `reconnect` | 2 tasks, 3 operations, 4 connections or sessions, 2 losses, fair | 0.6 M | replies are their command's, a working session is kept, each operation ends |

**Bounds.** Two transfers are enough for two to compete for a slot, for one to release while the
dispatcher tests, and for one to wait behind another; `MCRequests` picks the pairs that share only a
direction, or a pool. The limit choices contain a 0 in each role (clamped for pools, unlimited for directions), and
each both raises and lowers something. In `TransferRun` three chunks over a writer of two allow a stored, a
buffered and an unread chunk at once; three requests allow a failed transfer, its
resumption and a retry of either row. In `FtpTransfer` the channel can be full and empty with
part of the file still unsent, and a pool of one is at its limit while two transfers return connections; with two faults
a retry fails as well.
Three files over a limit of one leave two parked at once; two limits and two changes raise it, lower it, or
both, under the parked ones; with two drops one waits. Two transfers of the panel allow a row and its retry, or
two whose events interleave, and two dropped files a failed and a finished one in one run.
In `Tabs` four requests reach three connections, two of which lack a directory the first has, or two and
then a switch or a move that overlaps with either. Calls fail there for the reasons in the model only (`MaxFaults` is 0: a missing directory, a closed
tab); with three tabs a free failure does not fit into a run, and the theorems cover it; three calls allow a listing, a restore and a connect at once. In
`FolderOps` a folder with a subfolder and a file in each, beside a single file, gives walks with a parent and a child in
flight, batches of files, of directories and of both, and selections of one and two items; the first connection has half of
the tree and a symbolic link, the object store a subfolder with a file in it. The fault is a removal, a walk, a mkdir or a listing. Uploads begin with
the policy `ask` and downloads with `rename`; the answers are `overwrite`, `rename` and `resume`; `newer`, `size` and `skip` proceed or skip as `resume` does, and the theorems cover them. In `SitesStore` a site with a password, an
object store and one more id allow a copy, a new or an imported site beside both kinds; the logon types are one for each place a secret may be kept, and
`ask`, which keeps none; six requests
allow an open, a choice, an edit and a save, then a restart or a deletion, and one more of any kind.
In `Reconnect` three operations on two tasks allow one that is aborted or lost, one that finds out, and one more on what has replaced the connection,
or two that see one session fail and a transfer on the new one; four connections, or sessions, are one more than can be in use, so one is
always free.
The bounds are `MaxJobs`, `MaxSets`, `MaxRequests`, `MaxFaults`, `MaxChanges`, `MaxTabs`, `MaxCalls`, `MaxOps`, `MaxSwitches`;
the proofs hold for all values of those of the modules they are about.

All runs set `CHECK_DEADLOCK FALSE`, for the system does stop: when every transfer has ended
and the bounded user has nothing left to do.

**Fairness.** `TransferQueue`: weak fairness of the dispatcher, of each transfer's task, and of a
`set_limits` that has begun. The tokio runtime polls woken tasks, and `guarded` ends every operation of
a copy within `STALL_TIMEOUT`, so a task's next step always comes, with one exception: the opens before the copy (`transfer.rs:418-429`) are not guarded, and an
SSH handshake or a request to an object store has no timeout. That an open ends is an assumption of its own, `OpensEnd`, and `EveryTransferSettles` says what
holds under it; section 4 says what happens without it. The user owes nothing. `TransferRun`: only the engine's task is fair, and not while it opens. The destination
(`OpenDestination`, `Apply`) is not, so `AttemptEnds`, which speaks of attempts that got through their opens, shows what the stall timeout is worth.
`FtpTransfer`: engine and task are fair, `Abandon` (the stall timeout) and every fault are not, so `TransferSettles`
shows that a failure is passed on and not merely waited out. A connection that falls silent is outside that
claim: it is what the timeout is for. `DropImport`: conflict prompts are answered and every call of the
back end returns; the second is an assumption, for `put_bytes` has no stall timeout. The import adds
no waiting of its own, which is what `EveryDropEnds` shows. `FolderOps`: walks, calls and answers to prompts go on;
starting, switching and Stop are never owed. That every listing and call returns is an assumption: the code sets no timeout for a command of the FTP control
connection (`with_reconnect`, `ftp.rs:79`) nor for one of an object store (`cloud.rs:44-150`). Under it `FoldersFinish` shows that no walk, however it ends, leaves its caller
without the last message. `Reconnect`: each task goes on, weakly fair: the server answers or the connection is found
dead, and a connection attempt ends. Asking, aborting, losing and the keepalive's verdict are never owed. A server that keeps an FTP
control connection open and never answers is outside `OperationsEnd`: the code has no timeout there. `QueuePanel`, `Tabs` and `SitesStore` claim safety only.

## 4. Findings

1. **A retried resume stores bytes twice** (`ResumeAtLength`). The retry reuses `resume_offset`
   while the destination has grown since (`transfer.rs:420`); the Retry button does too (`main.js:3668`).
   `OnlyRetriesMisalign`, proved, says that this is the only way an append goes astray.
2. **An upload whose connection fails is not retried** (`TransientIsRetried`). Where the upload task cannot have a connection
   (`ftp.rs:427`, the trace), or loses it while the engine still writes, the engine sees "upload
   channel closed" (`ftp.rs:937`), which `is_retryable` does not accept. The task's own error is
   seen only if it fails after the last chunk was written.
3. **A deletion goes on in another tab** (`DeletedMeansGone`). `removeEntry` asks for `activeTabId` at each removal
   (`main.js:3842`): after a tab switch the paths of one connection are removed on another, and the status line says the
   folder is gone (3883), against the dialog's "This deletes the folder and everything in it." (3878).

Met while modelling, and named here where a property excepts them or no run shows them:

- A retry may be handed a pooled connection that died while idle (`ftp.rs:332`; the comment at `transfer.rs:369` counts on a fresh one).
- The drained notification may lead to the wrong tab: a dropped file is tallied without its connection (`main.js:3121`; comment at 2644).
- A folder transfer, too, goes on in whichever tab is active (`main.js:2957`); `FilesFollowFolders` claims nothing after a switch.
- An object store makes a directory that exists once more and says it was made (`cloud.rs:127-140`), so its cache entry is seeded as empty
  (`main.js:2959`) and files in it are replaced without a question; `FreshTargets` excepts object stores.
- A directory that cannot be made is passed over: `safeMkdir` swallows every error (`main.js:2994-3001`; "the file step will surface any real problem")
  and the answers `false` of `mkdir_many` are ignored (2957-2960), so all files below it are enqueued and fail one by one. `mkdir_many` over SFTP answers "none
  made" also where a session cannot be brought back, and its comment (`sftp.rs:388`) counts on the caller falling back to one call each; the
  caller does so only if the call throws (`main.js:2961`). `FilesFollowFolders` excepts what is below such a directory (`unmade`).
- A listing that fails while names are compared counts as an empty directory, and is cached as one (`main.js:2670-2673`; "Directory may not exist
  yet"), so files that exist are replaced without a question. `FreshTargets` excepts that directory (`unlisted`).
- An open that never answers holds its transfer's slot for ever, and a cancel request is not seen: the opens (`transfer.rs:420-429`) are outside
  `guarded`, and neither an SSH handshake (`sftp.rs:195-236`) nor a cloud request (`cloud.rs:88-107`) has a timeout, against the purpose stated at
  `transfer.rs:490`. `EveryTransferSettles` assumes that they end (`OpensEnd`).
- A sites file that cannot be read counts as a first run (`lib.rs:678`): the next save overwrites it, and every secret of its sites stays behind. One that cannot be
  parsed is moved away and its secrets stay too. `NoOrphanSecrets` excepts both (`unread`), as it does a deletion of the keychain that fails, which
  `secret_delete` tells nobody (`lib.rs:733-739`, `kept`).
- A password is left under a site that logs on with a key when the application is killed, or a call fails, after the save of the new logon type and before the
  password's removal (between `main.js:2299` and 2316), and when a site is imported over one with another logon type. `NoOrphanSecrets` allows that
  secret then (`cut`, `replaced`).
- Two files of one batch can be renamed to the same name (`main.js:2768`): the cache is not told of it.
- `saveSite` reads the secrets from the form after its first `await` (`main.js:2302`, `2311`): typing or selecting under it
  stores another site's secret. `SecretsAreOwn` excepts it (`moved`).
- `openSites` and `deleteSite` blank the form after an `await` (`main.js:2631`, `2363`); a site selected before that is shown with a
  blank form, and Save stores the blanks. `DataIsOwn` excepts it (`early`).
- A site whose protocol changes to or from an object store leaves its old secrets in the keychain (`main.js:2300`). `NoOrphanSecrets`
  excepts it (`recast`).
- An import leaves object stores out: `parsePacketboatExport` wants a host (`main.js:1919`) and they are saved with none (2267), so an export
  is not the "complete, re-importable backup" of the comment at 1988.
- An FTP connection found lost or out of step is unlocked before its replacement is made (`ftp.rs:81-91`), so others may use it meanwhile, and
  the second try's result is final even if it finds the connection lost again: such an operation can take another's reply for its own.
  `RepliesBelong` excepts it (`suspect`).
- An aborted listing may leave a reply that is none of the seven codes of `is_ftp_conn_error` (`ftp.rs:62-71`): the 227 of `PASV`, or a 5xx. The next
  command fails with it, or takes it for its own, and all later ones are one reply behind. `RepliesBelong` excepts it (`slipped`).
- `is_sftp_conn_error` takes every `BackendError::Io` for a lost link (`sftp.rs:101`), and a server's refusal of a write arrives as one in `write_file`
  (`sftp.rs:369`), although a server-side status is to be told apart (`sftp.rs:92`). A working session is then replaced and the transfers on it
  break. `StreamsRunOn` excepts it (`doubted`).

## 5. Proofs

The proofs hold for every value of the constants that the `ASSUME` of each module allows
(`QueueAssumption`, `RunAssumption`, `FtpAssumption`, `DropAssumption`, `PanelAssumption`, `TabsAssumption`, `OpsAssumption`,
`ConnsAssumption`, `SessionsAssumption`, `SitesAssumption`, `WalkAssumption`, `TransferAssumption`, `FolderAssumption`): naturals for the bounds,
sets of any size (finite where they are counted), a writer that can hold a chunk, identifiers that differ from the value for "none",
and in `FtpControl` more connections than tasks can have in hand, so that a new one can be told from the others. In `FolderOps` what the places hold at first is finite and closed upwards: what is above
a path is there and a directory.

**TransferQueueProofs.** Theorems `TypeCorrect`, `SlotsConserved`, `Fifo`, `WakeupsKept`,
`LimitsHonoured`, `CancelHonoured`, `ImplementsLifecycle`. The inductive invariant `IInv` has five parts.
`Types` is `TypeOK` with counters that are only known to be integers: that none goes below
zero is a consequence of `SlotConservation`, not a step of the induction. `QueueOrder` says that ids
are handed out and taken in order, so which transfers are still queued follows from `next_id`,
the length of `rx` and whether the dispatcher holds one; `StartsInOrder` follows. `SlotConservation`
is inductive given that a transfer's place in `Holders` changes exactly with the counter; the lemmas on
cardinality take one transfer in or out of a finite set. `Rows` ties the last event to the task's place, for the
refinement. `Tested` says that what has_slot found stays true until the slot is taken: only the
dispatcher raises a counter. `NoLostWakeup` is inductive on top of these: whoever lowers a
counter or raises a limit has a notification ahead of it, and a permit that is stored before the dispatcher sleeps
is kept for it. `ImplementsLifecycle` maps every step to a step of `TransferLifecycle` or to a stutter.

**TransferRunProofs.** Theorems `RunTypeCorrect`, `RunDoneIsExact`, `RunLeavesBeginning`, `RunSkipsComplete`,
`RunOnlyRetriesMisalign`, `RunKeepsPartial`, `RunReplacesWhole`. The invariant adds what is in flight:
`pending` continues the destination chunk by chunk up to where the reader is (or, before
the destination is open, continues the request's offset), and a first attempt finds the destination
as long as its offset. `DoneIsExact` is the case in which the reader is at the end and nothing
is pending.

**FtpTransferProofs.** Theorems `FtpIdleInSync`, `FtpConnectionsAccounted`, `FtpDoneIsWhole`. `Pool` says where each
connection is: idle ones are distinct, no task holds one of them or another's, what is open is idle or held, and a reply is owed only
on a held one. It needs `Place`: a task that has ended or not begun holds no connection, and one that has not ended serves a transfer that
runs, so an abort always closes what its task had. `Whole` says where the chunks are: what the task of a running download has sent is
in the channel or with the engine, an upload that is being shut down has all of its chunks behind it, a task ends well only with
the whole file, and one that failed in a download has left its error behind the chunks.

**FilesProofs, DropImport.** Theorems `DropLimiterExact`, `DropSomeoneWillWake`, `DropOneImportAtATime`, `DropSettledStays`. `Limiter` is
the counter's equation, the parked files in `slotWaiters` once each, and `SomeoneWillWake`. It needs `RowOfTask` (a file that is being sent has an active row,
one that waits an active or a failed one) and `Own` (only the running import's files are under way). `Queue` and `Fresh` keep
the drops that wait distinct from each other and from the running one, and their files untouched, so a file starts
at most once.

**FilesProofs, FolderOps.** Theorems `FolderFilesFollow`, `FolderFreshTargets`, `FolderDeletionTold`, for trees of any shape and depth, any number of
listings under way, places and operations, and any calls that fail. `OpsInv` keeps the places trees (`Held`) and a transfer and a deletion, with what a failed one left running, apart (`Exclusive`).

`FoldersFirst` is what `FilesFollowFolders` rests on. The directories a message in hand says to make have their parents, and its files their directory. The directory that a
message still in the channel is about, and those the walk is listing or has yet to list, are made, about to be (`Ready`), or announced by an earlier
message (`Announced`). So whatever the order the answers come in, a parent's batch is before its children's.
`CacheKnows` says that where the cache has an entry for a directory it has the name of every file in it: a directory is entered as empty only if this transfer
made it where it was not, or else is entered as listed. This fails for an object store, and after a switch. A request that was enqueued has not changed the destination
yet in this model, so that two files renamed to one name are not what `FreshTargets` is about.
Both know what went wrong unseen: a directory counts as `There` also below one that is `unmade`, and of a directory that is `unlisted` the cache need not
know the names.

`Removing` follows a deletion. While it collects, everything below the entry is among what the messages have told or will tell, is a symbolic link, or is below a directory
the walk has yet to list (`AllSeen`), unless the walk has failed and its last message says so (`Stream`, `Broken`); and all that was told is there (`Sound`). From then on what is
there below the entry is what is still to be removed, or a link (`Complete`), so an entry that is removed last, with no call failed and no link, leaves nothing.
`ToldIsSo` says it of the entries already told of. That `dedupeName` finds a free
name at all is the pigeonhole principle (`Deduped`): it tries one candidate more than there are names.

The proof found the model wrong in three places: one saved policy stood for both directions, a directory of an object store disappeared with something still below
it, and one made there did not bring the ones above it. All three now follow the code.

**QueuePanelProofs.** Theorems `PanelTallyExact`, `PanelQuietMeansReported`, `PanelRowsFollow`, `PanelReportsAtRest`. The difficulty is that the
panel lags behind the engine. `InOrder` says where the events of a transfer are that it has not heard: "Queued" comes first of them and only
if there is no row yet, a terminal one last. `RowOfJob` ties row, outcome and kept request to the engine's state: no outcome
but the engine's, and one that is still to be told is under way. `OpenRows` says that an active row has no outcome yet, and `Books` that the tally
and the count of active rows are those of the outcomes and rows there are.

**TabsProofs.** Theorems `TabsPathsAreOwn`, `TabsRowsAreOfPath`, `TabsNoOrphanLoading`, `TabsSyncedAtRest`. The first two are inductive given
`Shape`: a call is a sequence of frames, and a frame that will list or navigate names one of the two panes. `NoOrphanLoading` needs
`LoadingIsAsked`: while the remote pane shows "Loading...", a frame of some call has yet to list the active tab, or to clear it. `SyncedAtRest`
needs `OneFlow`. The history variable `parted` is set as soon as two requests overlap, so until then at most one call is under way, and its stack is
of one of seven kinds, each with what it says of the panes: nothing left to do (`Settled`), a navigation on its way (`Goes`), the questions that come
before the mirrored one (`Asks`), that one (`Mirrors`) and its end (`Mirrored`), the panes of a tab being restored (`Restores`), a connection being made or closed
(`Begins`). A mirrored navigation fits because the counterpart of a path below one root, put below the other root, is again the counterpart of the first (`UnderTop`).
TLC found an earlier form of the model wrong here: with three tabs, `disconnect` restores the panes of the next tab without waiting for it, so a new
connection may be dialled meanwhile (`parted` in `Disconnected`).

**SitesStoreProofs.** Theorems `DataStaysOwn`, `SecretsStayOwn`, `NoSecretIsLeft`. `Known` says that every id in the list, on disk, in the form, in an answer to come
or in a task is one that was given to a site. `Data` follows the form: what it holds is the selected site's, and while the manager is loading or a
deletion runs nothing is selected, or the history says so (`early`). `Secrets` follows a secret from the keychain through the answers and the form to the jobs of a save:
each is none or that of the site it is filed under. `Filed` is about what may be in the keychain: at most one task runs (or `overlap` is noted), and every
secret that is there belongs to a site in the list and on disk and is of a kind its protocol has, or a job of that task has still to remove or to claim it. `Used` says the rest:
a secret is in the place of the logon type that the site has on file, or a save of that site has still to remove it (`WillErase`), and every job under way is for such a place (`Suits`).
A save that was `cut` and an import that `replaced` a site end `Used` and not `Filed`: even then there is no secret of a site that is gone. The three parts except
what the properties except, each on its own.

**ReconnectProofs.** Theorems `RepliesBelongToTheirs`, `SftpStreamsRunOn`. For FTP, `InStep` says what there may be to read on a connection that is neither
`suspect` nor `slipped`: what belongs to the task that has it locked and follows from how many replies that has read (`Own`), or what an
aborted listing left, which begins with a reply that gives it away (`Leftover`). It needs `Taken` (the holder is the one task that sends or reads, and
how far its command can be) and `Clean` (nothing is known of a connection before it is in place). That a leftover is never taken for an answer is
`ExpectedFacts`: no operation's first reply is one that `is_ftp_conn_error` knows. For SFTP, `OneLives` says that every session but the one in the slot is down or doubted. It
survives `OpenSession` by `Locked`: the task with the write lock has seen the session in the slot fail, and none but it can replace that.

**Only model-checked.** The liveness properties (`EveryTransferSettles`, `AttemptEnds`, `TransferSettles`, `EveryDropEnds`, `FoldersFinish`,
`OperationsEnd`): TLAPS does not reason about fairness here. `DeletedMeansGone` without the exception of a tab switch is what finding 3 refutes. `RunKeepsPartial`
and `RunReplacesWhole` are proved of `TransferRun` and not among its runs' properties.

## 6. Not modelled

- **The stores of trusted certificates and host keys** (`ftp.rs:472-500`, `sftp.rs:581-632`): each is one file, read, changed and rewritten in
  place, without a lock. Two first connects that answer at once, or a crash in the write, lose other entries, and
  the user is asked again, or a host is trusted anew as on first use. Nothing in the code guards against it, so a model would have
  nothing to check but the exceptions.
- **Logging in**: authentication methods and TLS modes are sequences of library calls; `Establish` and `OpenSession` succeed or fail.
- **The folder tree beside a pane** (`main.js:731-905`), selection in a list, renaming and making a folder: one call each,
  or a picture of a listing that is modelled.
- **Formats**: FileZilla's XML, the encryption of exports, length-prefixed remote directories, 1Password references. Pure
  functions over text.
- **Names**: `safe_component`, `sanitizeLocalName` and path separators; names are abstract here.
- **Walking a dropped tree** (`main.js:3278`): one step of `DropImport`.
- **Settings, theme, updates, tray, notifications' looks, markup, packaging, release**: thin wrappers over plugins, or no behaviour.

Progress events and rates carry no state the properties depend on.

## 7. Plan

Every safety property a passing run checks is proved. What is left, in the order of importance:

1. Two folder operations at once on one `conflictCache`: what the second's `clear()` does to the first.
2. The chosen name of a renamed file entered into the cache of names or not (`main.js:2768`), as a property over the requests of one batch.
