-------------------------------- MODULE Tabs --------------------------------
(***************************************************************************)
(* The two panes of the window, its tabs (one connection each), connecting *)
(* and synchronised browsing: src/src/main.js.                             *)
(*                                                                         *)
(* JavaScript runs one piece of code at a time, from one await to the      *)
(* next.  call[c] is the stack of the async functions that wait for each   *)
(* other, innermost first.  A frame whose op is in Awaited waits for an    *)
(* answer, and answers come in any order; any other frame is code that is  *)
(* due now, so nothing else happens before it has run (Quiet).             *)
(*                                                                         *)
(* A path is the sequence of its names.                                    *)
(***************************************************************************)
EXTENDS Integers, Sequences, SequencesExt, FiniteSets

CONSTANTS MaxTabs,      \* bound on connections made; their ids count up from 1
          MaxCalls,     \* bound on calls in flight
          Null,         \* JavaScript's null
          Name,         \* the names in a path
          LocalDirs,    \* the local directories
          RemoteDirs,   \* those of each connection, when it is made
          Home,         \* the login directory
          Site,         \* what may be connected to: [remoteDir, localDir, sync]
          MaxRequests,  \* bound on what the user does
          MaxFaults     \* bound on calls that fail without a reason in the model

ASSUME TabsAssumption == /\ \A n \in {MaxTabs, MaxCalls, MaxRequests, MaxFaults} : n \in Nat
                         /\ Null \notin 1..MaxTabs
                         /\ LocalDirs \subseteq Seq(Name)
                         /\ \A t \in 1..MaxTabs : RemoteDirs[t] \subseteq Seq(Name)

Tab == 1..MaxTabs
Call == 1..MaxCalls
Local == 0              \* this computer, beside the connections

VARIABLES tabs,      \* the open tabs, in order
          active,    \* activeTabId
          local,     \* state.local.path
          rpath,     \* tab.remote.path
          lpath,     \* tab.localPath
          sync,      \* tab.sync
          root,      \* tab.localRoot and tab.remoteRoot
          syncing,   \* the guard of syncMirror
          pane,      \* what each pane shows
          call,      \* the calls in flight
          dirs,      \* the directories there are, local and of each connection
          opened, requests, faults,
          parted     \* history: something that may part synchronised panes

vars == <<tabs, active, local, rpath, lpath, sync, root, syncing, pane, call,
          dirs, opened, requests, faults, parted>>
tabVars == <<tabs, active, rpath, lpath, sync, root, opened>>
paneVars == <<local, pane>>
world == <<dirs, requests, faults, parted>>

Path == LocalDirs \cup UNION {RemoteDirs[t] : t \in Tab}
Awaited == {"list", "exists", "prompt", "mkdir", "disconnect", "connect",
            "trust", "opens", "parent"}
Frame(op, tab, side, path, site) ==
    [op |-> op, tab |-> tab, side |-> side, path |-> path, site |-> site]
Shows(kind, tab, path) == [kind |-> kind, tab |-> tab, path |-> path]

Top(c) == Head(call[c])
Runs(c, op) == call[c] # <<>> /\ Top(c).op = op
Quiet == \A c \in Call : call[c] # <<>> => Top(c).op \in Awaited
Due(c, op) == Runs(c, op)                  \* code that runs now
Answered(c, op) == Quiet /\ Runs(c, op)    \* an answer that may come now
Then(c, frames) == call' = [call EXCEPT ![c] = frames \o Tail(@)]
Return(c) == Then(c, <<>>)
IsOpen(t) == \E i \in DOMAIN tabs : tabs[i] = t
Without(t) == IF IsOpen(t) THEN RemoveAt(tabs, CHOOSE i \in DOMAIN tabs : tabs[i] = t) ELSE tabs
Free(c) == call[c] = <<>> /\ \A d \in Call : d < c => call[d] # <<>>
RemotePath(t) == IF t = Null THEN Null ELSE rpath[t]
On(side, tab) == IF side = "local" THEN Local ELSE tab

Init == /\ tabs = <<>> /\ active = Null /\ local = <<>>
        /\ rpath = [t \in Tab |-> Null] /\ lpath = [t \in Tab |-> Null]
        /\ sync = [t \in Tab |-> FALSE]
        /\ root = [t \in Tab |-> [local |-> Null, remote |-> Null]]
        /\ syncing = FALSE
        /\ pane = [local |-> Shows("listing", Null, <<>>),
                   remote |-> Shows("empty", Null, Null)]
        /\ call = [c \in Call |-> <<>>]
        /\ dirs = [d \in Tab \cup {Local} |-> IF d = Local THEN LocalDirs ELSE RemoteDirs[d]]
        /\ opened = 0 /\ requests = 0 /\ faults = 0 /\ parted = FALSE

-----------------------------------------------------------------------------
(* Navigation *)

\* navigateLocal and navigateRemote up to the await: the call is bound to the tab.
Navigate(c) ==
    /\ Due(c, "navigate")
    /\ LET f == Top(c) IN
       IF f.side = "remote" /\ active = Null
       THEN Return(c) /\ UNCHANGED pane
       ELSE /\ pane' = [pane EXCEPT ![f.side] = Shows("loading", active, f.path)]
            /\ Then(c, <<Frame("list", active, f.side, f.path, Null)>>)
    /\ UNCHANGED <<tabVars, local, syncing, world>>

Listable(f) == /\ f.path \in dirs[On(f.side, f.tab)]
               /\ f.side = "remote" => IsOpen(f.tab)

Other(side) == IF side = "local" THEN "remote" ELSE "local"
RelativeUnder(path, top) ==
    IF IsPrefix(top, path) THEN SubSeq(path, Len(top) + 1, Len(path)) ELSE Null
JoinUnder(top, rel) == top \o rel
SyncCounterpart(side, path, t) ==
    LET top == root[t][side]
        other == root[t][Other(side)]
    IN IF top = Null \/ other = Null \/ RelativeUnder(path, top) = Null THEN Null
       ELSE JoinUnder(other, RelativeUnder(path, top))

\* syncMirror up to its first await: the frames it adds for a tab and a path reached.
Mirror(t, side, path) ==
    LET there == IF t = Null THEN Null ELSE SyncCounterpart(side, path, t)
        now == IF side = "remote" THEN local ELSE RemotePath(t)
    IN IF ~syncing /\ t # Null /\ sync[t] /\ there # Null /\ now # there
       THEN <<Frame("exists", t, Other(side), there, Null)>>
       ELSE <<>>

\* The listing of the tab that is still active: the tab and its pane move together.
ListedFresh(c) ==
    LET f == Top(c) IN
    /\ pane' = [pane EXCEPT ![f.side] = Shows("listing", f.tab, f.path)]
    /\ IF f.side = "local"
       THEN /\ local' = f.path
            /\ lpath' = IF active = Null THEN lpath ELSE [lpath EXCEPT ![active] = f.path]
            /\ UNCHANGED rpath
       ELSE /\ rpath' = [rpath EXCEPT ![active] = f.path]
            /\ UNCHANGED <<local, lpath>>
    /\ Then(c, Mirror(active, f.side, f.path))

Listed_NotBound(c) ==
    /\ Answered(c, "list")
    /\ Top(c).path \in dirs[On(Top(c).side, Top(c).tab)]
    /\ IF active # Null \/ Top(c).side = "local" THEN ListedFresh(c)
       ELSE Return(c) /\ UNCHANGED <<pane, local, lpath, rpath>>
    /\ UNCHANGED <<tabs, active, sync, root, opened, syncing, world>>

Listed(c) ==
    /\ Answered(c, "list")
    /\ Top(c).path \in dirs[On(Top(c).side, Top(c).tab)]
    /\ IF Top(c).tab = active THEN ListedFresh(c)
       ELSE Return(c) /\ UNCHANGED <<pane, local, lpath, rpath>>
    /\ UNCHANGED <<tabs, active, sync, root, opened, syncing, world>>

\* A call that need not have failed fails.
Faulty == faults < MaxFaults /\ faults' = faults + 1

\* The error goes to the pane, whichever tab it shows by now.
ListFails(c) ==
    /\ Answered(c, "list")
    /\ LET f == Top(c) IN
       /\ IF ~Listable(f) THEN UNCHANGED faults ELSE Faulty
       /\ pane' = [pane EXCEPT ![f.side] = Shows("error", f.tab, f.path)]
    /\ parted' = TRUE
    /\ Return(c)
    /\ UNCHANGED <<tabVars, local, syncing, dirs, requests>>

-----------------------------------------------------------------------------
(* Synchronised browsing *)

\* The mirror navigates, in whichever tab is active now, with the guard raised.
MirrorNavigates(c) ==
    /\ syncing' = TRUE
    /\ Then(c, <<Frame("navigate", Null, Top(c).side, Top(c).path, Null),
                 Frame("unsync", Null, Null, Null, Null)>>)

Exists(c) ==
    /\ Answered(c, "exists")
    /\ LET f == Top(c) IN
       \/ /\ f.path \in dirs[On(f.side, f.tab)]
          /\ MirrorNavigates(c)
          /\ UNCHANGED <<faults, parted>>
       \/ /\ IF ~Listable(f) THEN UNCHANGED <<faults, parted>> ELSE Faulty /\ parted' = TRUE
          /\ Then(c, <<[f EXCEPT !.op = "prompt"]>>)
          /\ UNCHANGED syncing
    /\ UNCHANGED <<tabVars, paneVars, dirs, requests>>

\* The user's answer; mkdirOnSide asks for the active tab only now.
PromptCreate(c) ==
    /\ Answered(c, "prompt")
    /\ Then(c, <<[Top(c) EXCEPT !.op = "mkdir", !.tab = active]>>)
    /\ UNCHANGED <<tabVars, paneVars, syncing, world>>
PromptDisable(c) ==
    /\ Answered(c, "prompt")
    /\ sync' = [sync EXCEPT ![Top(c).tab] = FALSE]
    /\ Return(c)
    /\ UNCHANGED <<tabs, active, rpath, lpath, root, opened, paneVars, syncing, world>>
PromptCancel(c) ==
    /\ Answered(c, "prompt")
    /\ parted' = TRUE
    /\ Return(c)
    /\ UNCHANGED <<tabVars, paneVars, syncing, dirs, requests, faults>>

MadeDir(c) ==
    /\ Answered(c, "mkdir")
    /\ LET f == Top(c)
           on == On(f.side, f.tab)
           fits == on # Null /\ f.path # <<>> /\ f.path \notin dirs[on]
                   /\ Front(f.path) \in dirs[on]
       IN \/ /\ fits
             /\ dirs' = [dirs EXCEPT ![on] = @ \cup {f.path}]
             /\ MirrorNavigates(c)
             /\ UNCHANGED <<faults, parted>>
          \/ /\ IF fits THEN Faulty ELSE UNCHANGED faults
             /\ parted' = TRUE
             /\ Return(c)
             /\ UNCHANGED <<dirs, syncing>>
    /\ UNCHANGED <<tabVars, paneVars, requests>>

\* The finally of syncMirror.
Unsync_Never(c) ==
    /\ Due(c, "unsync")
    /\ Return(c)
    /\ UNCHANGED <<tabVars, paneVars, syncing, world>>
Unsync(c) ==
    /\ Due(c, "unsync")
    /\ syncing' = FALSE
    /\ Return(c)
    /\ UNCHANGED <<tabVars, paneVars, world>>

-----------------------------------------------------------------------------
(* Tabs *)

\* restoreTabPanes: the local pane first, then the remote one.
Restore(c) ==
    /\ Due(c, "restore")
    /\ LET t == Top(c).tab
           last == Frame("restoreRemote", t, Null, Null, Null)
       IN IF t # Null /\ lpath[t] # local
          THEN Then(c, <<Frame("navigate", Null, "local", lpath[t], Null), last>>)
          ELSE Then(c, <<last>>)
    /\ UNCHANGED <<tabVars, paneVars, syncing, world>>

RestoreRemote_KeepsRows(c) ==
    /\ Due(c, "restoreRemote")
    /\ LET t == Top(c).tab IN
       IF t = active /\ RemotePath(t) # Null
       THEN Then(c, <<Frame("navigate", Null, "remote", rpath[t], Null)>>)
       ELSE Return(c)
    /\ UNCHANGED <<tabVars, paneVars, syncing, world>>

RestoreRemote(c) ==
    /\ Due(c, "restoreRemote")
    /\ LET t == Top(c).tab IN
       \/ /\ t # active                         \* switched away meanwhile
          /\ Return(c) /\ UNCHANGED pane
       \/ /\ t = active /\ RemotePath(t) # Null
          /\ Then(c, <<Frame("navigate", Null, "remote", rpath[t], Null)>>)
          /\ UNCHANGED pane
       \/ /\ t = active /\ RemotePath(t) = Null
          /\ pane' = [pane EXCEPT !.remote = Shows("empty", Null, Null)]
          /\ Return(c)
    /\ UNCHANGED <<tabVars, local, syncing, world>>

LastOf(open) == IF open = <<>> THEN Null ELSE Last(open)
Disconnected(c) ==
    /\ Answered(c, "disconnect")
    /\ LET t == Top(c).tab
           next == LastOf(Without(t))
       IN /\ tabs' = Without(t)
          /\ IF active = t
             THEN /\ active' = next
                  /\ \E d \in Call :         \* restoreTabPanes is not awaited
                        /\ IF Len(call[c]) = 1 THEN d = c ELSE Free(d)
                        /\ call' = [[call EXCEPT ![c] = Tail(@)] EXCEPT
                                       ![d] = <<Frame("restore", next, Null, Null, Null)>>]
                        /\ parted' = (parted \/ d # c)
             ELSE Return(c) /\ UNCHANGED <<active, parted>>
    /\ UNCHANGED <<rpath, lpath, sync, root, opened, paneVars, syncing, dirs, requests, faults>>

-----------------------------------------------------------------------------
(* Connecting: doConnectWith *)

\* addTab, then resolveStartDir, for which home needs no look.
Connected(c) ==
    /\ Answered(c, "connect")
    /\ opened < MaxTabs
    /\ LET t == opened + 1
           s == Top(c).site
       IN /\ opened' = t /\ tabs' = Append(tabs, t) /\ active' = t
          /\ lpath' = [lpath EXCEPT ![t] = local]
          /\ Then(c, IF s.remoteDir = Null
                     THEN <<Frame("navigate", Null, "remote", Home, Null),
                            Frame("landed", t, Null, Null, s)>>
                     ELSE <<Frame("opens", t, "remote", s.remoteDir, s)>>)
    /\ UNCHANGED <<rpath, sync, root, paneVars, syncing, world>>

\* An unknown host key or certificate: the user decides, and one more try follows.
ConnectAsks(c) ==
    /\ Answered(c, "connect") /\ Top(c).side = Null
    /\ Then(c, <<[Top(c) EXCEPT !.op = "trust"]>>)
    /\ UNCHANGED <<tabVars, paneVars, syncing, world>>
Trusted(c) ==
    /\ Answered(c, "trust")
    /\ \/ Then(c, <<[Top(c) EXCEPT !.op = "connect", !.side = "remote"]>>)
       \/ Return(c)
    /\ UNCHANGED <<tabVars, paneVars, syncing, world>>
ConnectFails(c) ==
    /\ Answered(c, "connect")
    /\ Return(c)
    /\ UNCHANGED <<tabVars, paneVars, syncing, world>>

\* resolveStartDir goes on: the directory as it is, then below home, else home.
\* A listing that fails is a directory that cannot be opened.
StartDir(c) ==
    /\ Answered(c, "opens")
    /\ LET f == Top(c)
           found == f.path \in dirs[f.tab] /\ IsOpen(f.tab)
           below == Home \o f.site.remoteDir
           Start(p) == Then(c, <<Frame("navigate", Null, "remote", p, Null),
                                 Frame("landed", f.tab, Null, Null, f.site)>>)
           Refused == IF found THEN Faulty ELSE UNCHANGED faults
       IN \/ found /\ Start(f.path) /\ UNCHANGED faults
          \/ Refused /\ f.path = f.site.remoteDir /\ Home # <<>>
             /\ Then(c, <<[f EXCEPT !.path = below]>>)
          \/ Refused /\ (Home = <<>> \/ f.path # f.site.remoteDir) /\ Start(Home)
    /\ UNCHANGED <<tabVars, paneVars, syncing, dirs, requests, parted>>

Landed(c) ==
    /\ Due(c, "landed")
    /\ LET s == Top(c).site
           anchor == [Top(c) EXCEPT !.op = "anchor"]
       IN Then(c, IF s.localDir = Null THEN <<anchor>>
                  ELSE <<Frame("navigate", Null, "local", s.localDir, Null), anchor>>)
    /\ UNCHANGED <<tabVars, paneVars, syncing, world>>

Anchor(c) ==
    /\ Due(c, "anchor")
    /\ LET t == Top(c).tab IN
       IF Top(c).site.sync /\ IsOpen(t)
       THEN /\ sync' = [sync EXCEPT ![t] = TRUE]
            /\ root' = [root EXCEPT ![t] = [local |-> local, remote |-> rpath[t]]]
       ELSE UNCHANGED <<sync, root>>
    /\ Return(c)
    /\ UNCHANGED <<tabs, active, rpath, lpath, opened, paneVars, syncing, world>>

-----------------------------------------------------------------------------
(* The user.  A prompt covers the window, but a notification still switches tabs. *)

Prompting == \E c \in Call : Runs(c, "prompt") \/ Runs(c, "trust")
Dialing(c) == \E i \in DOMAIN call[c] : call[c][i].op \in {"connect", "trust"}
Requests(c, frames) ==
    /\ Quiet /\ requests < MaxRequests /\ Free(c)
    /\ requests' = requests + 1
    /\ \E d \in Call \ {c} : call[d] = <<>>
    /\ parted' = (parted \/ \E d \in Call : call[d] # <<>>)
    /\ call' = [call EXCEPT ![c] = frames]
    /\ UNCHANGED <<local, pane, rpath, lpath, sync, root, syncing, dirs, faults, opened, tabs>>

Browse(c) ==
    /\ ~Prompting /\ UNCHANGED active
    /\ \E side \in {"local", "remote"} :
         \E p \in IF side = "local" THEN LocalDirs ELSE UNION {RemoteDirs[t] : t \in Tab} :
            Requests(c, <<Frame("navigate", Null, side, p, Null)>>)
GoUp(c) ==
    /\ ~Prompting /\ UNCHANGED active
    /\ \/ Requests(c, <<Frame("parent", Null, "local", local, Null)>>)
       \/ /\ RemotePath(active) \notin {Null, <<>>}
          /\ Requests(c, <<Frame("navigate", Null, "remote", Front(rpath[active]), Null)>>)
Parent(c) ==
    /\ Answered(c, "parent")
    /\ Then(c, IF Top(c).path = <<>> THEN <<>>
               ELSE <<Frame("navigate", Null, "local", Front(Top(c).path), Null)>>)
    /\ UNCHANGED <<tabVars, paneVars, syncing, world>>
SwitchTab(c) ==
    \E t \in Tab : /\ IsOpen(t)
                   /\ active' = t
                   /\ Requests(c, <<Frame("restore", t, Null, Null, Null)>>)
CloseTab(c) ==
    /\ ~Prompting /\ UNCHANGED active
    /\ \E t \in Tab : IsOpen(t) /\ Requests(c, <<Frame("disconnect", t, Null, Null, Null)>>)
Connect(c) ==
    /\ ~Prompting /\ UNCHANGED active
    /\ opened + Cardinality({d \in Call : Dialing(d)}) < MaxTabs
    /\ \E s \in Site :
         LET dial == Frame("connect", Null, Null, Null, s) IN
         \/ Requests(c, <<dial>>)
         \/ tabs # <<>> /\ Requests(c, <<Frame("disconnect", active, Null, Null, Null), dial>>)

Pane(c) == Navigate(c) \/ Listed(c) \/ ListFails(c) \/ Parent(c)
Sync(c) == Exists(c) \/ PromptCreate(c) \/ PromptDisable(c)
           \/ PromptCancel(c) \/ MadeDir(c) \/ Unsync(c)
TabBar(c) == Restore(c) \/ RestoreRemote(c) \/ Disconnected(c)
Connecting(c) == Connected(c) \/ ConnectAsks(c) \/ Trusted(c)
                 \/ ConnectFails(c) \/ StartDir(c) \/ Landed(c) \/ Anchor(c)
User(c) == Browse(c) \/ GoUp(c) \/ SwitchTab(c) \/ CloseTab(c) \/ Connect(c)
Step(c) == Pane(c) \/ Sync(c) \/ TabBar(c) \/ Connecting(c)

Next == \E c \in Call : Step(c) \/ User(c)
Spec == Init /\ [][Next]_vars

-----------------------------------------------------------------------------
(* Properties *)


\* The saved remote directory of a tab is one of its own connection: a listing that
\* comes after a switch is not applied to the tab then active (main.js:464, 494).
PathsAreOwn == \A t \in Tab : rpath[t] = Null \/ rpath[t] \in dirs[t]

\* A pane that lists a directory lists the one its tab is in, whichever answer
\* came last: the rows shown are those of the path the pane's next action starts
\* from. It says nothing of a pane that is still loading, as the local one is
\* for a while after a switch.
RowsAreOfPath ==
    /\ pane.local.kind = "listing" => pane.local.path = local
    /\ \A t \in Tab : pane.remote.kind = "listing" /\ pane.remote.tab = t
                        => pane.remote.path = rpath[t]

\* Synchronised panes correspond whenever nothing is under way, unless requests
\* overlapped, a call failed or the user declined to create a directory.
AtRest == \A c \in Call : call[c] = <<>>
Corresponds(t) ==
    LET there == SyncCounterpart("local", local, t)
        back == IF rpath[t] = Null THEN Null ELSE SyncCounterpart("remote", rpath[t], t)
    IN there = Null \/ back = Null \/ there = rpath[t]
SyncedAtRest ==
    ~parted /\ AtRest /\ active # Null => (sync[active] => Corresponds(active))

\* A remote pane is not left at "Loading..." with nothing under way: where a listing
\* was discarded after a switch, that of the tab now shown has come (main.js:959-976).
NoOrphanLoading == AtRest => pane.remote.kind # "loading"
=============================================================================
