----------------------------- MODULE TabsProofs -----------------------------
(***************************************************************************)
(* Proofs about Tabs, for any number of connections and calls in flight.   *)
(*                                                                         *)
(* PathsAreOwn and RowsAreOfPath need little more than that a frame that   *)
(* will list or navigate names one of the two panes (Shape).  That a pane  *)
(* which shows "Loading..." is waited for rests on LoadingIsAsked: some    *)
(* frame of some call has yet to list the active tab, or to clear it.      *)
(* SyncedAtRest rests on OneFlow: as long as nothing parted the panes, at  *)
(* most one call is under way, and its stack is of one of seven kinds,     *)
(* each of which says how the panes stand until it ends.                   *)
(***************************************************************************)
EXTENDS Tabs, TLAPS

Sides == {"local", "remote"}
Sided == {"navigate", "list", "exists", "prompt", "mkdir"}
FrameOK(f) == /\ f = Frame(f.op, f.tab, f.side, f.path, f.site)
              /\ f.op \in Sided => f.side \in Sides
Frames(s) == \E S : s \in Seq(S) /\ \A f \in S : FrameOK(f)

CallShape(cs) == cs = [c \in Call |-> cs[c]] /\ \A c \in Call : Frames(cs[c])
Shape ==
    /\ CallShape(call)
    /\ rpath = [t \in Tab |-> rpath[t]]
    /\ dirs = [d \in Tab \cup {Local} |-> dirs[d]]
    /\ pane = [local |-> pane.local, remote |-> pane.remote]

IInv == Shape /\ PathsAreOwn /\ RowsAreOfPath

-----------------------------------------------------------------------------
(* Sequences of frames. *)

(* A sequence over a set of frames will do. *)
LEMMA FramesOver ==
    ASSUME NEW s, NEW S, s \in Seq(S), \A f \in S : FrameOK(f)
    PROVE  Frames(s)
BY Zenon DEF Frames

(* The empty sequence is a sequence of frames. *)
LEMMA NoFrames == Frames(<<>>)
<1> DEFINE S == {}
<1>1. <<>> \in Seq(S) /\ \A f \in S : FrameOK(f)
  OBVIOUS
<1> HIDE DEF S
<1> QED BY <1>1, FramesOver

(* One frame is a sequence of frames. *)
LEMMA OneFrame == ASSUME NEW f, FrameOK(f) PROVE Frames(<<f>>)
<1> DEFINE S == {f}
<1>1. <<f>> \in Seq(S) /\ \A g \in S : FrameOK(g)
  OBVIOUS
<1> HIDE DEF S
<1> QED BY <1>1, FramesOver

(* So are two. *)
LEMMA TwoFrames == ASSUME NEW f, NEW g, FrameOK(f), FrameOK(g) PROVE Frames(<<f, g>>)
<1> DEFINE S == {f, g}
<1>1. <<f, g>> \in Seq(S) /\ \A h \in S : FrameOK(h)
  OBVIOUS
<1> HIDE DEF S
<1> QED BY <1>1, FramesOver

(* The innermost frame is one, and so are what it leaves and what takes its place. *)
LEMMA TopFrame == ASSUME NEW s, Frames(s), s # <<>> PROVE FrameOK(Head(s)) /\ Frames(Tail(s))
<1>1. PICK S : s \in Seq(S) /\ \A f \in S : FrameOK(f)
  BY DEF Frames
<1>2. Head(s) \in S /\ Tail(s) \in Seq(S)
  BY <1>1
<1> QED BY <1>1, <1>2, FramesOver

(* Two sequences of frames make one. *)
LEMMA MoreFrames == ASSUME NEW s, NEW t, Frames(s), Frames(t) PROVE Frames(s \o t)
<1>1. PICK S : s \in Seq(S) /\ \A f \in S : FrameOK(f)
  BY DEF Frames
<1>2. PICK T : t \in Seq(T) /\ \A f \in T : FrameOK(f)
  BY DEF Frames
<1> DEFINE U == S \cup T
<1>3. \A f \in U : FrameOK(f)
  BY <1>1, <1>2
<1>4. s \in Seq(U) /\ t \in Seq(U)
  BY <1>1, <1>2
<1>5. s \o t \in Seq(U)
  BY <1>4
<1> HIDE DEF U
<1> QED BY <1>3, <1>5, FramesOver

(* A step that puts frames in the place of the innermost one keeps the shape of call. *)
LEMMA ThenKeeps ==
    ASSUME NEW c \in Call, CallShape(call), call[c] # <<>>, NEW fs, Frames(fs), Then(c, fs)
    PROVE  CallShape(call')
<1>1. Frames(fs \o Tail(call[c]))
  BY TopFrame, MoreFrames DEF CallShape
<1>2. call' = [d \in Call |-> IF d = c THEN fs \o Tail(call[c]) ELSE call[d]]
  BY DEF CallShape, Then
<1> QED BY <1>1, <1>2 DEF CallShape

(* A call that begins with frames keeps the shape of call. *)
LEMMA StartKeeps ==
    ASSUME NEW c \in Call, CallShape(call), NEW fs, Frames(fs), call' = [call EXCEPT ![c] = fs]
    PROVE  CallShape(call')
<1>2. call' = [d \in Call |-> IF d = c THEN fs ELSE call[d]]
  BY DEF CallShape
<1> QED BY <1>2 DEF CallShape

(* What Frame makes is a frame, if it names a pane where it will list or navigate. *)
LEMMA FrameIsOK ==
    ASSUME NEW op, NEW t, NEW side, NEW p, NEW s, op \notin Sided \/ side \in Sides
    PROVE  FrameOK(Frame(op, t, side, p, s))
BY DEF FrameOK, Frame, Sided, Sides

(* A frame may change what it waits for, and for which tab (promptCreateOrDisable, main.js:569). *)
LEMMA FrameGoesOn ==
    ASSUME NEW f, FrameOK(f), NEW op, NEW t, op \notin Sided \/ f.side \in Sides
    PROVE  FrameOK([f EXCEPT !.op = op]) /\ FrameOK([f EXCEPT !.op = op, !.tab = t])
<1> DEFINE g == Frame(op, f.tab, f.side, f.path, f.site)
           h == Frame(op, t, f.side, f.path, f.site)
<1>1. f \in [op : {f.op}, tab : {f.tab}, side : {f.side}, path : {f.path}, site : {f.site}]
  BY DEF FrameOK, Frame
<1>2. [f EXCEPT !.op = op] = g
  BY <1>1 DEF Frame
<1>3. [g EXCEPT !.tab = t] = h
  BY DEF Frame
<1>4. FrameOK(g) /\ FrameOK(h)
  BY FrameIsOK
<1> HIDE DEF g, h
<1>5. [f EXCEPT !.op = op, !.tab = t] = h
  BY <1>2, <1>3, Zenon
<1> QED BY <1>2, <1>4, <1>5

(* A frame may look for another path. *)
LEMMA FrameLooks == ASSUME NEW f, FrameOK(f), NEW p PROVE FrameOK([f EXCEPT !.path = p])
<1> DEFINE g == Frame(f.op, f.tab, f.side, p, f.site)
<1>1. f \in [op : {f.op}, tab : {f.tab}, side : {f.side}, path : {f.path}, site : {f.site}]
  BY DEF FrameOK, Frame
<1>2. [f EXCEPT !.path = p] = g
  BY <1>1 DEF Frame
<1>3. FrameOK(g)
  BY FrameIsOK DEF FrameOK
<1> HIDE DEF g
<1> QED BY <1>2, <1>3

(* A frame whose op needs no pane may change both. *)
LEMMA FrameTurns ==
    ASSUME NEW f, FrameOK(f), NEW op, NEW side, op \notin Sided
    PROVE  FrameOK([f EXCEPT !.op = op, !.side = side])
<1> DEFINE g == Frame(op, f.tab, f.side, f.path, f.site)
           h == Frame(op, f.tab, side, f.path, f.site)
<1>1. f \in [op : {f.op}, tab : {f.tab}, side : {f.side}, path : {f.path}, site : {f.site}]
  BY DEF FrameOK, Frame
<1>2. [f EXCEPT !.op = op] = g
  BY <1>1 DEF Frame
<1>3. [g EXCEPT !.side = side] = h
  BY DEF Frame
<1>4. FrameOK(h)
  BY FrameIsOK
<1> HIDE DEF g, h
<1>5. [f EXCEPT !.op = op, !.side = side] = h
  BY <1>2, <1>3, Zenon
<1> QED BY <1>4, <1>5

(* The innermost frame of a call is a frame. *)
LEMMA TopOK == ASSUME CallShape(call), NEW c \in Call, call[c] # <<>> PROVE FrameOK(Top(c))
BY TopFrame DEF CallShape, Top

(* Where it will list or navigate, it names a pane. *)
LEMMA TopSided ==
    ASSUME CallShape(call), NEW c \in Call, NEW op \in Sided, Runs(c, op)
    PROVE  Top(c).side \in Sides
<1>1. FrameOK(Head(call[c]))
  BY TopFrame DEF CallShape, Runs
<1> QED BY <1>1 DEF FrameOK, Runs, Top

-----------------------------------------------------------------------------
(* The steps. *)

Seen == <<local, rpath, pane, dirs>>

(* A step that only moves frames about keeps the invariant. *)
LEMMA OnlyFrames ==
    ASSUME IInv, CallShape(call'), UNCHANGED Seen
    PROVE  IInv'
BY DEF IInv, Shape, Seen, PathsAreOwn, RowsAreOfPath

(* What a call does besides changing the panes: frames take the place of the innermost one. *)
Moves(c) == call[c] # <<>> /\ \E fs : Frames(fs) /\ Then(c, fs)

(* A step that only moves the frames of one call keeps the invariant. *)
LEMMA MovesKeep ==
    ASSUME IInv, NEW c \in Call, Moves(c), UNCHANGED Seen
    PROVE  IInv'
<1>1. CallShape(call')
  BY ThenKeeps DEF Moves, IInv, Shape
<1> QED BY <1>1, OnlyFrames

(* One frame, two or none may take its place. *)
LEMMA MovesTo ==
    ASSUME NEW c \in Call, call[c] # <<>>
    PROVE  /\ \A f : FrameOK(f) /\ Then(c, <<f>>) => Moves(c)
           /\ \A f, g : FrameOK(f) /\ FrameOK(g) /\ Then(c, <<f, g>>) => Moves(c)
           /\ Return(c) => Moves(c)
<1>1. ASSUME NEW f, FrameOK(f), Then(c, <<f>>) PROVE Moves(c)
  <2>1. Frames(<<f>>)
    BY <1>1, OneFrame
  <2> QED BY <1>1, <2>1 DEF Moves
<1>2. ASSUME NEW f, NEW g, FrameOK(f), FrameOK(g), Then(c, <<f, g>>) PROVE Moves(c)
  <2>1. Frames(<<f, g>>)
    BY <1>2, TwoFrames
  <2> QED BY <1>2, <2>1 DEF Moves
<1>3. Return(c) => Moves(c)
  BY NoFrames DEF Return, Moves
<1> QED BY <1>1, <1>2, <1>3, Zenon

(* The answer of syncMirror's guard is a frame for a pane, or none. *)
LEMMA MirrorFrames ==
    ASSUME NEW t, NEW side, NEW path
    PROVE  Frames(Mirror(t, side, path))
<1>1. Other(side) \in Sides
  BY DEF Other, Sides
<1>2. CASE Mirror(t, side, path) = <<>>
  BY <1>2, NoFrames
<1>3. CASE Mirror(t, side, path) # <<>>
  <2> DEFINE f == Frame("exists", t, Other(side), SyncCounterpart(side, path, t), Null)
  <2>1. Mirror(t, side, path) = <<f>>
    BY <1>3, Zenon DEF Mirror
  <2>2. FrameOK(f)
    BY <1>1, FrameIsOK
  <2> HIDE DEF f
  <2> QED BY <2>1, <2>2, OneFrame
<1> QED BY <1>2, <1>3

(* A pane set to "Loading..." lists nothing, and its listing is asked for (main.js:464, 494). *)
LEMMA NavigateKeeps == ASSUME IInv, NEW c \in Call, Navigate(c) PROVE IInv'
<1> DEFINE f == Top(c)
<1>1. CallShape(call) /\ call[c] # <<>> /\ f.side \in Sides
  BY TopSided DEF IInv, Shape, Navigate, Due, Runs, Sided
<1>2. FrameOK(Frame("list", active, f.side, f.path, Null))
  BY <1>1, FrameIsOK
<1>3. CallShape(call')
  BY <1>1, <1>2, NoFrames, OneFrame, ThenKeeps DEF Navigate, Return
<1>4. pane' = pane \/ pane' = [pane EXCEPT ![f.side] = Shows("loading", active, f.path)]
  BY DEF Navigate
<1>5. UNCHANGED <<local, rpath, dirs>>
  BY DEF Navigate, tabVars, world
<1>6. Shape'
  BY <1>1, <1>3, <1>4, <1>5 DEF IInv, Shape, Sides
<1>7. RowsAreOfPath'
  BY <1>1, <1>4, <1>5 DEF IInv, Shape, Sides, RowsAreOfPath, Shows
<1> QED BY <1>5, <1>6, <1>7 DEF IInv, PathsAreOwn

(* The listing of the active tab changes the path and the pane alike. *)
LEMMA ListedKeeps == ASSUME IInv, NEW c \in Call, Listed(c) PROVE IInv'
<1> DEFINE f == Top(c)
<1>1. CallShape(call) /\ call[c] # <<>> /\ f.side \in Sides
  BY TopSided DEF IInv, Shape, Listed, Answered, Runs, Sided
<1>2. f.path \in dirs[On(f.side, f.tab)] /\ UNCHANGED dirs
  BY DEF Listed, world
<1>3. CASE f.tab = active
  <2>1. ListedFresh(c)
    BY <1>3 DEF Listed
  <2>2. CallShape(call')
    BY <1>1, <2>1, MirrorFrames, ThenKeeps DEF ListedFresh
  <2>3. pane' = [pane EXCEPT ![f.side] = Shows("listing", f.tab, f.path)]
    BY <2>1 DEF ListedFresh
  <2>4. CASE f.side = "local"
    <3>1. local' = f.path /\ rpath' = rpath
      BY <2>1, <2>4 DEF ListedFresh
    <3>2. Shape' /\ RowsAreOfPath'
      BY <2>2, <2>3, <2>4, <3>1, <1>2 DEF IInv, Shape, RowsAreOfPath, Shows
    <3> QED BY <3>1, <3>2, <1>2 DEF IInv, PathsAreOwn
  <2>5. CASE f.side = "remote"
    <3>1. local' = local /\ rpath' = [rpath EXCEPT ![active] = f.path]
      BY <2>1, <2>5 DEF ListedFresh
    <3>2. f.path \in dirs[active]
      BY <1>2, <1>3, <2>5 DEF On
    <3>3. Shape' /\ RowsAreOfPath'
      BY <2>2, <2>3, <2>5, <3>1, <1>2, <1>3 DEF IInv, Shape, RowsAreOfPath, Shows
    <3>4. PathsAreOwn'
      BY <3>1, <3>2, <1>2 DEF IInv, Shape, PathsAreOwn
    <3> QED BY <3>3, <3>4 DEF IInv
  <2> QED BY <1>1, <2>4, <2>5 DEF Sides
<1>4. CASE f.tab # active
  <2>1. Return(c) /\ UNCHANGED Seen
    BY <1>4, <1>2 DEF Listed, Seen
  <2>2. CallShape(call')
    BY <1>1, <2>1, NoFrames, ThenKeeps DEF Return
  <2> QED BY <2>1, <2>2, OnlyFrames
<1> QED BY <1>3, <1>4

(* A pane that shows an error lists nothing. *)
LEMMA ListFailsKeeps == ASSUME IInv, NEW c \in Call, ListFails(c) PROVE IInv'
<1> DEFINE f == Top(c)
<1>1. CallShape(call) /\ call[c] # <<>> /\ f.side \in Sides
  BY TopSided DEF IInv, Shape, ListFails, Answered, Runs, Sided
<1>2. CallShape(call')
  BY <1>1, NoFrames, ThenKeeps DEF ListFails, Return
<1>3. /\ pane' = [pane EXCEPT ![f.side] = Shows("error", f.tab, f.path)]
      /\ UNCHANGED <<local, rpath, dirs>>
  BY DEF ListFails, tabVars
<1>4. Shape' /\ RowsAreOfPath'
  BY <1>1, <1>2, <1>3 DEF IInv, Shape, Sides, RowsAreOfPath, Shows
<1> QED BY <1>3, <1>4 DEF IInv, PathsAreOwn

(* A directory made keeps those there are. *)
LEMMA MadeDirKeeps == ASSUME IInv, NEW c \in Call, MadeDir(c) PROVE IInv'
<1> DEFINE f == Top(c)
           on == On(f.side, f.tab)
<1>1. CallShape(call) /\ call[c] # <<>> /\ f.side \in Sides
  BY TopSided DEF IInv, Shape, MadeDir, Answered, Runs, Sided
<1>2. CASE MirrorNavigates(c) /\ dirs' = [dirs EXCEPT ![on] = @ \cup {f.path}]
  <2>1. CallShape(call')
    <3>1. /\ FrameOK(Frame("navigate", Null, f.side, f.path, Null))
          /\ FrameOK(Frame("unsync", Null, Null, Null, Null))
      BY <1>1, FrameIsOK DEF Sided
    <3> QED BY <1>1, <1>2, <3>1, TwoFrames, ThenKeeps DEF MirrorNavigates
  <2>2. UNCHANGED <<local, rpath, pane>>
    BY DEF MadeDir, tabVars, paneVars
  <2>3. Shape' /\ RowsAreOfPath'
    BY <1>2, <2>1, <2>2 DEF IInv, Shape, RowsAreOfPath
  <2>4. PathsAreOwn'
    BY <1>2, <2>2 DEF IInv, Shape, PathsAreOwn
  <2> QED BY <2>3, <2>4 DEF IInv
<1>3. CASE Return(c) /\ UNCHANGED dirs
  <2>1. CallShape(call')
    BY <1>1, <1>3, NoFrames, ThenKeeps DEF Return
  <2>2. UNCHANGED Seen
    BY <1>3 DEF MadeDir, tabVars, paneVars, Seen
  <2> QED BY <2>1, <2>2, OnlyFrames
<1> QED BY <1>2, <1>3 DEF MadeDir

(* A pane left empty lists nothing (restoreTabPanes). *)
LEMMA RestoreRemoteKeeps == ASSUME IInv, NEW c \in Call, RestoreRemote(c) PROVE IInv'
<1> DEFINE t == Top(c).tab
<1>1. CallShape(call) /\ call[c] # <<>>
  BY DEF IInv, Shape, RestoreRemote, Due, Runs
<1>2. FrameOK(Frame("navigate", Null, "remote", rpath[t], Null))
  BY FrameIsOK DEF Sides
<1>3. CallShape(call')
  BY <1>1, <1>2, NoFrames, OneFrame, ThenKeeps DEF RestoreRemote, Return
<1>4. /\ UNCHANGED <<local, rpath, dirs>>
      /\ pane' = pane \/ pane' = [pane EXCEPT !.remote = Shows("empty", Null, Null)]
  BY DEF RestoreRemote, tabVars, world
<1>5. Shape' /\ RowsAreOfPath'
  BY <1>3, <1>4 DEF IInv, Shape, RowsAreOfPath, Shows
<1> QED BY <1>4, <1>5 DEF IInv, PathsAreOwn

(* The answers of syncMirror and of its prompt only move frames about. *)
LEMMA SyncMoves ==
    ASSUME CallShape(call), NEW c \in Call,
           Exists(c) \/ PromptCreate(c) \/ PromptDisable(c) \/ PromptCancel(c) \/ Unsync(c)
    PROVE  Moves(c) /\ UNCHANGED Seen
<1> DEFINE f == Top(c)
<1>0. UNCHANGED Seen
  BY DEF Seen, Exists, PromptCreate, PromptDisable, PromptCancel, Unsync,
         tabVars, paneVars, world
<1>1. call[c] # <<>> /\ FrameOK(f)
  BY TopOK DEF Exists, PromptCreate, PromptDisable, PromptCancel, Unsync,
               Answered, Due, Runs
<1>2. CASE Exists(c)
  <2> DEFINE go == Frame("navigate", Null, f.side, f.path, Null)
             end == Frame("unsync", Null, Null, Null, Null)
             ask == [f EXCEPT !.op = "prompt"]
  <2>1. f.side \in Sides
    BY <1>2, TopSided DEF Exists, Answered, Sided
  <2>2. FrameOK(go) /\ FrameOK(end) /\ FrameOK(ask)
    BY <1>1, <2>1, FrameIsOK, FrameGoesOn DEF Sided
  <2>3. Then(c, <<go, end>>) \/ Then(c, <<ask>>)
    BY <1>2 DEF Exists, MirrorNavigates
  <2> HIDE DEF go, end, ask
  <2> QED BY <1>0, <1>1, <2>2, <2>3, MovesTo
<1>3. CASE PromptCreate(c)
  <2> DEFINE make == [f EXCEPT !.op = "mkdir", !.tab = active]
  <2>1. f.side \in Sides
    BY <1>3, TopSided DEF PromptCreate, Answered, Sided
  <2>2. FrameOK(make) /\ Then(c, <<make>>)
    BY <1>1, <1>3, <2>1, FrameGoesOn DEF PromptCreate
  <2> HIDE DEF make
  <2> QED BY <1>0, <1>1, <2>2, MovesTo
<1>4. CASE PromptDisable(c) \/ PromptCancel(c) \/ Unsync(c)
  BY <1>0, <1>1, <1>4, MovesTo DEF PromptDisable, PromptCancel, Unsync
<1> QED BY <1>2, <1>3, <1>4

(* restoreTabPanes only asks for listings before its last step. *)
LEMMA RestoreMoves ==
    ASSUME NEW c \in Call, Restore(c)
    PROVE  Moves(c) /\ UNCHANGED Seen
<1> DEFINE t == Top(c).tab
           first == Frame("navigate", Null, "local", lpath[t], Null)
           last == Frame("restoreRemote", t, Null, Null, Null)
<1>1. call[c] # <<>> /\ UNCHANGED Seen
  BY DEF Seen, Restore, Due, Runs, tabVars, paneVars, world
<1>2. FrameOK(first) /\ FrameOK(last)
  BY FrameIsOK DEF Sides, Sided
<1>3. Then(c, <<first, last>>) \/ Then(c, <<last>>)
  BY DEF Restore
<1> HIDE DEF first, last
<1> QED BY <1>1, <1>2, <1>3, MovesTo

(* A tab closed leaves its own call and may begin another. *)
LEMMA DisconnectedKeeps == ASSUME IInv, NEW c \in Call, Disconnected(c) PROVE IInv'
<1>1. CallShape(call) /\ call[c] # <<>> /\ UNCHANGED Seen
  BY DEF IInv, Shape, Seen, Disconnected, Answered, Runs, paneVars, world
<1>2. CASE Return(c)
  <2>1. CallShape(call')
    BY <1>1, <1>2, NoFrames, ThenKeeps DEF Return
  <2> QED BY <1>1, <2>1, OnlyFrames
<1>3. CASE ~Return(c)
  <2> DEFINE next == LastOf(Without(Top(c).tab))
             g == Frame("restore", next, Null, Null, Null)
  <2>1. PICK d \in Call : call' = [[call EXCEPT ![c] = Tail(@)] EXCEPT ![d] = <<g>>]
    BY <1>3, Zenon DEF Disconnected
  <2>2. Frames(<<g>>)
    <3>1. FrameOK(g)
      BY FrameIsOK DEF Sided
    <3> HIDE DEF g
    <3> QED BY <3>1, OneFrame
  <2>3. Frames(Tail(call[c]))
    BY <1>1, TopFrame DEF CallShape
  <2>4. call' = [e \in Call |-> IF e = d THEN <<g>> ELSE IF e = c THEN Tail(call[c]) ELSE call[e]]
    BY <1>1, <2>1 DEF CallShape
  <2> HIDE DEF g
  <2>5. CallShape(call')
    BY <1>1, <2>2, <2>3, <2>4 DEF CallShape
  <2> QED BY <1>1, <2>5, OnlyFrames
<1> QED BY <1>2, <1>3

(* Connecting moves frames about too. *)
LEMMA ConnectingMoves ==
    ASSUME CallShape(call), NEW c \in Call, Connecting(c)
    PROVE  Moves(c) /\ UNCHANGED Seen
<1> DEFINE f == Top(c)
<1>0. UNCHANGED Seen
  BY DEF Seen, Connecting, Connected, ConnectAsks, Trusted, ConnectFails,
         StartDir, Landed, Anchor, tabVars, paneVars, world
<1>1. call[c] # <<>> /\ FrameOK(f)
  BY TopOK DEF Connecting, Connected, ConnectAsks, Trusted, ConnectFails,
               StartDir, Landed, Anchor, Answered, Due, Runs
<1>2. \A side \in Sides : \A p : FrameOK(Frame("navigate", Null, side, p, Null))
  BY FrameIsOK
<1>3. CASE Connected(c)
  <2> DEFINE s == f.site
             go == Frame("navigate", Null, "remote", Home, Null)
             land == Frame("landed", opened + 1, Null, Null, s)
             look == Frame("opens", opened + 1, "remote", s.remoteDir, s)
  <2>1. FrameOK(go) /\ FrameOK(land) /\ FrameOK(look)
    BY <1>2, FrameIsOK DEF Sides, Sided
  <2>2. Then(c, <<go, land>>) \/ Then(c, <<look>>)
    BY <1>3 DEF Connected
  <2> HIDE DEF go, land, look
  <2> QED BY <1>0, <1>1, <2>1, <2>2, MovesTo
<1>4. CASE ConnectAsks(c) \/ Trusted(c)
  <2> DEFINE ask == [f EXCEPT !.op = "trust"]
             dial == [f EXCEPT !.op = "connect", !.side = "remote"]
  <2>1. FrameOK(ask) /\ FrameOK(dial)
    BY <1>1, FrameGoesOn, FrameTurns DEF Sided
  <2>2. Then(c, <<ask>>) \/ Then(c, <<dial>>) \/ Return(c)
    BY <1>4 DEF ConnectAsks, Trusted
  <2> HIDE DEF ask, dial
  <2> QED BY <1>0, <1>1, <2>1, <2>2, MovesTo
<1>5. CASE ConnectFails(c) \/ Anchor(c)
  BY <1>0, <1>1, <1>5, MovesTo DEF ConnectFails, Anchor
<1>6. CASE StartDir(c)
  <2> DEFINE below == Home \o f.site.remoteDir
             go(p) == Frame("navigate", Null, "remote", p, Null)
             land == Frame("landed", f.tab, Null, Null, f.site)
             look == [f EXCEPT !.path = below]
  <2>1. FrameOK(go(f.path)) /\ FrameOK(go(Home)) /\ FrameOK(land) /\ FrameOK(look)
    BY <1>1, <1>2, FrameLooks, FrameIsOK DEF Sides, Sided
  <2>2. Then(c, <<go(f.path), land>>) \/ Then(c, <<look>>) \/ Then(c, <<go(Home), land>>)
    BY <1>6 DEF StartDir
  <2> HIDE DEF go, land, look
  <2> QED BY <1>0, <1>1, <2>1, <2>2, MovesTo
<1>7. CASE Landed(c)
  <2> DEFINE go == Frame("navigate", Null, "local", f.site.localDir, Null)
             anchor == [f EXCEPT !.op = "anchor"]
  <2>1. FrameOK(go) /\ FrameOK(anchor)
    BY <1>1, <1>2, FrameGoesOn DEF Sides, Sided
  <2>2. Then(c, <<anchor>>) \/ Then(c, <<go, anchor>>)
    BY <1>7 DEF Landed
  <2> HIDE DEF go, anchor
  <2> QED BY <1>0, <1>1, <2>1, <2>2, MovesTo
<1> QED BY <1>3, <1>4, <1>5, <1>6, <1>7 DEF Connecting

(* The answer of local_parent only asks for a listing. *)
LEMMA ParentMoves ==
    ASSUME NEW c \in Call, Parent(c)
    PROVE  Moves(c) /\ UNCHANGED Seen
<1> DEFINE up == Frame("navigate", Null, "local", Front(Top(c).path), Null)
<1>1. call[c] # <<>> /\ UNCHANGED Seen
  BY DEF Seen, Parent, Answered, Runs, paneVars, tabVars, world
<1>2. FrameOK(up)
  BY FrameIsOK DEF Sides
<1>3. Return(c) \/ Then(c, <<up>>)
  BY DEF Parent, Return
<1> HIDE DEF up
<1> QED BY <1>1, <1>2, <1>3, MovesTo

(* What the user asks for begins a call with frames that are in order. *)
LEMMA RequestKeeps ==
    ASSUME IInv, NEW c \in Call, NEW fs, Frames(fs), Requests(c, fs)
    PROVE  IInv'
<1>1. CallShape(call) /\ UNCHANGED Seen
  BY DEF IInv, Shape, Seen, Requests
<1>2. CallShape(call')
  BY <1>1, StartKeeps DEF Requests
<1> QED BY <1>1, <1>2, OnlyFrames

(* No request of the user changes a path or a pane before its call has run. *)
LEMMA UserKeeps == ASSUME IInv, NEW c \in Call, User(c) PROVE IInv'
<1>1. \A side \in Sides : \A p : Frames(<<Frame("navigate", Null, side, p, Null)>>)
  <2> TAKE side \in Sides
  <2> TAKE p
  <2> DEFINE f == Frame("navigate", Null, side, p, Null)
  <2>1. FrameOK(f)
    BY FrameIsOK
  <2> HIDE DEF f
  <2> QED BY <2>1, OneFrame DEF f
<1>2. \A op, t, p, s : op \notin Sided => FrameOK(Frame(op, t, Null, p, s))
  BY FrameIsOK
<1>3. CASE Browse(c)
  BY <1>1, <1>3, RequestKeeps DEF Browse, Sides
<1>4. CASE GoUp(c)
  <2>1. Frames(<<Frame("parent", Null, "local", local, Null)>>)
    <3> DEFINE f == Frame("parent", Null, "local", local, Null)
    <3>1. FrameOK(f)
      BY FrameIsOK DEF Sides
    <3> HIDE DEF f
    <3> QED BY <3>1, OneFrame DEF f
  <2> QED BY <1>1, <1>4, <2>1, RequestKeeps DEF GoUp, Sides
<1>5. CASE SwitchTab(c)
  <2>1. PICK t \in Tab : Requests(c, <<Frame("restore", t, Null, Null, Null)>>)
    BY <1>5 DEF SwitchTab
  <2> DEFINE f == Frame("restore", t, Null, Null, Null)
  <2>2. FrameOK(f)
    BY <1>2 DEF Sided
  <2> HIDE DEF f
  <2> QED BY <2>1, <2>2, OneFrame, RequestKeeps DEF f
<1>6. CASE CloseTab(c)
  <2>1. PICK t \in Tab : Requests(c, <<Frame("disconnect", t, Null, Null, Null)>>)
    BY <1>6 DEF CloseTab
  <2> DEFINE f == Frame("disconnect", t, Null, Null, Null)
  <2>2. FrameOK(f)
    BY <1>2 DEF Sided
  <2> HIDE DEF f
  <2> QED BY <2>1, <2>2, OneFrame, RequestKeeps DEF f
<1>7. CASE Connect(c)
  <2>1. PICK s \in Site :
          \/ Requests(c, <<Frame("connect", Null, Null, Null, s)>>)
          \/ Requests(c, <<Frame("disconnect", active, Null, Null, Null),
                            Frame("connect", Null, Null, Null, s)>>)
    BY <1>7 DEF Connect
  <2> DEFINE dial == Frame("connect", Null, Null, Null, s)
             leave == Frame("disconnect", active, Null, Null, Null)
  <2>2. FrameOK(dial) /\ FrameOK(leave)
    BY <1>2 DEF Sided
  <2>3. Requests(c, <<dial>>) \/ Requests(c, <<leave, dial>>)
    BY <2>1
  <2> HIDE DEF dial, leave
  <2> QED BY <2>2, <2>3, OneFrame, TwoFrames, RequestKeeps
<1> QED BY <1>3, <1>4, <1>5, <1>6, <1>7 DEF User

-----------------------------------------------------------------------------
(* The invariant. *)

(* The window starts with no tab and an empty remote pane. *)
LEMMA InitIInv == Init => IInv
<1> SUFFICES ASSUME Init PROVE IInv
  OBVIOUS
<1>1. Shape
  <2>1. CallShape(call)
    BY NoFrames DEF Init, CallShape
  <2> QED BY <2>1 DEF Init, Shape
<1>2. PathsAreOwn /\ RowsAreOfPath
  BY DEF Init, PathsAreOwn, RowsAreOfPath, Shows
<1> QED BY <1>1, <1>2 DEF IInv

(* Every step keeps the invariant. *)
LEMMA NextIInv == IInv /\ [Next]_vars => IInv'
<1> SUFFICES ASSUME IInv, [Next]_vars PROVE IInv'
  OBVIOUS
<1>0. CallShape(call)
  BY DEF IInv, Shape
<1>1. ASSUME NEW c \in Call, Pane(c) PROVE IInv'
  BY <1>1, NavigateKeeps, ListedKeeps, ListFailsKeeps, ParentMoves, MovesKeep DEF Pane
<1>2. ASSUME NEW c \in Call, Sync(c) PROVE IInv'
  BY <1>0, <1>2, SyncMoves, MovesKeep, MadeDirKeeps DEF Sync
<1>3. ASSUME NEW c \in Call, TabBar(c) PROVE IInv'
  BY <1>3, RestoreMoves, MovesKeep, RestoreRemoteKeeps, DisconnectedKeeps DEF TabBar
<1>4. ASSUME NEW c \in Call, Connecting(c) PROVE IInv'
  BY <1>0, <1>4, ConnectingMoves, MovesKeep
<1>5. CASE UNCHANGED vars
  <2>1. UNCHANGED Seen /\ CallShape(call')
    BY <1>5 DEF vars, Seen, IInv, Shape, CallShape
  <2> QED BY <2>1, OnlyFrames
<1> QED BY <1>1, <1>2, <1>3, <1>4, <1>5, UserKeeps DEF Next, Step

(* The saved remote directory of a tab is one of its own connection, however    *)
(* answers, switches and connects interleave (main.js:464, 494).                *)
THEOREM TabsPathsAreOwn == Spec => []PathsAreOwn
<1>1. IInv => PathsAreOwn
  BY DEF IInv
<1> QED BY <1>1, InitIInv, NextIInv, PTL DEF Spec

(* A pane that shows a listing shows that of the path which dialogs, deletions  *)
(* and transfers take from it, whichever answer came last (main.js:494-509).    *)
THEOREM TabsRowsAreOfPath == Spec => []RowsAreOfPath
<1>1. IInv => RowsAreOfPath
  BY DEF IInv
<1> QED BY <1>1, InitIInv, NextIInv, PTL DEF Spec
-----------------------------------------------------------------------------
(* A remote pane at "Loading..." is waited for: some call will list the tab *)
(* now active, or decide what its pane shows.                               *)

AsksFor(f, t) ==
    \/ f.op = "list" /\ f.side = "remote" /\ f.tab = t
    \/ f.op \in {"restore", "restoreRemote"} /\ f.tab = t
    \/ f.op = "navigate" /\ f.side = "remote" /\ t # Null
    \/ f.op = "opens" /\ t # Null
Asking == {"list", "restore", "restoreRemote", "navigate", "opens"}
Coming(s, t) == \E i \in 1..Len(s) : AsksFor(s[i], t)
LoadingIsAsked == pane.remote.kind = "loading" => \E c \in Call : Coming(call[c], active)

AInv == IInv /\ LoadingIsAsked /\ opened \in Nat

(* What asks in a call, its innermost frame apart, still asks when that one is gone. *)
LEMMA ComingInTail ==
    ASSUME NEW s, Frames(s), s # <<>>, NEW t, Coming(s, t), ~AsksFor(Head(s), t)
    PROVE  Coming(Tail(s), t)
<1>1. PICK S : s \in Seq(S)
  BY DEF Frames
<1>2. PICK i \in 1..Len(s) : AsksFor(s[i], t)
  BY DEF Coming
<1>3. i # 1
  BY <1>1, <1>2
<1>4. i - 1 \in 1..Len(Tail(s)) /\ Tail(s)[i - 1] = s[i]
  BY <1>1, <1>2, <1>3
<1> QED BY <1>2, <1>4 DEF Coming

(* What asks in a part of a call asks in the call. *)
LEMMA ComingInBoth ==
    ASSUME NEW r, Frames(r), NEW s, Frames(s), NEW t, Coming(r, t) \/ Coming(s, t)
    PROVE  Coming(r \o s, t)
<1>1. PICK R : r \in Seq(R)
  BY DEF Frames
<1>2. PICK S : s \in Seq(S)
  BY DEF Frames
<1>3. CASE Coming(r, t)
  <2>1. PICK i \in 1..Len(r) : AsksFor(r[i], t)
    BY <1>3 DEF Coming
  <2>2. i \in 1..Len(r \o s) /\ (r \o s)[i] = r[i]
    BY <1>1, <1>2, <2>1
  <2> QED BY <2>1, <2>2 DEF Coming
<1>4. CASE Coming(s, t)
  <2>1. PICK i \in 1..Len(s) : AsksFor(s[i], t)
    BY <1>4 DEF Coming
  <2>2. Len(r) + i \in 1..Len(r \o s) /\ (r \o s)[Len(r) + i] = s[i]
    BY <1>1, <1>2, <2>1
  <2> QED BY <2>1, <2>2 DEF Coming
<1> QED BY <1>3, <1>4

(* A call of one frame, or of two, asks if one of them does. *)
LEMMA ComingOf ==
    ASSUME NEW f, NEW g, NEW t
    PROVE  /\ AsksFor(f, t) => Coming(<<f>>, t)
           /\ AsksFor(f, t) \/ AsksFor(g, t) => Coming(<<f, g>>, t)
<1>1. /\ Len(<<f>>) = 1 /\ <<f>>[1] = f
      /\ Len(<<f, g>>) = 2 /\ <<f, g>>[1] = f /\ <<f, g>>[2] = g
  OBVIOUS
<1>2. AsksFor(f, t) => Coming(<<f>>, t)
  BY <1>1 DEF Coming
<1>3. AsksFor(f, t) => Coming(<<f, g>>, t)
  <2>1. 1 \in 1..Len(<<f, g>>)
    BY <1>1
  <2> QED BY <1>1, <2>1, Zenon DEF Coming
<1>4. AsksFor(g, t) => Coming(<<f, g>>, t)
  <2>1. 2 \in 1..Len(<<f, g>>)
    BY <1>1
  <2> QED BY <1>1, <2>1, Zenon DEF Coming
<1> QED BY <1>2, <1>3, <1>4

(* A call that asks anew will do. *)
LEMMA AsksAnew ==
    ASSUME CallShape(call), NEW c \in Call, call[c] # <<>>, NEW fs, Frames(fs), Then(c, fs),
           Coming(fs, active')
    PROVE  LoadingIsAsked'
<1>1. Coming(fs \o Tail(call[c]), active')
  BY TopFrame, ComingInBoth DEF CallShape
<1>2. call'[c] = fs \o Tail(call[c])
  BY DEF CallShape, Then
<1> QED BY <1>1, <1>2 DEF LoadingIsAsked

(* So will a step of which the innermost frame did not ask, or asks again. *)
LEMMA StillAsks ==
    ASSUME CallShape(call), LoadingIsAsked, NEW c \in Call, call[c] # <<>>,
           NEW fs, Frames(fs), Then(c, fs), active' = active,
           AsksFor(Top(c), active) => Coming(fs, active),
           pane'.remote = pane.remote
    PROVE  LoadingIsAsked'
<1>1. CASE Coming(fs, active)
  BY <1>1, AsksAnew
<1>2. CASE ~Coming(fs, active)
  <2> SUFFICES ASSUME pane.remote.kind = "loading" PROVE \E d \in Call : Coming(call'[d], active)
    BY DEF LoadingIsAsked
  <2>1. PICK d \in Call : Coming(call[d], active)
    BY DEF LoadingIsAsked
  <2>2. CASE d = c
    <3>1. Coming(Tail(call[c]), active)
      BY <1>2, <2>1, <2>2, ComingInTail DEF CallShape, Top
    <3>2. Coming(fs \o Tail(call[c]), active)
      BY <3>1, TopFrame, ComingInBoth DEF CallShape
    <3>3. call'[c] = fs \o Tail(call[c])
      BY DEF CallShape, Then
    <3> QED BY <3>2, <3>3
  <2>3. CASE d # c
    <3>1. call'[d] = call[d]
      BY <2>3 DEF CallShape, Then
    <3> QED BY <2>1, <3>1
  <2> QED BY <2>2, <2>3
<1> QED BY <1>1, <1>2

(* Most answers never asked. *)
LEMMA OthersStillAsk ==
    ASSUME CallShape(call), LoadingIsAsked, NEW c \in Call, Moves(c), Top(c).op \notin Asking,
           active' = active, pane'.remote = pane.remote
    PROVE  LoadingIsAsked'
<1>1. ~AsksFor(Top(c), active)
  BY DEF AsksFor, Asking
<1>2. PICK fs : Frames(fs) /\ Then(c, fs)
  BY DEF Moves
<1> QED BY <1>1, <1>2, StillAsks DEF Moves

(* navigateRemote shows "Loading..." and asks; navigateLocal leaves that pane alone. *)
LEMMA NavigateStillAsks ==
    ASSUME IInv, LoadingIsAsked, NEW c \in Call, Navigate(c) PROVE LoadingIsAsked'
<1> DEFINE f == Top(c)
           ask == Frame("list", active, f.side, f.path, Null)
<1>1. /\ CallShape(call) /\ call[c] # <<>> /\ f.side \in Sides /\ f.op = "navigate"
      /\ active' = active
  BY TopSided DEF IInv, Shape, Navigate, Due, Runs, Sided, tabVars
<1>2. Frames(<<ask>>) /\ Frames(<<>>)
  <2>1. FrameOK(ask)
    BY <1>1, FrameIsOK
  <2> HIDE DEF ask
  <2> QED BY <2>1, OneFrame, NoFrames
<1>3. CASE f.side = "remote" /\ active = Null
  <2>1. Then(c, <<>>) /\ pane' = pane
    BY <1>3 DEF Navigate, Return
  <2>2. ~AsksFor(f, active)
    BY <1>1, <1>3 DEF AsksFor
  <2> QED BY <1>1, <1>2, <2>1, <2>2, StillAsks
<1>4. CASE ~(f.side = "remote" /\ active = Null)
  <2>1. Then(c, <<ask>>) /\ pane' = [pane EXCEPT ![f.side] = Shows("loading", active, f.path)]
    BY <1>4 DEF Navigate
  <2>2. CASE f.side = "remote"
    <3>1. AsksFor(ask, active)
      BY <2>2 DEF AsksFor, Frame
    <3> HIDE DEF ask
    <3>2. Coming(<<ask>>, active)
      BY <3>1, ComingOf
    <3> QED BY <1>1, <1>2, <2>1, <3>2, AsksAnew
  <2>3. CASE f.side = "local"
    <3>1. pane'.remote = pane.remote
      BY <2>1, <2>3 DEF IInv, Shape
    <3>2. ~AsksFor(f, active)
      BY <1>1, <2>3 DEF AsksFor
    <3> HIDE DEF ask
    <3> QED BY <1>1, <1>2, <2>1, <3>1, <3>2, StillAsks
  <2> QED BY <1>1, <2>2, <2>3 DEF Sides
<1> QED BY <1>3, <1>4

(* A listing of the active tab is shown; one of another tab was not what was asked for. *)
LEMMA ListedStillAsks ==
    ASSUME IInv, LoadingIsAsked, NEW c \in Call, Listed(c) PROVE LoadingIsAsked'
<1> DEFINE f == Top(c)
<1>1. /\ CallShape(call) /\ call[c] # <<>> /\ f.side \in Sides /\ f.op = "list"
      /\ active' = active
  BY TopSided DEF IInv, Shape, Listed, Answered, Runs, Sided
<1>2. CASE f.tab = active /\ f.side = "remote"
  <2>1. pane' = [pane EXCEPT !.remote = Shows("listing", f.tab, f.path)]
    BY <1>2 DEF Listed, ListedFresh
  <2>2. pane'.remote.kind = "listing"
    BY <2>1 DEF IInv, Shape, Shows
  <2> QED BY <2>2 DEF LoadingIsAsked
<1>3. CASE f.tab = active /\ f.side = "local"
  <2>1. /\ pane' = [pane EXCEPT !.local = Shows("listing", f.tab, f.path)]
        /\ Then(c, Mirror(active, f.side, f.path))
    BY <1>3 DEF Listed, ListedFresh
  <2>2. pane'.remote = pane.remote
    BY <2>1 DEF IInv, Shape
  <2>3. ~AsksFor(f, active)
    BY <1>1, <1>3 DEF AsksFor
  <2> QED BY <1>1, <2>1, <2>2, <2>3, MirrorFrames, StillAsks
<1>4. CASE f.tab # active
  <2>1. Then(c, <<>>) /\ pane' = pane
    BY <1>4 DEF Listed, Return
  <2>2. ~AsksFor(f, active)
    BY <1>1, <1>4 DEF AsksFor
  <2> QED BY <1>1, <2>1, <2>2, NoFrames, StillAsks
<1> QED BY <1>1, <1>2, <1>3, <1>4 DEF Sides

(* The error is shown, whichever tab asked. *)
LEMMA ListFailsStillAsks ==
    ASSUME IInv, LoadingIsAsked, NEW c \in Call, ListFails(c) PROVE LoadingIsAsked'
<1> DEFINE f == Top(c)
<1>1. /\ CallShape(call) /\ call[c] # <<>> /\ f.side \in Sides /\ f.op = "list"
      /\ active' = active
  BY TopSided DEF IInv, Shape, ListFails, Answered, Runs, Sided, tabVars
<1>2. pane' = [pane EXCEPT ![f.side] = Shows("error", f.tab, f.path)] /\ Then(c, <<>>)
  BY DEF ListFails, Return
<1>3. CASE f.side = "remote"
  <2>1. pane'.remote.kind = "error"
    BY <1>2, <1>3 DEF IInv, Shape, Shows
  <2> QED BY <2>1 DEF LoadingIsAsked
<1>4. CASE f.side = "local"
  <2>1. pane'.remote = pane.remote
    BY <1>2, <1>4 DEF IInv, Shape
  <2>2. ~AsksFor(f, active)
    BY <1>1, <1>4 DEF AsksFor
  <2> QED BY <1>1, <1>2, <2>1, <2>2, NoFrames, StillAsks
<1> QED BY <1>1, <1>3, <1>4 DEF Sides

(* A directory made is navigated to, or the call ends; it asked for no listing. *)
LEMMA MadeDirStillAsks ==
    ASSUME IInv, LoadingIsAsked, NEW c \in Call, MadeDir(c) PROVE LoadingIsAsked'
<1> DEFINE go == Frame("navigate", Null, Top(c).side, Top(c).path, Null)
           end == Frame("unsync", Null, Null, Null, Null)
<1>1. /\ CallShape(call) /\ call[c] # <<>> /\ Top(c).side \in Sides /\ Top(c).op = "mkdir"
      /\ active' = active /\ pane' = pane
  BY TopSided DEF IInv, Shape, MadeDir, Answered, Runs, Sided, tabVars, paneVars
<1>2. FrameOK(go) /\ FrameOK(end)
  BY <1>1, FrameIsOK DEF Sided
<1>3. Then(c, <<go, end>>) \/ Return(c)
  BY DEF MadeDir, MirrorNavigates
<1> HIDE DEF go, end
<1>4. Moves(c)
  BY <1>1, <1>2, <1>3, MovesTo
<1> QED BY <1>1, <1>4, OthersStillAsk DEF Asking

(* The other answers of synchronised browsing never asked for the tab. *)
LEMMA SyncStillAsks ==
    ASSUME IInv, LoadingIsAsked, NEW c \in Call,
           Exists(c) \/ PromptCreate(c) \/ PromptDisable(c) \/ PromptCancel(c) \/ Unsync(c)
    PROVE  LoadingIsAsked'
<1>1. CallShape(call)
  BY DEF IInv, Shape
<1>2. Moves(c) /\ UNCHANGED Seen
  BY <1>1, SyncMoves
<1>3. Top(c).op \notin Asking /\ active' = active
  BY DEF Exists, PromptCreate, PromptDisable, PromptCancel, Unsync, Answered, Due, Runs,
         Asking, tabVars
<1> QED BY <1>1, <1>2, <1>3, OthersStillAsk DEF Seen

(* restoreTabPanes leaves its last step to do. *)
LEMMA RestoreStillAsks ==
    ASSUME IInv, LoadingIsAsked, NEW c \in Call, Restore(c) PROVE LoadingIsAsked'
<1> DEFINE t == Top(c).tab
           first == Frame("navigate", Null, "local", lpath[t], Null)
           last == Frame("restoreRemote", t, Null, Null, Null)
<1>1. /\ CallShape(call) /\ call[c] # <<>> /\ Top(c).op = "restore"
      /\ active' = active /\ pane' = pane
  BY DEF IInv, Shape, Restore, Due, Runs, tabVars, paneVars
<1>2. FrameOK(first) /\ FrameOK(last)
  BY FrameIsOK DEF Sides, Sided
<1>3. AsksFor(Top(c), active) => AsksFor(last, active)
  BY <1>1 DEF AsksFor, Frame
<1>4. Then(c, <<first, last>>) \/ Then(c, <<last>>)
  BY DEF Restore
<1> HIDE DEF first, last
<1>5. Frames(<<first, last>>) /\ Frames(<<last>>)
  BY <1>2, OneFrame, TwoFrames
<1>6. /\ AsksFor(Top(c), active) => Coming(<<first, last>>, active)
      /\ AsksFor(Top(c), active) => Coming(<<last>>, active)
  BY <1>3, ComingOf
<1> QED BY <1>1, <1>4, <1>5, <1>6, StillAsks

(* Its last step lists the tab or empties the pane, unless another tab is active. *)
LEMMA RestoreRemoteStillAsks ==
    ASSUME IInv, LoadingIsAsked, NEW c \in Call, RestoreRemote(c) PROVE LoadingIsAsked'
<1> DEFINE t == Top(c).tab
           go == Frame("navigate", Null, "remote", rpath[t], Null)
<1>1. /\ CallShape(call) /\ call[c] # <<>> /\ Top(c).op = "restoreRemote" /\ active' = active
  BY DEF IInv, Shape, RestoreRemote, Due, Runs, tabVars
<1>2. CASE t # active /\ Then(c, <<>>) /\ pane' = pane
  <2>1. ~AsksFor(Top(c), active)
    BY <1>1, <1>2 DEF AsksFor
  <2> QED BY <1>1, <1>2, <2>1, NoFrames, StillAsks
<1>3. CASE t = active /\ RemotePath(t) # Null /\ Then(c, <<go>>)
  <2>1. AsksFor(go, active)
    BY <1>3 DEF RemotePath, AsksFor, Frame
  <2>2. FrameOK(go) /\ Then(c, <<go>>)
    BY <1>3, FrameIsOK DEF Sides
  <2> HIDE DEF go
  <2>3. Frames(<<go>>) /\ Coming(<<go>>, active)
    BY <2>1, <2>2, OneFrame, ComingOf
  <2> QED BY <1>1, <2>2, <2>3, AsksAnew
<1>4. CASE pane' = [pane EXCEPT !.remote = Shows("empty", Null, Null)]
  <2>1. pane'.remote.kind = "empty"
    BY <1>4 DEF IInv, Shape, Shows
  <2> QED BY <2>1 DEF LoadingIsAsked
<1> QED BY <1>2, <1>3, <1>4 DEF RestoreRemote, Return

(* The tab that becomes active when one is closed is restored. *)
LEMMA DisconnectedStillAsks ==
    ASSUME IInv, LoadingIsAsked, NEW c \in Call, Disconnected(c) PROVE LoadingIsAsked'
<1>1. /\ CallShape(call) /\ call[c] # <<>> /\ Top(c).op = "disconnect" /\ pane' = pane
  BY DEF IInv, Shape, Disconnected, Answered, Runs, paneVars
<1>2. CASE Return(c) /\ active' = active
  <2>1. Moves(c)
    BY <1>1, <1>2, MovesTo
  <2> QED BY <1>1, <1>2, <2>1, OthersStillAsk DEF Asking
<1>3. CASE ~(Return(c) /\ active' = active)
  <2> DEFINE next == LastOf(Without(Top(c).tab))
             g == Frame("restore", next, Null, Null, Null)
  <2>1. active' = next /\ \E d \in Call : call' = [[call EXCEPT ![c] = Tail(@)] EXCEPT ![d] = <<g>>]
    BY <1>3, Zenon DEF Disconnected
  <2>2. PICK d \in Call : call' = [[call EXCEPT ![c] = Tail(@)] EXCEPT ![d] = <<g>>]
    BY <2>1
  <2>3. AsksFor(g, active')
    BY <2>1 DEF AsksFor, Frame
  <2> HIDE DEF g
  <2>4. call'[d] = <<g>>
    BY <1>1, <2>2 DEF CallShape
  <2>5. Coming(call'[d], active')
    BY <2>3, <2>4, ComingOf
  <2> QED BY <2>5 DEF LoadingIsAsked
<1> QED BY <1>2, <1>3

(* A new tab's start directory is looked for, then listed (doConnectWith). *)
LEMMA ConnectedStillAsks ==
    ASSUME IInv, LoadingIsAsked, opened \in Nat, TabsAssumption, NEW c \in Call, Connected(c)
    PROVE  LoadingIsAsked'
<1> DEFINE s == Top(c).site
           go == Frame("navigate", Null, "remote", Home, Null)
           land == Frame("landed", opened + 1, Null, Null, s)
           look == Frame("opens", opened + 1, "remote", s.remoteDir, s)
<1>1. CallShape(call) /\ call[c] # <<>> /\ active' = opened + 1
  BY DEF IInv, Shape, Connected, Answered, Runs
<1>2. active' # Null
  BY <1>1 DEF TabsAssumption, Connected
<1>3. AsksFor(go, active') /\ AsksFor(look, active')
  BY <1>2 DEF AsksFor, Frame
<1>4. FrameOK(go) /\ FrameOK(land) /\ FrameOK(look)
  BY FrameIsOK DEF Sides, Sided
<1>5. Then(c, <<go, land>>) \/ Then(c, <<look>>)
  BY DEF Connected
<1> HIDE DEF go, land, look
<1>6. Coming(<<go, land>>, active') /\ Coming(<<look>>, active')
  BY <1>3, ComingOf
<1>7. Frames(<<go, land>>) /\ Frames(<<look>>)
  BY <1>4, OneFrame, TwoFrames
<1> QED BY <1>1, <1>5, <1>6, <1>7, AsksAnew

(* Each further try of resolveStartDir looks again or lists. *)
LEMMA StartDirStillAsks ==
    ASSUME IInv, LoadingIsAsked, NEW c \in Call, StartDir(c) PROVE LoadingIsAsked'
<1> DEFINE f == Top(c)
           below == Home \o f.site.remoteDir
           go(p) == Frame("navigate", Null, "remote", p, Null)
           land == Frame("landed", f.tab, Null, Null, f.site)
           look == [f EXCEPT !.path = below]
<1>1. /\ CallShape(call) /\ call[c] # <<>> /\ FrameOK(f) /\ f.op = "opens"
      /\ active' = active /\ pane' = pane
  BY TopOK DEF IInv, Shape, StartDir, Answered, Runs, tabVars, paneVars
<1>2. look.op = "opens"
  BY <1>1 DEF FrameOK, Frame
<1>3. AsksFor(f, active) => AsksFor(go(f.path), active) /\ AsksFor(go(Home), active) /\ AsksFor(look, active)
  BY <1>1, <1>2 DEF AsksFor, Frame
<1>4. FrameOK(go(f.path)) /\ FrameOK(go(Home)) /\ FrameOK(land) /\ FrameOK(look)
  BY <1>1, FrameLooks, FrameIsOK DEF Sides, Sided
<1>5. Then(c, <<go(f.path), land>>) \/ Then(c, <<look>>) \/ Then(c, <<go(Home), land>>)
  BY DEF StartDir
<1> HIDE DEF go, land, look
<1>6. AsksFor(f, active) => /\ Coming(<<go(f.path), land>>, active)
                            /\ Coming(<<look>>, active)
                            /\ Coming(<<go(Home), land>>, active)
  BY <1>3, ComingOf
<1>7. Frames(<<go(f.path), land>>) /\ Frames(<<look>>) /\ Frames(<<go(Home), land>>)
  BY <1>4, OneFrame, TwoFrames
<1> QED BY <1>1, <1>5, <1>6, <1>7, StillAsks

(* The other steps of a connection never asked for the tab. *)
LEMMA ConnectingStillAsks ==
    ASSUME IInv, LoadingIsAsked, NEW c \in Call,
           ConnectAsks(c) \/ Trusted(c) \/ ConnectFails(c) \/ Landed(c) \/ Anchor(c)
    PROVE  LoadingIsAsked'
<1>1. CallShape(call)
  BY DEF IInv, Shape
<1>2. Moves(c) /\ UNCHANGED Seen
  BY <1>1, ConnectingMoves DEF Connecting
<1>3. Top(c).op \notin Asking /\ active' = active
  BY DEF ConnectAsks, Trusted, ConnectFails, Landed, Anchor, Answered, Due, Runs,
         Asking, tabVars
<1> QED BY <1>1, <1>2, <1>3, OthersStillAsk DEF Seen

(* A request leaves the other calls alone, and a switch restores the tab (main.js:959-976). *)
LEMMA UserStillAsks ==
    ASSUME IInv, LoadingIsAsked, NEW c \in Call, User(c) PROVE LoadingIsAsked'
<1>1. CallShape(call)
  BY DEF IInv, Shape
<1>2. ASSUME NEW fs, Requests(c, fs), active' = active PROVE LoadingIsAsked'
  <2> SUFFICES ASSUME pane.remote.kind = "loading" PROVE \E d \in Call : Coming(call'[d], active)
    BY <1>2 DEF Requests, LoadingIsAsked
  <2>1. PICK d \in Call : Coming(call[d], active)
    BY DEF LoadingIsAsked
  <2>2. call[c] = <<>> /\ ~Coming(<<>>, active)
    BY <1>2 DEF Requests, Free, Coming
  <2>3. d # c
    BY <2>1, <2>2
  <2>4. call'[d] = call[d]
    BY <1>1, <1>2, <2>3 DEF Requests, CallShape
  <2> QED BY <2>1, <2>4
<1>3. CASE SwitchTab(c)
  <2>1. PICK t \in Tab : active' = t /\ Requests(c, <<Frame("restore", t, Null, Null, Null)>>)
    BY <1>3 DEF SwitchTab
  <2> DEFINE g == Frame("restore", t, Null, Null, Null)
  <2>2. AsksFor(g, t) /\ Requests(c, <<g>>)
    BY <2>1 DEF AsksFor, Frame
  <2> HIDE DEF g
  <2>3. call'[c] = <<g>> /\ Coming(<<g>>, active')
    BY <1>1, <2>1, <2>2, ComingOf DEF Requests, CallShape
  <2> QED BY <2>3 DEF LoadingIsAsked
<1>4. CASE Browse(c)
  BY <1>2, <1>4 DEF Browse
<1>5. CASE GoUp(c)
  BY <1>2, <1>5 DEF GoUp
<1>6. CASE CloseTab(c)
  BY <1>2, <1>6 DEF CloseTab
<1>7. CASE Connect(c)
  BY <1>2, <1>7 DEF Connect
<1> QED BY <1>3, <1>4, <1>5, <1>6, <1>7 DEF User

(* Every step keeps it. *)
LEMMA NextStillAsks == AInv /\ [Next]_vars => AInv'
<1> SUFFICES ASSUME IInv, LoadingIsAsked, opened \in Nat, [Next]_vars
             PROVE  LoadingIsAsked' /\ opened' \in Nat
  BY NextIInv DEF AInv
<1>1. ASSUME NEW c \in Call, Pane(c) PROVE LoadingIsAsked'
  <2>1. CASE Parent(c)
    <3>1. Moves(c) /\ UNCHANGED Seen
      BY <2>1, ParentMoves
    <3>2. Top(c).op \notin Asking /\ active' = active /\ CallShape(call)
      BY <2>1 DEF Parent, Answered, Runs, Asking, tabVars, IInv, Shape
    <3> QED BY <3>1, <3>2, OthersStillAsk DEF Seen
  <2> QED BY <1>1, <2>1, NavigateStillAsks, ListedStillAsks, ListFailsStillAsks DEF Pane
<1>2. ASSUME NEW c \in Call, Sync(c) PROVE LoadingIsAsked'
  BY <1>2, SyncStillAsks, MadeDirStillAsks DEF Sync
<1>3. ASSUME NEW c \in Call, TabBar(c) PROVE LoadingIsAsked'
  BY <1>3, RestoreStillAsks, RestoreRemoteStillAsks, DisconnectedStillAsks DEF TabBar
<1>4. ASSUME NEW c \in Call, Connecting(c) PROVE LoadingIsAsked'
  BY <1>4, TabsAssumption, ConnectedStillAsks, StartDirStillAsks, ConnectingStillAsks DEF Connecting
<1>5. CASE UNCHANGED vars
  BY <1>5 DEF vars, LoadingIsAsked
<1>6. opened' \in Nat
  <2>1. ASSUME NEW c \in Call, Pane(c) \/ Sync(c) \/ TabBar(c) PROVE opened' = opened
    BY <2>1 DEF Pane, Navigate, Listed, ListFails, Parent, Sync, Exists, PromptCreate,
           PromptDisable, PromptCancel, MadeDir, Unsync, TabBar, Restore, RestoreRemote,
           Disconnected, tabVars
  <2>2. ASSUME NEW c \in Call, Connecting(c) PROVE opened' \in {opened, opened + 1}
    BY <2>2, Zenon DEF Connecting, Connected, ConnectAsks, Trusted, ConnectFails, StartDir,
           Landed, Anchor, tabVars
  <2>3. ASSUME NEW c \in Call, User(c) PROVE opened' = opened
    BY <2>3 DEF User, Browse, GoUp, SwitchTab, CloseTab, Connect, Requests
  <2>4. CASE UNCHANGED vars
    BY <2>4 DEF vars
  <2> QED BY <2>1, <2>2, <2>3, <2>4 DEF Next, Step
<1> QED BY <1>1, <1>2, <1>3, <1>4, <1>5, <1>6, UserStillAsks DEF Next, Step

(* The remote pane is not left at "Loading..." once every call has ended: a     *)
(* listing that a switch made stale is followed by that of the tab now shown    *)
(* (main.js:494-509, 959-976).                                                  *)
THEOREM TabsNoOrphanLoading == Spec => []NoOrphanLoading
<1>1. Init => AInv
  <2>1. Init => LoadingIsAsked /\ opened \in Nat
    BY DEF Init, LoadingIsAsked, Shows
  <2> QED BY <2>1, InitIInv DEF AInv
<1>2. AInv => NoOrphanLoading
  <2> SUFFICES ASSUME LoadingIsAsked, AtRest PROVE pane.remote.kind # "loading"
    BY DEF AInv, NoOrphanLoading
  <2>1. ASSUME NEW c \in Call PROVE ~Coming(call[c], active)
    BY DEF AtRest, Coming
  <2> QED BY <2>1 DEF LoadingIsAsked
<1> QED BY <1>1, <1>2, NextStillAsks, PTL DEF Spec

-----------------------------------------------------------------------------
(* Synchronised panes.  As long as nothing has parted them there is one call *)
(* at a time, and what its frames leave to do says how far the panes are     *)
(* from each other: Flow goes through the kinds of stack there are.          *)

\* Tab t stands at l and r, and they correspond as far as its roots say.
Pairs(t, l, r) ==
    LET there == SyncCounterpart("local", l, t)
        back == IF r = Null THEN Null ELSE SyncCounterpart("remote", r, t)
    IN there = Null \/ back = Null \/ there = r
Matched(t) == sync[t] => Pairs(t, lpath[t], rpath[t])
MatchedBy(f) ==   \* the active tab will correspond when frame f has been listed
    sync[active] => IF f.side = "local" THEN Pairs(active, f.path, rpath[active])
                    ELSE Pairs(active, lpath[active], f.path)
Paired == \A t \in Tab : Matched(t)
OthersPaired == \A t \in Tab \ {active} : Matched(t)
Here == active # Null => lpath[active] = local

\* What may be left below: the end of a restore, or of a connection that is not anchored.
Waits(k) ==
    \/ k = <<>>
    \/ /\ k # <<>> /\ Tail(k) = <<>> /\ Head(k).tab = active
       /\ \/ Head(k).op = "restoreRemote"
          \/ Head(k).op \in {"landed", "anchor"} /\ active # Null /\ ~sync[active]
Going(f) == \/ f.op = "navigate"
            \/ /\ f.op = "list" /\ f.tab = active
               /\ f.side = "remote" => active # Null

Settled(s) == Waits(s) /\ ~syncing /\ Paired /\ Here
Goes(s) ==
    /\ s # <<>> /\ Going(Head(s)) /\ Waits(Tail(s)) /\ ~syncing /\ Paired
    /\ \/ Here
       \/ active # Null /\ Head(s).side = "local" /\ Head(s).path = lpath[active]
Asks(s) ==
    /\ s # <<>> /\ Head(s).op \in {"exists", "prompt", "mkdir"} /\ Head(s).path \in Seq(Name)
    /\ active # Null /\ Head(s).tab = active /\ Waits(Tail(s)) /\ ~syncing
    /\ OthersPaired /\ MatchedBy(Head(s)) /\ Here
Mirrors(s) ==
    /\ s # <<>> /\ Going(Head(s)) /\ active # Null /\ syncing
    /\ Tail(s) # <<>> /\ Head(Tail(s)).op = "unsync" /\ Waits(Tail(Tail(s)))
    /\ OthersPaired /\ MatchedBy(Head(s)) /\ Here
Mirrored(s) ==
    s # <<>> /\ Head(s).op = "unsync" /\ Waits(Tail(s)) /\ syncing /\ Paired /\ Here
Restores(s) ==
    /\ s # <<>> /\ Head(s).op = "restore" /\ Head(s).tab = active /\ Tail(s) = <<>>
    /\ ~syncing /\ Paired
Begins(s) ==
    /\ s # <<>> /\ ~syncing /\ Paired /\ Here
    /\ \/ Head(s).op \in {"parent", "connect", "trust"} /\ Tail(s) = <<>>
       \/ /\ Head(s).op = "opens" /\ active # Null /\ Head(s).tab = active
          /\ ~sync[active] /\ Tail(s) = <<>>
       \/ /\ Head(s).op = "disconnect"
          /\ \/ Tail(s) = <<>>
             \/ /\ Tail(s) # <<>> /\ Head(Tail(s)).op \in {"connect", "trust"}
                /\ Tail(Tail(s)) = <<>>
Flow(s) == \/ Settled(s) \/ Goes(s) \/ Asks(s) \/ Mirrors(s) \/ Mirrored(s)
           \/ Restores(s) \/ Begins(s)

PathOrNull == Seq(Name) \cup {Null}
Types ==
    /\ opened \in Nat /\ opened <= MaxTabs
    /\ active \in (1..opened) \cup {Null} /\ tabs \in Seq(1..opened)
    /\ local \in Seq(Name)
    /\ lpath \in [Tab -> PathOrNull] /\ rpath \in [Tab -> PathOrNull]
    /\ root \in [Tab -> [local : PathOrNull, remote : PathOrNull]]
    /\ sync \in [Tab -> BOOLEAN] /\ syncing \in BOOLEAN
    /\ dirs \in [Tab \cup {Local} -> SUBSET Seq(Name)]
    /\ \A t \in Tab : t > opened => ~sync[t]

Alone(c) == \A d \in Call \ {c} : call[d] = <<>>
OneFlow ==
    ~parted => /\ Types
               /\ \A c \in Call : call[c] # <<>> => Alone(c) /\ Flow(call[c])
               /\ AtRest => Flow(<<>>)

(* A path below a directory is the directory and the rest (syncCounterpart, util.js). *)
LEMMA UnderTop ==
    ASSUME NEW top \in Seq(Name), NEW p \in Seq(Name), IsPrefix(top, p)
    PROVE  /\ SubSeq(p, Len(top) + 1, Len(p)) \in Seq(Name)
           /\ top \o SubSeq(p, Len(top) + 1, Len(p)) = p
<1> DEFINE rel == SubSeq(p, Len(top) + 1, Len(p))
<1>1. Len(top) <= Len(p) /\ SubSeq(top, 1, Len(top)) = SubSeq(p, 1, Len(top))
  BY DEF IsPrefix
<1>2. rel \in Seq(Name) /\ Len(rel) = Len(p) - Len(top)
  BY <1>1
<1>3. \A i \in 1..Len(top) : top[i] = p[i]
  <2> TAKE i \in 1..Len(top)
  <2>1. SubSeq(top, 1, Len(top))[i] = top[i]
    OBVIOUS
  <2>2. SubSeq(p, 1, Len(top))[i] = p[i]
    BY <1>1
  <2> QED BY <1>1, <2>1, <2>2
<1>4. \A i \in 1..Len(rel) : rel[i] = p[Len(top) + i]
  BY <1>1, <1>2
<1> HIDE DEF rel
<1> DEFINE q == top \o rel
<1>5. q \in Seq(Name) /\ Len(q) = Len(p)
  BY <1>1, <1>2
<1>6. \A i \in 1..Len(p) : q[i] = p[i]
  BY <1>1, <1>2, <1>3, <1>4
<1> HIDE DEF q
<1>7. q = p
  BY <1>5, <1>6
<1> QED BY <1>2, <1>7 DEF rel, q

(* And what is put below a directory is found there again. *)
LEMMA TopAndRest ==
    ASSUME NEW top \in Seq(Name), NEW rel \in Seq(Name)
    PROVE  /\ top \o rel \in Seq(Name) /\ IsPrefix(top, top \o rel)
           /\ SubSeq(top \o rel, Len(top) + 1, Len(top \o rel)) = rel
<1> DEFINE p == top \o rel
           low == SubSeq(p, Len(top) + 1, Len(p))
<1>1. p \in Seq(Name) /\ Len(p) = Len(top) + Len(rel)
  OBVIOUS
<1>2. /\ \A i \in 1..Len(top) : p[i] = top[i]
      /\ \A i \in 1..Len(rel) : p[Len(top) + i] = rel[i]
  OBVIOUS
<1> HIDE DEF p
<1>3. low \in Seq(Name) /\ Len(low) = Len(rel)
  BY <1>1
<1>4. \A i \in 1..Len(rel) : low[i] = rel[i]
  BY <1>1, <1>2
<1> HIDE DEF low
<1>5. low = rel
  BY <1>3, <1>4
<1>6. SubSeq(top, 1, Len(top)) = SubSeq(p, 1, Len(top))
  <2> DEFINE a == SubSeq(top, 1, Len(top))
             b == SubSeq(p, 1, Len(top))
  <2>1. a \in Seq(Name) /\ Len(a) = Len(top) /\ \A i \in 1..Len(top) : a[i] = top[i]
    OBVIOUS
  <2>2. b \in Seq(Name) /\ Len(b) = Len(top) /\ \A i \in 1..Len(top) : b[i] = p[i]
    BY <1>1
  <2> HIDE DEF a, b
  <2>3. a = b
    BY <1>2, <2>1, <2>2
  <2> QED BY <2>3 DEF a, b
<1>7. IsPrefix(top, p)
  BY <1>1, <1>6 DEF IsPrefix
<1> QED BY <1>1, <1>5, <1>7 DEF p, low

(* The counterpart of a path is a path, and the counterpart of that one is the first. *)
LEMMA ThereAndBack ==
    ASSUME Types, NEW t \in Tab, NEW side \in Sides, NEW p \in Seq(Name),
           SyncCounterpart(side, p, t) # Null
    PROVE  /\ SyncCounterpart(side, p, t) \in Seq(Name)
           /\ SyncCounterpart(Other(side), SyncCounterpart(side, p, t), t) = p
<1> DEFINE top == root[t][side]
           other == root[t][Other(side)]
           rel == SubSeq(p, Len(top) + 1, Len(p))
           q == other \o rel
<1>1. /\ top # Null /\ other # Null /\ RelativeUnder(p, top) # Null
      /\ SyncCounterpart(side, p, t) = JoinUnder(other, RelativeUnder(p, top))
  BY DEF SyncCounterpart
<1>2. Other(side) \in Sides /\ Other(Other(side)) = side
  BY DEF Other, Sides
<1>3. root[t] \in [local : PathOrNull, remote : PathOrNull]
  BY DEF Types
<1>4. top \in Seq(Name) /\ other \in Seq(Name)
  BY <1>1, <1>2, <1>3 DEF Sides, PathOrNull
<1>5. IsPrefix(top, p) /\ RelativeUnder(p, top) = rel
  BY <1>1 DEF RelativeUnder
<1>6. rel \in Seq(Name) /\ top \o rel = p
  BY <1>4, <1>5, UnderTop
<1>7. SyncCounterpart(side, p, t) = q
  BY <1>1, <1>5 DEF JoinUnder
<1> HIDE DEF rel
<1>8. q \in Seq(Name) /\ IsPrefix(other, q) /\ SubSeq(q, Len(other) + 1, Len(q)) = rel
  BY <1>4, <1>6, TopAndRest
<1>9. RelativeUnder(q, other) = rel /\ rel # Null
  BY <1>1, <1>5, <1>8 DEF RelativeUnder
<1> HIDE DEF q, top, other
<1>10. SyncCounterpart(Other(side), q, t) = top \o rel
  BY <1>1, <1>2, <1>9 DEF SyncCounterpart, JoinUnder, top, other
<1> QED BY <1>6, <1>7, <1>8, <1>10

(* What stands on a call when no frame is put on it... *)
LEMMA NonePut == ASSUME NEW k, Frames(k) PROVE <<>> \o k = k
<1>1. PICK K : k \in Seq(K)
  BY DEF Frames
<1> QED BY <1>1

(* ...when one is... *)
LEMMA OnePut ==
    ASSUME NEW k, Frames(k), NEW f
    PROVE  <<f>> \o k # <<>> /\ Head(<<f>> \o k) = f /\ Tail(<<f>> \o k) = k
<1>1. PICK K : k \in Seq(K)
  BY DEF Frames
<1> DEFINE S == K \cup {f}
<1>2. k \in Seq(S) /\ <<f>> \in Seq(S) /\ Len(<<f>>) = 1
  BY <1>1
<1> HIDE DEF S
<1> QED BY <1>2

(* ...and when two are. *)
LEMMA TwoPut ==
    ASSUME NEW k, Frames(k), NEW f, NEW g
    PROVE  /\ <<f, g>> \o k # <<>> /\ Head(<<f, g>> \o k) = f
           /\ Tail(<<f, g>> \o k) # <<>> /\ Head(Tail(<<f, g>> \o k)) = g
           /\ Tail(Tail(<<f, g>> \o k)) = k
<1>1. PICK K : k \in Seq(K)
  BY DEF Frames
<1> DEFINE S == K \cup {f, g}
<1>2. k \in Seq(S) /\ f \in S /\ g \in S
  BY <1>1
<1> HIDE DEF S
<1>3. /\ <<f, g>> \in Seq(S) /\ <<g>> \in Seq(S)
      /\ Len(<<f, g>>) = 2 /\ Len(<<g>>) = 1
  BY <1>2
<1>4. <<f, g>> \o k # <<>> /\ Head(<<f, g>> \o k) = f
  BY <1>2, <1>3
<1>5. Tail(<<f, g>> \o k) = <<g>> \o k
  BY <1>2, <1>3
<1> QED BY <1>4, <1>5, OnePut

(* What a call is after its innermost frame has run. *)
LEMMA CallIs ==
    ASSUME CallShape(call), NEW c \in Call, call[c] # <<>>
    PROVE  /\ Return(c) => call'[c] = Tail(call[c])
           /\ \A f : Then(c, <<f>>) =>
                /\ call'[c] # <<>> /\ Head(call'[c]) = f /\ Tail(call'[c]) = Tail(call[c])
           /\ \A f, g : Then(c, <<f, g>>) =>
                /\ call'[c] # <<>> /\ Head(call'[c]) = f
                /\ Tail(call'[c]) # <<>> /\ Head(Tail(call'[c])) = g
                /\ Tail(Tail(call'[c])) = Tail(call[c])
<1>1. PICK k : k = Tail(call[c])
  OBVIOUS
<1>2. Frames(k)
  BY <1>1, TopFrame DEF CallShape
<1>3. \A fs : Then(c, fs) => call'[c] = fs \o k
  BY <1>1 DEF CallShape, Then
<1>4. Return(c) => call'[c] = k
  <2>1. Return(c) => call'[c] = <<>> \o k
    BY <1>3, Zenon DEF Return
  <2>2. <<>> \o k = k
    BY <1>2, NonePut
  <2> QED BY <2>1, <2>2
<1>5. ASSUME NEW f, Then(c, <<f>>)
      PROVE  call'[c] # <<>> /\ Head(call'[c]) = f /\ Tail(call'[c]) = k
  <2>1. call'[c] = <<f>> \o k
    BY <1>3, <1>5, Zenon
  <2> QED BY <1>2, <2>1, OnePut
<1>6. ASSUME NEW f, NEW g, Then(c, <<f, g>>)
      PROVE  /\ call'[c] # <<>> /\ Head(call'[c]) = f
             /\ Tail(call'[c]) # <<>> /\ Head(Tail(call'[c])) = g
             /\ Tail(Tail(call'[c])) = k
  <2>1. call'[c] = <<f, g>> \o k
    BY <1>3, <1>6
  <2> QED BY <1>2, <2>1, TwoPut
<1> QED BY <1>1, <1>4, <1>5, <1>6, Zenon

(* Which stacks begin with which frame. *)
LEMMA FlowOf ==
    ASSUME NEW s, s # <<>>, Flow(s)
    PROVE  /\ Head(s).op \in {"navigate", "list"} => Goes(s) \/ Mirrors(s)
           /\ Head(s).op \in {"exists", "prompt", "mkdir"} => Asks(s)
           /\ Head(s).op = "unsync" => Mirrored(s)
           /\ Head(s).op = "restore" => Restores(s)
           /\ Head(s).op \in {"restoreRemote", "landed", "anchor"} => Settled(s) /\ Tail(s) = <<>>
           /\ Head(s).op \in {"parent", "connect", "trust", "opens", "disconnect"} => Begins(s)
BY DEF Flow, Settled, Waits, Goes, Going, Asks, Mirrors, Mirrored, Restores, Begins

Panes == <<active, local, lpath, rpath, sync, root>>

(* Panes that stay where they are correspond as they did. *)
LEMMA SamePanes ==
    ASSUME UNCHANGED Panes
    PROVE  /\ Paired => Paired'
           /\ OthersPaired => OthersPaired'
           /\ Here => Here'
           /\ \A f, g : f.side = g.side /\ f.path = g.path /\ MatchedBy(f) => MatchedBy(g)'
           /\ \A k : Waits(k) => Waits(k)'
           /\ \A f : Going(f) => Going(f)'
<1>1. \A t, l, r : Pairs(t, l, r)' <=> Pairs(t, l, r)
  BY DEF Panes, Pairs, SyncCounterpart
<1>2. \A t : Matched(t) => Matched(t)'
  BY <1>1 DEF Panes, Matched
<1>3. Paired => Paired'
  BY <1>2 DEF Paired
<1>4. OthersPaired => OthersPaired'
  BY <1>2 DEF OthersPaired, Panes
<1>5. ASSUME NEW f, NEW g, f.side = g.side, f.path = g.path, MatchedBy(f) PROVE MatchedBy(g)'
  BY <1>1, <1>5 DEF Panes, MatchedBy
<1>6. Here => Here'
  BY DEF Here, Panes
<1>7. ASSUME NEW k, Waits(k) PROVE Waits(k)'
  BY <1>7 DEF Waits, Panes
<1>8. ASSUME NEW f, Going(f) PROVE Going(f)'
  BY <1>8 DEF Going, Panes
<1> QED BY <1>3, <1>4, <1>5, <1>6, <1>7, <1>8

(* Where the other calls are over, the one left says all. *)
LEMMA OneFlowStep ==
    ASSUME CallShape(call), NEW c \in Call, call[c] # <<>>, Alone(c),
           \A d \in Call \ {c} : call'[d] = call[d],
           Types', \A z : z = call'[c] => Flow(z)'
    PROVE  OneFlow'
<1>1. PICK z : z = call'[c]
  OBVIOUS
<1>2. Flow(z)'
  BY <1>1
<1>3. Flow(call[c])'
  BY <1>1, <1>2 DEF Flow, Settled, Waits, Goes, Going, Asks, Mirrors, Mirrored, Restores,
         Begins, MatchedBy
<1>4. Alone(c)'
  BY DEF Alone
<1>5. ASSUME NEW d \in Call, call'[d] # <<>> PROVE d = c
  BY <1>5 DEF Alone
<1>6. AtRest' => Flow(<<>>)'
  <2> SUFFICES ASSUME AtRest' PROVE Flow(<<>>)'
    OBVIOUS
  <2>1. z = <<>>
    BY <1>1 DEF AtRest
  <2> QED BY <1>2, <2>1
<1> QED BY <1>3, <1>4, <1>5, <1>6 DEF OneFlow

(* The only call, in step with what its frames say. *)
Lone(c) == Types /\ CallShape(call) /\ call[c] # <<>> /\ Flow(call[c])

(* Most steps leave the tabs where they are. *)
LEMMA SameTypes ==
    ASSUME Types, UNCHANGED <<tabVars, local, dirs>>, syncing' \in BOOLEAN
    PROVE  Types'
BY DEF Types, tabVars

(* The active tab is one of those there may be. *)
LEMMA ActiveIsTab ==
    ASSUME Types, active # Null
    PROVE  active \in Tab /\ active \in 1..opened
BY TabsAssumption DEF TabsAssumption, Types, Tab

(* The tabs correspond if they do where they are now. *)
LEMMA PairedFrom ==
    ASSUME \A t \in Tab : \A l, r :
             sync'[t] /\ l = lpath'[t] /\ r = rpath'[t] => Pairs(t, l, r)'
    PROVE  Paired'
<1> SUFFICES ASSUME NEW t \in Tab, sync'[t] PROVE Pairs(t, lpath[t], rpath[t])'
  BY DEF Paired, Matched
<1>1. PICK l, r : l = lpath'[t] /\ r = rpath'[t]
  OBVIOUS
<1>2. Pairs(t, l, r)'
  BY <1>1
<1> QED BY <1>1, <1>2 DEF Pairs

(* The path navigated to becomes that of a listing asked for. *)
LEMMA NavigateFlows ==
    ASSUME NEW c \in Call, Lone(c), Navigate(c)
    PROVE  Types' /\ \A z : z = call'[c] => Flow(z)'
<1>1. PICK s, f, k : s = call[c] /\ f = Head(s) /\ k = Tail(s)
  OBVIOUS
<1>2. /\ Types /\ CallShape(call) /\ call[c] # <<>> /\ s # <<>> /\ Flow(s)
      /\ f = Top(c) /\ f.op = "navigate"
  BY <1>1 DEF Lone, Navigate, Due, Runs, Top
<1>3. UNCHANGED Panes /\ UNCHANGED <<tabVars, local, dirs, syncing>>
  BY DEF Navigate, Panes, tabVars, world
<1>4. Types'
  BY <1>2, <1>3, SameTypes DEF Types
<1>5. Goes(s) \/ Mirrors(s)
  BY <1>1, <1>2, FlowOf
<1> SUFFICES ASSUME NEW z, z = call'[c] PROVE Flow(z)'
  BY <1>4
<1>6. CASE f.side = "remote" /\ active = Null
  <2>1. z = k
    BY <1>1, <1>2, <1>6, CallIs DEF Navigate
  <2>2. Goes(s)
    BY <1>5, <1>6 DEF Mirrors
  <2>3. Settled(z)'
    BY <1>1, <1>3, <1>6, <2>1, <2>2, SamePanes DEF Goes, Settled, Here, Panes
  <2> QED BY <2>3 DEF Flow
<1>7. CASE ~(f.side = "remote" /\ active = Null)
  <2> PICK g : g = Frame("list", active, f.side, f.path, Null)
    OBVIOUS
  <2>1. z # <<>> /\ Head(z) = g /\ Tail(z) = k
    BY <1>1, <1>2, <1>7, CallIs DEF Navigate
  <2>2. Going(g)' /\ g.side = f.side /\ g.path = f.path
    BY <1>3, <1>7 DEF Going, Frame, Panes
  <2>3. CASE Goes(s)
    <3>1. Goes(z)'
      BY <1>1, <1>3, <2>1, <2>2, <2>3, SamePanes DEF Goes, Panes
    <3> QED BY <3>1 DEF Flow
  <2>4. CASE Mirrors(s)
    <3>1. Mirrors(z)'
      BY <1>1, <1>3, <2>1, <2>2, <2>4, SamePanes DEF Mirrors, Panes
    <3> QED BY <3>1 DEF Flow
  <2> QED BY <1>5, <2>3, <2>4
<1> QED BY <1>6, <1>7

(* The parent of the local directory is navigated to, if it has one. *)
LEMMA ParentFlows ==
    ASSUME NEW c \in Call, Lone(c), Parent(c)
    PROVE  Types' /\ \A z : z = call'[c] => Flow(z)'
<1>1. PICK s, f, k : s = call[c] /\ f = Head(s) /\ k = Tail(s)
  OBVIOUS
<1>2. /\ Types /\ CallShape(call) /\ call[c] # <<>> /\ s # <<>> /\ Flow(s)
      /\ f = Top(c) /\ f.op = "parent"
  BY <1>1 DEF Lone, Parent, Due, Answered, Runs, Top
<1>3. UNCHANGED Panes /\ UNCHANGED <<tabVars, local, dirs>> /\ syncing' = syncing
  BY DEF Parent, Panes, tabVars, paneVars, world
<1>4. Types'
  BY <1>2, <1>3, SameTypes DEF Types
<1>5. Begins(s) /\ k = <<>>
  BY <1>1, <1>2, FlowOf DEF Begins
<1> SUFFICES ASSUME NEW z, z = call'[c] PROVE Flow(z)'
  BY <1>4
<1>6. CASE Return(c)
  <2>1. z = k
    BY <1>1, <1>2, <1>6, CallIs
  <2>2. Settled(z)'
    BY <1>3, <1>5, <2>1, SamePanes DEF Begins, Settled, Waits
  <2> QED BY <2>2 DEF Flow
<1>7. CASE ~Return(c)
  <2>1. PICK g : g = Frame("navigate", Null, "local", Front(f.path), Null)
    OBVIOUS
  <2>2. Then(c, <<g>>)
    BY <1>2, <1>7, <2>1, Zenon DEF Parent, Return
  <2>3. z # <<>> /\ Head(z) = g /\ Tail(z) = k
    BY <1>1, <1>2, <2>2, CallIs
  <2>4. Going(g)
    BY <2>1 DEF Going, Frame
  <2>5. Goes(z)'
    BY <1>3, <1>5, <2>3, <2>4, SamePanes DEF Begins, Goes, Waits
  <2> QED BY <2>5 DEF Flow
<1> QED BY <1>6, <1>7

(* The counterpart is navigated to, or the user is asked about it. *)
LEMMA ExistsFlows ==
    ASSUME NEW c \in Call, Lone(c), Exists(c)
    PROVE  Types' /\ \A z : z = call'[c] => Flow(z)'
<1>1. PICK s, f, k : s = call[c] /\ f = Head(s) /\ k = Tail(s)
  OBVIOUS
<1>2. /\ Types /\ CallShape(call) /\ call[c] # <<>> /\ s # <<>> /\ Flow(s)
      /\ f = Top(c) /\ f.op = "exists"
  BY <1>1 DEF Lone, Exists, Due, Answered, Runs, Top
<1>3. UNCHANGED Panes /\ UNCHANGED <<tabVars, local, dirs>> /\ syncing' \in BOOLEAN
  BY <1>2 DEF Types, Exists, MirrorNavigates, Panes, tabVars, paneVars, world
<1>4. Types'
  BY <1>2, <1>3, SameTypes DEF Types
<1>5. Asks(s)
  BY <1>1, <1>2, FlowOf DEF Settled
<1> SUFFICES ASSUME NEW z, z = call'[c] PROVE Flow(z)'
  BY <1>4
<1>6. FrameOK(f)
  BY <1>2, TopOK
<1>7. CASE MirrorNavigates(c)
  <2>1. PICK go, end : /\ go = Frame("navigate", Null, f.side, f.path, Null)
                       /\ end = Frame("unsync", Null, Null, Null, Null)
    OBVIOUS
  <2>2. Then(c, <<go, end>>) /\ syncing'
    BY <1>2, <1>7, <2>1 DEF MirrorNavigates
  <2>3. /\ z # <<>> /\ Head(z) = go /\ Tail(z) # <<>> /\ Head(Tail(z)) = end
        /\ Tail(Tail(z)) = k
    BY <1>1, <1>2, <2>2, CallIs
  <2>4. Going(go) /\ go.side = f.side /\ go.path = f.path /\ end.op = "unsync"
    BY <2>1 DEF Going, Frame
  <2>5. Mirrors(z)'
    BY <1>1, <1>3, <1>5, <2>2, <2>3, <2>4, SamePanes DEF Asks, Mirrors, Panes
  <2> QED BY <2>5 DEF Flow
<1>8. CASE UNCHANGED syncing /\ Then(c, <<[Top(c) EXCEPT !.op = "prompt"]>>)
  <2>1. PICK g : g = [f EXCEPT !.op = "prompt"]
    OBVIOUS
  <2>2. z # <<>> /\ Head(z) = g /\ Tail(z) = k
    BY <1>1, <1>2, <1>8, <2>1, CallIs
  <2>3. g.op = "prompt" /\ g.tab = f.tab /\ g.side = f.side /\ g.path = f.path
    BY <1>6, <2>1 DEF FrameOK, Frame
  <2>4. Asks(z)'
    BY <1>1, <1>3, <1>5, <1>8, <2>2, <2>3, SamePanes DEF Asks, Panes
  <2> QED BY <2>4 DEF Flow
<1> QED BY <1>7, <1>8 DEF Exists

(* The directory is made in the active tab, which is still that of the prompt. *)
LEMMA PromptCreateFlows ==
    ASSUME NEW c \in Call, Lone(c), PromptCreate(c)
    PROVE  Types' /\ \A z : z = call'[c] => Flow(z)'
<1>1. PICK s, f, k : s = call[c] /\ f = Head(s) /\ k = Tail(s)
  OBVIOUS
<1>2. /\ Types /\ CallShape(call) /\ call[c] # <<>> /\ s # <<>> /\ Flow(s)
      /\ f = Top(c) /\ f.op = "prompt"
  BY <1>1 DEF Lone, PromptCreate, Due, Answered, Runs, Top
<1>3. UNCHANGED Panes /\ UNCHANGED <<tabVars, local, dirs>> /\ syncing' = syncing
  BY DEF PromptCreate, Panes, tabVars, paneVars, world
<1>4. Types'
  BY <1>2, <1>3, SameTypes DEF Types
<1>5. Asks(s)
  BY <1>1, <1>2, FlowOf DEF Settled
<1> SUFFICES ASSUME NEW z, z = call'[c] PROVE Flow(z)'
  BY <1>4
<1>6. FrameOK(f)
  BY <1>2, TopOK
<1>7. PICK g : g = [f EXCEPT !.op = "mkdir", !.tab = active]
  OBVIOUS
<1>8. z # <<>> /\ Head(z) = g /\ Tail(z) = k
  BY <1>1, <1>2, <1>7, CallIs DEF PromptCreate
<1>9. g.op = "mkdir" /\ g.tab = active /\ g.side = f.side /\ g.path = f.path
  BY <1>6, <1>7 DEF FrameOK, Frame
<1>10. Asks(z)'
  BY <1>1, <1>3, <1>5, <1>8, <1>9, SamePanes DEF Asks, Panes
<1> QED BY <1>10 DEF Flow

(* The guard is lowered when the mirror has moved. *)
LEMMA UnsyncFlows ==
    ASSUME NEW c \in Call, Lone(c), Unsync(c)
    PROVE  Types' /\ \A z : z = call'[c] => Flow(z)'
<1>1. PICK s, f, k : s = call[c] /\ f = Head(s) /\ k = Tail(s)
  OBVIOUS
<1>2. /\ Types /\ CallShape(call) /\ call[c] # <<>> /\ s # <<>> /\ Flow(s)
      /\ f = Top(c) /\ f.op = "unsync"
  BY <1>1 DEF Lone, Unsync, Due, Answered, Runs, Top
<1>3. UNCHANGED Panes /\ UNCHANGED <<tabVars, local, dirs>> /\ syncing' \in BOOLEAN
  BY DEF Unsync, Panes, tabVars, paneVars, world
<1>4. Types'
  BY <1>2, <1>3, SameTypes DEF Types
<1>5. Mirrored(s)
  BY <1>1, <1>2, FlowOf DEF Settled
<1> SUFFICES ASSUME NEW z, z = call'[c] PROVE Flow(z)'
  BY <1>4
<1>6. z = k
  BY <1>1, <1>2, CallIs DEF Unsync
<1>7. ~syncing'
  BY DEF Unsync
<1>8. Settled(z)'
  BY <1>1, <1>3, <1>5, <1>6, <1>7, SamePanes DEF Mirrored, Settled
<1> QED BY <1>8 DEF Flow

(* The local pane of the tab comes first, and the remote one waits. *)
LEMMA RestoreFlows ==
    ASSUME NEW c \in Call, Lone(c), Restore(c)
    PROVE  Types' /\ \A z : z = call'[c] => Flow(z)'
<1>1. PICK s, f, k : s = call[c] /\ f = Head(s) /\ k = Tail(s)
  OBVIOUS
<1>2. /\ Types /\ CallShape(call) /\ call[c] # <<>> /\ s # <<>> /\ Flow(s)
      /\ f = Top(c) /\ f.op = "restore"
  BY <1>1 DEF Lone, Restore, Due, Answered, Runs, Top
<1>3. UNCHANGED Panes /\ UNCHANGED <<tabVars, local, dirs>> /\ syncing' = syncing
  BY DEF Restore, Panes, tabVars, paneVars, world
<1>4. Types'
  BY <1>2, <1>3, SameTypes DEF Types
<1>5. Restores(s) /\ k = <<>>
  BY <1>1, <1>2, FlowOf DEF Restores
<1> SUFFICES ASSUME NEW z, z = call'[c] PROVE Flow(z)'
  BY <1>4
<1>6. PICK t, last : t = active /\ last = Frame("restoreRemote", t, Null, Null, Null)
  OBVIOUS
<1>7. f.tab = t /\ active' = t
  BY <1>1, <1>3, <1>5, <1>6 DEF Restores, Panes
<1>8. last.op = "restoreRemote" /\ last.tab = t
  BY <1>6 DEF Frame
<1>9. CASE t # Null /\ lpath[t] # local
  <2>1. PICK first : first = Frame("navigate", Null, "local", lpath[t], Null)
    OBVIOUS
  <2>2. Then(c, <<first, last>>)
    BY <1>2, <1>6, <1>7, <1>9, <2>1, Zenon DEF Restore
  <2>3. /\ z # <<>> /\ Head(z) = first /\ Tail(z) # <<>> /\ Head(Tail(z)) = last
        /\ Tail(Tail(z)) = k
    BY <1>1, <1>2, <2>2, CallIs
  <2>4. Going(first)' /\ first.side = "local" /\ first.path = lpath[t]
    BY <2>1 DEF Going, Frame
  <2>5. Waits(Tail(z))'
    BY <1>5, <1>7, <1>8, <2>3 DEF Waits
  <2>6. Goes(z)'
    BY <1>3, <1>5, <1>7, <1>9, <2>3, <2>4, <2>5, SamePanes DEF Restores, Goes, Panes
  <2> QED BY <2>6 DEF Flow
<1>10. CASE ~(t # Null /\ lpath[t] # local)
  <2>1. Then(c, <<last>>)
    BY <1>2, <1>6, <1>7, <1>10, Zenon DEF Restore
  <2>2. z # <<>> /\ Head(z) = last /\ Tail(z) = k
    BY <1>1, <1>2, <2>1, CallIs
  <2>3. Waits(z)' /\ Here'
    BY <1>3, <1>5, <1>6, <1>7, <1>8, <1>10, <2>2 DEF Waits, Here, Panes
  <2>4. Settled(z)'
    BY <1>3, <1>5, <2>3, SamePanes DEF Restores, Settled
  <2> QED BY <2>4 DEF Flow
<1> QED BY <1>9, <1>10

(* The remote pane of the tab follows. *)
LEMMA RestoreRemoteFlows ==
    ASSUME NEW c \in Call, Lone(c), RestoreRemote(c)
    PROVE  Types' /\ \A z : z = call'[c] => Flow(z)'
<1>1. PICK s, f, k : s = call[c] /\ f = Head(s) /\ k = Tail(s)
  OBVIOUS
<1>2. /\ Types /\ CallShape(call) /\ call[c] # <<>> /\ s # <<>> /\ Flow(s)
      /\ f = Top(c) /\ f.op = "restoreRemote"
  BY <1>1 DEF Lone, RestoreRemote, Due, Answered, Runs, Top
<1>3. UNCHANGED Panes /\ UNCHANGED <<tabVars, local, dirs>> /\ syncing' = syncing
  BY DEF RestoreRemote, Panes, tabVars, paneVars, world
<1>4. Types'
  BY <1>2, <1>3, SameTypes DEF Types
<1>5. Settled(s) /\ k = <<>>
  BY <1>1, <1>2, FlowOf DEF Settled
<1> SUFFICES ASSUME NEW z, z = call'[c] PROVE Flow(z)'
  BY <1>4
<1>6. CASE Return(c)
  <2>1. z = k
    BY <1>1, <1>2, <1>6, CallIs
  <2>2. Settled(z)'
    BY <1>3, <1>5, <2>1, SamePanes DEF Settled, Waits
  <2> QED BY <2>2 DEF Flow
<1>7. CASE ~Return(c)
  <2>1. PICK g : g = Frame("navigate", Null, "remote", rpath[f.tab], Null)
    OBVIOUS
  <2>2. Then(c, <<g>>)
    BY <1>2, <1>7, <2>1 DEF RestoreRemote
  <2>3. z # <<>> /\ Head(z) = g /\ Tail(z) = k
    BY <1>1, <1>2, <2>2, CallIs
  <2>4. Going(g)
    BY <2>1 DEF Going, Frame
  <2>5. Goes(z)'
    BY <1>3, <1>5, <2>3, <2>4, SamePanes DEF Settled, Goes, Waits
  <2> QED BY <2>5 DEF Flow
<1> QED BY <1>6, <1>7

(* A tab that is no longer synchronised has nothing to keep to. *)
LEMMA PromptDisableFlows ==
    ASSUME NEW c \in Call, Lone(c), PromptDisable(c)
    PROVE  Types' /\ \A z : z = call'[c] => Flow(z)'
<1>1. PICK s, f, k : s = call[c] /\ f = Head(s) /\ k = Tail(s)
  OBVIOUS
<1>2. /\ Types /\ CallShape(call) /\ call[c] # <<>> /\ s # <<>> /\ Flow(s)
      /\ f = Top(c) /\ f.op = "prompt"
  BY <1>1 DEF Lone, PromptDisable, Due, Answered, Runs, Top
<1>3. /\ UNCHANGED <<active, local, lpath, rpath, root, tabs, opened, dirs, syncing>>
      /\ sync' = [sync EXCEPT ![f.tab] = FALSE]
  BY <1>2 DEF PromptDisable, paneVars, world
<1>4. Types'
  BY <1>2, <1>3 DEF Types
<1>5. Asks(s)
  BY <1>1, <1>2, FlowOf
<1> SUFFICES ASSUME NEW z, z = call'[c] PROVE Flow(z)'
  BY <1>4
<1>6. z = k
  BY <1>1, <1>2, CallIs DEF PromptDisable
<1>7. active \in Tab /\ f.tab = active /\ sync \in [Tab -> BOOLEAN]
  BY <1>1, <1>2, <1>5, ActiveIsTab DEF Asks, Types
<1>8. ~sync'[active] /\ \A t \in Tab \ {active} : sync'[t] = sync[t]
  BY <1>3, <1>7
<1>9. \A t, l, r : Pairs(t, l, r)' <=> Pairs(t, l, r)
  BY <1>3 DEF Pairs, SyncCounterpart
<1>10. Paired'
  <2> SUFFICES ASSUME NEW t \in Tab, NEW l, NEW r, sync'[t], l = lpath'[t], r = rpath'[t]
               PROVE  Pairs(t, l, r)'
    BY PairedFrom
  <2>1. t # active /\ sync[t]
    BY <1>8
  <2>2. Pairs(t, l, r)
    BY <1>3, <1>5, <2>1 DEF Asks, OthersPaired, Matched
  <2> QED BY <1>9, <2>2
<1>11. Waits(k)'
  BY <1>1, <1>3, <1>5, <1>8 DEF Asks, Waits
<1>12. Settled(z)'
  BY <1>3, <1>5, <1>6, <1>10, <1>11 DEF Asks, Settled, Here
<1> QED BY <1>12 DEF Flow

(* The directory made is a path, and is navigated to. *)
LEMMA MadeDirFlows ==
    ASSUME NEW c \in Call, Lone(c), MadeDir(c), ~parted'
    PROVE  Types' /\ \A z : z = call'[c] => Flow(z)'
<1>1. PICK s, f, k : s = call[c] /\ f = Head(s) /\ k = Tail(s)
  OBVIOUS
<1>2. /\ Types /\ CallShape(call) /\ call[c] # <<>> /\ s # <<>> /\ Flow(s)
      /\ f = Top(c) /\ f.op = "mkdir"
  BY <1>1 DEF Lone, MadeDir, Due, Answered, Runs, Top
<1>3. Asks(s)
  BY <1>1, <1>2, FlowOf
<1>4. /\ UNCHANGED Panes /\ UNCHANGED <<tabVars, local>> /\ MirrorNavigates(c)
      /\ dirs' = [dirs EXCEPT ![On(f.side, f.tab)] = @ \cup {f.path}]
  BY <1>2 DEF MadeDir, Panes, tabVars, paneVars
<1>5. f.path \in Seq(Name)
  BY <1>1, <1>3 DEF Asks
<1>6. Types'
  <2>1. dirs' \in [Tab \cup {Local} -> SUBSET Seq(Name)]
    BY <1>2, <1>4, <1>5 DEF Types
  <2> QED BY <1>2, <1>4, <2>1 DEF Types, tabVars, MirrorNavigates
<1> SUFFICES ASSUME NEW z, z = call'[c] PROVE Flow(z)'
  BY <1>6
<1>7. PICK go, end : /\ go = Frame("navigate", Null, f.side, f.path, Null)
                     /\ end = Frame("unsync", Null, Null, Null, Null)
  OBVIOUS
<1>8. Then(c, <<go, end>>) /\ syncing'
  BY <1>2, <1>4, <1>7 DEF MirrorNavigates
<1>9. /\ z # <<>> /\ Head(z) = go /\ Tail(z) # <<>> /\ Head(Tail(z)) = end
      /\ Tail(Tail(z)) = k
  BY <1>1, <1>2, <1>8, CallIs
<1>10. Going(go) /\ go.side = f.side /\ go.path = f.path /\ end.op = "unsync"
  BY <1>7 DEF Going, Frame
<1>11. Mirrors(z)'
  BY <1>1, <1>3, <1>4, <1>8, <1>9, <1>10, SamePanes DEF Asks, Mirrors, Panes
<1> QED BY <1>11 DEF Flow

(* Dialing, asking and failing leave the panes alone. *)
LEMMA DialingFlows ==
    ASSUME NEW c \in Call, Lone(c), ConnectAsks(c) \/ Trusted(c) \/ ConnectFails(c)
    PROVE  Types' /\ \A z : z = call'[c] => Flow(z)'
<1>1. PICK s, f, k : s = call[c] /\ f = Head(s) /\ k = Tail(s)
  OBVIOUS
<1>2. /\ Types /\ CallShape(call) /\ call[c] # <<>> /\ s # <<>> /\ Flow(s)
      /\ f = Top(c) /\ f.op \in {"connect", "trust"}
  BY <1>1 DEF Lone, ConnectAsks, Trusted, ConnectFails, Due, Answered, Runs, Top
<1>3. UNCHANGED Panes /\ UNCHANGED <<tabVars, local, dirs>> /\ syncing' = syncing
  BY DEF ConnectAsks, Trusted, ConnectFails, Panes, tabVars, paneVars, world
<1>4. Types'
  BY <1>2, <1>3, SameTypes DEF Types
<1>5. Begins(s) /\ k = <<>>
  BY <1>1, <1>2, FlowOf DEF Begins
<1> SUFFICES ASSUME NEW z, z = call'[c] PROVE Flow(z)'
  BY <1>4
<1>6. FrameOK(f)
  BY <1>2, TopOK
<1>7. PICK ask, dial : /\ ask = [f EXCEPT !.op = "trust"]
                       /\ dial = [f EXCEPT !.op = "connect", !.side = "remote"]
  OBVIOUS
<1>8. ask.op = "trust" /\ dial.op = "connect"
  BY <1>6, <1>7 DEF FrameOK, Frame
<1>9. CASE Return(c)
  <2>1. z = k
    BY <1>1, <1>2, <1>9, CallIs
  <2>2. Settled(z)'
    BY <1>3, <1>5, <2>1, SamePanes DEF Begins, Settled, Waits
  <2> QED BY <2>2 DEF Flow
<1>10. CASE ~Return(c)
  <2>1. Then(c, <<ask>>) \/ Then(c, <<dial>>)
    BY <1>2, <1>7, <1>10, Zenon DEF ConnectAsks, Trusted, ConnectFails
  <2>2. z # <<>> /\ Head(z) \in {ask, dial} /\ Tail(z) = k
    BY <1>1, <1>2, <2>1, CallIs
  <2>3. Begins(z)'
    BY <1>3, <1>5, <1>8, <2>2, SamePanes DEF Begins
  <2> QED BY <2>3 DEF Flow
<1> QED BY <1>9, <1>10

(* The start directory found is navigated to, in the tab just opened. *)
LEMMA StartDirFlows ==
    ASSUME NEW c \in Call, Lone(c), StartDir(c)
    PROVE  Types' /\ \A z : z = call'[c] => Flow(z)'
<1>1. PICK s, f, k : s = call[c] /\ f = Head(s) /\ k = Tail(s)
  OBVIOUS
<1>2. /\ Types /\ CallShape(call) /\ call[c] # <<>> /\ s # <<>> /\ Flow(s)
      /\ f = Top(c) /\ f.op = "opens"
  BY <1>1 DEF Lone, StartDir, Due, Answered, Runs, Top
<1>3. UNCHANGED Panes /\ UNCHANGED <<tabVars, local, dirs>> /\ syncing' = syncing
  BY DEF StartDir, Panes, tabVars, paneVars, world
<1>4. Types'
  BY <1>2, <1>3, SameTypes DEF Types
<1>5. Begins(s) /\ k = <<>>
  BY <1>1, <1>2, FlowOf DEF Begins
<1> SUFFICES ASSUME NEW z, z = call'[c] PROVE Flow(z)'
  BY <1>4
<1>6. FrameOK(f) /\ f.tab = active /\ active # Null /\ ~sync[active]
  BY <1>1, <1>2, <1>5, TopOK DEF Begins
<1>7. PICK there, home, land, look :
        /\ there = Frame("navigate", Null, "remote", f.path, Null)
        /\ home = Frame("navigate", Null, "remote", Home, Null)
        /\ land = Frame("landed", f.tab, Null, Null, f.site)
        /\ look = [f EXCEPT !.path = Home \o f.site.remoteDir]
  OBVIOUS
<1>8. /\ there.op = "navigate" /\ home.op = "navigate" /\ land.op = "landed" /\ land.tab = active
      /\ look.op = "opens" /\ look.tab = active
  BY <1>2, <1>6, <1>7 DEF FrameOK, Frame
<1>9. Then(c, <<there, land>>) \/ Then(c, <<home, land>>) \/ Then(c, <<look>>)
  BY <1>2, <1>7 DEF StartDir
<1>10. CASE Then(c, <<there, land>>) \/ Then(c, <<home, land>>)
  <2>1. /\ z # <<>> /\ Head(z) \in {there, home} /\ Tail(z) # <<>> /\ Head(Tail(z)) = land
        /\ Tail(Tail(z)) = k
    BY <1>1, <1>2, <1>10, CallIs
  <2>2. Waits(Tail(z))' /\ Going(Head(z))'
    BY <1>3, <1>5, <1>6, <1>8, <2>1 DEF Waits, Going, Panes
  <2>3. Goes(z)'
    BY <1>3, <1>5, <2>1, <2>2, SamePanes DEF Begins, Goes
  <2> QED BY <2>3 DEF Flow
<1>11. CASE Then(c, <<look>>)
  <2>1. z # <<>> /\ Head(z) = look /\ Tail(z) = k
    BY <1>1, <1>2, <1>11, CallIs
  <2>2. Begins(z)'
    BY <1>3, <1>5, <1>6, <1>8, <2>1, SamePanes DEF Begins, Panes
  <2> QED BY <2>2 DEF Flow
<1> QED BY <1>9, <1>10, <1>11

(* The site's local directory follows, before the panes are anchored. *)
LEMMA LandedFlows ==
    ASSUME NEW c \in Call, Lone(c), Landed(c)
    PROVE  Types' /\ \A z : z = call'[c] => Flow(z)'
<1>1. PICK s, f, k : s = call[c] /\ f = Head(s) /\ k = Tail(s)
  OBVIOUS
<1>2. /\ Types /\ CallShape(call) /\ call[c] # <<>> /\ s # <<>> /\ Flow(s)
      /\ f = Top(c) /\ f.op = "landed"
  BY <1>1 DEF Lone, Landed, Due, Answered, Runs, Top
<1>3. UNCHANGED Panes /\ UNCHANGED <<tabVars, local, dirs>> /\ syncing' = syncing
  BY DEF Landed, Panes, tabVars, paneVars, world
<1>4. Types'
  BY <1>2, <1>3, SameTypes DEF Types
<1>5. Settled(s) /\ k = <<>>
  BY <1>1, <1>2, FlowOf
<1> SUFFICES ASSUME NEW z, z = call'[c] PROVE Flow(z)'
  BY <1>4
<1>6. FrameOK(f) /\ f.tab = active /\ active # Null /\ ~sync[active]
  BY <1>1, <1>2, <1>5, TopOK DEF Settled, Waits
<1>7. PICK go, anchor : /\ go = Frame("navigate", Null, "local", f.site.localDir, Null)
                        /\ anchor = [f EXCEPT !.op = "anchor"]
  OBVIOUS
<1>8. go.op = "navigate" /\ anchor.op = "anchor" /\ anchor.tab = active
  BY <1>6, <1>7 DEF FrameOK, Frame
<1>9. Then(c, <<go, anchor>>) \/ Then(c, <<anchor>>)
  BY <1>2, <1>7 DEF Landed
<1>10. CASE Then(c, <<go, anchor>>)
  <2>1. /\ z # <<>> /\ Head(z) = go /\ Tail(z) # <<>> /\ Head(Tail(z)) = anchor
        /\ Tail(Tail(z)) = k
    BY <1>1, <1>2, <1>10, CallIs
  <2>2. Waits(Tail(z))' /\ Going(Head(z))'
    BY <1>3, <1>5, <1>6, <1>8, <2>1 DEF Waits, Going, Panes
  <2>3. Goes(z)'
    BY <1>3, <1>5, <2>1, <2>2, SamePanes DEF Settled, Goes
  <2> QED BY <2>3 DEF Flow
<1>11. CASE Then(c, <<anchor>>)
  <2>1. z # <<>> /\ Head(z) = anchor /\ Tail(z) = k
    BY <1>1, <1>2, <1>11, CallIs
  <2>2. Waits(z)'
    BY <1>3, <1>5, <1>6, <1>8, <2>1 DEF Waits, Panes
  <2>3. Settled(z)'
    BY <1>3, <1>5, <2>2, SamePanes DEF Settled
  <2> QED BY <2>3 DEF Flow
<1> QED BY <1>9, <1>10, <1>11

(* Anchored panes correspond: each stands at its root. *)
LEMMA AnchorFlows ==
    ASSUME NEW c \in Call, Lone(c), Anchor(c)
    PROVE  Types' /\ \A z : z = call'[c] => Flow(z)'
<1>1. PICK s, f, k : s = call[c] /\ f = Head(s) /\ k = Tail(s)
  OBVIOUS
<1>2. /\ Types /\ CallShape(call) /\ call[c] # <<>> /\ s # <<>> /\ Flow(s)
      /\ f = Top(c) /\ f.op = "anchor"
  BY <1>1 DEF Lone, Anchor, Due, Answered, Runs, Top
<1>3. Settled(s) /\ k = <<>>
  BY <1>1, <1>2, FlowOf
<1>4. f.tab = active /\ active # Null /\ ~sync[active]
  BY <1>1, <1>2, <1>3 DEF Settled, Waits
<1>5. UNCHANGED <<active, local, lpath, rpath, tabs, opened, dirs, syncing>>
  BY DEF Anchor, paneVars, world
<1>6. active \in Tab /\ active \in 1..opened /\ lpath[active] = local
  BY <1>2, <1>3, <1>4, ActiveIsTab DEF Settled, Here
<1>7. \/ UNCHANGED <<sync, root>>
      \/ /\ sync' = [sync EXCEPT ![active] = TRUE]
         /\ root' = [root EXCEPT ![active] = [local |-> local, remote |-> rpath[active]]]
  BY <1>2, <1>4, Zenon DEF Anchor
<1>8. Types'
  <2>1. [local |-> local, remote |-> rpath[active]] \in [local : PathOrNull, remote : PathOrNull]
    BY <1>2, <1>6 DEF Types, PathOrNull
  <2>2. root' \in [Tab -> [local : PathOrNull, remote : PathOrNull]]
    BY <1>2, <1>7, <2>1 DEF Types
  <2>3. sync' \in [Tab -> BOOLEAN] /\ \A t \in Tab \ {active} : sync'[t] = sync[t]
    BY <1>2, <1>7 DEF Types
  <2>4. \A t \in Tab : t > opened => t # active /\ ~sync[t]
    BY <1>2, <1>6 DEF Types, Tab
  <2> QED BY <1>2, <1>5, <2>2, <2>3, <2>4 DEF Types
<1> SUFFICES ASSUME NEW z, z = call'[c] PROVE Flow(z)'
  BY <1>8
<1>9. z = <<>>
  BY <1>1, <1>2, <1>3, CallIs DEF Anchor
<1>10. CASE UNCHANGED <<sync, root>>
  <2>1. UNCHANGED Panes
    BY <1>5, <1>10 DEF Panes
  <2>2. Settled(z)'
    BY <1>3, <1>5, <1>9, <2>1, SamePanes DEF Settled, Waits
  <2> QED BY <2>2 DEF Flow
<1>11. CASE /\ sync' = [sync EXCEPT ![active] = TRUE]
            /\ root' = [root EXCEPT ![active] = [local |-> local, remote |-> rpath[active]]]
  <2>1. \A t \in Tab \ {active} : sync'[t] = sync[t] /\ root'[t] = root[t]
    BY <1>2, <1>11 DEF Types
  <2>2. root'[active] = [local |-> local, remote |-> rpath[active]]
    BY <1>2, <1>6, <1>11 DEF Types
  <2>3. \A t, l, r : t = active /\ l = lpath'[t] /\ r = rpath'[t] => Pairs(t, l, r)'
    <3> SUFFICES ASSUME NEW t, NEW l, NEW r, t = active, l = local, r = rpath[active]
                 PROVE  Pairs(t, l, r)'
      BY <1>5, <1>6
    <3>1. /\ l \in Seq(Name) /\ r \in PathOrNull
          /\ root'[t]["local"] = l /\ root'[t]["remote"] = r /\ Other("local") = "remote"
      BY <1>2, <1>6, <2>2 DEF Types, Other
    <3>2. CASE r = Null
      <4>1. SyncCounterpart("local", l, t)' = Null
        BY <3>1, <3>2 DEF SyncCounterpart
      <4> QED BY <4>1 DEF Pairs
    <3>3. CASE r # Null
      <4>1. r \in Seq(Name)
        BY <3>1, <3>3 DEF PathOrNull
      <4>2. SubSeq(l, Len(l) + 1, Len(l)) = <<>> /\ r \o <<>> = r
        BY <3>1, <4>1
      <4>3. RelativeUnder(l, l) \in {<<>>, Null}
        BY <4>2 DEF RelativeUnder
      <4>4. SyncCounterpart("local", l, t)' \in {Null, r}
        BY <3>1, <4>2, <4>3 DEF SyncCounterpart, JoinUnder
      <4> QED BY <4>4 DEF Pairs
    <3> QED BY <3>2, <3>3
  <2>4. Paired'
    <3> SUFFICES ASSUME NEW t \in Tab, NEW l, NEW r, sync'[t], l = lpath'[t], r = rpath'[t]
                 PROVE  Pairs(t, l, r)'
      BY PairedFrom
    <3>1. CASE t = active
      BY <2>3, <3>1
    <3>2. CASE t # active
      <4>1. sync[t] /\ root'[t] = root[t]
        BY <2>1, <3>2
      <4>2. Pairs(t, l, r)
        BY <1>3, <1>5, <4>1 DEF Settled, Paired, Matched
      <4> QED BY <4>1, <4>2 DEF Pairs, SyncCounterpart
    <3> QED BY <3>1, <3>2
  <2>5. Settled(z)'
    BY <1>3, <1>5, <1>9, <2>4 DEF Settled, Waits, Here
  <2> QED BY <2>5 DEF Flow
<1> QED BY <1>7, <1>10, <1>11

(* syncMirror asks for the counterpart that is missing, and for none if there is no need. *)
LEMMA MirrorSays ==
    ASSUME Types, NEW t \in Tab, t = active, active # Null, ~syncing, NEW side \in Sides,
           NEW p \in Seq(Name), side = "remote" => lpath[t] = local
    PROVE  \/ /\ Mirror(t, side, p) = <<>>
              /\ sync[t] => IF side = "local" THEN Pairs(t, p, rpath[t])
                            ELSE Pairs(t, lpath[t], p)
           \/ \E g : /\ Mirror(t, side, p) = <<g>>
                     /\ g.op = "exists" /\ g.tab = t /\ g.path \in Seq(Name)
                     /\ side = "local" => g.side = "remote" /\ Pairs(t, p, g.path)
                     /\ side = "remote" => g.side = "local" /\ Pairs(t, g.path, p)
<1> DEFINE there == SyncCounterpart(side, p, t)
           now == IF side = "remote" THEN local ELSE RemotePath(t)
           g == Frame("exists", t, Other(side), there, Null)
<1>1. Mirror(t, side, p) = IF sync[t] /\ there # Null /\ now # there THEN <<g>> ELSE <<>>
  BY DEF Mirror
<1>2. t # Null
  OBVIOUS
<1>3. there # Null => there \in Seq(Name) /\ SyncCounterpart(Other(side), there, t) = p
  BY ThereAndBack
<1>4. Other("local") = "remote" /\ Other("remote") = "local"
  BY DEF Other
<1>5. g.op = "exists" /\ g.tab = t /\ g.path = there /\ g.side = Other(side)
  BY DEF Frame
<1> HIDE DEF g
<1>6. CASE sync[t] /\ there # Null /\ now # there
  <2>1. Mirror(t, side, p) = <<g>>
    BY <1>1, <1>6
  <2>2. side = "local" => Pairs(t, p, there)
    BY DEF Pairs
  <2>3. side = "remote" => Pairs(t, there, p)
    BY <1>3, <1>4, <1>6 DEF Pairs
  <2> HIDE DEF there
  <2> QED BY <1>3, <1>4, <1>5, <1>6, <2>1, <2>2, <2>3
<1>7. CASE ~(sync[t] /\ there # Null /\ now # there)
  <2>1. Mirror(t, side, p) = <<>>
    BY <1>1, <1>7
  <2>2. ASSUME sync[t], side = "local" PROVE Pairs(t, p, rpath[t])
    BY <1>2, <1>7, <2>2 DEF Pairs, RemotePath
  <2>3. ASSUME sync[t], side = "remote" PROVE Pairs(t, lpath[t], p)
    BY <1>3, <1>4, <1>7, <2>3 DEF Pairs
  <2> QED BY <2>1, <2>2, <2>3 DEF Sides
<1> QED BY <1>6, <1>7

(* A listing moves the pane of the active tab, and its mirror follows if it must. *)
LEMMA ListedFlows ==
    ASSUME NEW c \in Call, Lone(c), Listed(c)
    PROVE  Types' /\ \A z : z = call'[c] => Flow(z)'
<1>1. PICK s, f, k : s = call[c] /\ f = Head(s) /\ k = Tail(s)
  OBVIOUS
<1>2. /\ Types /\ CallShape(call) /\ call[c] # <<>> /\ s # <<>> /\ Flow(s)
      /\ f = Top(c) /\ f.op = "list"
  BY <1>1 DEF Lone, Listed, Answered, Runs, Top
<1>3. Goes(s) \/ Mirrors(s)
  BY <1>1, <1>2, FlowOf
<1>4. f.tab = active /\ (f.side = "remote" => active # Null) /\ f.side \in Sides
  <2>1. Going(f)
    BY <1>1, <1>3 DEF Goes, Mirrors
  <2>2. f.side \in Sides
    BY <1>2, TopSided DEF Listed, Answered, Sided
  <2> QED BY <1>2, <2>1, <2>2 DEF Going
<1>5. active # Null => active \in Tab
  BY <1>2, ActiveIsTab
<1>6. f.path \in Seq(Name)
  <2>1. f.path \in dirs[On(f.side, f.tab)] /\ On(f.side, f.tab) \in Tab \cup {Local}
    BY <1>2, <1>4, <1>5 DEF Listed, On, Sides
  <2> QED BY <1>2, <2>1 DEF Types
<1>7. /\ UNCHANGED <<tabs, active, sync, root, opened, syncing, dirs>>
      /\ Then(c, Mirror(active, f.side, f.path))
      /\ f.side = "local" =>
           /\ local' = f.path /\ rpath' = rpath
           /\ lpath' = IF active = Null THEN lpath ELSE [lpath EXCEPT ![active] = f.path]
      /\ f.side = "remote" =>
           /\ rpath' = [rpath EXCEPT ![active] = f.path] /\ UNCHANGED <<local, lpath>>
  BY <1>2, <1>4 DEF Listed, ListedFresh, world, Sides
<1>8. /\ lpath' \in [Tab -> PathOrNull] /\ rpath' \in [Tab -> PathOrNull] /\ local' \in Seq(Name)
      /\ \A t \in Tab \ {active} : lpath'[t] = lpath[t] /\ rpath'[t] = rpath[t]
      /\ active # Null /\ f.side = "local" =>
           lpath'[active] = f.path /\ rpath'[active] = rpath[active]
      /\ active # Null /\ f.side = "remote" =>
           lpath'[active] = lpath[active] /\ rpath'[active] = f.path
  BY <1>2, <1>4, <1>5, <1>6, <1>7 DEF Types, Sides, PathOrNull
<1>9. Types'
  BY <1>2, <1>7, <1>8 DEF Types
<1> SUFFICES ASSUME NEW z, z = call'[c] PROVE Flow(z)'
  BY <1>9
<1>10. \A t, l, r : Pairs(t, l, r)' <=> Pairs(t, l, r)
  BY <1>7 DEF Pairs, SyncCounterpart
<1>11. Waits(k) => Waits(k)'
  BY <1>7 DEF Waits
<1>12. OthersPaired
  BY <1>3 DEF Goes, Mirrors, Paired, OthersPaired
<1>13. OthersPaired'
  <2> SUFFICES ASSUME NEW t \in Tab \ {active}, sync[t] PROVE Pairs(t, lpath[t], rpath[t])'
    BY <1>7 DEF OthersPaired, Matched
  <2>1. PICK l, r : l = lpath[t] /\ r = rpath[t]
    OBVIOUS
  <2>2. Pairs(t, l, r)'
    BY <1>10, <1>12, <2>1 DEF OthersPaired, Matched
  <2> QED BY <1>8, <2>1, <2>2 DEF Pairs
<1>14. ASSUME active # Null,
              sync[active] => IF f.side = "local" THEN Pairs(active, f.path, rpath[active])
                              ELSE Pairs(active, lpath[active], f.path)
       PROVE  Paired'
  <2> SUFFICES ASSUME NEW t \in Tab, NEW l, NEW r, sync'[t], l = lpath'[t], r = rpath'[t]
               PROVE  Pairs(t, l, r)'
    BY PairedFrom
  <2>1. Pairs(t, l, r)
    <3>1. CASE t = active
      BY <1>4, <1>7, <1>8, <1>14, <3>1 DEF Sides
    <3>2. CASE t # active
      BY <1>7, <1>8, <1>12, <3>2 DEF OthersPaired, Matched
    <3> QED BY <3>1, <3>2
  <2> QED BY <1>10, <2>1
<1>15. CASE active = Null
  <2>1. Goes(s) /\ f.side = "local"
    BY <1>3, <1>4, <1>15 DEF Mirrors, Sides
  <2>2. Mirror(active, f.side, f.path) = <<>>
    BY <1>15 DEF Mirror
  <2>3. z = k
    BY <1>1, <1>2, <1>7, <2>2, CallIs DEF Return
  <2>4. Paired'
    <3> SUFFICES ASSUME NEW t \in Tab, NEW l, NEW r, sync'[t], l = lpath'[t], r = rpath'[t]
                 PROVE  Pairs(t, l, r)'
      BY PairedFrom
    <3>1. Pairs(t, l, r)
      BY <1>7, <1>15, <2>1 DEF Goes, Paired, Matched
    <3> QED BY <1>10, <3>1
  <2>5. Settled(z)'
    BY <1>1, <1>7, <1>11, <1>15, <2>1, <2>3, <2>4 DEF Goes, Settled, Here
  <2> QED BY <2>5 DEF Flow
<1>16. CASE active # Null /\ Goes(s)
  <2>1. f.side = "remote" => lpath[active] = local
    BY <1>1, <1>16 DEF Goes, Here
  <2>2. Here'
    BY <1>4, <1>7, <1>8, <1>16, <2>1 DEF Here, Sides
  <2>3. ~syncing /\ Waits(k)
    BY <1>1, <1>16 DEF Goes
  <2>4. \/ /\ Mirror(active, f.side, f.path) = <<>>
           /\ sync[active] => IF f.side = "local" THEN Pairs(active, f.path, rpath[active])
                              ELSE Pairs(active, lpath[active], f.path)
        \/ \E g : /\ Mirror(active, f.side, f.path) = <<g>>
                  /\ g.op = "exists" /\ g.tab = active /\ g.path \in Seq(Name)
                  /\ f.side = "local" => g.side = "remote" /\ Pairs(active, f.path, g.path)
                  /\ f.side = "remote" => g.side = "local" /\ Pairs(active, g.path, f.path)
    BY <1>2, <1>4, <1>5, <1>6, <1>16, <2>1, <2>3, MirrorSays
  <2>5. CASE /\ Mirror(active, f.side, f.path) = <<>>
             /\ sync[active] => IF f.side = "local" THEN Pairs(active, f.path, rpath[active])
                                ELSE Pairs(active, lpath[active], f.path)
    <3>1. z = k
      BY <1>1, <1>2, <1>7, <2>5, CallIs DEF Return
    <3>2. Settled(z)'
      BY <1>7, <1>11, <1>14, <1>16, <2>2, <2>3, <2>5, <3>1 DEF Settled
    <3> QED BY <3>2 DEF Flow
  <2>6. CASE \E g : /\ Mirror(active, f.side, f.path) = <<g>>
                    /\ g.op = "exists" /\ g.tab = active /\ g.path \in Seq(Name)
                    /\ f.side = "local" => g.side = "remote" /\ Pairs(active, f.path, g.path)
                    /\ f.side = "remote" => g.side = "local" /\ Pairs(active, g.path, f.path)
    <3>1. PICK g : /\ Mirror(active, f.side, f.path) = <<g>>
                   /\ g.op = "exists" /\ g.tab = active /\ g.path \in Seq(Name)
                   /\ f.side = "local" => g.side = "remote" /\ Pairs(active, f.path, g.path)
                   /\ f.side = "remote" => g.side = "local" /\ Pairs(active, g.path, f.path)
      BY <2>6
    <3>2. Then(c, <<g>>)
      BY <1>7, <3>1
    <3>3. z # <<>> /\ Head(z) = g /\ Tail(z) = k
      BY <1>1, <1>2, <3>2, CallIs
    <3>4. MatchedBy(g)'
      <4> SUFFICES ASSUME NEW t, NEW l, NEW r, t = active,
                          l = IF g.side = "local" THEN g.path ELSE lpath'[active],
                          r = IF g.side = "local" THEN rpath'[active] ELSE g.path
                   PROVE  Pairs(t, l, r)'
        BY <1>7 DEF MatchedBy, Pairs, SyncCounterpart
      <4>1. Pairs(t, l, r)
        BY <1>4, <1>8, <1>16, <3>1 DEF Sides
      <4> QED BY <1>10, <4>1
    <3>5. Asks(z)'
      BY <1>7, <1>11, <1>13, <1>16, <2>2, <2>3, <3>1, <3>3, <3>4 DEF Asks
    <3> QED BY <3>5 DEF Flow
  <2> QED BY <2>4, <2>5, <2>6
<1>17. CASE Mirrors(s)
  <2>1. /\ active # Null /\ syncing /\ Here /\ MatchedBy(f) /\ k # <<>>
        /\ Head(k).op = "unsync" /\ Waits(Tail(k))
    BY <1>1, <1>17 DEF Mirrors
  <2>2. Mirror(active, f.side, f.path) = <<>>
    BY <2>1 DEF Mirror
  <2>3. z = k
    BY <1>1, <1>2, <1>7, <2>2, CallIs DEF Return
  <2>4. Here'
    BY <1>4, <1>7, <1>8, <2>1 DEF Here, Sides
  <2>5. Paired'
    BY <1>14, <2>1 DEF MatchedBy
  <2>6. Waits(Tail(k))'
    BY <1>7, <2>1 DEF Waits
  <2>7. Mirrored(z)'
    BY <1>7, <2>1, <2>3, <2>4, <2>5, <2>6 DEF Mirrored
  <2> QED BY <2>7 DEF Flow
<1> QED BY <1>3, <1>15, <1>16, <1>17

(* The last of the tabs left is one of them, if there is one. *)
LEMMA NextTab ==
    ASSUME NEW n \in Nat, tabs \in Seq(1..n), NEW t
    PROVE  Without(t) \in Seq(1..n) /\ LastOf(Without(t)) \in (1..n) \cup {Null}
<1>1. Without(t) \in Seq(1..n)
  <2>1. CASE IsOpen(t)
    <3>1. PICK i \in DOMAIN tabs : i = CHOOSE j \in DOMAIN tabs : tabs[j] = t
      BY <2>1 DEF IsOpen
    <3>2. Without(t) = RemoveAt(tabs, i)
      BY <2>1, <3>1 DEF Without
    <3>3. i \in 1..Len(tabs)
      BY <3>1
    <3>4. SubSeq(tabs, 1, i - 1) \in Seq(1..n) /\ SubSeq(tabs, i + 1, Len(tabs)) \in Seq(1..n)
      BY <3>3
    <3> QED BY <3>2, <3>4 DEF RemoveAt
  <2>2. CASE ~IsOpen(t)
    BY <2>2 DEF Without
  <2> QED BY <2>1, <2>2
<1>2. ASSUME NEW open \in Seq(1..n) PROVE LastOf(open) \in (1..n) \cup {Null}
  BY DEF LastOf, Last
<1> QED BY <1>1, <1>2

(* The tab that becomes active when one is closed is restored on the same call. *)
LEMMA DisconnectedFlows ==
    ASSUME NEW c \in Call, Lone(c), Disconnected(c), ~parted'
    PROVE  /\ Types' /\ \A z : z = call'[c] => Flow(z)'
           /\ \A d \in Call \ {c} : call'[d] = call[d]
<1>1. PICK s, f, k : s = call[c] /\ f = Head(s) /\ k = Tail(s)
  OBVIOUS
<1>2. /\ Types /\ CallShape(call) /\ call[c] # <<>> /\ s # <<>> /\ Flow(s)
      /\ f = Top(c) /\ f.op = "disconnect"
  BY <1>1 DEF Lone, Disconnected, Answered, Runs, Top
<1>3. Begins(s)
  BY <1>1, <1>2, FlowOf
<1>4. /\ UNCHANGED <<local, lpath, rpath, sync, root, opened, dirs, syncing>>
      /\ tabs' = Without(f.tab)
  BY <1>2 DEF Disconnected, paneVars
<1>5. \A t, l, r : Pairs(t, l, r)' <=> Pairs(t, l, r)
  BY <1>4 DEF Pairs, SyncCounterpart
<1>6. Paired'
  <2> SUFFICES ASSUME NEW t \in Tab, NEW l, NEW r, sync'[t], l = lpath'[t], r = rpath'[t]
               PROVE  Pairs(t, l, r)'
    BY PairedFrom
  <2>1. Pairs(t, l, r)
    BY <1>3, <1>4 DEF Begins, Paired, Matched
  <2> QED BY <1>5, <2>1
<1>7. /\ tabs' \in Seq(1..opened)
      /\ LastOf(Without(f.tab)) \in (1..opened) \cup {Null}
  BY <1>2, <1>4, NextTab DEF Types
<1>8. active' \in {active, LastOf(Without(f.tab))}
  BY <1>2 DEF Disconnected
<1>9. Types'
  BY <1>2, <1>4, <1>7, <1>8 DEF Types
<1>10. CASE Return(c) /\ UNCHANGED active
  <2>1. call'[c] = k /\ \A d \in Call \ {c} : call'[d] = call[d]
    BY <1>1, <1>2, <1>10, CallIs DEF Return, Then, CallShape
  <2>2. PICK z : z = k
    OBVIOUS
  <2>3. CASE k = <<>>
    <3>1. Settled(z)'
      BY <1>3, <1>4, <1>6, <1>10, <2>2, <2>3 DEF Begins, Settled, Waits, Here
    <3> QED BY <1>9, <2>1, <2>2, <3>1 DEF Flow
  <2>4. CASE k # <<>>
    <3>1. Head(k).op \in {"connect", "trust"} /\ Tail(k) = <<>>
      BY <1>1, <1>2, <1>3, <2>4 DEF Begins
    <3>2. Begins(z)'
      BY <1>3, <1>4, <1>6, <1>10, <2>2, <2>4, <3>1 DEF Begins, Here
    <3> QED BY <1>9, <2>1, <2>2, <3>2 DEF Flow
  <2> QED BY <2>3, <2>4
<1>11. CASE active = f.tab
  <2> DEFINE next == LastOf(Without(f.tab))
             g == Frame("restore", next, Null, Null, Null)
  <2>1. /\ active' = next
        /\ \E d \in Call :
             /\ IF Len(call[c]) = 1 THEN d = c ELSE Free(d)
             /\ call' = [[call EXCEPT ![c] = Tail(@)] EXCEPT ![d] = <<g>>]
             /\ parted' = (parted \/ d # c)
    BY <1>2, <1>11, Zenon DEF Disconnected
  <2>2. g.op = "restore" /\ g.tab = next
    BY DEF Frame
  <2> HIDE DEF g, next
  <2>3. call' = [[call EXCEPT ![c] = Tail(@)] EXCEPT ![c] = <<g>>]
    BY <2>1
  <2>4. call'[c] = <<g>> /\ \A d \in Call \ {c} : call'[d] = call[d]
    BY <1>2, <2>3 DEF CallShape
  <2>5. PICK z : z = <<g>>
    OBVIOUS
  <2>6. z # <<>> /\ Head(z) = g /\ Tail(z) = <<>>
    BY <2>5
  <2>7. Restores(z)'
    BY <1>3, <1>4, <1>6, <2>1, <2>2, <2>6 DEF Begins, Restores
  <2> QED BY <1>9, <2>4, <2>5, <2>7 DEF Flow
<1>12. CASE active # f.tab
  BY <1>2, <1>10, <1>12 DEF Disconnected
<1> QED BY <1>11, <1>12

(* A new tab is active, takes the local directory with it, and is not synchronised. *)
LEMMA ConnectedFlows ==
    ASSUME NEW c \in Call, Lone(c), Connected(c)
    PROVE  Types' /\ \A z : z = call'[c] => Flow(z)'
<1>1. PICK s, f, k : s = call[c] /\ f = Head(s) /\ k = Tail(s)
  OBVIOUS
<1>2. /\ Types /\ CallShape(call) /\ call[c] # <<>> /\ s # <<>> /\ Flow(s)
      /\ f = Top(c) /\ f.op = "connect"
  BY <1>1 DEF Lone, Connected, Answered, Runs, Top
<1>3. Begins(s) /\ k = <<>>
  BY <1>1, <1>2, FlowOf DEF Begins
<1>4. PICK t : t = opened + 1
  OBVIOUS
<1>5. /\ opened \in Nat /\ t \in Tab /\ t # Null /\ t \in Nat /\ t = opened + 1 /\ t <= MaxTabs
      /\ ~sync[t]
  BY <1>2, <1>4, TabsAssumption DEF Types, Connected, TabsAssumption, Tab
<1>6. /\ opened' = t /\ tabs' = Append(tabs, t) /\ active' = t
      /\ lpath' = [lpath EXCEPT ![t] = local]
      /\ UNCHANGED <<local, rpath, sync, root, dirs, syncing>>
  BY <1>4 DEF Connected, paneVars, world
<1>7. Types'
  <2>1. tabs' \in Seq(1..t) /\ active' \in 1..t
    <3>1. tabs \in Seq(1..t) /\ t \in 1..t
      BY <1>2, <1>5 DEF Types
    <3> QED BY <1>6, <3>1
  <2>2. lpath' \in [Tab -> PathOrNull]
    BY <1>2, <1>6 DEF Types, PathOrNull
  <2>3. \A u \in Tab : u > t => ~sync[u]
    BY <1>2, <1>5 DEF Types, Tab
  <2> QED BY <1>2, <1>5, <1>6, <2>1, <2>2, <2>3 DEF Types
<1> SUFFICES ASSUME NEW z, z = call'[c] PROVE Flow(z)'
  BY <1>7
<1>8. Here'
  BY <1>2, <1>5, <1>6 DEF Here, Types
<1>9. Paired'
  <2> SUFFICES ASSUME NEW u \in Tab, NEW l, NEW r, sync'[u], l = lpath'[u], r = rpath'[u]
               PROVE  Pairs(u, l, r)'
    BY PairedFrom
  <2>1. sync[u] /\ l = lpath[u] /\ r = rpath[u]
    BY <1>2, <1>5, <1>6 DEF Types
  <2>2. Pairs(u, l, r)
    BY <1>3, <2>1 DEF Begins, Paired, Matched
  <2> QED BY <1>6, <2>2 DEF Pairs, SyncCounterpart
<1>10. PICK go, land, look :
         /\ go = Frame("navigate", Null, "remote", Home, Null)
         /\ land = Frame("landed", t, Null, Null, f.site)
         /\ look = Frame("opens", t, "remote", f.site.remoteDir, f.site)
  OBVIOUS
<1>11. /\ go.op = "navigate" /\ land.op = "landed" /\ land.tab = t
       /\ look.op = "opens" /\ look.tab = t
  BY <1>10 DEF Frame
<1>12. Then(c, <<go, land>>) \/ Then(c, <<look>>)
  BY <1>2, <1>4, <1>10 DEF Connected
<1>13. CASE Then(c, <<go, land>>)
  <2>1. /\ z # <<>> /\ Head(z) = go /\ Tail(z) # <<>> /\ Head(Tail(z)) = land
        /\ Tail(Tail(z)) = k
    BY <1>1, <1>2, <1>13, CallIs
  <2>2. Waits(Tail(z))' /\ Going(Head(z))'
    BY <1>3, <1>5, <1>6, <1>11, <2>1 DEF Waits, Going
  <2>3. Goes(z)'
    BY <1>3, <1>6, <1>8, <1>9, <2>1, <2>2 DEF Begins, Goes
  <2> QED BY <2>3 DEF Flow
<1>14. CASE Then(c, <<look>>)
  <2>1. z # <<>> /\ Head(z) = look /\ Tail(z) = k
    BY <1>1, <1>2, <1>14, CallIs
  <2>2. Begins(z)'
    BY <1>3, <1>5, <1>6, <1>8, <1>9, <1>11, <2>1 DEF Begins
  <2> QED BY <2>2 DEF Flow
<1> QED BY <1>12, <1>13, <1>14

(* What a request begins, when nothing is under way. *)
LEMMA RequestFlows ==
    ASSUME CallShape(call), OneFlow, ~parted', NEW c \in Call, NEW fs, Requests(c, fs),
           active' \in {active} \cup (1..opened), Types /\ Settled(<<>>) => \A z : z = fs => Flow(z)'
    PROVE  OneFlow'
<1>1. /\ ~parted /\ AtRest
      /\ call' = [call EXCEPT ![c] = fs]
      /\ UNCHANGED <<local, rpath, lpath, sync, root, syncing, dirs, opened, tabs>>
  BY DEF Requests, AtRest
<1>2. Types /\ Flow(<<>>)
  BY <1>1 DEF OneFlow
<1>3. Settled(<<>>)
  BY <1>2 DEF Flow, Goes, Asks, Mirrors, Mirrored, Restores, Begins
<1>4. \A z : z = fs => Flow(z)'
  BY <1>2, <1>3
<1>5. call'[c] = fs /\ \A d \in Call \ {c} : call'[d] = <<>>
  BY <1>1 DEF AtRest, CallShape
<1>6. Types'
  BY <1>1, <1>2 DEF Types
<1>7. PICK z : z = fs
  OBVIOUS
<1>8. Flow(z)'
  BY <1>4, <1>7
<1>9. ASSUME NEW d \in Call, call'[d] # <<>> PROVE Alone(d)' /\ Flow(call[d])'
  <2>1. d = c /\ call'[d] = z
    BY <1>5, <1>7, <1>9
  <2>2. Alone(d)'
    BY <1>5, <2>1 DEF Alone
  <2>3. Flow(call[d])'
    BY <1>8, <2>1 DEF Flow, Settled, Waits, Goes, Going, Asks, Mirrors, Mirrored, Restores,
           Begins, MatchedBy
  <2> QED BY <2>2, <2>3
<1>10. AtRest' => Flow(<<>>)'
  <2>1. AtRest' => z = <<>>
    BY <1>5, <1>7 DEF AtRest
  <2> QED BY <1>8, <2>1
<1> QED BY <1>6, <1>9, <1>10 DEF OneFlow

(* One frame, and nothing below it. *)
LEMMA OnlyFrame ==
    ASSUME NEW f
    PROVE  <<f>> # <<>> /\ Head(<<f>>) = f /\ Tail(<<f>>) = <<>>
OBVIOUS

(* Two frames, and nothing below them. *)
LEMMA TwoAlone ==
    ASSUME NEW f, NEW g
    PROVE  /\ <<f, g>> # <<>> /\ Head(<<f, g>>) = f
           /\ Tail(<<f, g>>) # <<>> /\ Head(Tail(<<f, g>>)) = g
           /\ Tail(Tail(<<f, g>>)) = <<>>
OBVIOUS

(* What the user asks for, one thing after the other, finds the panes in step. *)
LEMMA UserFlows ==
    ASSUME CallShape(call), OneFlow, ~parted', NEW c \in Call, User(c)
    PROVE  OneFlow'
<1>1. \A t, l, r : UNCHANGED <<root>> => (Pairs(t, l, r)' <=> Pairs(t, l, r))
  BY DEF Pairs, SyncCounterpart
<1>2. ASSUME NEW fs, Requests(c, fs) PROVE UNCHANGED <<local, lpath, rpath, sync, root, syncing>>
  BY <1>2 DEF Requests
<1>3. ASSUME NEW g, g.op \in {"navigate", "parent", "connect", "disconnect"},
             Requests(c, <<g>>), UNCHANGED active
      PROVE  OneFlow'
  <2>1. ASSUME Settled(<<>>), NEW z, z = <<g>> PROVE Flow(z)'
    <3>1. z # <<>> /\ Head(z) = g /\ Tail(z) = <<>>
      BY <2>1, OnlyFrame
    <3>2. UNCHANGED Panes /\ UNCHANGED syncing
      BY <1>2, <1>3 DEF Panes
    <3>3. Paired' /\ Here' /\ ~syncing'
      BY <2>1, <3>2, SamePanes DEF Settled
    <3>4. CASE g.op = "navigate"
      <4>1. Goes(z)'
        BY <3>1, <3>3, <3>4 DEF Goes, Going, Waits
      <4> QED BY <4>1 DEF Flow
    <3>5. CASE g.op # "navigate"
      <4>1. Begins(z)'
        BY <1>3, <3>1, <3>3, <3>5 DEF Begins
      <4> QED BY <4>1 DEF Flow
    <3> QED BY <3>4, <3>5
  <2> QED BY <1>3, <2>1, RequestFlows
<1>4. ASSUME NEW g, NEW h, g.op = "disconnect", h.op = "connect",
             Requests(c, <<g, h>>), UNCHANGED active
      PROVE  OneFlow'
  <2>1. ASSUME Settled(<<>>), NEW z, z = <<g, h>> PROVE Flow(z)'
    <3>1. /\ z # <<>> /\ Head(z) = g /\ Tail(z) # <<>> /\ Head(Tail(z)) = h
          /\ Tail(Tail(z)) = <<>>
      BY <2>1, TwoAlone
    <3>2. UNCHANGED Panes /\ UNCHANGED syncing
      BY <1>2, <1>4 DEF Panes
    <3>3. Paired' /\ Here' /\ ~syncing'
      BY <2>1, <3>2, SamePanes DEF Settled
    <3>4. Begins(z)'
      BY <1>4, <3>1, <3>3 DEF Begins
    <3> QED BY <3>4 DEF Flow
  <2> QED BY <1>4, <2>1, RequestFlows
<1>5. CASE Browse(c)
  <2>1. PICK side, p : Requests(c, <<Frame("navigate", Null, side, p, Null)>>)
    BY <1>5 DEF Browse
  <2> PICK g : g = Frame("navigate", Null, side, p, Null)
    OBVIOUS
  <2>2. g.op = "navigate"
    BY DEF Frame
  <2> QED BY <1>3, <1>5, <2>1, <2>2 DEF Browse
<1>6. CASE GoUp(c)
  <2> PICK g, h : /\ g = Frame("parent", Null, "local", local, Null)
                  /\ h = Frame("navigate", Null, "remote", Front(rpath[active]), Null)
    OBVIOUS
  <2>1. g.op = "parent" /\ h.op = "navigate"
    BY DEF Frame
  <2>2. Requests(c, <<g>>) \/ Requests(c, <<h>>)
    BY <1>6 DEF GoUp
  <2> QED BY <1>3, <1>6, <2>1, <2>2 DEF GoUp
<1>7. CASE SwitchTab(c)
  <2>1. PICK t \in Tab : /\ IsOpen(t) /\ active' = t
                         /\ Requests(c, <<Frame("restore", t, Null, Null, Null)>>)
    BY <1>7 DEF SwitchTab
  <2> PICK g : g = Frame("restore", t, Null, Null, Null)
    OBVIOUS
  <2>2. g.op = "restore" /\ g.tab = t
    BY DEF Frame
  <2>3. ASSUME Types, Settled(<<>>), NEW z, z = <<g>> PROVE Flow(z)'
    <3>1. z # <<>> /\ Head(z) = g /\ Tail(z) = <<>>
      BY <2>3, OnlyFrame
    <3>2. UNCHANGED <<local, lpath, rpath, sync, root, syncing>>
      BY <1>2, <2>1
    <3>3. Paired'
      <4> SUFFICES ASSUME NEW u \in Tab, NEW l, NEW r, sync'[u], l = lpath'[u], r = rpath'[u]
                   PROVE  Pairs(u, l, r)'
        BY PairedFrom
      <4>1. Pairs(u, l, r)
        BY <2>3, <3>2 DEF Settled, Paired, Matched
      <4> QED BY <1>1, <3>2, <4>1
    <3>4. Restores(z)'
      BY <2>1, <2>2, <2>3, <3>1, <3>2, <3>3 DEF Restores, Settled
    <3> QED BY <3>4 DEF Flow
  <2>4. ~parted /\ AtRest
    BY <2>1 DEF Requests, AtRest
  <2>5. t \in 1..opened
    BY <2>1, <2>4 DEF OneFlow, Types, IsOpen
  <2> QED BY <2>1, <2>3, <2>5, RequestFlows
<1>8. CASE CloseTab(c)
  <2>1. PICK t : Requests(c, <<Frame("disconnect", t, Null, Null, Null)>>)
    BY <1>8 DEF CloseTab
  <2> PICK g : g = Frame("disconnect", t, Null, Null, Null)
    OBVIOUS
  <2>2. g.op = "disconnect"
    BY DEF Frame
  <2> QED BY <1>3, <1>8, <2>1, <2>2 DEF CloseTab
<1>9. CASE Connect(c)
  <2>1. PICK s : LET dial == Frame("connect", Null, Null, Null, s) IN
                 \/ Requests(c, <<dial>>)
                 \/ Requests(c, <<Frame("disconnect", active, Null, Null, Null), dial>>)
    BY <1>9 DEF Connect
  <2> PICK g, h : /\ g = Frame("disconnect", active, Null, Null, Null)
                  /\ h = Frame("connect", Null, Null, Null, s)
    OBVIOUS
  <2>2. g.op = "disconnect" /\ h.op = "connect"
    BY DEF Frame
  <2>3. Requests(c, <<h>>) \/ Requests(c, <<g, h>>)
    BY <2>1
  <2> QED BY <1>3, <1>4, <1>9, <2>2, <2>3 DEF Connect
<1> QED BY <1>5, <1>6, <1>7, <1>8, <1>9 DEF User

(* A step of a call, where nothing parts the panes. *)
LEMMA StepFlows ==
    ASSUME CallShape(call), OneFlow, ~parted', NEW c \in Call, Step(c)
    PROVE  OneFlow'
<1>1. ~parted /\ call[c] # <<>>
  <2>1. call[c] # <<>>
    BY DEF Step, Pane, Sync, TabBar, Connecting, Navigate, Listed, ListFails, Parent, Exists,
           PromptCreate, PromptDisable, PromptCancel, MadeDir, Unsync, Restore, RestoreRemote,
           Disconnected, Connected, ConnectAsks, Trusted, ConnectFails, StartDir, Landed, Anchor,
           Due, Answered, Runs
  <2> SUFFICES ~parted
    BY <2>1
  <2>2. /\ UNCHANGED world => parted' = parted
        /\ UNCHANGED <<faults, parted>> => parted' = parted
        /\ UNCHANGED <<active, parted>> => parted' = parted
    BY DEF world
  <2>3. CASE Pane(c)
    BY <2>2, <2>3, Zenon DEF Pane, Navigate, Listed, ListFails, Parent
  <2>4. CASE Sync(c)
    BY <2>2, <2>4, Zenon DEF Sync, Exists, PromptCreate, PromptDisable, PromptCancel, MadeDir, Unsync
  <2>5. CASE TabBar(c)
    BY <2>2, <2>5, Zenon DEF TabBar, Restore, RestoreRemote, Disconnected
  <2>6. CASE Connecting(c)
    BY <2>2, <2>6, Zenon DEF Connecting, Connected, ConnectAsks, Trusted, ConnectFails, StartDir,
           Landed, Anchor
  <2> QED BY <2>3, <2>4, <2>5, <2>6 DEF Step
<1>2. Lone(c) /\ Alone(c)
  BY <1>1 DEF OneFlow, Lone
<1>3. ASSUME NEW fs, Then(c, fs) PROVE \A d \in Call \ {c} : call'[d] = call[d]
  BY <1>3 DEF Then, CallShape
<1>4. ~Disconnected(c) => \A d \in Call \ {c} : call'[d] = call[d]
  <2> SUFFICES ASSUME ~Disconnected(c) PROVE \E fs : Then(c, fs)
    BY <1>3
  <2>1. CASE Pane(c)
    BY <2>1 DEF Pane, Navigate, Listed, ListedFresh, ListFails, Parent, Return
  <2>2. CASE Sync(c)
    BY <2>2 DEF Sync, Exists, PromptCreate, PromptDisable, PromptCancel, MadeDir, Unsync,
           MirrorNavigates, Return
  <2>3. CASE TabBar(c)
    BY <2>3 DEF TabBar, Restore, RestoreRemote, Return
  <2>4. CASE Connecting(c)
    BY <2>4, Zenon DEF Connecting, Connected, ConnectAsks, Trusted, ConnectFails, StartDir,
           Landed, Anchor, Return
  <2> QED BY <2>1, <2>2, <2>3, <2>4 DEF Step
<1>5. Types' /\ \A z : z = call'[c] => Flow(z)'
  <2>1. CASE Pane(c)
    BY <1>2, <2>1, NavigateFlows, ListedFlows, ParentFlows DEF Pane, ListFails
  <2>2. CASE Sync(c)
    BY <1>2, <2>2, ExistsFlows, PromptCreateFlows, PromptDisableFlows, MadeDirFlows,
       UnsyncFlows DEF Sync, PromptCancel
  <2>3. CASE TabBar(c)
    BY <1>2, <2>3, RestoreFlows, RestoreRemoteFlows, DisconnectedFlows DEF TabBar
  <2>4. CASE Connecting(c)
    BY <1>2, <2>4, ConnectedFlows, DialingFlows, StartDirFlows, LandedFlows, AnchorFlows
       DEF Connecting
  <2> QED BY <2>1, <2>2, <2>3, <2>4 DEF Step
<1>6. \A d \in Call \ {c} : call'[d] = call[d]
  BY <1>2, <1>4, DisconnectedFlows
<1> QED BY <1>1, <1>2, <1>5, <1>6, OneFlowStep

SInv == IInv /\ OneFlow

(* Every step keeps the panes in step. *)
LEMMA NextSInv == SInv /\ [Next]_vars => SInv'
<1> SUFFICES ASSUME IInv, OneFlow, [Next]_vars PROVE OneFlow'
  BY NextIInv DEF SInv
<1>1. CallShape(call)
  BY DEF IInv, Shape
<1>2. CASE parted'
  BY <1>2 DEF OneFlow
<1>3. CASE ~parted' /\ Next
  BY <1>1, <1>3, StepFlows, UserFlows DEF Next
<1>4. CASE UNCHANGED vars
  <2>1. UNCHANGED <<Panes, tabVars, call, local, dirs, syncing, parted>>
    BY <1>4 DEF vars, Panes, tabVars
  <2> SUFFICES ASSUME ~parted PROVE OneFlow'
    BY <2>1 DEF OneFlow
  <2>2. Types'
    BY <2>1, SameTypes DEF OneFlow, Types
  <2>3. ASSUME NEW s, Flow(s) PROVE Flow(s)'
    BY <2>1, <2>3 DEF Flow, Settled, Waits, Goes, Going, Asks, Mirrors, Mirrored, Restores,
           Begins, Panes, Paired, OthersPaired, Matched, MatchedBy, Pairs, SyncCounterpart, Here
  <2>4. ASSUME NEW c \in Call, call'[c] # <<>> PROVE Alone(c)' /\ Flow(call[c])'
    <3>1. PICK s : s = call[c]
      OBVIOUS
    <3>2. Flow(s)' /\ Alone(c)'
      BY <2>1, <2>3, <2>4, <3>1 DEF OneFlow, Alone
    <3> QED BY <2>1, <3>1, <3>2 DEF Flow, Settled, Waits, Goes, Going, Asks, Mirrors, Mirrored,
           Restores, Begins, MatchedBy
  <2>5. AtRest' => Flow(<<>>)'
    BY <2>1, <2>3 DEF OneFlow, AtRest
  <2> QED BY <2>2, <2>4, <2>5 DEF OneFlow
<1> QED BY <1>2, <1>3, <1>4

(* At the start there is no tab, and this computer's top directory is shown. *)
LEMMA InitSInv == Init => SInv
<1> SUFFICES ASSUME Init PROVE OneFlow
  BY InitIInv DEF SInv
<1>1. Types
  <2>1. \A t \in Tab : RemoteDirs[t] \in SUBSET Seq(Name)
    BY TabsAssumption DEF TabsAssumption, Tab
  <2>2. dirs \in [Tab \cup {Local} -> SUBSET Seq(Name)]
    BY <2>1, TabsAssumption DEF TabsAssumption, Init
  <2>3. MaxTabs \in Nat
    BY TabsAssumption DEF TabsAssumption
  <2>4. local \in Seq(Name) /\ tabs \in Seq(1..opened) /\ opened \in Nat /\ opened <= MaxTabs
    BY <2>3 DEF Init
  <2> QED BY <2>2, <2>4 DEF Types, Init, PathOrNull
<1>2. Settled(<<>>)
  BY DEF Init, Settled, Waits, Paired, Matched, Here
<1>3. \A c \in Call : call[c] = <<>>
  BY DEF Init
<1> QED BY <1>1, <1>2, <1>3 DEF OneFlow, Flow

(* Synchronised panes correspond whenever nothing is under way, unless requests *)
(* overlapped, a call failed or the user declined to create a directory         *)
(* (syncMirror and its callers, main.js:519-636).                               *)
THEOREM TabsSyncedAtRest == Spec => []SyncedAtRest
<1>1. SInv => SyncedAtRest
  <2> SUFFICES ASSUME OneFlow, ~parted, AtRest, active # Null, sync[active]
               PROVE  Corresponds(active)
    BY DEF SInv, SyncedAtRest
  <2>1. Settled(<<>>) /\ active \in Tab
    BY ActiveIsTab DEF OneFlow, Flow, Goes, Asks, Mirrors, Mirrored, Restores, Begins
  <2>2. Pairs(active, lpath[active], rpath[active]) /\ lpath[active] = local
    BY <2>1 DEF Settled, Paired, Matched, Here
  <2> QED BY <2>2 DEF Corresponds, Pairs
<1> QED BY <1>1, InitSInv, NextSInv, PTL DEF Spec
=============================================================================
