---------------------------- MODULE TerminalGrid ----------------------------
(***************************************************************************)
(* The size of one shared terminal: which viewer drives the PTY's grid,    *)
(* how the others' emulators follow it, and for which grid the screen they *)
(* show was laid out.  Viewers are windows of the desktop app or browsers  *)
(* behind the remote bridge, whose links drop and come back.               *)
(*                                                                         *)
(* A grid (columns and rows) is a model value.  Every call a view makes is *)
(* a task of its own in the backend, except that the desktop's resizes run *)
(* on its main thread in turn; answers overtake events and one another,    *)
(* terminal-resized events reach one view in order.                        *)
(***************************************************************************)
EXTENDS Naturals, Sequences, FiniteSets, Functions

CONSTANTS
    Grids,        (* grids a window may have room for               *)
    Local,        (* viewers inside the desktop application         *)
    Remote,       (* viewers behind the remote bridge               *)
    None,         (* no viewer, no grid; in a stream of events: Resync *)
    MaxOpens,     (* bound: how often a view is opened, a link drops or lags,  *)
                  (* or a redraw draws nothing                                 *)
    MaxMoves      (* bound: how often a window is reshaped or a view turned to *)

Viewers == Local \cup Remote

ASSUME TerminalGridAssumption ==
    /\ Local \cap Remote = {} /\ IsFiniteSet(Viewers)
    /\ None \notin Viewers \cup Grids
    /\ MaxOpens \in Nat /\ MaxMoves \in Nat

VARIABLES
    pty,       (* PtyProcess: running, applied_viewport, the viewer of active_viewport *)
    link,      (* per viewer: number of its connection, and whether it is up           *)
    guards,    (* ViewportGuards of connections that are dead but not yet torn down    *)
    calls,     (* calls not yet handled: waiting for a link, or tasks of the backend   *)
    turns,     (* resizes of the desktop, for its main thread                          *)
    answers,   (* answers on their way back                                            *)
    resized,   (* per viewer: terminal-resized events on their way                     *)
    panel,     (* per viewer: the TerminalPanel                                        *)
    astray,    (* ghost: views that missed an event, or took an older answer after it, *)
               (* and have not moved since                                             *)
    joined,    (* ghost: views whose redraw joined one already sent                    *)
    undrawn,   (* ghost: views whose last redraw put nothing on screen                 *)
    opens, moves, drops

boundVars == <<opens, moves, drops>>
vars == <<pty, link, guards, calls, turns, answers, resized, panel, astray, joined, undrawn,
          boundVars>>

Stages == {"away", "starting", "claiming", "drawing", "live", "failing", "failed"}
Kinds == {"start", "settle", "report", "focus", "read"}
Claims == {"settle", "focus"}

(* link 0: the call waits in RemoteBridgeClient.queue.  id tells incarnations *)
(* of a panel, and one press of the user from another, apart.                 *)
Calls == [viewer : Viewers, link : Nat, kind : Kinds, id : Nat, grid : Grids \cup {None}]

Panels == [id : Nat, stage : Stages, window : Grids, emulator : Grids,
           drawnFor : Grids \cup {None}, reading : BOOLEAN, retry : BOOLEAN,
           pending : Grids \cup {None}, timer : BOOLEAN,
           applying : Grids \cup {None}, lastApplied : Grids \cup {None}]

TypeOK ==
    /\ pty \in [running : BOOLEAN, grid : Grids \cup {None}, owner : Viewers \cup {None}]
    /\ link \in [Viewers -> [number : Nat \ {0}, up : BOOLEAN]]
    /\ guards \in [Viewers -> SUBSET Nat]
    /\ calls \subseteq Calls /\ answers \subseteq Calls /\ turns \in Seq(Calls)
    /\ resized \in [Viewers -> Seq(Grids \cup {None})]
    /\ panel \in [Viewers -> Panels]
    /\ astray \subseteq Viewers /\ joined \subseteq Viewers /\ undrawn \subseteq Viewers
    /\ opens \in Nat /\ moves \in Nat /\ drops \in Nat

Away(window) == [id |-> 0, stage |-> "away", window |-> window, emulator |-> window,
                 drawnFor |-> None, reading |-> FALSE, retry |-> FALSE, pending |-> None,
                 timer |-> FALSE, applying |-> None, lastApplied |-> None]

Init ==
    /\ \E window \in [Viewers -> Grids] : panel = [v \in Viewers |-> Away(window[v])]
    /\ pty = [running |-> FALSE, grid |-> None, owner |-> None]
    /\ link = [v \in Viewers |-> [number |-> 1, up |-> TRUE]]
    /\ guards = [v \in Viewers |-> {}]
    /\ calls = {} /\ answers = {} /\ turns = <<>>
    /\ resized = [v \in Viewers |-> <<>>]
    /\ astray = {} /\ joined = {} /\ undrawn = {}
    /\ opens = 0 /\ moves = 0 /\ drops = 0

Open(v)  == panel[v].stage # "away"
(* The gateway has a connection for the view, and it listens to events. *)
Connected(v) == panel[v].stage \notin {"away", "failed"}
Ready(v) == panel[v].stage \in {"claiming", "drawing", "live"}

(* RemoteBridgeClient.invoke: sent at once, or queued until the link is back. *)
Call(v, kind, id, grid) ==
    [viewer |-> v, link |-> IF link[v].up THEN link[v].number ELSE 0,
     kind |-> kind, id |-> id, grid |-> grid]

(* invoke of the desktop: resize_terminal is a command of the main thread, the *)
(* others are not.                                                             *)
InTurn(c) == c.viewer \in Local /\ c.kind \in Claims \cup {"report"}
Send(sent) ==
    /\ calls' = calls \cup {c \in sent : ~InTurn(c)}
    /\ \/ turns' = turns /\ \A c \in sent : ~InTurn(c)
       \/ \E c \in sent : InTurn(c) /\ turns' = Append(turns, c)

(* The answer to a call of the panel that is there now. *)
Answers(v, kind) ==
    {a \in answers : a.viewer = v /\ a.kind = kind /\ a.id = panel[v].id}

-----------------------------------------------------------------------------
(* Backend: PtyManager. *)

(* Mutant of ApplyViewport: the viewer that asked is not told. *)
ApplyViewportToOthers(v, grid) ==
    /\ pty' = [pty EXCEPT !.owner = v, !.grid = grid]
    /\ resized' = [w \in Viewers |-> IF link[w].up /\ w # v THEN Append(resized[w], grid)
                                     ELSE resized[w]]
    /\ astray' = astray \cup {w \in Viewers : ~link[w].up}

(* apply_viewport: the PTY and its replay screen take the grid, and every     *)
(* viewer that can be reached is told.                                        *)
ApplyViewport(v, grid) ==
    /\ pty' = [pty EXCEPT !.owner = v, !.grid = grid]
    /\ resized' = [w \in Viewers |-> IF link[w].up THEN Append(resized[w], grid)
                                     ELSE resized[w]]
    /\ astray' = astray \cup {w \in Viewers : ~link[w].up}

(* should_apply_viewport *)
ShouldApply(owner, v, claim) == claim \/ owner = v

(* resize_terminal *)
HandleResize(c) ==
    /\ c.kind \in Claims \cup {"report"}
    /\ IF pty.running /\ ShouldApply(pty.owner, c.viewer, c.kind \in Claims)
       THEN ApplyViewport(c.viewer, c.grid)
       ELSE UNCHANGED <<pty, resized, astray>>

(* create_terminal: attaches to what runs, or starts it at the caller's grid. *)
HandleStart(c) ==
    /\ c.kind = "start"
    /\ pty' = IF pty.running THEN pty
              ELSE [running |-> TRUE, grid |-> c.grid, owner |-> c.viewer]
    /\ UNCHANGED <<resized, astray>>

(* read_terminal_scrollback: the screen as it is laid out now. *)
HandleRead(c) == c.kind = "read" /\ UNCHANGED <<pty, resized, astray>>

(* One task runs one call; its answer names the grid it found or left.  The   *)
(* answer of a dead connection's task goes nowhere, and nobody waits for that *)
(* of a focus claim or of a panel that is gone.                               *)
Awaited(c) ==
    /\ link[c.viewer].up /\ c.link = link[c.viewer].number
    /\ c.kind # "focus" /\ c.id = panel[c.viewer].id

HandleCall(c) ==
    /\ \/ c \in calls /\ c.link # 0 /\ calls' = calls \ {c} /\ UNCHANGED turns
       \/ turns # <<>> /\ c = Head(turns) /\ turns' = Tail(turns) /\ UNCHANGED calls
    /\ HandleResize(c) \/ HandleStart(c) \/ HandleRead(c)
    /\ answers' = IF Awaited(c)
                  THEN answers \cup
                         {[c EXCEPT !.grid = IF c.kind = "report" THEN @ ELSE pty'.grid]}
                  ELSE answers
    /\ UNCHANGED <<link, guards, panel, joined, undrawn, boundVars>>

(* ViewportGuard::drop of a connection that ended, whenever its task notices. *)
GuardDrop(v, n) ==
    /\ n \in guards[v]
    /\ guards' = [guards EXCEPT ![v] = @ \ {n}]
    /\ pty' = IF pty.owner = v THEN [pty EXCEPT !.owner = None] ELSE pty
    /\ UNCHANGED <<link, calls, turns, answers, resized, panel, astray, joined, undrawn, boundVars>>

-----------------------------------------------------------------------------
(* View: TerminalPanel, TerminalGatewayService and TerminalResizeCoordinator. *)

(* replay(): joins the read in flight, which may have been taken already, or  *)
(* starts one.                                                                *)
ReadOf(v, p) == IF p.reading THEN {} ELSE {Call(v, "read", p.id, None)}
ReadSent(v) ==
    Answers(v, "read") # {} \/
    \E c \in calls : c.viewer = v /\ c.kind = "read" /\ c.id = panel[v].id /\ c.link # 0
JoinedBy(v, p) ==
    IF ~p.reading THEN joined \ {v} ELSE IF ReadSent(v) THEN joined \cup {v} ELSE joined

(* TerminalResizeCoordinator.schedule *)
Scheduled(p, grid) ==
    IF p.pending = grid \/ (p.applying = None /\ ~p.timer /\ p.lastApplied = grid)
    THEN p
    ELSE [p EXCEPT !.pending = grid, !.timer = TRUE]

(* The loop of flush: what is pending is sent unless it was applied last; the *)
(* mutant does not look.                                                      *)
NextToApply(p) == IF p.pending = p.lastApplied THEN None ELSE p.pending
Flushed(p) == [p EXCEPT !.applying = NextToApply(p), !.pending = None]
ReportOfAnything(v, p) == {Call(v, "report", p.id, NextToApply(p))}
ReportOf(v, p) ==
    IF NextToApply(p) = None THEN {} ELSE {Call(v, "report", p.id, NextToApply(p))}

(* initializeRuntime up to the call of start: the window's own size is the    *)
(* first guess.                                                               *)
OpenView(v) ==
    /\ ~Open(v) /\ opens + drops < MaxOpens
    /\ opens' = opens + 1
    /\ panel' = [panel EXCEPT ![v] = [Away(panel[v].window) EXCEPT !.id = opens', !.stage = "starting"]]
    /\ Send({Call(v, "start", opens', panel[v].window)})
    /\ astray' = astray \ {v} /\ joined' = joined \ {v} /\ undrawn' = undrawn \ {v}
    /\ UNCHANGED <<pty, link, guards, answers, resized, moves, drops>>

(* retryConnection: a panel whose start failed is connected once more.        *)
Retry(v) ==
    /\ panel[v].stage = "failed"
    /\ panel' = [panel EXCEPT ![v].stage = "starting"]
    /\ Send({Call(v, "start", panel[v].id, panel[v].emulator)})
    /\ UNCHANGED <<pty, link, guards, answers, resized, astray, joined, undrawn, boundVars>>

(* The panel is destroyed; calls it made run on. *)
CloseView(v) ==
    /\ Open(v)
    /\ panel' = [panel EXCEPT ![v] = Away(panel[v].window)]
    /\ answers' = {a \in answers : a.viewer # v}
    /\ UNCHANGED <<pty, link, guards, calls, turns, resized, astray, joined, undrawn, boundVars>>

(* start() resolves: the emulator takes the grid it names, then the view      *)
(* claims the terminal for its own window when it is the active one, or       *)
(* draws the history at once.                                                 *)
ReceiveStart(v) ==
    /\ panel[v].stage = "starting"
    /\ \E a \in Answers(v, "start") :
       LET p == [panel[v] EXCEPT !.emulator = a.grid, !.retry = FALSE] IN
       /\ answers' = answers \ {a}
       /\ \/ /\ p.window # p.emulator
             /\ panel' = [panel EXCEPT ![v] = [p EXCEPT !.stage = "claiming"]]
             /\ Send({Call(v, "settle", p.id, p.window)})
             /\ UNCHANGED joined
          \/ /\ panel' = [panel EXCEPT ![v] = [p EXCEPT !.stage = "drawing", !.reading = TRUE]]
             /\ Send(ReadOf(v, p))
             /\ joined' = JoinedBy(v, p)
    /\ astray' = IF panel'[v].emulator = pty.grid \/ resized[v] # <<>>
                 THEN astray \ {v} ELSE astray \cup {v}
    /\ UNCHANGED <<pty, link, guards, resized, undrawn, boundVars>>

(* The claim came back, one way or the other: replayInitial. *)
Drawing(p) == [p EXCEPT !.stage = "drawing", !.reading = TRUE]
ReceiveSettled(v) ==
    /\ panel[v].stage = "claiming"
    /\ \E a \in Answers(v, "settle") : answers' = answers \ {a}
    /\ panel' = [panel EXCEPT ![v] = Drawing(panel[v])]
    /\ Send(ReadOf(v, panel[v]))
    /\ joined' = JoinedBy(v, panel[v])
    /\ UNCHANGED <<pty, link, guards, resized, astray, undrawn, boundVars>>

(* The end of a redraw, and of initializeRuntime with it: the window is       *)
(* fitted once more, or what failed is tried again if the link came back.     *)
Ended(p) ==
    LET q == [p EXCEPT !.reading = FALSE] IN
    CASE p.stage = "drawing" -> Scheduled([q EXCEPT !.stage = "live"], q.window)
      [] p.stage = "failing" ->
            [q EXCEPT !.stage = IF p.retry THEN "starting" ELSE "failed", !.retry = FALSE]
      [] OTHER -> q
StartAgain(v, p) ==
    IF p.stage = "failing" /\ p.retry THEN {Call(v, "start", p.id, p.emulator)} ELSE {}

(* replayOnce: a blank screen, or one of another revision, is not drawn.      *)
ReceiveScreen(v) ==
    /\ panel[v].reading
    /\ \E a \in Answers(v, "read") :
          /\ answers' = answers \ {a}
          /\ \/ /\ panel' = [panel EXCEPT ![v] = [Ended(panel[v]) EXCEPT !.drawnFor = a.grid]]
                /\ undrawn' = undrawn \ {v} /\ drops' = drops
             \/ /\ opens + drops < MaxOpens
                /\ panel' = [panel EXCEPT ![v] = Ended(panel[v])]
                /\ undrawn' = undrawn \cup {v} /\ drops' = drops + 1
    /\ Send(StartAgain(v, panel[v]))
    /\ UNCHANGED <<pty, link, guards, resized, astray, joined, opens, moves>>

(* withReplayTimeout: the redraw ends without its screen, which may still     *)
(* come and is dropped then.  (The bound is for those that give up while the  *)
(* link is up; a redraw that waits for the link can be given up once.)        *)
GiveUp(v) ==
    LET mine(c) == c.viewer = v /\ c.kind = "read" /\ c.id = panel[v].id IN
    /\ panel[v].reading
    /\ IF link[v].up THEN opens + drops < MaxOpens /\ drops' = drops + 1 ELSE drops' = drops
    /\ panel' = [panel EXCEPT ![v] = Ended(panel[v])]
    /\ calls' = {c \in calls : ~mine(c)} \cup StartAgain(v, panel[v])
    /\ answers' = {a \in answers : ~mine(a)}
    /\ undrawn' = undrawn \cup {v}
    /\ UNCHANGED <<pty, link, guards, turns, resized, astray, joined, opens, moves>>

(* Mutant of ReceiveResized: what is on screen is left for xterm to rewrap. *)
ReceiveResizedUndrawn(v) ==
    /\ resized[v] # <<>> /\ Head(resized[v]) # None
    /\ resized' = [resized EXCEPT ![v] = Tail(@)]
    /\ panel' = IF Connected(v) THEN [panel EXCEPT ![v].emulator = Head(resized[v])] ELSE panel
    /\ astray' = IF Connected(v) THEN astray \ {v} ELSE astray
    /\ UNCHANGED <<pty, link, guards, calls, turns, answers, joined, undrawn, boundVars>>

(* The emulator follows the PTY; a view that shows something is drawn again.  *)
ReceiveResized(v) ==
    LET grid  == Head(resized[v])
        changes == Connected(v) /\ panel[v].emulator # grid
        again == changes /\ Ready(v)
        p     == [panel[v] EXCEPT !.emulator = grid]
    IN
    /\ resized[v] # <<>> /\ grid # None
    /\ resized' = [resized EXCEPT ![v] = Tail(@)]
    /\ panel' = IF again THEN [panel EXCEPT ![v] = [p EXCEPT !.reading = TRUE]]
                ELSE IF changes THEN [panel EXCEPT ![v] = p] ELSE panel
    /\ Send(IF again THEN ReadOf(v, p) ELSE {})
    /\ joined' = IF again THEN JoinedBy(v, p) ELSE joined
    /\ astray' = IF changes THEN astray \ {v} ELSE astray
    /\ UNCHANGED <<pty, link, guards, answers, undrawn, boundVars>>

(* Resync: events were lost here; every connected view is drawn again         *)
(* (replayAll), but the grid is not asked for.                                *)
ReceiveResync(v) ==
    LET p == panel[v] IN
    /\ resized[v] # <<>> /\ Head(resized[v]) = None
    /\ resized' = [resized EXCEPT ![v] = Tail(@)]
    /\ IF Connected(v)
       THEN /\ panel' = [panel EXCEPT ![v].reading = TRUE]
            /\ Send(ReadOf(v, p)) /\ joined' = JoinedBy(v, p)
       ELSE Send({}) /\ UNCHANGED <<panel, joined>>
    /\ astray' = IF p.emulator = pty.grid \/ resized'[v] # <<>> THEN astray ELSE astray \cup {v}
    /\ UNCHANGED <<pty, link, guards, answers, undrawn, boundVars>>

(* The window changes shape: fitTerminal. *)
Reshape(v, grid) ==
    /\ moves < MaxMoves /\ grid # panel[v].window
    /\ moves' = moves + 1
    /\ LET p == [panel[v] EXCEPT !.window = grid] IN
       panel' = [panel EXCEPT ![v] = IF Ready(v) THEN Scheduled(p, grid)
                                     ELSE [p EXCEPT !.emulator = grid]]
    /\ UNCHANGED <<pty, link, guards, calls, turns, answers, resized, astray, joined,
                   undrawn, opens, drops>>

(* The debounce timer of the coordinator: flush(). *)
TimerFires(v) ==
    /\ panel[v].timer
    /\ LET p == [panel[v] EXCEPT !.timer = FALSE] IN
       IF p.applying # None \/ p.pending = None
       THEN panel' = [panel EXCEPT ![v] = p] /\ Send({})
       ELSE panel' = [panel EXCEPT ![v] = Flushed(p)] /\ Send(ReportOf(v, p))
    /\ UNCHANGED <<pty, link, guards, answers, resized, astray, joined, undrawn, boundVars>>

(* applyResize resolved: the next one pending is sent. *)
ReceiveApplied(v) ==
    /\ panel[v].applying # None
    /\ \E a \in Answers(v, "report") : answers' = answers \ {a}
    /\ LET p == [panel[v] EXCEPT !.lastApplied = panel[v].applying] IN
       /\ panel' = [panel EXCEPT ![v] = Flushed(p)]
       /\ Send(ReportOf(v, p))
    /\ UNCHANGED <<pty, link, guards, resized, astray, joined, undrawn, boundVars>>

(* The user turns to this view, and claimTerminalSize finds that it is drawn  *)
(* for another window.                                                        *)
Focus(v) ==
    /\ Open(v) /\ Ready(v) /\ panel[v].window # panel[v].emulator
    /\ moves < MaxMoves /\ moves' = moves + 1
    /\ Send({Call(v, "focus", moves', panel[v].window)})
    /\ UNCHANGED <<pty, link, guards, answers, resized, panel, astray, joined,
                   undrawn, opens, drops>>

-----------------------------------------------------------------------------
(* The bridge. *)

(* Mutants of Rejected: calls in flight are forgotten, not rejected. *)
RejectedSilently(p) == p

(* rejectPending: a redraw ends; a start fails and what was held back is      *)
(* released by a redraw, a claim is warned about and the history is drawn,    *)
(* either by the redraw that is just ending; a report is let go and the next  *)
(* one sent.                                                                  *)
AfterRejection(p) ==
    [(IF p.applying # None THEN Flushed(p) ELSE p) EXCEPT
        !.stage = IF p.stage = "starting" THEN "failing"
                  ELSE IF p.stage = "claiming" THEN "drawing" ELSE @]
DrawsNext(p) == p.stage \in {"starting", "claiming"} /\ ~p.reading
Rejected(p) ==
    LET q == AfterRejection(p) IN
    IF p.reading THEN Ended(q) ELSE [q EXCEPT !.reading = DrawsNext(p)]
SentOnRejection(v, p) ==
    (IF p.applying # None THEN ReportOf(v, p) ELSE {}) \cup
    (IF DrawsNext(p) THEN {Call(v, "read", p.id, None)} ELSE {}) \cup
    (IF p.reading THEN StartAgain(v, AfterRejection(p)) ELSE {})

(* The socket closes.  Tasks already started in the backend run on, what had  *)
(* not arrived is lost, and the connection's task notices later.              *)
Drop(v) ==
    LET n    == link[v].number
        mine == {c \in calls : c.viewer = v /\ c.link = n}
        p    == panel[v]
    IN
    /\ v \in Remote /\ link[v].up /\ opens + drops < MaxOpens
    /\ drops' = drops + 1
    /\ link' = [link EXCEPT ![v].up = FALSE]
    /\ guards' = [guards EXCEPT ![v] = @ \cup {n}]
    /\ panel' = [panel EXCEPT ![v] = Rejected(p)]
    /\ \E lost \in SUBSET mine :
          calls' = (calls \ lost) \cup {[c EXCEPT !.link = 0] : c \in SentOnRejection(v, p)}
    /\ answers' = {a \in answers : a.viewer # v}
    /\ resized' = [resized EXCEPT ![v] = <<>>]
    /\ astray' = IF resized[v] # <<>> THEN astray \cup {v} ELSE astray
    /\ UNCHANGED <<pty, turns, joined, undrawn, opens, moves>>

(* The bridge forwards more slowly than events are published: one that waits  *)
(* in the hub's ring is overwritten, and Resync is sent in its place.         *)
Lag(v) ==
    /\ v \in Remote /\ opens + drops < MaxOpens
    /\ drops' = drops + 1
    /\ \E i \in DOMAIN resized[v] : resized' = [resized EXCEPT ![v][i] = None]
    /\ UNCHANGED <<pty, link, guards, calls, turns, answers, panel, astray, joined, undrawn,
                   opens, moves>>

(* Mutant of Reconnect: nothing is drawn again. *)
ReconnectQuietly(v) ==
    LET n == link[v].number + 1 IN
    /\ ~link[v].up
    /\ link' = [link EXCEPT ![v] = [number |-> n, up |-> TRUE]]
    /\ calls' = {IF c.viewer = v /\ c.link = 0 THEN [c EXCEPT !.link = n] ELSE c : c \in calls}
    /\ UNCHANGED <<pty, guards, turns, answers, resized, panel, astray, joined, undrawn, boundVars>>

(* A new connection is ready: the queue is flushed, every connected view is   *)
(* drawn again (replayAll), and a panel whose start failed starts again, at   *)
(* once or when its redraw has ended.                                         *)
StartsLater(p) == p.stage = "starting" \/ p.stage = "failing"
Returned(p) ==
    CASE p.stage = "away" -> p
      [] p.stage = "failed" -> [p EXCEPT !.stage = "starting"]
      [] OTHER -> [p EXCEPT !.reading = TRUE, !.retry = StartsLater(p)]
SentOnReturn(v, p) ==
    CASE p.stage = "away" -> {}
      [] p.stage = "failed" -> {Call(v, "start", p.id, p.emulator)}
      [] OTHER -> ReadOf(v, p)

Reconnect(v) ==
    LET n == link[v].number + 1 IN
    /\ ~link[v].up
    /\ link' = [link EXCEPT ![v] = [number |-> n, up |-> TRUE]]
    /\ calls' = {IF c.viewer = v /\ c.link = 0 THEN [c EXCEPT !.link = n] ELSE c :
                    c \in calls \cup SentOnReturn(v, panel[v])}
    /\ panel' = [panel EXCEPT ![v] = Returned(@)]
    /\ joined' = joined \ {v}
    /\ UNCHANGED <<pty, guards, turns, answers, resized, astray, undrawn, boundVars>>
-----------------------------------------------------------------------------
Backend ==
    \/ \E c \in calls \cup Range(turns) : HandleCall(c)
    \/ \E v \in Remote : \E n \in guards[v] : GuardDrop(v, n)

View ==
    \/ \E v \in Viewers :
          ReceiveStart(v) \/ ReceiveSettled(v) \/ ReceiveScreen(v) \/ ReceiveResized(v)
            \/ ReceiveResync(v) \/ TimerFires(v) \/ ReceiveApplied(v)
    \/ \E v \in Remote : Reconnect(v)

User ==
    \/ \E v \in Viewers : OpenView(v) \/ CloseView(v) \/ Retry(v) \/ Focus(v)
                               \/ GiveUp(v) \/ Drop(v) \/ Lag(v)
    \/ \E v \in Viewers, grid \in Grids : Reshape(v, grid)

Next == Backend \/ View \/ User

Spec == Init /\ [][Next]_vars

(* Tasks of the backend run, callbacks and timers of a page fire, and a lost  *)
(* link is retried without end (scheduleReconnect).                           *)
Fairness == WF_vars(Backend) /\ WF_vars(View)
FairSpec == Spec /\ Fairness

-----------------------------------------------------------------------------
(* Properties *)

Live(v) == panel[v].stage = "live"
Quiet ==
    /\ calls = {} /\ answers = {} /\ turns = <<>>
    /\ \A v \in Viewers :
          /\ link[v].up /\ guards[v] = {} /\ resized[v] = <<>>
          /\ panel[v].stage \in {"away", "live"} /\ ~panel[v].reading
          /\ ~panel[v].timer /\ panel[v].applying = None

(* Once everything has arrived, a view's emulator has the PTY's grid, unless  *)
(* a dropped link or a full ring lost the last event, or an older answer to   *)
(* start() came after it (applyDimensions, onResized).                        *)
FollowsUnlessAstray ==
    Quiet => \A v \in Viewers : Live(v) => v \in astray \/ panel[v].emulator = pty.grid

(* ... and shows a screen laid out for that grid, unless the redraw that the  *)
(* move asked for joined a read already sent, or the last redraw drew nothing:*)
(* it timed out, or found a blank screen or another revision (redraw, replay, *)
(* replayOnce).                                                               *)
RedrawnOrNamed ==
    Quiet => \A v \in Viewers : Live(v) =>
                v \in astray \cup joined \cup undrawn \/ panel[v].drawnFor = panel[v].emulator

(* Whatever is under way comes to rest: a panel that starts ends up live or   *)
(* away (one whose start failed tries again when the link is back, a failed   *)
(* claim still draws the history), what the coordinator was asked to report   *)
(* is sent or dropped, through rejected reports and lost links                *)
(* (initializeRuntime, flush).                                                *)
Settles == []<>Quiet
=============================================================================
