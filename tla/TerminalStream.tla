--------------------------- MODULE TerminalStream ---------------------------
(***************************************************************************)
(* One terminal's output on its way from the PTY reader thread to a remote *)
(* view: the backend screen (OutputHistory), the broadcast hub, the        *)
(* connection's outbound queue, the invoke calls that travel beside it,    *)
(* and the browser's TerminalGatewayService connection, driven by          *)
(* TerminalPanel.initializeRuntime.                                        *)
(*                                                                         *)
(* Output text is abstracted to its sequence number: a chunk is one push   *)
(* of the reader, a snapshot is "everything up to sequence n, or a blank   *)
(* screen".  A launch is one PTY process; launches[l] is the runtime       *)
(* revision it was started under, the only identity the client can see.    *)
(***************************************************************************)
EXTENDS Naturals, Sequences, FiniteSets, Functions
LOCAL INSTANCE FiniteSetsExt

CONSTANTS
    Revisions,         (* runtime revisions a workspace row can name              *)
    MaxLaunches,       (* bound: PTY processes ever started under the terminal id *)
    MaxChunks,         (* bound: chunks the launches produce together             *)
    ScreensAfterPush,  (* what a push may leave: {FALSE} never blank, BOOLEAN any *)
    HubCapacity,       (* broadcast ring of RemoteEventHub                        *)
    OutboundCapacity,  (* the connection's mpsc queue to its writer task          *)
    ReadOnly,          (* TRUE: a viewer, which attaches and never launches       *)
    ReplayTimeouts,    (* TRUE: REPLAY_TIMEOUT_MS may expire                      *)
    MaxAttach,         (* bound: how often the panel connects                     *)
    MaxDrops,          (* bound: link drops                                       *)
    MaxRedraws         (* bound: redraws asked for by resize or visibility        *)

ASSUME TerminalStreamAssumption ==
    /\ Revisions \subseteq Nat
    /\ MaxLaunches \in Nat /\ MaxChunks \in Nat
    /\ ScreensAfterPush \subseteq BOOLEAN
    /\ HubCapacity \in Nat \ {0} /\ OutboundCapacity \in Nat \ {0}
    /\ ReadOnly \in BOOLEAN /\ ReplayTimeouts \in BOOLEAN
    /\ MaxAttach \in Nat /\ MaxDrops \in Nat /\ MaxRedraws \in Nat

VARIABLES
    launches,   (* the revision of every launch so far, in launch order        *)
    session,    (* PtyManager.sessions for this id: the running launch, or 0   *)
    history,    (* per launch: OutputHistory.last_sequence and a blank screen  *)
    published,  (* per launch: the last chunk its reader thread published      *)
    up,         (* the bridge connection is established and subscribed         *)
    hub,        (* events the connection's broadcast receiver has not read     *)
    lagged,     (* events overwritten before it read them: next recv is Lagged *)
    wire,       (* frames queued for, or on their way to, the browser          *)
    starts,     (* create_terminal / attach_terminal calls in flight           *)
    reads,      (* read_terminal_scrollback calls in flight                    *)
    nextRead,   (* identity of the next such call                              *)
    phase,      (* where TerminalPanel.initializeRuntime is                    *)
    attach,     (* how often the panel has connected                           *)
    conn,       (* the TerminalConnection                                      *)
    pass,       (* replayAllInFlight and replayAllPending                      *)
    view,       (* ghost: what onOutput was given since the panel was mounted  *)
    missed,     (* ghost: chunks lost to this client and not yet announced     *)
    announced,  (* ghost: chunks lost and announced by a Resync or a reconnect *)
    ignored,    (* ghost: chunks discarded before start() named the launch     *)
    drops, redraws

ptyVars   == <<launches, session, history, published>>
netVars   == <<up, hub, lagged, wire>>
callVars  == <<starts, reads, nextRead>>
viewVars  == <<phase, attach, conn, pass, view>>
boundVars == <<missed, announced, ignored, drops, redraws>>
vars == <<ptyVars, netVars, callVars, viewVars, boundVars>>

Launches == 1..MaxLaunches
Started  == 1..Len(launches)
None     == 0

(* What the server sends.  An event names its launch; the client reads only   *)
(* RevisionOf(event.launch).  Resync frames carry, as a ghost, what was lost. *)
Event(l, n)         == [launch |-> l, seq |-> n]
OutputFrame(e)      == [kind |-> "output", event |-> e]
ResyncFrame(lost)   == [kind |-> "resync", lost |-> lost]
ScrollbackFrame(r)  == [kind |-> "scrollback", read |-> r]
StartedFrame(a, l)  == [kind |-> "started", attach |-> a, launch |-> l]
FailedFrame(a)      == [kind |-> "startFailed", attach |-> a]

RevisionOf(l) == IF l = None THEN 0 ELSE launches[l]
HasRoom == Len(wire) < OutboundCapacity

Phases == {"unmounted", "starting", "settling", "live", "failing", "failed"}
ReadStages == {"queued", "sent", "taken"}

Closed == [open |-> FALSE, rev |-> 0, lastSequence |-> 0, replaying |-> FALSE,
           buffered |-> <<>>, replay |-> None, clearScreen |-> FALSE,
           releasing |-> FALSE]

Events == [launch : Launches, seq : Nat]
Reads  == [id : Nat \ {None}, stage : ReadStages, launch : Launches \cup {None},
           seq : Nat, blank : BOOLEAN]
Starts == [attach : Nat, rev : Revisions, sent : BOOLEAN]
Frames ==
    [kind : {"output"}, event : Events]
      \cup [kind : {"resync"}, lost : SUBSET Events]
      \cup [kind : {"scrollback"}, read : Reads]
      \cup [kind : {"started"}, attach : Nat, launch : Launches]
      \cup [kind : {"startFailed"}, attach : Nat]
Shown == [kind : {"snapshot", "chunk"}, attach : Nat, launch : Launches, seq : Nat]

Connections ==
    [open : BOOLEAN, rev : Revisions \cup {0}, lastSequence : Nat, replaying : BOOLEAN,
     buffered : Seq(Events), replay : Nat, clearScreen : BOOLEAN, releasing : BOOLEAN]

PtyTypeOK ==
    /\ launches \in Seq(Revisions) /\ Len(launches) <= MaxLaunches
    /\ session \in Launches \cup {None} /\ session <= Len(launches)
    /\ history \in [Launches -> [seq : Nat, blank : BOOLEAN]]
    /\ published \in [Launches -> Nat]

NetTypeOK ==
    /\ up \in BOOLEAN
    /\ hub \in Seq(Events) /\ lagged \in SUBSET Events
    /\ wire \in Seq(Frames)
    /\ starts \in SUBSET Starts /\ reads \in SUBSET Reads /\ nextRead \in Nat \ {0}

ViewTypeOK ==
    /\ phase \in Phases /\ attach \in Nat
    /\ conn \in Connections
    /\ pass \in [waitsOn : Nat, pending : BOOLEAN]
    /\ view \in Seq(Shown)

BoundTypeOK ==
    /\ missed \in SUBSET Events /\ announced \in SUBSET Events /\ ignored \in SUBSET Events
    /\ drops \in Nat /\ redraws \in Nat

TypeOK == PtyTypeOK /\ NetTypeOK /\ ViewTypeOK /\ BoundTypeOK

Init ==
    /\ launches = <<>> /\ session = None
    /\ history = [l \in Launches |-> [seq |-> 0, blank |-> TRUE]]
    /\ published = [l \in Launches |-> 0]
    /\ up = TRUE /\ hub = <<>> /\ lagged = {} /\ wire = <<>>
    /\ starts = {} /\ reads = {} /\ nextRead = 1
    /\ phase = "unmounted" /\ attach = 0 /\ conn = Closed
    /\ pass = [waitsOn |-> None, pending |-> FALSE]
    /\ view = <<>> /\ missed = {} /\ announced = {} /\ ignored = {}
    /\ drops = 0 /\ redraws = 0

-----------------------------------------------------------------------------
(* Backend: the PTY manager and its reader threads. *)

(* OutputHistory.push, under the history lock.  The thread that calls it has *)
(* published its previous chunk; a killed launch may still be drained.       *)
Push(l) ==
    /\ published[l] = history[l].seq
    /\ MapThenSumSet(LAMBDA m : history[m].seq, Launches) < MaxChunks
    /\ \E blank \in ScreensAfterPush :
          history' = [history EXCEPT ![l] = [seq |-> @.seq + 1, blank |-> blank]]
    /\ UNCHANGED <<launches, session, published, netVars, callVars, viewVars, boundVars>>

(* hub.publish, outside the lock.  The ring overwrites its oldest event when *)
(* the receiver has fallen behind; without a receiver the event is skipped.  *)
Publish(l) ==
    LET e == Event(l, published[l] + 1) IN
    /\ published[l] < history[l].seq
    /\ published' = [published EXCEPT ![l] = @ + 1]
    /\ \/ /\ ~up
          /\ missed' = missed \cup {e}
          /\ UNCHANGED <<hub, lagged>>
       \/ /\ up /\ Len(hub) < HubCapacity
          /\ hub' = Append(hub, e)
          /\ UNCHANGED <<lagged, missed>>
       \/ /\ up /\ Len(hub) >= HubCapacity
          /\ hub' = Append(Tail(hub), e)
          /\ lagged' = lagged \cup {Head(hub)}
          /\ missed' = missed \cup {Head(hub)}
    /\ UNCHANGED <<launches, session, history, up, wire, callVars, viewVars, announced,
                   ignored, drops, redraws>>

(* PtyManager.close: the entry goes, the reader drains on its own. *)
CloseTerminal ==
    /\ session # None
    /\ session' = None
    /\ UNCHANGED <<launches, history, published, netVars, callVars, viewVars, boundVars>>

(* Mutant of Launch: the entry of a launch that never was. *)
LaunchMisfiled(r) ==
    /\ session = None
    /\ Len(launches) < MaxLaunches
    /\ launches' = Append(launches, r)
    /\ session' = Len(launches) + 2
    /\ UNCHANGED <<history, published>>

(* PtyManager.start for a request naming revision r; only when none runs. *)
Launch(r) ==
    /\ session = None
    /\ Len(launches) < MaxLaunches
    /\ launches' = Append(launches, r)
    /\ session' = Len(launches) + 1
    /\ UNCHANGED <<history, published>>

(* Mutant of OwnerLaunch: the relaunch keeps the row's revision. *)
OwnerLaunchUnbumped(r) ==
    Launch(r) /\ UNCHANGED <<netVars, callVars, viewVars, boundVars>>

(* The desktop relaunches: restartTerminal saved a row one revision on, so the *)
(* revision is newer than every launch before it.                              *)
OwnerLaunch(r) ==
    /\ \A l \in Started : launches[l] < r
    /\ Launch(r)
    /\ UNCHANGED <<netVars, callVars, viewVars, boundVars>>

(* create_terminal / attach_terminal: whatever runs is attached to; a viewer  *)
(* is refused when nothing does, a controller launches (or fails to spawn).   *)
HandleStart(c) ==
    /\ c \in starts /\ c.sent /\ HasRoom
    /\ starts' = starts \ {c}
    /\ \/ /\ session # None
          /\ wire' = Append(wire, StartedFrame(c.attach, session))
          /\ UNCHANGED ptyVars
       \/ /\ ~ReadOnly
          /\ Launch(c.rev)
          /\ wire' = Append(wire, StartedFrame(c.attach, Len(launches) + 1))
       \/ /\ session = None
          /\ wire' = Append(wire, FailedFrame(c.attach))
          /\ UNCHANGED ptyVars
    /\ UNCHANGED <<up, hub, lagged, reads, nextRead, viewVars, boundVars>>

(* PtyManager.read_scrollback in the task spawn_invoke started.  The pair of  *)
(* sequence and screen is read under one lock; the launch is whichever ran.   *)
TakeSnapshot(q) ==
    /\ q \in reads /\ q.stage = "sent"
    /\ LET h == IF session = None THEN [seq |-> 0, blank |-> TRUE] ELSE history[session]
       IN  reads' = (reads \ {q})
                      \cup {[id |-> q.id, stage |-> "taken", launch |-> session,
                             seq |-> h.seq, blank |-> h.blank]}
    /\ UNCHANGED <<ptyVars, netVars, starts, nextRead, viewVars, boundVars>>

(* The task's own outbound.send of its Result frame. *)
SendResult(q) ==
    /\ q \in reads /\ q.stage = "taken" /\ HasRoom
    /\ reads' = reads \ {q}
    /\ wire' = Append(wire, ScrollbackFrame(q))
    /\ UNCHANGED <<ptyVars, up, hub, lagged, starts, nextRead, viewVars, boundVars>>

(* Mutant of ForwardEvent: the lag is swallowed. *)
ForwardEventQuietly ==
    /\ up /\ HasRoom /\ hub # <<>>
    /\ wire' = Append(wire, OutputFrame(Head(hub)))
    /\ hub' = Tail(hub)
    /\ lagged' = {}
    /\ UNCHANGED <<ptyVars, up, callVars, viewVars, boundVars>>

(* handle_connection's events.recv branch: a lag is announced before anything *)
(* that survived it is forwarded.                                             *)
ForwardEvent ==
    /\ up /\ HasRoom
    /\ \/ /\ lagged # {}
          /\ wire' = Append(wire, ResyncFrame(lagged))
          /\ lagged' = {}
          /\ UNCHANGED hub
       \/ /\ lagged = {} /\ hub # <<>>
          /\ wire' = Append(wire, OutputFrame(Head(hub)))
          /\ hub' = Tail(hub)
          /\ UNCHANGED lagged
    /\ UNCHANGED <<ptyVars, up, callVars, viewVars, boundVars>>

-----------------------------------------------------------------------------
(* Browser: TerminalGatewayService.  JavaScript runs one callback to its end; *)
(* the loop that releases held output is the only callback split into steps,  *)
(* so every other callback waits for it.                                      *)

Idle == ~conn.releasing

(* replay(): joins the redraw in flight, or starts replayOnce.  A call made   *)
(* while the bridge is down waits in RemoteBridgeClient.queue.                *)
BeginReplay(c, clear) ==
    IF c.replay # None
    THEN conn' = c /\ UNCHANGED <<reads, nextRead>>
    ELSE /\ conn' = [c EXCEPT !.replaying = TRUE, !.replay = nextRead,
                              !.clearScreen = clear]
         /\ reads' = reads \cup
              {[id |-> nextRead, stage |-> IF up THEN "sent" ELSE "queued",
                launch |-> None, seq |-> 0, blank |-> TRUE]}
         /\ nextRead' = nextRead + 1

NoPass == [waitsOn |-> None, pending |-> FALSE]
PassOver(c) == [waitsOn |-> IF c.replay # None THEN c.replay ELSE nextRead,
                pending |-> FALSE]

(* replayAll(): one pass at a time, later signals folded into one follow-up.  *)
ReplayAll(c) ==
    IF pass.waitsOn # None
    THEN pass' = [pass EXCEPT !.pending = TRUE] /\ conn' = c /\ UNCHANGED <<reads, nextRead>>
    ELSE IF c.open
         THEN pass' = PassOver(c) /\ BeginReplay(c, TRUE)
         ELSE pass' = pass /\ conn' = c /\ UNCHANGED <<reads, nextRead>>

(* The end of the pass: the follow-up a signal asked for meanwhile. *)
EndPass(c) ==
    IF pass.pending /\ c.open
    THEN pass' = PassOver(c) /\ BeginReplay(c, TRUE)
    ELSE pass' = NoPass /\ conn' = c /\ UNCHANGED <<reads, nextRead>>

(* The pass waits on a redraw of a connection that is gone. *)
PassOrphaned == pass.waitsOn \notin {None, conn.replay}

(* terminalEventMatchesSession(), and replayOnce's check of a snapshot; before *)
(* it the mutant that compares the terminal id alone.                         *)
MatchesAny(c, l) == l # None
Matches(c, l) == RevisionOf(l) = c.rev

ShownChunk(e)    == [kind |-> "chunk", attach |-> attach, launch |-> e.launch, seq |-> e.seq]
ShownSnapshot(r) == [kind |-> "snapshot", attach |-> attach, launch |-> r.launch, seq |-> r.seq]

(* Mutants of Deliver: no check by sequence number, and one off by one. *)
DeliverUnchecked(c, e) ==
    conn' = [c EXCEPT !.lastSequence = e.seq] /\ view' = Append(view, ShownChunk(e))
DeliverAgain(c, e) ==
    IF e.seq >= c.lastSequence THEN DeliverUnchecked(c, e) ELSE conn' = c /\ UNCHANGED view

(* deliver(): drops what the replayed scrollback covered, by sequence number. *)
Deliver(c, e) ==
    IF e.seq > c.lastSequence
    THEN conn' = [c EXCEPT !.lastSequence = e.seq] /\ view' = Append(view, ShownChunk(e))
    ELSE conn' = c /\ UNCHANGED view

(* The frame at the head of the wire is handled by one message callback. *)
Take(kind) == up /\ Idle /\ wire # <<>> /\ Head(wire).kind = kind /\ wire' = Tail(wire)

(* handleOutput() *)
ReceiveOutput ==
    /\ Take("output")
    /\ LET e == Head(wire).event IN
       IF ~conn.open \/ ~Matches(conn, e.launch)
       THEN UNCHANGED <<conn, view>>
       ELSE IF conn.replaying
            THEN conn' = [conn EXCEPT !.buffered = Append(@, e)] /\ UNCHANGED view
            ELSE Deliver(conn, e)
    /\ ignored' = IF phase = "starting" /\ ~Matches(conn, Head(wire).event.launch)
                  THEN ignored \cup {Head(wire).event}
                  ELSE ignored
    /\ UNCHANGED <<ptyVars, up, hub, lagged, callVars, phase, attach, pass, missed, announced,
                   drops, redraws>>

ReceiveResync ==
    /\ Take("resync")
    /\ ReplayAll(conn)
    /\ missed' = missed \ Head(wire).lost
    /\ announced' = announced \cup Head(wire).lost
    /\ UNCHANGED <<ptyVars, up, hub, lagged, starts, phase, attach, view, ignored,
                   drops, redraws>>

(* replayOnce() once its snapshot is there: drawn when it describes the launch *)
(* this view shows and holds anything, then the held output is released.       *)
ReceiveScrollback ==
    /\ Take("scrollback")
    /\ LET r == Head(wire).read IN
       \/ /\ r.id = conn.replay
          /\ IF Matches(conn, r.launch) /\ ~r.blank
             THEN /\ view' = Append(IF conn.clearScreen THEN <<>> ELSE view, ShownSnapshot(r))
                  /\ conn' = [conn EXCEPT !.lastSequence = r.seq, !.replaying = FALSE,
                                          !.releasing = TRUE]
             ELSE /\ conn' = [conn EXCEPT !.replaying = FALSE, !.releasing = TRUE]
                  /\ UNCHANGED view
          /\ UNCHANGED <<pass, reads, nextRead>>
       \/ /\ r.id # conn.replay /\ r.id = pass.waitsOn
          /\ EndPass(conn)
          /\ UNCHANGED view
       \/ /\ r.id # conn.replay /\ r.id # pass.waitsOn
          /\ UNCHANGED <<conn, view, pass, reads, nextRead>>
    /\ UNCHANGED <<ptyVars, up, hub, lagged, starts, phase, attach, boundVars>>

(* Mutant of ReplayTimeout: the buffer stays closed. *)
ReplayTimeoutHolding ==
    /\ ReplayTimeouts /\ Idle /\ conn.replay # None
    /\ conn' = [conn EXCEPT !.replay = None]
    /\ UNCHANGED <<ptyVars, netVars, callVars, phase, attach, pass, view, boundVars>>

(* withReplayTimeout: the redraw is given up, what it held back is released.  *)
ReplayTimeout ==
    /\ ReplayTimeouts /\ Idle
    /\ \/ /\ conn.replay # None
          /\ conn' = [conn EXCEPT !.replaying = FALSE, !.releasing = TRUE]
          /\ UNCHANGED <<pass, reads, nextRead>>
       \/ PassOrphaned /\ EndPass(conn)
    /\ UNCHANGED <<ptyVars, netVars, starts, phase, attach, view, boundVars>>

(* The finally block of replayOnce, one held chunk per step. *)
ReleaseHeld ==
    /\ conn.releasing /\ conn.buffered # <<>>
    /\ Deliver([conn EXCEPT !.buffered = Tail(@)], Head(conn.buffered))
    /\ UNCHANGED <<ptyVars, netVars, callVars, phase, attach, pass, boundVars>>

(* ... and its end: replayInFlight is cleared and its awaiters continue. *)
FinishReplay ==
    /\ conn.releasing /\ conn.buffered = <<>>
    /\ LET c == [conn EXCEPT !.releasing = FALSE, !.replay = None]
       IN  IF phase = "failing"
           THEN /\ conn' = Closed /\ phase' = "failed"
                /\ pass' = IF pass.waitsOn = conn.replay THEN NoPass ELSE pass
                /\ UNCHANGED <<reads, nextRead>>
           ELSE /\ IF pass.waitsOn = conn.replay
                   THEN EndPass(c)
                   ELSE conn' = c /\ UNCHANGED <<pass, reads, nextRead>>
                /\ UNCHANGED phase
    /\ UNCHANGED <<ptyVars, netVars, starts, attach, view, boundVars>>

(* redraw(): the grid moved, or the view came back on screen. *)
Redraw ==
    /\ Idle /\ phase \in {"settling", "live"} /\ redraws < MaxRedraws
    /\ BeginReplay(conn, TRUE)
    /\ redraws' = redraws + 1
    /\ UNCHANGED <<ptyVars, netVars, starts, phase, attach, pass, view, missed, announced,
                   ignored, drops>>

-----------------------------------------------------------------------------
(* Browser: TerminalPanel.initializeRuntime. *)

(* connect() and start(): a new connection that holds output back at once. *)
Connect(r) ==
    /\ attach < MaxAttach
    /\ attach' = attach + 1
    /\ phase' = "starting"
    /\ conn' = [Closed EXCEPT !.open = TRUE, !.rev = r, !.replaying = TRUE]
    /\ starts' = starts \cup {[attach |-> attach', rev |-> r, sent |-> up]}
    /\ UNCHANGED <<ptyVars, netVars, reads, nextRead, pass, boundVars>>

Mount(r) == Idle /\ phase = "unmounted" /\ Connect(r) /\ UNCHANGED view
Retry(r) == Idle /\ phase = "failed" /\ Connect(r) /\ UNCHANGED view

Unmount ==
    /\ Idle /\ phase # "unmounted"
    /\ phase' = "unmounted" /\ conn' = Closed /\ view' = <<>>
    /\ UNCHANGED <<ptyVars, netVars, callVars, attach, pass, boundVars>>

(* connection.buffered.filter(event => event.runtimeRevision === revision)    *)
HeldFor(held, r) ==
    IF \E i \in DOMAIN held : RevisionOf(held[i].launch) = r
    THEN SelectSeq(held, LAMBDA e : RevisionOf(e.launch) = r)
    ELSE <<>>

(* start() resolves: the connection adopts the launch that really runs. *)
ReceiveStarted ==
    /\ Take("started")
    /\ LET r == RevisionOf(Head(wire).launch) IN
       IF phase = "starting" /\ Head(wire).attach = attach
       THEN /\ phase' = "settling"
            /\ conn' = IF conn.rev = r THEN conn
                       ELSE [conn EXCEPT !.rev = r, !.lastSequence = 0,
                                         !.buffered = HeldFor(@, r)]
       ELSE UNCHANGED <<phase, conn>>
    /\ UNCHANGED <<ptyVars, up, hub, lagged, callVars, attach, pass, view, boundVars>>

(* start() rejects: the catch block releases what connect() started holding. *)
ReceiveStartFailed ==
    /\ Take("startFailed")
    /\ IF phase = "starting" /\ Head(wire).attach = attach
       THEN phase' = "failing" /\ BeginReplay(conn, FALSE)
       ELSE UNCHANGED <<phase, conn, reads, nextRead>>
    /\ UNCHANGED <<ptyVars, up, hub, lagged, starts, attach, pass, view, boundVars>>

(* Mutant of ReplayInitial: a settled panel draws no history. *)
ReplayInitialSkipped ==
    /\ Idle /\ phase = "settling"
    /\ phase' = "live"
    /\ UNCHANGED <<ptyVars, netVars, callVars, attach, conn, pass, view, boundVars>>

(* The claim on the grid came back: replayInitial(). *)
ReplayInitial ==
    /\ Idle /\ phase = "settling"
    /\ phase' = "live"
    /\ BeginReplay(conn, FALSE)
    /\ UNCHANGED <<ptyVars, netVars, starts, attach, pass, view, boundVars>>

-----------------------------------------------------------------------------
(* The bridge: RemoteBridgeClient and the server's connection task. *)

OnTheWay ==
    Range(hub) \cup {f.event : f \in {g \in Range(wire) : g.kind = "output"}}

(* rejectPending: the launch the panel awaits is rejected with every other    *)
(* call; before it the mutant that leaves it waiting.                         *)
PhaseKept(p) == p
PhaseAfterDrop(p) == IF p = "starting" THEN "failing" ELSE p

(* The socket closes.  The queues die with the connection, and every pending  *)
(* call is rejected: a redraw ends, a launch being waited on fails.           *)
(* A create_terminal that outlives its connection attaches, which changes     *)
(* nothing, or launches as OwnerLaunch may; a second launch under a revision  *)
(* that was used before is left out.                                          *)
Disconnect ==
    /\ up /\ Idle /\ drops < MaxDrops
    /\ up' = FALSE /\ hub' = <<>> /\ lagged' = {} /\ wire' = <<>>
    /\ missed' = missed \cup OnTheWay /\ UNCHANGED <<announced, ignored>>
    /\ drops' = drops + 1
    /\ starts' = {}
    /\ phase' = PhaseAfterDrop(phase)
    /\ LET starting == phase = "starting"
           follow   == PassOrphaned /\ pass.pending /\ conn.open
           fresh    == conn.replay = None /\ (starting \/ follow)
       IN  /\ conn' = CASE conn.replay # None ->
                             [conn EXCEPT !.replaying = FALSE, !.releasing = TRUE]
                        [] fresh ->
                             [conn EXCEPT !.replaying = TRUE, !.replay = nextRead,
                                          !.clearScreen = ~starting]
                        [] OTHER -> conn
           /\ reads' = IF fresh THEN {[id |-> nextRead, stage |-> "queued",
                                       launch |-> None, seq |-> 0, blank |-> TRUE]}
                       ELSE {}
           /\ nextRead' = IF fresh THEN nextRead + 1 ELSE nextRead
           /\ pass' = IF follow THEN PassOver(conn)
                      ELSE IF PassOrphaned THEN NoPass ELSE pass
    /\ UNCHANGED <<ptyVars, attach, view, redraws>>

(* Mutant of Reconnect: nothing is replayed. *)
ReconnectSilently ==
    /\ ~up /\ Idle
    /\ up' = TRUE
    /\ missed' = {} /\ announced' = announced \cup missed
    /\ starts' = {[c EXCEPT !.sent = TRUE] : c \in starts}
    /\ reads' = {[q EXCEPT !.stage = "sent"] : q \in reads}
    /\ UNCHANGED <<ptyVars, hub, lagged, wire, nextRead, viewVars, ignored,
                   drops, redraws>>

(* A later connection is ready: the queue is flushed, then onReconnected runs *)
(* replayAll over what it flushed.                                            *)
Reconnect ==
    LET flushed == {[q EXCEPT !.stage = "sent"] : q \in reads}
        clears  == pass.waitsOn = None /\ conn.open
        fresh   == clears /\ conn.replay = None
    IN
    /\ ~up /\ Idle
    /\ up' = TRUE
    /\ missed' = {} /\ announced' = announced \cup missed
    /\ starts' = {[c EXCEPT !.sent = TRUE] : c \in starts}
    /\ reads' = IF fresh
                THEN flushed \cup {[id |-> nextRead, stage |-> "sent", launch |-> None,
                                    seq |-> 0, blank |-> TRUE]}
                ELSE flushed
    /\ nextRead' = IF fresh THEN nextRead + 1 ELSE nextRead
    /\ conn' = IF fresh THEN [conn EXCEPT !.replaying = TRUE, !.replay = nextRead,
                                          !.clearScreen = TRUE]
               ELSE conn
    /\ pass' = IF clears THEN PassOver(conn)
               ELSE IF pass.waitsOn # None THEN [pass EXCEPT !.pending = TRUE] ELSE pass
    /\ UNCHANGED <<ptyVars, hub, lagged, wire, phase, attach, view, ignored,
                   drops, redraws>>

-----------------------------------------------------------------------------
ServerStep ==
    \/ \E l \in Started : Publish(l)
    \/ \E c \in starts : HandleStart(c)
    \/ \E q \in reads : TakeSnapshot(q) \/ SendResult(q)
    \/ ForwardEvent

ClientStep ==
    \/ ReceiveOutput \/ ReceiveResync \/ ReceiveScrollback
    \/ ReceiveStarted \/ ReceiveStartFailed
    \/ ReleaseHeld \/ FinishReplay \/ ReplayInitial
    \/ Reconnect

Environment ==
    \/ \E l \in Started : Push(l)
    \/ \E r \in Revisions : OwnerLaunch(r) \/ Mount(r) \/ Retry(r)
    \/ CloseTerminal \/ Unmount \/ Redraw \/ ReplayTimeout \/ Disconnect

Next == ServerStep \/ ClientStep \/ Environment

Spec == Init /\ [][Next]_vars

(* The backend's tasks run to completion, the browser handles the frames and  *)
(* promise callbacks it has, and scheduleReconnect retries without end.       *)
Fairness == WF_vars(ServerStep) /\ WF_vars(ClientStep)
FairSpec == Spec /\ Fairness

-----------------------------------------------------------------------------
(* Properties *)

SameRun(i, j) ==
    view[i].attach = view[j].attach /\ view[i].launch = view[j].launch

(* Whatever way snapshots and live output interleave, a connection never      *)
(* draws a chunk again, or one older than what it drew, and nothing late of   *)
(* the launch a newer one replaced (deliver, terminalEventMatchesSession,     *)
(* replayOnce).                                                               *)
ChunksInOrder ==
    \A i, j \in DOMAIN view :
        (i < j /\ view[i].attach = view[j].attach) =>
            \/ view[i].launch < view[j].launch
            \/ SameRun(i, j) /\ (view[j].kind = "chunk" => view[i].seq < view[j].seq)

(* A view never skips a chunk in the middle of the stream unless a Resync or  *)
(* a reconnect told the browser before (the Lagged branch of handle_connection),*)
(* or handleOutput discarded it as another launch's while start() had not yet *)
(* told which launch the view shows.                                          *)
NoSilentGap ==
    \A i \in (DOMAIN view) \ {1} :
        (SameRun(i - 1, i) /\ view[i].kind = "chunk") =>
            \A n \in view[i - 1].seq + 1 .. view[i].seq - 1 :
                Event(view[i].launch, n) \in announced \cup ignored

(* Output is held back only while a redraw, or the launch before the first    *)
(* one, is being waited for: nothing else would ever release it.              *)
HeldOnlyWhileAwaited ==
    /\ conn.replaying => conn.replay # None \/ phase \in {"starting", "settling"}
    /\ conn.buffered # <<>> => conn.replaying \/ conn.releasing
    /\ conn.replay # None => conn.replaying \/ conn.releasing

(* The position a connection has been fed to never moves back while it shows  *)
(* the same launch, whichever snapshot or held chunk is applied last.         *)
NeverRewinds ==
    [][(attach' = attach /\ conn.open /\ conn'.open /\ conn'.rev = conn.rev)
         => conn'.lastSequence >= conn.lastSequence]_conn

(* Held output reaches the screen, and a connecting panel leaves its starting *)
(* state: a redraw that never comes back, a launch that fails and a dropped   *)
(* connection all release the buffer.                                         *)
HeldOutputReleased == []<>(conn.buffered = <<>> /\ phase # "starting")

Quiescent ==
    /\ up /\ phase = "live" /\ Idle
    /\ hub = <<>> /\ lagged = {} /\ wire = <<>> /\ reads = {} /\ starts = {}
    /\ \A l \in Started : published[l] = history[l].seq

(* The chunks of launch l on screen: those of the last snapshot and after it. *)
Covered(l) ==
    UNION {IF view[i].kind = "snapshot" THEN 1..view[i].seq ELSE {view[i].seq} :
             i \in {j \in DOMAIN view : view[j].launch = l}}

(* With nothing left in flight, a live view shows everything its launch       *)
(* produced: resync and reconnect make subscribers replay their state         *)
(* (remote-bridge-client.ts deliver, watchReplaySignals).                     *)
WholeWhenQuiescent ==
    (Quiescent /\ session # None /\ RevisionOf(session) = conn.rev)
        => Covered(session) = 1..history[session].seq

(* The whole pipeline promises a view no more and no less than StreamPosition. *)
Position == INSTANCE StreamPosition
    WITH produced <- [l \in Launches |-> history[l].seq],
         open <- conn.open, rev <- conn.rev, position <- conn.lastSequence

(* A viewer's position in the output is one the launch it shows has reached,  *)
(* and only moves forward, through lag, resync, reconnect and relaunch.       *)
ImplementsPosition == Position!Spec
=============================================================================
