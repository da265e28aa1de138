------------------------ MODULE TerminalStreamProofs ------------------------
(***************************************************************************)
(* Proofs about TerminalStream: its type invariant, that output is never   *)
(* held back without something that releases it, that for a viewer (who    *)
(* cannot relaunch) a connection's position follows StreamPosition, that   *)
(* no gap is silent, that a viewer's chunks are in order and that its      *)
(* screen is whole once all is at rest.                                    *)
(***************************************************************************)
EXTENDS TerminalStream, SequenceTheorems, TLAPS

(* An event or a snapshot describes output its launch has produced. *)
Real(e) == e.launch \in Started /\ e.seq <= history[e.launch].seq

Snapshots == reads \cup {f.read : f \in {g \in Range(wire) : g.kind = "scrollback"}}

OutputReal ==
    /\ \A l \in Launches : published[l] <= history[l].seq
    /\ \A e \in Range(hub) : Real(e)
    /\ \A e \in Range(conn.buffered) : Real(e)
    /\ \A f \in Range(wire) : f.kind = "output" => Real(f.event)
    /\ \A f \in Range(wire) : f.kind = "started" => f.launch \in Started

SnapshotsReal ==
    \A q \in Snapshots :
        /\ q.id < nextRead
        /\ IF q.launch = None THEN q.blank ELSE Real(q)

(* What is held belongs to the launch the view asked for, so that nothing of *)
(* it is left when start() turns the view to another launch.                 *)
HeldMatches == \A e \in Range(conn.buffered) : RevisionOf(e.launch) = conn.rev

ConnectionSound ==
    /\ conn.open <=> phase \notin {"unmounted", "failed"}
    /\ ~conn.open => conn = Closed
    /\ conn.replay < nextRead
    /\ conn.releasing => conn.replay # None /\ ~conn.replaying
    /\ phase = "failing" => conn.replay # None

(* What follows needs that no two launches share a revision. *)
FreshRevisions == \A l, m \in Started : launches[l] = launches[m] => l = m

PositionReal ==
    /\ \A l \in Started : launches[l] = conn.rev => conn.lastSequence <= history[l].seq
    /\ (\A l \in Started : launches[l] # conn.rev) => conn.lastSequence = 0

(* A snapshot already taken for the redraw in flight is not behind the view: *)
(* the view stands still while it is being redrawn.                          *)
SnapshotCovers ==
    \A q \in Snapshots :
        (/\ q.id = conn.replay /\ conn.replay # None /\ ~conn.releasing
         /\ ~q.blank /\ RevisionOf(q.launch) = conn.rev)
            => conn.lastSequence <= q.seq

ViewerInv == FreshRevisions /\ PositionReal /\ SnapshotCovers

IInv ==
    /\ TypeOK
    /\ OutputReal
    /\ SnapshotsReal
    /\ HeldMatches
    /\ ConnectionSound
    /\ HeldOnlyWhileAwaited
    /\ ReadOnly => ViewerInv

-----------------------------------------------------------------------------
(* Sequences by what they contain. *)

(* Appending adds one element to what a queue contains. *)
LEMMA RangeAppend ==
    ASSUME NEW S, NEW s \in Seq(S), NEW x \in S
    PROVE  Append(s, x) \in Seq(S) /\ Range(Append(s, x)) = Range(s) \cup {x}
<1>1. /\ Append(s, x) \in Seq(S)
      /\ Len(Append(s, x)) = Len(s) + 1
      /\ \A i \in 1..Len(s) : Append(s, x)[i] = s[i]
      /\ Append(s, x)[Len(s) + 1] = x
  BY AppendProperties
<1>2. Len(s) \in Nat /\ DOMAIN s = 1..Len(s) /\ DOMAIN Append(s, x) = 1..Len(s) + 1
  BY <1>1, LenProperties
<1>3. ASSUME NEW y \in Range(Append(s, x)) PROVE y \in Range(s) \cup {x}
  BY <1>1, <1>2, <1>3 DEF Range
<1>4. ASSUME NEW y \in Range(s) PROVE y \in Range(Append(s, x))
  BY <1>1, <1>2, <1>4 DEF Range
<1>5. x \in Range(Append(s, x))
  BY <1>1, <1>2 DEF Range
<1> QED
  BY <1>1, <1>3, <1>4, <1>5

(* A queue gives its head away and keeps nothing new. *)
LEMMA RangeTail ==
    ASSUME NEW S, NEW s \in Seq(S), s # <<>>
    PROVE  /\ Head(s) \in S /\ Head(s) \in Range(s)
           /\ Tail(s) \in Seq(S) /\ Range(Tail(s)) \subseteq Range(s)
<1>1. /\ Head(s) \in S /\ Tail(s) \in Seq(S)
      /\ Len(Tail(s)) = Len(s) - 1
      /\ \A i \in 1..Len(Tail(s)) : Tail(s)[i] = s[i + 1]
  BY HeadTailProperties
<1>2. Len(s) \in Nat \ {0} /\ DOMAIN s = 1..Len(s) /\ DOMAIN Tail(s) = 1..Len(s) - 1
  BY <1>1, LenProperties, EmptySeq
<1>3. Head(s) = s[1]
  OBVIOUS
<1>4. Head(s) \in Range(s)
  BY <1>2, <1>3 DEF Range
<1>5. ASSUME NEW y \in Range(Tail(s)) PROVE y \in Range(s)
  BY <1>1, <1>2, <1>5 DEF Range
<1> QED
  BY <1>1, <1>4, <1>5

(* A full ring drops its oldest element for the new one. *)
LEMMA RangeOverwrite ==
    ASSUME NEW S, NEW s \in Seq(S), s # <<>>, NEW x \in S
    PROVE  /\ Head(s) \in S /\ Append(Tail(s), x) \in Seq(S)
           /\ Range(Append(Tail(s), x)) \subseteq Range(s) \cup {x}
<1>1. Head(s) \in S /\ Tail(s) \in Seq(S) /\ Range(Tail(s)) \subseteq Range(s)
  BY RangeTail
<1> DEFINE t == Tail(s)
<1>2. t \in Seq(S)
  BY <1>1
<1> HIDE DEF t
<1>3. Append(t, x) \in Seq(S) /\ Range(Append(t, x)) = Range(t) \cup {x}
  BY <1>2, RangeAppend
<1> QED
  BY <1>1, <1>3 DEF t

(* An empty queue contains nothing. *)
LEMMA RangeEmpty == ASSUME NEW S PROVE <<>> \in Seq(S) /\ Range(<<>>) = {}
  BY DEF Range

(* What a queue contains has the queue's type. *)
LEMMA RangeType == ASSUME NEW S, NEW s \in Seq(S) PROVE Range(s) \subseteq S
  BY RangeOfSeq

-----------------------------------------------------------------------------
(* What the types say of the parts the proofs look at. *)

(* The conjuncts of the type invariant about the backend, for citing one at a time. *)
LEMMA PtyTypes ==
    ASSUME PtyTypeOK
    PROVE  /\ Len(launches) \in Nat /\ Started \subseteq Launches
           /\ \A l \in Launches : history[l].seq \in Nat /\ published[l] \in Nat
           /\ \A l \in Started : launches[l] \in Revisions
  BY TerminalStreamAssumption DEF Started, Launches, PtyTypeOK

(* Each kind of frame the server sends is a frame. *)
LEMMA FrameTypes ==
    ASSUME NEW f \in Frames
    PROVE  /\ f.kind = "output" => f.event \in Events
           /\ f.kind = "scrollback" => f.read \in Reads
           /\ f.kind = "started" => f.attach \in Nat /\ f.launch \in Launches
           /\ f.kind = "resync" => f.lost \in SUBSET Events
  BY DEF Frames

(* The queues of the type invariant, and what reading their heads returns. *)
LEMMA QueueTypes ==
    ASSUME TypeOK
    PROVE  /\ Range(hub) \subseteq Events /\ Range(conn.buffered) \subseteq Events
           /\ Range(wire) \subseteq Frames
           /\ Snapshots \subseteq Reads
           /\ \A e \in Events : e.seq \in Nat
           /\ \A q \in Reads : q.seq \in Nat
<1>1. hub \in Seq(Events) /\ wire \in Seq(Frames) /\ reads \subseteq Reads
  BY DEF TypeOK, NetTypeOK
<1>2. conn.buffered \in Seq(Events)
  BY DEF TypeOK, ViewTypeOK, Connections
<1>3. Range(wire) \subseteq Frames
  BY <1>1, RangeType
<1>4. (\A e \in Events : e.seq \in Nat) /\ (\A q \in Reads : q.seq \in Nat)
  BY DEF Events, Reads
<1> QED
  BY <1>1, <1>2, <1>3, <1>4, RangeType, FrameTypes DEF Snapshots

-----------------------------------------------------------------------------
(* The invariant holds at the start. *)
LEMMA InitInv == Init => IInv
<1> SUFFICES ASSUME Init PROVE IInv
  OBVIOUS
<1> USE TerminalStreamAssumption
<1>1. TypeOK
  BY RangeEmpty DEF Init, TypeOK, PtyTypeOK, NetTypeOK, ViewTypeOK, BoundTypeOK, Closed,
     Connections, Launches, None, Phases
<1>2. OutputReal /\ SnapshotsReal /\ HeldMatches
  BY RangeEmpty DEF Init, Closed, OutputReal, SnapshotsReal, HeldMatches, Snapshots, Launches
<1>3. ConnectionSound /\ HeldOnlyWhileAwaited
  BY DEF Init, Closed, ConnectionSound, HeldOnlyWhileAwaited, None
<1>4. ViewerInv
  BY RangeEmpty DEF Init, Closed, ViewerInv, FreshRevisions, PositionReal, SnapshotCovers,
     Snapshots, Started
<1> QED
  BY <1>1, <1>2, <1>3, <1>4 DEF IInv

-----------------------------------------------------------------------------
(* Backend steps. *)

(* What a launch has produced it has produced for good. *)
LEMMA RealLasts ==
    ASSUME PtyTypeOK, PtyTypeOK', Len(launches) <= Len(launches'),
           \A l \in Launches : history[l].seq <= history'[l].seq,
           NEW e, e.seq \in Nat, Real(e)
    PROVE  Real(e)'
<1> USE TerminalStreamAssumption
<1>1. e.launch \in Launches /\ e.launch \in Started'
  <2>1. Len(launches) \in Nat /\ Started \subseteq Launches
    BY PtyTypes
  <2>2. Len(launches') \in Nat
    BY DEF PtyTypeOK
  <2> QED
    BY <2>1, <2>2 DEF Real, Started
<1>2. history[e.launch].seq \in Nat /\ history'[e.launch].seq \in Nat
  BY <1>1 DEF PtyTypeOK
<1> QED
  BY <1>1, <1>2 DEF Real

(* Only the PTY side moved: what is queued, held and shown stays sound. *)
LEMMA PtyStep ==
    ASSUME IInv, PtyTypeOK', UNCHANGED <<netVars, callVars, viewVars, boundVars>>,
           Len(launches) <= Len(launches'),
           \A l \in Started : launches'[l] = launches[l],
           \A l \in Launches : history[l].seq <= history'[l].seq,
           \A l \in Launches : published'[l] <= history'[l].seq,
           ReadOnly => FreshRevisions' /\ PositionReal'
    PROVE  IInv'
<1> USE TerminalStreamAssumption DEF IInv
<1>1. UNCHANGED <<up, hub, lagged, wire, starts, reads, nextRead, phase, attach, conn, pass, view,
                  missed, announced, ignored, drops, redraws>>
  BY DEF netVars, callVars, viewVars, boundVars
<1>2. TypeOK'
  BY <1>1 DEF TypeOK, NetTypeOK, ViewTypeOK, BoundTypeOK
<1>3. \A e : e.seq \in Nat /\ Real(e) => Real(e)'
  BY RealLasts DEF TypeOK
<1>4. OutputReal'
  <2>1. \A f \in Range(wire) : f.kind = "started" => f.launch \in Started'
    <3>1. Started \subseteq Started'
      BY <1>2, PtyTypes DEF Started, TypeOK, PtyTypeOK
    <3> QED
      BY <3>1 DEF OutputReal
  <2> QED
    BY <1>1, <1>3, <2>1, QueueTypes, FrameTypes DEF OutputReal
<1>5. SnapshotsReal' /\ Snapshots' = Snapshots
  BY <1>1, <1>3, QueueTypes DEF SnapshotsReal, Snapshots
<1>6. \A l \in Started : RevisionOf(l)' = RevisionOf(l)
  BY DEF RevisionOf, Started
<1>7. HeldMatches'
  BY <1>1, <1>6 DEF HeldMatches, OutputReal, Real
<1>8. ConnectionSound' /\ HeldOnlyWhileAwaited'
  BY <1>1 DEF ConnectionSound, HeldOnlyWhileAwaited
<1>9. ReadOnly => SnapshotCovers'
  <2>1. \A q \in Snapshots : ~q.blank => q.launch \in Started
    BY DEF SnapshotsReal, Real
  <2> QED
    BY <1>1, <1>5, <1>6, <2>1 DEF ViewerInv, SnapshotCovers
<1> QED
  BY <1>2, <1>4, <1>5, <1>7, <1>8, <1>9 DEF ViewerInv

(* A push extends the output of one launch. *)
LEMMA PushInv == ASSUME IInv, NEW l \in Started, Push(l) PROVE IInv'
<1> USE TerminalStreamAssumption DEF IInv, TypeOK
<1>1. PtyTypeOK' /\ l \in Launches
  BY PtyTypes DEF PtyTypeOK, Push
<1>2. \A m \in Launches : history[m].seq <= history'[m].seq /\ history'[m].seq \in Nat
  BY DEF Push, PtyTypeOK
<1>3. \A m \in Launches : published'[m] <= history'[m].seq
  BY <1>2, PtyTypes DEF Push, OutputReal, PtyTypeOK
<1>4. ReadOnly => FreshRevisions' /\ PositionReal'
  <2>1. UNCHANGED <<launches, conn>> /\ conn.lastSequence \in Nat
    BY DEF Push, viewVars, ViewTypeOK, Connections
  <2>2. Started' = Started /\ Started \subseteq Launches
    BY <2>1, PtyTypes DEF Started
  <2>3. ReadOnly => FreshRevisions'
    BY <2>1, <2>2 DEF ViewerInv, FreshRevisions
  <2>4. ReadOnly => PositionReal'
    <3>1. ASSUME ReadOnly, NEW m \in Started, launches[m] = conn.rev
          PROVE  conn.lastSequence <= history'[m].seq
      <4>1. conn.lastSequence <= history[m].seq /\ history[m].seq \in Nat
        BY <2>2, <3>1, PtyTypes DEF ViewerInv, PositionReal
      <4> QED
        BY <1>2, <2>1, <2>2, <4>1
    <3> QED
      BY <2>1, <2>2, <3>1 DEF ViewerInv, PositionReal
  <2> QED
    BY <2>3, <2>4
<1>5. UNCHANGED <<launches, netVars, callVars, viewVars, boundVars>>
  BY DEF Push
<1> QED
  BY <1>1, <1>2, <1>3, <1>4, <1>5, PtyTypes, PtyStep

(* A launch is published up to what it has produced; the ring keeps the new *)
(* event and may lose its oldest one.                                       *)
LEMMA PublishInv == ASSUME IInv, NEW l \in Started, Publish(l) PROVE IInv'
<1> USE TerminalStreamAssumption DEF IInv
<1> DEFINE e == Event(l, published[l] + 1)
<1>1. l \in Launches /\ e \in Events /\ published[l] < history[l].seq
  BY PtyTypes DEF Publish, Event, Events, TypeOK
<1>2. Real(e)
  BY <1>1, PtyTypes DEF Real, Event, TypeOK
<1>3. UNCHANGED <<launches, session, history, wire, reads, nextRead, starts, phase, attach, conn,
                  pass, view, up, announced, ignored, drops, redraws>>
  BY DEF Publish, callVars, viewVars
<1>4. hub \in Seq(Events)
  BY DEF TypeOK, NetTypeOK
<1>5. /\ hub' \in Seq(Events) /\ Range(hub') \subseteq Range(hub) \cup {e}
      /\ lagged' \subseteq Events /\ missed' \subseteq Events
  <2>1. CASE ~up
    BY <1>1, <1>4, <2>1 DEF Publish, TypeOK, NetTypeOK, BoundTypeOK
  <2>2. CASE up /\ Len(hub) < HubCapacity
    <3>1. hub' = Append(hub, e) /\ UNCHANGED <<lagged, missed>>
      BY <1>4, <2>2 DEF Publish
    <3> QED
      BY <1>1, <1>4, <3>1, RangeAppend DEF TypeOK, NetTypeOK, BoundTypeOK
  <2>3. CASE up /\ Len(hub) >= HubCapacity
    <3>1. hub # <<>>
      BY <2>3
    <3>2. /\ hub' = Append(Tail(hub), e)
          /\ lagged' = lagged \cup {Head(hub)} /\ missed' = missed \cup {Head(hub)}
      BY <1>4, <2>3 DEF Publish
    <3>3. /\ hub' \in Seq(Events) /\ Range(hub') \subseteq Range(hub) \cup {e}
          /\ Head(hub) \in Events
      BY <1>1, <1>4, <3>1, <3>2, RangeOverwrite
    <3> QED
      BY <3>2, <3>3 DEF TypeOK, NetTypeOK, BoundTypeOK
  <2> QED
    BY <2>1, <2>2, <2>3 DEF Publish
<1>6. TypeOK'
  <2>1. published' \in [Launches -> Nat]
    BY <1>1 DEF Publish, TypeOK, PtyTypeOK
  <2> QED
    BY <1>3, <1>5, <2>1 DEF TypeOK, PtyTypeOK, NetTypeOK, ViewTypeOK, BoundTypeOK
<1>7. OutputReal'
  <2>1. \A m \in Launches : published'[m] <= history[m].seq
    BY <1>1, PtyTypes DEF Publish, OutputReal, TypeOK, PtyTypeOK
  <2> QED
    BY <1>2, <1>3, <1>5, <2>1 DEF OutputReal, Real, Started
<1> QED
  BY <1>3, <1>6, <1>7 DEF SnapshotsReal, Snapshots, Real, HeldMatches, RevisionOf, ConnectionSound,
     HeldOnlyWhileAwaited, ViewerInv, FreshRevisions, PositionReal, SnapshotCovers, Started

(* Closing a terminal moves no output. *)
LEMMA CloseInv == ASSUME IInv, CloseTerminal PROVE IInv'
<1> USE TerminalStreamAssumption DEF IInv
<1>1. UNCHANGED <<launches, history, published, netVars, callVars, viewVars, boundVars>>
  BY DEF CloseTerminal
<1>2. PtyTypeOK'
  BY <1>1, PtyTypes DEF CloseTerminal, TypeOK, PtyTypeOK, None
<1>3. conn' = conn /\ Started' = Started
  BY <1>1 DEF viewVars, Started
<1> QED
  BY <1>1, <1>2, <1>3, PtyTypes, PtyStep
  DEF TypeOK, OutputReal, ViewerInv, FreshRevisions, PositionReal

(* A launch is one more entry; the ones before it keep their revisions. *)
LEMMA LaunchGrows ==
    ASSUME PtyTypeOK, NEW r \in Revisions, Launch(r)
    PROVE  /\ PtyTypeOK'
           /\ Len(launches') = Len(launches) + 1 /\ session' = Len(launches')
           /\ \A l \in Started : launches'[l] = launches[l]
           /\ launches'[Len(launches')] = r
           /\ Started' = Started \cup {Len(launches')}
<1> USE TerminalStreamAssumption
<1>1. /\ launches' \in Seq(Revisions)
      /\ Len(launches') = Len(launches) + 1
      /\ \A l \in Started : launches'[l] = launches[l]
      /\ launches'[Len(launches) + 1] = r
  BY AppendProperties DEF Launch, PtyTypeOK, Started
<1>2. Len(launches) \in Nat /\ Len(launches) < MaxLaunches /\ session' = Len(launches) + 1
  BY DEF Launch, PtyTypeOK
<1>3. PtyTypeOK'
  BY <1>1, <1>2 DEF Launch, PtyTypeOK, Launches
<1> QED
  BY <1>1, <1>2, <1>3 DEF Started

(* The desktop's launch is newer than every one before it. *)
LEMMA OwnerLaunchInv == ASSUME IInv, NEW r \in Revisions, OwnerLaunch(r) PROVE IInv'
<1> USE TerminalStreamAssumption DEF IInv, TypeOK
<1> DEFINE new == Len(launches')
<1>1. /\ PtyTypeOK' /\ new = Len(launches) + 1
      /\ \A l \in Started : launches'[l] = launches[l]
      /\ launches'[new] = r /\ Started' = Started \cup {new}
  BY LaunchGrows DEF OwnerLaunch
<1>2. /\ UNCHANGED <<history, published, netVars, callVars, viewVars, boundVars>>
      /\ \A l \in Started : launches[l] < r /\ launches[l] # r
  BY PtyTypes DEF OwnerLaunch, Launch
<1>3. conn' = conn /\ Started \subseteq Launches /\ new \in Launches /\ Len(launches) <= new
  <2>1. new <= MaxLaunches /\ Len(launches) \in Nat
    BY <1>1, PtyTypes DEF PtyTypeOK
  <2> QED
    BY <1>1, <1>2, <2>1, PtyTypes DEF viewVars, Launches
<1>4. ASSUME ReadOnly PROVE FreshRevisions'
  BY <1>1, <1>2, <1>4 DEF FreshRevisions, ViewerInv
<1>5. ASSUME ReadOnly PROVE PositionReal'
  <2>1. ASSUME NEW l \in Started', launches'[l] = conn.rev
        PROVE  conn.lastSequence <= history[l].seq
    <3>1. CASE l \in Started
      BY <1>1, <1>5, <2>1, <3>1 DEF ViewerInv, PositionReal
    <3>2. CASE l = new
      <4>1. conn.lastSequence = 0
        BY <1>1, <1>2, <1>5, <2>1, <3>2 DEF ViewerInv, PositionReal
      <4> QED
        BY <1>3, <3>2, <4>1, PtyTypes
    <3> QED
      BY <1>1, <3>1, <3>2
  <2>2. ASSUME \A l \in Started' : launches'[l] # conn.rev
        PROVE  conn.lastSequence = 0
    BY <1>1, <1>5, <2>2 DEF ViewerInv, PositionReal
  <2> QED
    BY <1>2, <1>3, <2>1, <2>2 DEF PositionReal
<1>6. \A l \in Launches : history[l].seq <= history'[l].seq /\ published'[l] <= history'[l].seq
  BY <1>2, PtyTypes DEF OutputReal
<1> QED
  BY <1>1, <1>2, <1>3, <1>4, <1>5, <1>6, PtyStep

(* Only the queues and calls moved, between the backend and the browser. *)
LEMMA QueueStep ==
    ASSUME IInv, NetTypeOK', BoundTypeOK', UNCHANGED <<ptyVars, viewVars, nextRead>>,
           \A e \in Range(hub') : Real(e),
           \A f \in Range(wire') : /\ f.kind = "output" => Real(f.event)
                                   /\ f.kind = "started" => f.launch \in Started,
           \A q \in Snapshots' :
              q \in Snapshots \/ /\ q.id < nextRead
                                 /\ IF q.launch = None THEN q.blank ELSE Real(q)
                                 /\ ReadOnly /\ q.id = conn.replay /\ ~conn.releasing /\ ~q.blank
                                      /\ RevisionOf(q.launch) = conn.rev
                                        => conn.lastSequence <= q.seq
    PROVE  IInv'
<1> USE TerminalStreamAssumption DEF IInv
<1>1. UNCHANGED <<launches, session, history, published, phase, attach, conn, pass, view, nextRead>>
  BY DEF ptyVars, viewVars
<1>2. TypeOK'
  BY <1>1 DEF TypeOK, PtyTypeOK, ViewTypeOK
<1>3. OutputReal'
  BY <1>1 DEF OutputReal, Real, Started
<1>4. SnapshotsReal'
  BY <1>1 DEF SnapshotsReal, Real, Started
<1>5. HeldMatches' /\ ConnectionSound' /\ HeldOnlyWhileAwaited'
  BY <1>1 DEF HeldMatches, RevisionOf, ConnectionSound, HeldOnlyWhileAwaited
<1>6. ReadOnly => ViewerInv'
  BY <1>1 DEF ViewerInv, FreshRevisions, PositionReal, SnapshotCovers, RevisionOf, Started
<1> QED
  BY <1>2, <1>3, <1>4, <1>5, <1>6

(* A frame that describes what is there can be queued. *)
LEMMA FrameQueued ==
    ASSUME IInv, NEW f \in Frames, wire' = Append(wire, f),
           f.kind = "output" => Real(f.event),
           f.kind = "started" => f.launch \in Started
    PROVE  /\ wire' \in Seq(Frames)
           /\ Range(wire') = Range(wire) \cup {f}
           /\ \A g \in Range(wire') : /\ g.kind = "output" => Real(g.event)
                                      /\ g.kind = "started" => g.launch \in Started
<1>1. wire \in Seq(Frames)
  BY DEF IInv, TypeOK, NetTypeOK
<1>2. wire' \in Seq(Frames) /\ Range(wire') = Range(wire) \cup {f}
  BY <1>1, RangeAppend
<1> QED
  BY <1>2 DEF IInv, OutputReal

(* The call that attaches to what runs, or is refused, queues its answer; the *)
(* one that launches adds an entry no earlier frame or event speaks of.       *)
LEMMA HandleStartInv == ASSUME IInv, NEW c \in starts, HandleStart(c) PROVE IInv'
<1> USE TerminalStreamAssumption DEF IInv
<1>1. /\ starts' \in SUBSET Starts /\ c.attach \in Nat /\ c.rev \in Revisions
      /\ UNCHANGED <<up, hub, lagged, reads, nextRead, viewVars, boundVars>>
  BY DEF HandleStart, TypeOK, NetTypeOK, Starts
<1>2. ASSUME NEW f \in Frames, wire' = Append(wire, f), UNCHANGED ptyVars,
             f.kind \in {"started", "startFailed"},
             f.kind = "started" => f.launch \in Started
      PROVE  IInv'
  <2>1. /\ wire' \in Seq(Frames) /\ Range(wire') = Range(wire) \cup {f}
        /\ \A g \in Range(wire') : /\ g.kind = "output" => Real(g.event)
                                   /\ g.kind = "started" => g.launch \in Started
    BY <1>2, FrameQueued
  <2>2. Snapshots' = Snapshots
    BY <1>1, <1>2, <2>1 DEF Snapshots
  <2>3. NetTypeOK' /\ BoundTypeOK'
    BY <1>1, <2>1 DEF TypeOK, NetTypeOK, BoundTypeOK, boundVars
  <2>4. \A e \in Range(hub') : Real(e)
    BY <1>1 DEF OutputReal
  <2> QED
    BY <1>1, <1>2, <2>1, <2>2, <2>3, <2>4, QueueStep
<1>3. CASE /\ session # None /\ UNCHANGED ptyVars
           /\ wire' = Append(wire, StartedFrame(c.attach, session))
  <2>1. session \in Started /\ session \in Launches
    BY <1>3, PtyTypes DEF TypeOK, PtyTypeOK, Started, None, Launches
  <2>2. StartedFrame(c.attach, session) \in Frames
    BY <1>1, <2>1 DEF StartedFrame, Frames
  <2> QED
    BY <1>2, <1>3, <2>1, <2>2 DEF StartedFrame
<1>4. CASE UNCHANGED ptyVars /\ wire' = Append(wire, FailedFrame(c.attach))
  <2>1. FailedFrame(c.attach) \in Frames
    BY <1>1 DEF FailedFrame, Frames
  <2> QED
    BY <1>2, <1>4, <2>1 DEF FailedFrame
<1>5. CASE /\ ~ReadOnly /\ Launch(c.rev)
           /\ wire' = Append(wire, StartedFrame(c.attach, Len(launches) + 1))
  <2> DEFINE f == StartedFrame(c.attach, Len(launches) + 1)
  <2>1. /\ PtyTypeOK' /\ Len(launches') = Len(launches) + 1
        /\ \A l \in Started : launches'[l] = launches[l]
        /\ Started' = Started \cup {Len(launches) + 1}
        /\ UNCHANGED <<history, published>>
    BY <1>1, <1>5, LaunchGrows DEF TypeOK, Launch
  <2>2. Len(launches) + 1 \in Launches
    BY <2>1, PtyTypes DEF TypeOK, PtyTypeOK, Launches
  <2>3. f \in Frames /\ f.kind = "started" /\ f.launch = Len(launches) + 1
    BY <1>1, <2>2 DEF StartedFrame, Frames
  <2> HIDE DEF f
  <2>4. wire' \in Seq(Frames) /\ Range(wire') = Range(wire) \cup {f}
    BY <1>5, <2>3, RangeAppend DEF TypeOK, NetTypeOK, f
  <2>5. TypeOK'
    BY <1>1, <2>1, <2>4 DEF TypeOK, NetTypeOK, ViewTypeOK, BoundTypeOK, viewVars, boundVars
  <2>6. \A e : Real(e) => Real(e)'
    BY <2>1 DEF Real
  <2>7. UNCHANGED <<hub, conn, reads, nextRead, phase>>
    BY <1>1 DEF viewVars
  <2>8. OutputReal'
    BY <2>1, <2>3, <2>4, <2>6, <2>7 DEF OutputReal
  <2>9. SnapshotsReal'
    <3>1. Snapshots' = Snapshots
      BY <2>3, <2>4, <2>7 DEF Snapshots
    <3> QED
      BY <2>6, <2>7, <3>1 DEF SnapshotsReal
  <2>10. HeldMatches'
    <3>1. \A l \in Started : RevisionOf(l)' = RevisionOf(l)
      BY <2>1 DEF RevisionOf, Started
    <3> QED
      BY <2>7, <3>1 DEF HeldMatches, OutputReal, Real
  <2>11. ConnectionSound' /\ HeldOnlyWhileAwaited'
    BY <2>7 DEF ConnectionSound, HeldOnlyWhileAwaited
  <2> QED
    BY <1>5, <2>5, <2>8, <2>9, <2>10, <2>11
<1> QED
  BY <1>3, <1>4, <1>5 DEF HandleStart

(* A snapshot is taken of what the running launch has drawn: at least as far *)
(* as a view that waits for it has been fed.                                 *)
LEMMA TakeSnapshotInv == ASSUME IInv, NEW q \in reads, TakeSnapshot(q) PROVE IInv'
<1> USE TerminalStreamAssumption DEF IInv
<1> DEFINE h == IF session = None THEN [seq |-> 0, blank |-> TRUE] ELSE history[session]
           t == [id |-> q.id, stage |-> "taken", launch |-> session,
                 seq |-> h.seq, blank |-> h.blank]
<1>1. /\ reads' = (reads \ {q}) \cup {t} /\ q \in Reads
      /\ UNCHANGED <<ptyVars, netVars, starts, nextRead, viewVars, boundVars>>
  BY DEF TakeSnapshot, TypeOK, NetTypeOK
<1>2. session \in Launches \cup {None} /\ (session # None => session \in Started)
  BY PtyTypes DEF TypeOK, PtyTypeOK, Started, None, Launches
<1>3. h \in [seq : Nat, blank : BOOLEAN]
  BY <1>2 DEF TypeOK, PtyTypeOK, None
<1>4. t \in Reads
  BY <1>1, <1>2, <1>3 DEF Reads, ReadStages
<1>5. NetTypeOK' /\ BoundTypeOK'
  BY <1>1, <1>4 DEF TypeOK, NetTypeOK, BoundTypeOK, netVars, boundVars
<1>6. t.id < nextRead /\ IF t.launch = None THEN t.blank ELSE Real(t)
  <2>1. q.id < nextRead
    BY DEF SnapshotsReal, Snapshots
  <2>2. session # None => history[session].seq \in Nat
    BY <1>2, PtyTypes DEF TypeOK
  <2> QED
    BY <1>2, <2>1, <2>2 DEF Real
<1>7. ReadOnly /\ ~t.blank /\ RevisionOf(t.launch) = conn.rev => conn.lastSequence <= t.seq
  <2> SUFFICES ASSUME ReadOnly, session # None, launches[session] = conn.rev
               PROVE  conn.lastSequence <= history[session].seq
    BY <1>2 DEF RevisionOf, None
  <2> QED
    BY <1>2 DEF ViewerInv, PositionReal
<1> HIDE DEF t
<1>8. Snapshots' \subseteq Snapshots \cup {t}
  BY <1>1 DEF Snapshots, netVars
<1>9. /\ \A e \in Range(hub') : Real(e)
      /\ \A f \in Range(wire') : /\ f.kind = "output" => Real(f.event)
                                 /\ f.kind = "started" => f.launch \in Started
  BY <1>1 DEF OutputReal, netVars
<1> QED
  BY <1>1, <1>5, <1>6, <1>7, <1>8, <1>9, QueueStep

(* The snapshot travels unchanged. *)
LEMMA SendResultInv == ASSUME IInv, NEW q \in reads, SendResult(q) PROVE IInv'
<1> USE TerminalStreamAssumption DEF IInv
<1>1. /\ q \in Reads /\ reads' = reads \ {q} /\ wire' = Append(wire, ScrollbackFrame(q))
      /\ UNCHANGED <<ptyVars, up, hub, lagged, starts, nextRead, viewVars, boundVars>>
  BY DEF SendResult, TypeOK, NetTypeOK
<1>2. /\ ScrollbackFrame(q) \in Frames /\ ScrollbackFrame(q).kind = "scrollback"
      /\ ScrollbackFrame(q).read = q
  BY <1>1 DEF ScrollbackFrame, Frames
<1>3. /\ wire' \in Seq(Frames) /\ Range(wire') = Range(wire) \cup {ScrollbackFrame(q)}
      /\ \A g \in Range(wire') : /\ g.kind = "output" => Real(g.event)
                                 /\ g.kind = "started" => g.launch \in Started
  BY <1>1, <1>2, FrameQueued
<1>4. NetTypeOK' /\ BoundTypeOK'
  BY <1>1, <1>3 DEF TypeOK, NetTypeOK, BoundTypeOK, boundVars
<1>5. Snapshots' \subseteq Snapshots
  BY <1>1, <1>2, <1>3 DEF Snapshots
<1>6. \A e \in Range(hub') : Real(e)
  BY <1>1 DEF OutputReal
<1> QED
  BY <1>1, <1>3, <1>4, <1>5, <1>6, QueueStep

(* An event moves from the ring to the wire, or a lag is announced. *)
LEMMA ForwardEventInv == ASSUME IInv, ForwardEvent PROVE IInv'
<1> USE TerminalStreamAssumption DEF IInv
<1>1. UNCHANGED <<ptyVars, up, callVars, viewVars, boundVars, reads, starts, nextRead>>
  BY DEF ForwardEvent, callVars
<1>2. hub \in Seq(Events) /\ lagged \in SUBSET Events
  BY DEF TypeOK, NetTypeOK
<1>3. ASSUME NEW f \in Frames, wire' = Append(wire, f), f.kind \in {"output", "resync"},
             f.kind = "output" => Real(f.event),
             hub' \in Seq(Events), Range(hub') \subseteq Range(hub), lagged' \in SUBSET Events
      PROVE  IInv'
  <2>1. /\ wire' \in Seq(Frames) /\ Range(wire') = Range(wire) \cup {f}
        /\ \A g \in Range(wire') : /\ g.kind = "output" => Real(g.event)
                                   /\ g.kind = "started" => g.launch \in Started
    BY <1>3, FrameQueued
  <2>2. NetTypeOK' /\ BoundTypeOK'
    BY <1>1, <1>3, <2>1 DEF TypeOK, NetTypeOK, BoundTypeOK, boundVars
  <2>3. Snapshots' = Snapshots
    BY <1>1, <1>3, <2>1 DEF Snapshots
  <2>4. \A e \in Range(hub') : Real(e)
    BY <1>3 DEF OutputReal
  <2> QED
    BY <1>1, <2>1, <2>2, <2>3, <2>4, QueueStep
<1>4. CASE wire' = Append(wire, ResyncFrame(lagged)) /\ lagged' = {} /\ UNCHANGED hub
  <2>1. ResyncFrame(lagged) \in Frames /\ ResyncFrame(lagged).kind = "resync"
    BY <1>2 DEF ResyncFrame, Frames
  <2> QED
    BY <1>2, <1>3, <1>4, <2>1
<1>5. CASE /\ hub # <<>> /\ wire' = Append(wire, OutputFrame(Head(hub)))
           /\ hub' = Tail(hub) /\ UNCHANGED lagged
  <2>1. /\ Head(hub) \in Events /\ Head(hub) \in Range(hub)
        /\ hub' \in Seq(Events) /\ Range(hub') \subseteq Range(hub)
    BY <1>2, <1>5, RangeTail
  <2>2. /\ OutputFrame(Head(hub)) \in Frames /\ OutputFrame(Head(hub)).kind = "output"
        /\ OutputFrame(Head(hub)).event = Head(hub)
    BY <2>1 DEF OutputFrame, Frames
  <2>3. Real(Head(hub))
    BY <2>1 DEF OutputReal
  <2> QED
    BY <1>2, <1>3, <1>5, <2>1, <2>2, <2>3
<1> QED
  BY <1>4, <1>5 DEF ForwardEvent

-----------------------------------------------------------------------------
(* Browser steps. *)

(* Two stages of the same read. *)
SameRead(p, q) == p.id = q.id /\ p.launch = q.launch /\ p.seq = q.seq /\ p.blank = q.blank

(* What a callback has to show for the invariant: the backend stands still,  *)
(* the queues only get shorter, and new reads have nothing in them yet.      *)
LEMMA ClientInv ==
    ASSUME IInv, NetTypeOK', ViewTypeOK', BoundTypeOK', UNCHANGED ptyVars,
           Range(hub') \subseteq Range(hub), Range(wire') \subseteq Range(wire),
           nextRead <= nextRead',
           \A q \in reads' : \/ q \in reads
                             \/ q.launch = None /\ q.blank /\ q.id < nextRead'
                             \/ \E p \in reads : SameRead(p, q),
           \A e \in Range(conn'.buffered) : Real(e) /\ RevisionOf(e.launch) = conn'.rev,
           ConnectionSound', HeldOnlyWhileAwaited',
           ReadOnly => /\ PositionReal'
                       /\ \A q \in Snapshots :
                            (/\ q.id = conn'.replay /\ conn'.replay # None /\ ~conn'.releasing
                             /\ ~q.blank /\ RevisionOf(q.launch) = conn'.rev)
                                => conn'.lastSequence <= q.seq
    PROVE  IInv'
<1> USE TerminalStreamAssumption DEF IInv
<1>1. UNCHANGED <<launches, session, history, published>> /\ Started' = Started
  BY DEF ptyVars, Started
<1>2. TypeOK'
  BY <1>1 DEF TypeOK, PtyTypeOK
<1>3. OutputReal'
  BY <1>1 DEF OutputReal, Real, Started
<1>4. \A q \in Snapshots' : \/ q.launch = None /\ q.blank /\ q.id < nextRead'
                            \/ \E p \in Snapshots : SameRead(p, q)
  BY DEF Snapshots, SameRead
<1>5. SnapshotsReal'
  <2>1. \A q \in Snapshots : q.id \in Nat
    BY QueueTypes DEF Reads
  <2>2. nextRead \in Nat /\ nextRead' \in Nat
    BY DEF TypeOK, NetTypeOK
  <2>3. \A q \in Snapshots : q.id < nextRead'
    BY <2>1, <2>2 DEF SnapshotsReal
  <2>4. ASSUME NEW q \in Snapshots'
        PROVE  q.id < nextRead' /\ IF q.launch = None THEN q.blank ELSE Real(q)
    BY <1>4, <2>3, <2>4 DEF SnapshotsReal, SameRead, Real
  <2> QED
    BY <1>1, <2>4 DEF SnapshotsReal, Real, Started
<1>6. HeldMatches'
  BY <1>1 DEF HeldMatches, RevisionOf
<1>7. ReadOnly => ViewerInv'
  BY <1>1, <1>4 DEF ViewerInv, FreshRevisions, SnapshotCovers, RevisionOf, Started, SameRead
<1> QED
  BY <1>2, <1>3, <1>5, <1>6, <1>7

(* What BeginReplay, ReplayAll and EndPass have in common: they leave a       *)
(* connection c as it is, or start a redraw on it.                            *)
Redrawn(c) ==
    /\ conn' \in Connections
    /\ nextRead' \in Nat \ {0} /\ nextRead <= nextRead'
    /\ reads' \in SUBSET Reads
    /\ \A q \in reads' : q \in reads \/ (q.launch = None /\ q.blank /\ q.id < nextRead')
    /\ \/ conn' = c
       \/ /\ c.replay = None /\ c.open /\ conn'.replaying
          /\ conn'.replay = nextRead /\ nextRead < nextRead'
          /\ conn'.open = c.open /\ conn'.rev = c.rev /\ conn'.releasing = c.releasing
          /\ conn'.lastSequence = c.lastSequence /\ conn'.buffered = c.buffered

(* A redraw that begins leaves everything of the connection but its redraw alone. *)
LEMMA Untouched ==
    ASSUME NetTypeOK, NEW c \in Connections, conn' = c, UNCHANGED <<reads, nextRead>>
    PROVE  Redrawn(c)
<1>1. nextRead \in Nat \ {0} /\ nextRead <= nextRead /\ reads \in SUBSET Reads
  BY DEF NetTypeOK
<1> QED
  BY <1>1 DEF Redrawn

(* replay() either joins the redraw in flight or starts a new one with a fresh id. *)
LEMMA BeginReplayRedraws ==
    ASSUME NetTypeOK, NEW c \in Connections, c.open, NEW clear \in BOOLEAN, BeginReplay(c, clear)
    PROVE  Redrawn(c) /\ conn'.replay # None
<1>1. nextRead \in Nat \ {0} /\ reads \in SUBSET Reads
  BY DEF NetTypeOK
<1>2. CASE c.replay # None
  BY <1>1, <1>2 DEF BeginReplay, Redrawn
<1>3. CASE c.replay = None
  <2> DEFINE q == [id |-> nextRead, stage |-> IF up THEN "sent" ELSE "queued",
                   launch |-> None, seq |-> 0, blank |-> TRUE]
  <2>1. q \in Reads /\ q.launch = None /\ q.blank /\ q.id = nextRead
    BY <1>1 DEF Reads, ReadStages, None
  <2> HIDE DEF q
  <2>2. /\ conn' = [c EXCEPT !.replaying = TRUE, !.replay = nextRead, !.clearScreen = clear]
        /\ reads' = reads \cup {q} /\ nextRead' = nextRead + 1
    BY <1>3 DEF BeginReplay, q
  <2>3. conn' \in Connections
    BY <1>1, <2>2 DEF Connections
  <2>4. /\ conn'.replaying /\ conn'.replay = nextRead /\ conn'.open = c.open /\ conn'.rev = c.rev
        /\ conn'.releasing = c.releasing /\ conn'.lastSequence = c.lastSequence
        /\ conn'.buffered = c.buffered
    BY <2>2 DEF Connections
  <2> QED
    <3>1. nextRead' \in Nat \ {0} /\ nextRead < nextRead' /\ nextRead <= nextRead'
      BY <1>1, <2>2
    <3>2. reads' \in SUBSET Reads
      BY <1>1, <2>1, <2>2
    <3>3. \A r \in reads' : r \in reads \/ (r.launch = None /\ r.blank /\ r.id < nextRead')
      BY <2>1, <2>2, <3>1
    <3>4. conn'.replay # None
      BY <1>1, <2>4 DEF None
    <3> QED
      BY <1>3, <2>3, <2>4, <3>1, <3>2, <3>3, <3>4 DEF Redrawn
<1> QED
  BY <1>2, <1>3

(* A pass over the connection is a pass. *)
LEMMA PassOverType ==
    ASSUME NetTypeOK, NEW c \in Connections
    PROVE  PassOver(c) \in [waitsOn : Nat, pending : BOOLEAN]
  BY DEF PassOver, NetTypeOK, Connections

(* replayAll() leaves the connection as it is or begins a redraw of it. *)
LEMMA ReplayAllRedraws ==
    ASSUME NetTypeOK, ViewTypeOK, NEW c \in Connections, ReplayAll(c)
    PROVE  Redrawn(c) /\ pass' \in [waitsOn : Nat, pending : BOOLEAN]
<1>1. CASE pass.waitsOn = None /\ c.open
  BY <1>1, BeginReplayRedraws, PassOverType DEF ReplayAll
<1>2. CASE ~(pass.waitsOn = None /\ c.open)
  <2>1. conn' = c /\ UNCHANGED <<reads, nextRead>>
    BY <1>2 DEF ReplayAll
  <2>2. pass' \in [waitsOn : Nat, pending : BOOLEAN]
    BY <1>2 DEF ReplayAll, ViewTypeOK
  <2> QED
    BY <2>1, <2>2, Untouched
<1> QED
  BY <1>1, <1>2

(* The end of a pass leaves the connection as it is or begins a redraw of it. *)
LEMMA EndPassRedraws ==
    ASSUME NetTypeOK, ViewTypeOK, NEW c \in Connections, EndPass(c)
    PROVE  Redrawn(c) /\ pass' \in [waitsOn : Nat, pending : BOOLEAN]
<1>1. CASE pass.pending /\ c.open
  BY <1>1, BeginReplayRedraws, PassOverType DEF EndPass
<1>2. CASE ~(pass.pending /\ c.open)
  <2>1. conn' = c /\ UNCHANGED <<reads, nextRead>>
    BY <1>2 DEF EndPass
  <2>2. pass' \in [waitsOn : Nat, pending : BOOLEAN]
    <3>1. pass' = NoPass
      BY <1>2 DEF EndPass
    <3> QED
      BY <3>1 DEF NoPass, None
  <2> QED
    BY <2>1, <2>2, Untouched
<1> QED
  BY <1>1, <1>2

(* The part of ConnectionSound and HeldOnlyWhileAwaited that is about a      *)
(* connection alone, in phase p, with reads numbered below n.                *)
Sound(c, p, n) ==
    /\ c.open <=> p \notin {"unmounted", "failed"}
    /\ ~c.open => c = Closed
    /\ c.replay < n
    /\ c.releasing => c.replay # None /\ ~c.replaying
    /\ p = "failing" => c.replay # None
    /\ c.replaying => c.replay # None \/ p \in {"starting", "settling"}
    /\ c.buffered # <<>> => c.replaying \/ c.releasing
    /\ c.replay # None => c.replaying \/ c.releasing

(* The two invariants on the connection, as one formula over its state. *)
LEMMA SoundNow == (ConnectionSound /\ HeldOnlyWhileAwaited) <=> Sound(conn, phase, nextRead)
  BY DEF ConnectionSound, HeldOnlyWhileAwaited, Sound

(* The same, in the next state. *)
LEMMA SoundNext ==
    (ConnectionSound' /\ HeldOnlyWhileAwaited') <=> Sound(conn', phase', nextRead')
  BY DEF ConnectionSound, HeldOnlyWhileAwaited, Sound

(* A step that redraws, or does not, on a connection that shows what it      *)
(* showed.  A redraw that starts is awaited by no snapshot already taken.    *)
LEMMA RedrawInv ==
    ASSUME IInv, NetTypeOK', ViewTypeOK', BoundTypeOK', UNCHANGED <<ptyVars, hub>>,
           Range(wire') \subseteq Range(wire),
           NEW c \in Connections, Redrawn(c),
           c.open = conn.open, c.rev = conn.rev, c.lastSequence = conn.lastSequence,
           c.buffered = conn.buffered,
           \/ c.replay = conn.replay /\ c.releasing = conn.releasing
           \/ c.replay = None,
           conn' = c => Sound(c, phase', nextRead'),
           conn' # c => /\ c.open <=> phase' \notin {"unmounted", "failed"}
                        /\ c.releasing => c.replay # None
    PROVE  IInv'
<1> USE DEF IInv
<1>1. /\ conn'.rev = conn.rev /\ conn'.lastSequence = conn.lastSequence
      /\ conn'.buffered = conn.buffered
  BY DEF Redrawn
<1>2. nextRead <= nextRead' /\ nextRead \in Nat \ {0} /\ nextRead' \in Nat \ {0}
  BY DEF Redrawn, TypeOK, NetTypeOK
<1>3. Sound(conn', phase', nextRead')
  <2>1. CASE conn' = c
    BY <2>1
  <2>2. CASE conn' # c
    <3>1. /\ c.replay = None /\ c.open /\ conn'.replaying /\ conn'.replay = nextRead
          /\ nextRead < nextRead' /\ conn'.open = c.open /\ conn'.releasing = c.releasing
      BY <2>2 DEF Redrawn
    <3> QED
      BY <1>2, <2>2, <3>1 DEF Sound, None
  <2> QED
    BY <2>1, <2>2
<1>4. \A e \in Range(conn'.buffered) : Real(e) /\ RevisionOf(e.launch) = conn'.rev
  BY <1>1 DEF OutputReal, HeldMatches
<1>5. ReadOnly => PositionReal'
  <2>1. launches' = launches /\ history' = history /\ Started' = Started
    BY DEF ptyVars, Started
  <2> QED
    BY <1>1, <2>1 DEF ViewerInv, PositionReal
<1>6. ASSUME ReadOnly, NEW q \in Snapshots, q.id = conn'.replay, conn'.replay # None,
             ~conn'.releasing, ~q.blank, RevisionOf(q.launch) = conn'.rev
      PROVE  conn'.lastSequence <= q.seq
  <2>1. conn'.replay = c.replay /\ conn'.releasing = c.releasing
    <3>1. q.id < nextRead /\ q.id \in Nat
      BY <1>6, QueueTypes DEF SnapshotsReal, Reads
    <3> QED
      BY <1>2, <1>6, <3>1 DEF Redrawn
  <2>2. q.id = conn.replay /\ ~conn.releasing /\ conn.replay # None
    BY <1>6, <2>1
  <2> QED
    BY <1>1, <1>6, <2>2 DEF ViewerInv, SnapshotCovers
<1>7. ConnectionSound' /\ HeldOnlyWhileAwaited'
  BY <1>3, SoundNext
<1>8. \A q \in reads' : q \in reads \/ (q.launch = None /\ q.blank /\ q.id < nextRead')
  BY DEF Redrawn
<1> QED
  BY <1>2, <1>4, <1>5, <1>6, <1>7, <1>8, ClientInv

(* A connection that starts afresh, or is gone, has been fed nothing. *)
LEMMA ResetInv ==
    ASSUME IInv, NetTypeOK', ViewTypeOK', BoundTypeOK', UNCHANGED <<ptyVars, hub, reads, nextRead>>,
           Range(wire') \subseteq Range(wire),
           conn'.buffered = <<>>, conn'.lastSequence = 0, conn'.replay = None,
           Sound(conn', phase', nextRead')
    PROVE  IInv'
<1> USE DEF IInv
<1>1. PositionReal'
  <2>1. \A l \in Started : history[l].seq \in Nat
    BY PtyTypes DEF TypeOK
  <2>2. Started' = Started /\ UNCHANGED <<launches, history>>
    BY DEF ptyVars, Started
  <2> QED
    BY <2>1, <2>2 DEF PositionReal
<1>2. Range(conn'.buffered) = {}
  BY RangeEmpty
<1>3. nextRead <= nextRead'
  BY DEF TypeOK, NetTypeOK
<1>4. ConnectionSound' /\ HeldOnlyWhileAwaited'
  BY SoundNext
<1> QED
  BY <1>1, <1>2, <1>3, <1>4, ClientInv

(* The common case: a redraw of the connection as it is, in the same phase. *)
LEMMA RedrawInPlace ==
    ASSUME IInv, NetTypeOK', ViewTypeOK', BoundTypeOK', UNCHANGED <<ptyVars, hub, phase>>,
           Range(wire') \subseteq Range(wire), Redrawn(conn)
    PROVE  IInv'
<1> USE DEF IInv
<1>1. Sound(conn, phase, nextRead)
  BY SoundNow
<1>2. conn \in Connections /\ conn.replay \in Nat
  BY DEF TypeOK, ViewTypeOK, Connections
<1>3. nextRead <= nextRead' /\ nextRead \in Nat /\ nextRead' \in Nat
  BY DEF Redrawn, TypeOK, NetTypeOK
<1>4. Sound(conn, phase', nextRead')
  BY <1>1, <1>2, <1>3 DEF Sound
<1>5. (conn.open <=> phase' \notin {"unmounted", "failed"}) /\ (conn.releasing => conn.replay # None)
  BY <1>1 DEF Sound
<1> QED
  BY <1>2, <1>4, <1>5, RedrawInv

(* The message callback takes the head of the wire and leaves the rest. *)
LEMMA Taken ==
    ASSUME IInv, NEW kind, Take(kind)
    PROVE  /\ Head(wire) \in Frames /\ Head(wire) \in Range(wire) /\ Head(wire).kind = kind
           /\ wire' \in Seq(Frames) /\ Range(wire') \subseteq Range(wire)
           /\ up /\ ~conn.releasing
<1>1. wire \in Seq(Frames) /\ wire # <<>> /\ wire' = Tail(wire)
  BY DEF IInv, TypeOK, NetTypeOK, Take
<1> QED
  BY <1>1, RangeTail DEF Take, Idle

(* A frame the view has no use for. *)
LEMMA FrameDropped ==
    ASSUME IInv, wire' \in Seq(Frames), Range(wire') \subseteq Range(wire),
           ignored' \in SUBSET Events,
           UNCHANGED <<ptyVars, up, hub, lagged, starts, reads, nextRead, phase, attach, conn,
                       pass, view, missed, announced, drops, redraws>>
    PROVE  IInv'
<1> USE DEF IInv
<1>1. conn \in Connections
  BY DEF TypeOK, ViewTypeOK
<1>2. Redrawn(conn)
  BY <1>1, Untouched DEF TypeOK
<1>3. NetTypeOK' /\ ViewTypeOK' /\ BoundTypeOK'
  BY DEF TypeOK, NetTypeOK, ViewTypeOK, BoundTypeOK
<1> QED
  BY <1>2, <1>3, RedrawInPlace

(* The inductive invariant survives a Resync. *)
LEMMA ReceiveResyncInv == ASSUME IInv, ReceiveResync PROVE IInv'
<1> USE DEF IInv
<1>1. /\ wire' \in Seq(Frames) /\ Range(wire') \subseteq Range(wire)
      /\ Head(wire).lost \in SUBSET Events
  BY Taken, FrameTypes DEF ReceiveResync
<1>2. Redrawn(conn) /\ pass' \in [waitsOn : Nat, pending : BOOLEAN]
  BY ReplayAllRedraws DEF ReceiveResync, TypeOK, ViewTypeOK
<1>3. UNCHANGED <<ptyVars, up, hub, lagged, starts, phase, attach, view, drops, redraws>>
  BY DEF ReceiveResync
<1>4. NetTypeOK'
  BY <1>1, <1>2, <1>3 DEF TypeOK, NetTypeOK, Redrawn
<1>5. ViewTypeOK'
  BY <1>2, <1>3 DEF TypeOK, ViewTypeOK, Redrawn
<1>6. BoundTypeOK'
  BY <1>1, <1>3 DEF TypeOK, BoundTypeOK, ReceiveResync
<1> QED
  BY <1>1, <1>2, <1>3, <1>4, <1>5, <1>6, RedrawInPlace

(* The inductive invariant survives a redraw asked for. *)
LEMMA RedrawActionInv == ASSUME IInv, Redraw PROVE IInv'
<1> USE DEF IInv
<1>1. conn \in Connections /\ conn.open
  BY DEF Redraw, TypeOK, ViewTypeOK, ConnectionSound
<1>2. Redrawn(conn)
  BY <1>1, BeginReplayRedraws DEF Redraw, TypeOK
<1>3. /\ UNCHANGED <<ptyVars, netVars, starts, phase, attach, pass, view, missed, announced, ignored, drops>>
      /\ redraws' = redraws + 1
  BY DEF Redraw
<1>4. NetTypeOK'
  BY <1>2, <1>3 DEF TypeOK, NetTypeOK, Redrawn, netVars
<1>5. ViewTypeOK'
  BY <1>2, <1>3 DEF TypeOK, ViewTypeOK, Redrawn
<1>6. BoundTypeOK'
  BY <1>3 DEF TypeOK, BoundTypeOK
<1> QED
  BY <1>2, <1>3, <1>4, <1>5, <1>6, RedrawInPlace DEF netVars

(* A step of initializeRuntime that starts or joins a redraw and moves on. *)
LEMMA RedrawAndMove ==
    ASSUME IInv, conn.open, NEW clear \in BOOLEAN, BeginReplay(conn, clear),
           wire' \in Seq(Frames), Range(wire') \subseteq Range(wire),
           UNCHANGED <<ptyVars, up, hub, lagged, starts, attach, pass, view, boundVars>>,
           phase' \in {"live", "failing"}
    PROVE  IInv'
<1> USE DEF IInv
<1>1. conn \in Connections /\ conn.replay \in Nat
  BY DEF TypeOK, ViewTypeOK, Connections
<1>2. Redrawn(conn) /\ conn'.replay # None
  BY <1>1, BeginReplayRedraws DEF TypeOK
<1>3. NetTypeOK'
  BY <1>2 DEF TypeOK, NetTypeOK, Redrawn
<1>4. ViewTypeOK'
  BY <1>2 DEF TypeOK, ViewTypeOK, Redrawn, Phases
<1>5. BoundTypeOK'
  BY DEF TypeOK, BoundTypeOK, boundVars
<1>6. Sound(conn, phase, nextRead)
  BY SoundNow
<1>7. nextRead <= nextRead' /\ nextRead \in Nat /\ nextRead' \in Nat
  BY <1>2 DEF Redrawn, TypeOK, NetTypeOK
<1>8. conn' = conn => Sound(conn, phase', nextRead')
  BY <1>1, <1>2, <1>6, <1>7 DEF Sound
<1>9. conn.releasing => conn.replay # None
  BY <1>6 DEF Sound
<1> QED
  BY <1>1, <1>2, <1>3, <1>4, <1>5, <1>8, <1>9, RedrawInv

(* The inductive invariant survives the first replay. *)
LEMMA ReplayInitialInv == ASSUME IInv, ReplayInitial PROVE IInv'
<1>1. conn.open
  BY DEF ReplayInitial, IInv, ConnectionSound
<1>2. wire' \in Seq(Frames) /\ Range(wire') \subseteq Range(wire)
  BY DEF ReplayInitial, netVars, IInv, TypeOK, NetTypeOK
<1> QED
  BY <1>1, <1>2, RedrawAndMove DEF ReplayInitial, netVars

(* The inductive invariant survives a failed start. *)
LEMMA ReceiveStartFailedInv == ASSUME IInv, ReceiveStartFailed PROVE IInv'
<1> USE DEF IInv
<1>1. wire' \in Seq(Frames) /\ Range(wire') \subseteq Range(wire)
  BY Taken DEF ReceiveStartFailed
<1>2. CASE phase = "starting" /\ Head(wire).attach = attach
  <2>1. conn.open
    BY <1>2 DEF ConnectionSound
  <2>2. phase' = "failing" /\ BeginReplay(conn, FALSE)
    BY <1>2 DEF ReceiveStartFailed
  <2> QED
    BY <1>1, <2>1, <2>2, RedrawAndMove DEF ReceiveStartFailed
<1>3. CASE ~(phase = "starting" /\ Head(wire).attach = attach)
  <2>1. UNCHANGED <<ptyVars, up, hub, lagged, starts, reads, nextRead, attach, pass, view,
                    phase, conn, missed, announced, ignored, drops, redraws>>
    BY <1>3 DEF ReceiveStartFailed, boundVars
  <2>2. ignored' \in SUBSET Events
    BY <2>1 DEF TypeOK, BoundTypeOK
  <2> QED
    BY <1>1, <2>1, <2>2, FrameDropped
<1> QED
  BY <1>2, <1>3

(* Everything a browser step may leave alone while it feeds the connection. *)
OnlyViewMoves ==
    /\ UNCHANGED <<ptyVars, up, hub, lagged, starts, reads, nextRead, phase, attach, pass,
                   missed, announced, drops, redraws>>
    /\ ignored' \in SUBSET Events

(* deliver() feeds the connection output its launch has produced. *)
LEMMA DeliverInv ==
    ASSUME IInv, OnlyViewMoves, wire' \in Seq(Frames), Range(wire') \subseteq Range(wire),
           NEW c \in Connections, NEW e \in Events, Deliver(c, e),
           Real(e), RevisionOf(e.launch) = conn.rev,
           c.open, c.rev = conn.rev, c.lastSequence = conn.lastSequence,
           \A d \in Range(c.buffered) : d \in Range(conn.buffered),
           c.replay = None \/ c.releasing,
           Sound(c, phase, nextRead)
    PROVE  IInv'
<1> USE DEF IInv
<1>1. UNCHANGED <<launches, history>> /\ Started' = Started
  BY DEF OnlyViewMoves, ptyVars, Started
<1>2. conn' = c \/ (e.seq > c.lastSequence /\ conn' = [c EXCEPT !.lastSequence = e.seq])
  BY DEF Deliver
<1>3. /\ conn' \in Connections /\ conn'.open /\ conn'.rev = conn.rev
      /\ conn'.buffered = c.buffered /\ conn'.replay = c.replay
      /\ conn'.releasing = c.releasing /\ conn'.replaying = c.replaying
      /\ conn'.lastSequence \in {conn.lastSequence, e.seq}
  BY <1>2 DEF Connections, Events
<1>4. view' \in Seq(Shown)
  <2>1. ShownChunk(e) \in Shown
    BY DEF ShownChunk, Shown, Events, TypeOK, ViewTypeOK
  <2>2. view \in Seq(Shown)
    BY DEF TypeOK, ViewTypeOK
  <2>3. view' = view \/ view' = Append(view, ShownChunk(e))
    BY DEF Deliver
  <2> HIDE DEF IInv
  <2> QED
    BY <2>1, <2>2, <2>3, AppendProperties
<1>5. NetTypeOK' /\ BoundTypeOK'
  BY DEF OnlyViewMoves, TypeOK, NetTypeOK, BoundTypeOK
<1>6. ViewTypeOK'
  BY <1>3, <1>4 DEF OnlyViewMoves, TypeOK, ViewTypeOK
<1>7. Sound(conn', phase', nextRead')
  BY <1>3 DEF Sound, OnlyViewMoves
<1>8. ASSUME ReadOnly PROVE PositionReal'
  <2>1. e.launch \in Started /\ launches[e.launch] = conn.rev /\ e.seq <= history[e.launch].seq
    BY <1>1, PtyTypes DEF Real, RevisionOf, Started, None, TypeOK
  <2>2. \A l \in Started : launches[l] = conn.rev => l = e.launch
    BY <1>8, <2>1 DEF ViewerInv, FreshRevisions
  <2>3. conn.lastSequence <= history[e.launch].seq
    BY <1>8, <2>1 DEF ViewerInv, PositionReal
  <2> QED
    BY <1>1, <1>3, <2>1, <2>2, <2>3 DEF PositionReal
<1>9. \A d \in Range(conn'.buffered) : Real(d) /\ RevisionOf(d.launch) = conn'.rev
  BY <1>3 DEF OutputReal, HeldMatches
<1>10. nextRead <= nextRead' /\ reads' = reads /\ UNCHANGED <<ptyVars, hub>>
  BY DEF OnlyViewMoves, TypeOK, NetTypeOK
<1>11. conn'.replay = None \/ conn'.releasing
  BY <1>3
<1>12. ConnectionSound' /\ HeldOnlyWhileAwaited'
  BY <1>7, SoundNext
<1> QED
  BY <1>5, <1>6, <1>8, <1>9, <1>10, <1>11, <1>12, ClientInv

(* The inductive invariant survives an output frame. *)
LEMMA ReceiveOutputInv == ASSUME IInv, ReceiveOutput PROVE IInv'
<1> USE DEF IInv
<1> DEFINE e == Head(wire).event
<1>1. /\ wire' \in Seq(Frames) /\ Range(wire') \subseteq Range(wire)
      /\ e \in Events /\ Real(e) /\ ~conn.releasing
  BY Taken, FrameTypes DEF ReceiveOutput, OutputReal
<1>2. OnlyViewMoves
  BY <1>1 DEF ReceiveOutput, callVars, TypeOK, BoundTypeOK, OnlyViewMoves
<1>3. conn \in Connections /\ conn.buffered \in Seq(Events)
  BY DEF TypeOK, ViewTypeOK, Connections
<1>4. CASE ~conn.open \/ ~Matches(conn, e.launch)
  BY <1>1, <1>2, <1>4, FrameDropped DEF ReceiveOutput, OnlyViewMoves
<1>5. CASE conn.open /\ Matches(conn, e.launch) /\ ~conn.replaying
  <2>1. Sound(conn, phase, nextRead) /\ conn.replay = None
    BY <1>1, <1>5, SoundNow DEF HeldOnlyWhileAwaited
  <2>2. Deliver(conn, e) /\ RevisionOf(e.launch) = conn.rev
    BY <1>5 DEF ReceiveOutput, Matches
  <2> HIDE DEF e
  <2> QED
    BY <1>1, <1>2, <1>3, <1>5, <2>1, <2>2, DeliverInv
<1>6. CASE conn.open /\ Matches(conn, e.launch) /\ conn.replaying
  <2>1. /\ conn' = [conn EXCEPT !.buffered = Append(@, e)] /\ view' = view
        /\ RevisionOf(e.launch) = conn.rev
    BY <1>6 DEF ReceiveOutput, Matches
  <2> HIDE DEF e
  <2>2. /\ Append(conn.buffered, e) \in Seq(Events)
        /\ Range(Append(conn.buffered, e)) = Range(conn.buffered) \cup {e}
    BY <1>1, <1>3, RangeAppend
  <2>3. /\ conn' \in Connections /\ conn'.buffered = Append(conn.buffered, e)
        /\ conn'.open = conn.open /\ conn'.rev = conn.rev /\ conn'.replay = conn.replay
        /\ conn'.lastSequence = conn.lastSequence /\ conn'.replaying = conn.replaying
        /\ conn'.releasing = conn.releasing
    BY <1>3, <2>1, <2>2 DEF Connections
  <2>4. NetTypeOK' /\ BoundTypeOK' /\ ViewTypeOK'
    BY <1>1, <1>2, <2>1, <2>3 DEF OnlyViewMoves, TypeOK, NetTypeOK, BoundTypeOK, ViewTypeOK
  <2>5. Sound(conn', phase', nextRead')
    <3>1. Sound(conn, phase, nextRead)
      BY SoundNow
    <3> QED
      BY <1>2, <1>6, <2>3, <3>1 DEF Sound, OnlyViewMoves
  <2>6. \A d \in Range(conn'.buffered) : Real(d) /\ RevisionOf(d.launch) = conn'.rev
    BY <1>1, <2>1, <2>2, <2>3 DEF OutputReal, HeldMatches
  <2>7. ReadOnly => PositionReal'
    BY <1>2, <2>3 DEF OnlyViewMoves, ptyVars, ViewerInv, PositionReal, Started
  <2>8. nextRead <= nextRead' /\ reads' = reads /\ UNCHANGED <<ptyVars, hub>>
    BY <1>2 DEF OnlyViewMoves, TypeOK, NetTypeOK
  <2>9. ConnectionSound' /\ HeldOnlyWhileAwaited'
    BY <2>5, SoundNext
  <2>10. \A q \in Snapshots :
           (/\ ReadOnly /\ q.id = conn'.replay /\ conn'.replay # None /\ ~conn'.releasing
            /\ ~q.blank /\ RevisionOf(q.launch) = conn'.rev)
               => conn'.lastSequence <= q.seq
    BY <2>3 DEF ViewerInv, SnapshotCovers
  <2> QED
    BY <1>1, <2>4, <2>6, <2>7, <2>8, <2>9, <2>10, ClientInv
<1> QED
  BY <1>4, <1>5, <1>6

(* The inductive invariant survives releasing a held chunk. *)
LEMMA ReleaseHeldInv == ASSUME IInv, ReleaseHeld PROVE IInv'
<1> USE DEF IInv
<1> DEFINE e == Head(conn.buffered)
           c == [conn EXCEPT !.buffered = Tail(@)]
<1>1. conn \in Connections /\ conn.buffered \in Seq(Events) /\ conn.buffered # <<>> /\ conn.releasing
  BY DEF ReleaseHeld, TypeOK, ViewTypeOK, Connections
<1>2. /\ e \in Events /\ e \in Range(conn.buffered)
      /\ Tail(conn.buffered) \in Seq(Events)
      /\ Range(Tail(conn.buffered)) \subseteq Range(conn.buffered)
  BY <1>1, RangeTail
<1>3. Real(e) /\ RevisionOf(e.launch) = conn.rev
  BY <1>2 DEF OutputReal, HeldMatches
<1>4. /\ c \in Connections /\ c.buffered = Tail(conn.buffered)
      /\ c.open = conn.open /\ c.rev = conn.rev /\ c.replay = conn.replay
      /\ c.lastSequence = conn.lastSequence /\ c.replaying = conn.replaying
      /\ c.releasing = conn.releasing
  BY <1>1, <1>2 DEF Connections
<1>5. /\ wire' \in Seq(Frames) /\ Range(wire') \subseteq Range(wire) /\ OnlyViewMoves
  BY DEF ReleaseHeld, netVars, callVars, boundVars, OnlyViewMoves, TypeOK, NetTypeOK, BoundTypeOK
<1>6. Deliver(c, e)
  BY DEF ReleaseHeld
<1> HIDE DEF c, e
<1>7. Sound(c, phase, nextRead) /\ c.open
  <2>1. Sound(conn, phase, nextRead)
    BY SoundNow
  <2>2. conn.open
    BY <1>1, <2>1 DEF Sound, Closed
  <2> QED
    BY <1>1, <1>4, <2>1, <2>2 DEF Sound
<1>8. c.releasing
  BY <1>1, <1>4
<1>9. \A d \in Range(c.buffered) : d \in Range(conn.buffered)
  BY <1>2, <1>4
<1> QED
  BY <1>2, <1>3, <1>4, <1>5, <1>6, <1>7, <1>8, <1>9, DeliverInv

(* A redraw ends, drawn or not: what it held back is being released now. *)
LEMMA ReleaseInv ==
    ASSUME IInv, NetTypeOK', BoundTypeOK', UNCHANGED <<ptyVars, hub, attach, phase>>,
           Range(wire') \subseteq Range(wire), reads' \subseteq reads, nextRead' = nextRead,
           view' \in Seq(Shown), pass' \in [waitsOn : Nat, pending : BOOLEAN],
           conn.replay # None,
           NEW n \in Nat,
           conn' = [conn EXCEPT !.lastSequence = n, !.replaying = FALSE, !.releasing = TRUE],
           \/ n = conn.lastSequence
           \/ \E l \in Started : launches[l] = conn.rev /\ n <= history[l].seq
    PROVE  IInv'
<1> USE DEF IInv
<1>1. conn \in Connections
  BY DEF TypeOK, ViewTypeOK
<1>2. /\ conn' \in Connections /\ conn'.buffered = conn.buffered
      /\ conn'.open = conn.open /\ conn'.rev = conn.rev /\ conn'.replay = conn.replay
      /\ conn'.lastSequence = n /\ ~conn'.replaying /\ conn'.releasing
  BY <1>1 DEF Connections
<1>3. ViewTypeOK'
  BY <1>2 DEF TypeOK, ViewTypeOK
<1>4. Sound(conn', phase', nextRead')
  <2>1. Sound(conn, phase, nextRead)
    BY SoundNow
  <2>2. conn.open
    BY <2>1 DEF Sound, Closed
  <2> QED
    BY <1>2, <2>1, <2>2 DEF Sound
<1>5. ConnectionSound' /\ HeldOnlyWhileAwaited'
  BY <1>4, SoundNext
<1>6. UNCHANGED <<launches, history>> /\ Started' = Started
  BY DEF ptyVars, Started
<1>7. ASSUME ReadOnly PROVE PositionReal'
  <2>1. CASE n = conn.lastSequence
    BY <1>2, <1>6, <1>7, <2>1 DEF ViewerInv, PositionReal
  <2>2. ASSUME NEW l \in Started, launches[l] = conn.rev, n <= history[l].seq
        PROVE  PositionReal'
    <3>1. \A m \in Started : launches[m] = conn.rev => m = l
      BY <1>7, <2>2 DEF ViewerInv, FreshRevisions
    <3> QED
      BY <1>2, <1>6, <2>2, <3>1 DEF PositionReal
  <2> QED
    BY <2>1, <2>2
<1>8. \A e \in Range(conn'.buffered) : Real(e) /\ RevisionOf(e.launch) = conn'.rev
  BY <1>2 DEF OutputReal, HeldMatches
<1>9. nextRead <= nextRead'
  BY DEF TypeOK, NetTypeOK
<1> QED
  BY <1>2, <1>3, <1>5, <1>7, <1>8, <1>9, ClientInv

(* The follow-up of a pass whose own connection is gone redraws the present one. *)
LEMMA OrphanInv ==
    ASSUME IInv, EndPass(conn), wire' \in Seq(Frames), Range(wire') \subseteq Range(wire),
           UNCHANGED <<ptyVars, up, hub, lagged, starts, phase, attach, view, boundVars>>
    PROVE  IInv'
<1> USE DEF IInv
<1>1. Redrawn(conn) /\ pass' \in [waitsOn : Nat, pending : BOOLEAN]
  BY EndPassRedraws DEF TypeOK, ViewTypeOK
<1>2. NetTypeOK'
  BY <1>1 DEF TypeOK, NetTypeOK, Redrawn
<1>3. ViewTypeOK'
  BY <1>1 DEF TypeOK, ViewTypeOK, Redrawn
<1>4. BoundTypeOK'
  BY DEF TypeOK, BoundTypeOK, boundVars
<1> QED
  BY <1>1, <1>2, <1>3, <1>4, RedrawInPlace

(* The inductive invariant survives a redraw given up. *)
LEMMA ReplayTimeoutInv == ASSUME IInv, ReplayTimeout PROVE IInv'
<1> USE DEF IInv
<1>1. wire' \in Seq(Frames) /\ Range(wire') \subseteq Range(wire)
  BY DEF ReplayTimeout, netVars, TypeOK, NetTypeOK
<1>2. UNCHANGED <<ptyVars, up, hub, lagged, wire, starts, phase, attach, view, boundVars>>
  BY DEF ReplayTimeout, netVars
<1>3. CASE /\ conn.replay # None
           /\ conn' = [conn EXCEPT !.replaying = FALSE, !.releasing = TRUE]
           /\ UNCHANGED <<pass, reads, nextRead>>
  <2>1. NetTypeOK' /\ BoundTypeOK'
    BY <1>2, <1>3 DEF TypeOK, NetTypeOK, BoundTypeOK, boundVars
  <2>2. conn.lastSequence \in Nat /\ conn \in Connections
    BY DEF TypeOK, ViewTypeOK, Connections
  <2>3. conn' = [conn EXCEPT !.lastSequence = conn.lastSequence, !.replaying = FALSE,
                             !.releasing = TRUE]
    BY <1>3, <2>2 DEF Connections
  <2>4. view' \in Seq(Shown) /\ pass' \in [waitsOn : Nat, pending : BOOLEAN]
    BY <1>2, <1>3 DEF TypeOK, ViewTypeOK
  <2> QED
    BY <1>1, <1>2, <1>3, <2>1, <2>2, <2>3, <2>4, ReleaseInv
<1>4. CASE EndPass(conn)
  BY <1>1, <1>2, <1>4, OrphanInv
<1> QED
  BY <1>3, <1>4 DEF ReplayTimeout

(* The snapshot that was waited for is real, and not behind the view. *)
LEMMA ReceiveScrollbackInv == ASSUME IInv, ReceiveScrollback PROVE IInv'
<1> USE DEF IInv
<1> DEFINE r == Head(wire).read
<1>1. /\ wire' \in Seq(Frames) /\ Range(wire') \subseteq Range(wire)
      /\ r \in Reads /\ r \in Snapshots
  BY Taken, FrameTypes DEF ReceiveScrollback, Snapshots
<1>2. UNCHANGED <<ptyVars, up, hub, lagged, starts, phase, attach, boundVars>>
  BY DEF ReceiveScrollback
<1>3. r.id # None /\ (~r.blank => Real(r)) /\ r.seq \in Nat
  BY <1>1, QueueTypes DEF SnapshotsReal, Reads
<1>4. conn \in Connections /\ conn.lastSequence \in Nat /\ view \in Seq(Shown) /\ attach \in Nat
  BY DEF TypeOK, ViewTypeOK, Connections
<1>5. ASSUME UNCHANGED <<pass, reads, nextRead>>, conn.replay # None, view' \in Seq(Shown),
             NEW n \in Nat,
             conn' = [conn EXCEPT !.lastSequence = n, !.replaying = FALSE, !.releasing = TRUE],
             \/ n = conn.lastSequence
             \/ \E l \in Started : launches[l] = conn.rev /\ n <= history[l].seq
      PROVE  IInv'
  <2>1. NetTypeOK' /\ BoundTypeOK'
    BY <1>1, <1>2, <1>5 DEF TypeOK, NetTypeOK, BoundTypeOK, boundVars
  <2>2. pass' \in [waitsOn : Nat, pending : BOOLEAN]
    BY <1>5 DEF TypeOK, ViewTypeOK
  <2> QED
    BY <1>1, <1>2, <1>5, <2>1, <2>2, ReleaseInv
<1> HIDE DEF r
<1>6. CASE r.id = conn.replay /\ conn.replay # None /\ Matches(conn, r.launch) /\ ~r.blank
  <2>1. /\ view' = Append(IF conn.clearScreen THEN <<>> ELSE view, ShownSnapshot(r))
        /\ conn' = [conn EXCEPT !.lastSequence = r.seq, !.replaying = FALSE, !.releasing = TRUE]
        /\ UNCHANGED <<pass, reads, nextRead>>
    BY <1>6 DEF ReceiveScrollback, r
  <2>2. /\ r.launch \in Started /\ r.launch \in Launches /\ launches[r.launch] = conn.rev
        /\ r.seq <= history[r.launch].seq
    BY <1>3, <1>6, PtyTypes DEF Real, Matches, RevisionOf, Started, None, TypeOK
  <2>3. view' \in Seq(Shown)
    <3>1. ShownSnapshot(r) \in Shown
      BY <1>3, <1>4, <2>2 DEF ShownSnapshot, Shown
    <3> DEFINE old == IF conn.clearScreen THEN <<>> ELSE view
    <3>2. old \in Seq(Shown)
      BY <1>4, RangeEmpty
    <3>3. view' = Append(old, ShownSnapshot(r))
      BY <2>1
    <3> HIDE DEF old, IInv
    <3> QED
      BY <3>1, <3>2, <3>3, AppendProperties
  <2> QED
    BY <1>3, <1>5, <1>6, <2>1, <2>2, <2>3
<1>7. CASE r.id = conn.replay /\ conn.replay # None /\ ~(Matches(conn, r.launch) /\ ~r.blank)
  <2>1. /\ conn' = [conn EXCEPT !.replaying = FALSE, !.releasing = TRUE]
        /\ UNCHANGED <<view, pass, reads, nextRead>>
    BY <1>7 DEF ReceiveScrollback, r
  <2>2. conn' = [conn EXCEPT !.lastSequence = conn.lastSequence, !.replaying = FALSE,
                             !.releasing = TRUE]
    BY <1>4, <2>1 DEF Connections
  <2> QED
    BY <1>4, <1>5, <1>7, <2>1, <2>2
<1>8. CASE r.id # conn.replay /\ EndPass(conn) /\ UNCHANGED view
  BY <1>1, <1>2, <1>8, OrphanInv
<1>9. CASE r.id # conn.replay /\ UNCHANGED <<conn, view, pass, reads, nextRead>>
  BY <1>1, <1>2, <1>9, FrameDropped DEF boundVars, TypeOK, BoundTypeOK
<1> QED
  BY <1>3, <1>6, <1>7, <1>8, <1>9 DEF ReceiveScrollback, r

(* Once all held output is out, the redraw is over and its awaiters go on.    *)
LEMMA FinishReplayInv == ASSUME IInv, FinishReplay PROVE IInv'
<1> USE DEF IInv
<1> DEFINE c == [conn EXCEPT !.releasing = FALSE, !.replay = None]
<1>1. conn \in Connections /\ conn.releasing /\ conn.buffered = <<>>
  BY DEF FinishReplay, TypeOK, ViewTypeOK
<1>2. /\ c \in Connections /\ c.open = conn.open /\ c.rev = conn.rev
      /\ c.lastSequence = conn.lastSequence /\ c.buffered = conn.buffered
      /\ c.replaying = conn.replaying /\ c.replay = None /\ ~c.releasing
  BY <1>1 DEF Connections, None
<1>3. Sound(conn, phase, nextRead) /\ conn.open
  <2>1. Sound(conn, phase, nextRead)
    BY SoundNow
  <2> QED
    BY <1>1, <2>1 DEF Sound, Closed
<1>4. UNCHANGED <<ptyVars, netVars, starts, attach, view, boundVars>>
  BY DEF FinishReplay
<1>5. wire' \in Seq(Frames) /\ Range(wire') \subseteq Range(wire)
  BY <1>4 DEF netVars, TypeOK, NetTypeOK
<1>6. CASE phase = "failing"
  <2>1. /\ conn' = Closed /\ phase' = "failed" /\ pass' \in {NoPass, pass}
        /\ UNCHANGED <<reads, nextRead>>
    BY <1>6 DEF FinishReplay
  <2>2. /\ Closed \in Connections /\ Closed.buffered = <<>> /\ Closed.lastSequence = 0
        /\ Closed.replay = None
    BY RangeEmpty DEF Closed, Connections, None
  <2>3. NoPass \in [waitsOn : Nat, pending : BOOLEAN]
    BY DEF NoPass, None
  <2>4. NetTypeOK' /\ BoundTypeOK' /\ ViewTypeOK'
    BY <1>4, <2>1, <2>2, <2>3 DEF netVars, boundVars, TypeOK, NetTypeOK, BoundTypeOK, ViewTypeOK,
       Phases
  <2>5. Sound(conn', phase', nextRead')
    BY <2>1 DEF Sound, Closed, TypeOK, NetTypeOK, None
  <2>6. UNCHANGED <<ptyVars, hub>>
    BY <1>4 DEF netVars
  <2> QED
    BY <1>5, <2>1, <2>2, <2>4, <2>5, <2>6, ResetInv
<1>7. CASE phase # "failing"
  <2>1. UNCHANGED phase
    BY <1>7 DEF FinishReplay
  <2> HIDE DEF c
  <2>2. Redrawn(c) /\ pass' \in [waitsOn : Nat, pending : BOOLEAN]
    <3>1. CASE pass.waitsOn = conn.replay
      <4>1. EndPass(c)
        BY <1>7, <3>1 DEF FinishReplay, c
      <4> QED
        BY <1>2, <4>1, EndPassRedraws DEF TypeOK
    <3>2. CASE pass.waitsOn # conn.replay
      <4>1. conn' = c /\ UNCHANGED <<pass, reads, nextRead>>
        BY <1>7, <3>2 DEF FinishReplay, c
      <4> QED
        BY <1>2, <4>1, Untouched DEF TypeOK, ViewTypeOK
    <3> QED
      BY <3>1, <3>2
  <2>3. NetTypeOK'
    BY <1>4, <2>2 DEF netVars, TypeOK, NetTypeOK, Redrawn
  <2>4. ViewTypeOK'
    BY <1>4, <2>1, <2>2 DEF TypeOK, ViewTypeOK, Redrawn
  <2>5. BoundTypeOK'
    BY <1>4 DEF TypeOK, BoundTypeOK, boundVars
  <2>6. nextRead' \in Nat \ {0}
    BY <2>2 DEF Redrawn
  <2>7. Sound(c, phase', nextRead')
    BY <1>1, <1>2, <1>3, <1>7, <2>1, <2>6 DEF Sound, None
  <2>8. c.open <=> phase' \notin {"unmounted", "failed"}
    BY <2>7 DEF Sound
  <2>9. UNCHANGED <<ptyVars, hub>>
    BY <1>4 DEF netVars
  <2> QED
    BY <1>2, <1>5, <2>2, <2>3, <2>4, <2>5, <2>7, <2>8, <2>9, RedrawInv
<1> QED
  BY <1>6, <1>7

(* connect() and start() begin with an empty connection that holds output. *)
LEMMA ConnectInv ==
    ASSUME IInv, NEW r \in Revisions, Connect(r), UNCHANGED view
    PROVE  IInv'
<1> USE TerminalStreamAssumption DEF IInv
<1>1. /\ conn' = [Closed EXCEPT !.open = TRUE, !.rev = r, !.replaying = TRUE]
      /\ phase' = "starting" /\ attach' = attach + 1 /\ attach' \in Nat
      /\ starts' = starts \cup {[attach |-> attach', rev |-> r, sent |-> up]}
      /\ UNCHANGED <<ptyVars, netVars, reads, nextRead, pass, boundVars>>
  BY DEF Connect, TypeOK, ViewTypeOK
<1>2. /\ conn' \in Connections /\ conn'.buffered = <<>> /\ conn'.lastSequence = 0
      /\ conn'.replay = None /\ conn'.open /\ conn'.replaying /\ ~conn'.releasing
  BY <1>1, RangeEmpty DEF Connections, Closed, None
<1>3. NetTypeOK'
  <2>1. [attach |-> attach', rev |-> r, sent |-> up] \in Starts
    BY <1>1 DEF Starts, TypeOK, NetTypeOK
  <2> QED
    BY <1>1, <2>1 DEF netVars, TypeOK, NetTypeOK
<1>4. ViewTypeOK' /\ BoundTypeOK'
  BY <1>1, <1>2 DEF TypeOK, ViewTypeOK, BoundTypeOK, boundVars, Phases
<1>5. Sound(conn', phase', nextRead')
  BY <1>1, <1>2 DEF Sound, TypeOK, NetTypeOK, None
<1>6. UNCHANGED <<ptyVars, hub, reads, nextRead>> /\ Range(wire') \subseteq Range(wire)
  BY <1>1 DEF netVars
<1> QED
  BY <1>2, <1>3, <1>4, <1>5, <1>6, ResetInv

(* The inductive invariant survives the panel going away. *)
LEMMA UnmountInv == ASSUME IInv, Unmount PROVE IInv'
<1> USE DEF IInv
<1>1. /\ conn' = Closed /\ phase' = "unmounted" /\ view' = <<>>
      /\ UNCHANGED <<ptyVars, netVars, callVars, attach, pass, boundVars>>
  BY DEF Unmount
<1>2. /\ Closed \in Connections /\ Closed.buffered = <<>> /\ Closed.lastSequence = 0
      /\ Closed.replay = None /\ view' \in Seq(Shown)
  BY <1>1, RangeEmpty DEF Closed, Connections, None
<1>3. NetTypeOK' /\ BoundTypeOK' /\ ViewTypeOK'
  BY <1>1, <1>2 DEF netVars, callVars, boundVars, TypeOK, NetTypeOK, BoundTypeOK, ViewTypeOK, Phases
<1>4. Sound(conn', phase', nextRead')
  BY <1>1 DEF Sound, Closed, TypeOK, NetTypeOK, None, callVars
<1>5. UNCHANGED <<ptyVars, hub, reads, nextRead>> /\ Range(wire') \subseteq Range(wire)
  BY <1>1 DEF netVars, callVars
<1> QED
  BY <1>1, <1>2, <1>3, <1>4, <1>5, ResetInv

(* All that is held belongs to the launch first asked for, so adopting another *)
(* one keeps nothing of it.                                                    *)
LEMMA AdoptedHoldsNothing ==
    ASSUME HeldMatches, NEW r, conn.rev # r PROVE HeldFor(conn.buffered, r) = <<>>
  BY DEF HeldMatches, HeldFor, Range

(* The inductive invariant survives the answer of start(). *)
LEMMA ReceiveStartedInv == ASSUME IInv, ReceiveStarted PROVE IInv'
<1> USE DEF IInv
<1> DEFINE r == RevisionOf(Head(wire).launch)
<1>1. /\ wire' \in Seq(Frames) /\ Range(wire') \subseteq Range(wire)
      /\ Head(wire).launch \in Started /\ ~conn.releasing
  BY Taken DEF ReceiveStarted, OutputReal
<1>2. UNCHANGED <<ptyVars, up, hub, lagged, callVars, attach, pass, view, boundVars>>
  BY DEF ReceiveStarted
<1>3. conn \in Connections
  BY DEF TypeOK, ViewTypeOK
<1>4. r \in Revisions
  <2>1. Head(wire).launch # None
    BY <1>1 DEF Started, None
  <2> QED
    BY <1>1, <2>1, PtyTypes DEF RevisionOf, TypeOK
<1> HIDE DEF r
<1>5. CASE phase = "starting" /\ Head(wire).attach = attach
  <2>1. phase' = "settling" /\ conn' = IF conn.rev = r THEN conn
                       ELSE [conn EXCEPT !.rev = r, !.lastSequence = 0,
                                         !.buffered = HeldFor(conn.buffered, r)]
    BY <1>5 DEF ReceiveStarted, r
  <2>2. Sound(conn, phase, nextRead) /\ conn.open
    BY <1>5, SoundNow DEF ConnectionSound
  <2>3. NetTypeOK' /\ BoundTypeOK'
    BY <1>1, <1>2 DEF callVars, boundVars, TypeOK, NetTypeOK, BoundTypeOK
  <2>4. nextRead' = nextRead /\ reads' = reads /\ UNCHANGED <<ptyVars, hub>>
    BY <1>2 DEF callVars
  <2>5. UNCHANGED <<launches, history>> /\ Started' = Started
    BY <1>2 DEF ptyVars, Started
  <2>6. CASE conn.rev = r
    <3>1. conn' = conn
      BY <2>1, <2>6
    <3>2. ViewTypeOK' /\ Sound(conn', phase', nextRead')
      BY <1>2, <1>3, <1>5, <2>1, <2>2, <2>4, <3>1 DEF TypeOK, ViewTypeOK, Phases, Sound
    <3>3. \A e \in Range(conn'.buffered) : Real(e) /\ RevisionOf(e.launch) = conn'.rev
      BY <3>1 DEF OutputReal, HeldMatches
    <3>4. ReadOnly => PositionReal' /\ SnapshotCovers
      BY <2>5, <3>1 DEF ViewerInv, PositionReal
    <3>5. nextRead <= nextRead'
      BY <2>4 DEF TypeOK, NetTypeOK
    <3> QED
      BY <1>1, <2>3, <2>4, <3>1, <3>2, <3>3, <3>4, <3>5, SoundNext, ClientInv DEF SnapshotCovers
  <2>7. CASE conn.rev # r
    <3>1. conn' = [conn EXCEPT !.rev = r, !.lastSequence = 0, !.buffered = <<>>]
      BY <2>1, <2>7, AdoptedHoldsNothing
    <3>2. /\ conn' \in Connections /\ conn'.rev = r /\ conn'.lastSequence = 0
          /\ conn'.buffered = <<>> /\ conn'.open = conn.open /\ conn'.replay = conn.replay
          /\ conn'.replaying = conn.replaying /\ conn'.releasing = conn.releasing
      BY <1>3, <1>4, <3>1, RangeEmpty DEF Connections
    <3>3. ViewTypeOK' /\ Sound(conn', phase', nextRead')
      BY <1>2, <1>5, <2>1, <2>2, <2>4, <3>2 DEF TypeOK, ViewTypeOK, Phases, Sound
    <3>4. Range(conn'.buffered) = {}
      BY <3>2, RangeEmpty
    <3>5. PositionReal'
      <4>1. \A l \in Started : history[l].seq \in Nat
        BY PtyTypes DEF TypeOK
      <4> QED
        BY <2>5, <3>2, <4>1 DEF PositionReal
    <3>6. \A q \in Snapshots : conn'.lastSequence <= q.seq
      BY <3>2, QueueTypes
    <3>7. nextRead <= nextRead'
      BY <2>4 DEF TypeOK, NetTypeOK
    <3> QED
      BY <1>1, <2>3, <2>4, <3>3, <3>4, <3>5, <3>6, <3>7, SoundNext, ClientInv
  <2> QED
    BY <2>6, <2>7
<1>6. CASE ~(phase = "starting" /\ Head(wire).attach = attach)
  BY <1>1, <1>2, <1>6, FrameDropped DEF ReceiveStarted, callVars, boundVars, TypeOK, BoundTypeOK
<1> QED
  BY <1>5, <1>6

(* The read a redraw sends or queues has nothing in it yet. *)
LEMMA NewRead ==
    ASSUME nextRead \in Nat \ {0}, NEW s \in ReadStages
    PROVE  LET q == [id |-> nextRead, stage |-> s, launch |-> None, seq |-> 0, blank |-> TRUE]
           IN  q \in Reads /\ q.launch = None /\ q.blank /\ q.id = nextRead
  BY DEF Reads, None

(* What a lost or a new link does to the redraw of a connection. *)
Kept  == conn' = conn /\ (phase' = phase \/ phase # "starting")
Ended == conn.replay # None /\ conn' = [conn EXCEPT !.replaying = FALSE, !.releasing = TRUE]
Begun == /\ conn.replay = None /\ conn.open /\ nextRead < nextRead'
         /\ \E clear \in BOOLEAN :
               conn' = [conn EXCEPT !.replaying = TRUE, !.replay = nextRead, !.clearScreen = clear]

(* Whichever it is, the view stays where it is. *)
LEMMA BridgeInv ==
    ASSUME IInv, NetTypeOK', ViewTypeOK', BoundTypeOK', UNCHANGED ptyVars, ~conn.releasing,
           Range(hub') \subseteq Range(hub), Range(wire') \subseteq Range(wire),
           phase' = PhaseAfterDrop(phase) \/ phase' = phase,
           nextRead <= nextRead',
           \A q \in reads' : \/ q \in reads
                             \/ q.launch = None /\ q.blank /\ q.id < nextRead'
                             \/ \E p \in reads : SameRead(p, q),
           Kept \/ Ended \/ Begun
    PROVE  IInv'
<1>1. conn \in Connections /\ conn.replay \in Nat
  BY DEF IInv, TypeOK, ViewTypeOK, Connections
<1>2. /\ conn'.open = conn.open /\ conn'.rev = conn.rev /\ conn'.lastSequence = conn.lastSequence
      /\ conn'.buffered = conn.buffered
  BY <1>1 DEF Connections, Kept, Ended, Begun
<1>3. nextRead \in Nat \ {0} /\ nextRead' \in Nat \ {0}
  BY DEF IInv, TypeOK, NetTypeOK
<1>4. Sound(conn, phase, nextRead)
  BY SoundNow DEF IInv
<1>5. conn.replay # None => conn.open
  BY <1>4 DEF Sound, Closed
<1>6. Ended => conn'.replay = conn.replay /\ ~conn'.replaying /\ conn'.releasing
  BY <1>1 DEF Ended, Connections
<1>7. Begun => conn'.replay = nextRead /\ conn'.replaying /\ ~conn'.releasing
  BY <1>1 DEF Begun, Connections
<1>8. Sound(conn', phase', nextRead')
  <2>1. phase' \in {phase, "failing"} /\ (phase' # phase => phase = "starting")
    BY DEF PhaseAfterDrop
  <2>2. CASE Kept
    BY <1>1, <1>3, <1>4, <2>1, <2>2 DEF Sound, Kept
  <2>3. CASE Ended
    BY <1>1, <1>2, <1>3, <1>4, <1>5, <1>6, <2>1, <2>3 DEF Sound, Ended
  <2>4. CASE Begun
    <3>1. nextRead < nextRead' /\ nextRead # None
      BY <1>3, <2>4 DEF Begun, None
    <3> QED
      BY <1>2, <1>4, <1>7, <2>1, <2>4, <3>1 DEF Sound, Begun
  <2> QED
    BY <2>2, <2>3, <2>4
<1>9. \A e \in Range(conn'.buffered) : Real(e) /\ RevisionOf(e.launch) = conn'.rev
  BY <1>2 DEF IInv, OutputReal, HeldMatches
<1>10. ReadOnly => PositionReal'
  <2>1. UNCHANGED <<launches, history>> /\ Started' = Started
    BY DEF ptyVars, Started
  <2> QED
    BY <1>2, <2>1 DEF IInv, ViewerInv, PositionReal
<1>11. ASSUME ReadOnly, NEW q \in Snapshots, q.id = conn'.replay, conn'.replay # None,
              ~conn'.releasing, ~q.blank, RevisionOf(q.launch) = conn'.rev
       PROVE  conn'.lastSequence <= q.seq
  <2>1. q.id < nextRead /\ q.id \in Nat
    BY <1>11, QueueTypes DEF IInv, SnapshotsReal, Reads
  <2>2. Kept
    BY <1>3, <1>6, <1>7, <1>11, <2>1
  <2> QED
    BY <1>11, <2>2 DEF IInv, ViewerInv, SnapshotCovers, Kept
<1> QED
  BY <1>8, <1>9, <1>10, <1>11, SoundNext, ClientInv

(* What is on its way to the browser are events. *)
LEMMA OnTheWayType == ASSUME TypeOK PROVE OnTheWay \subseteq Events
  BY QueueTypes, FrameTypes DEF OnTheWay

(* The inductive invariant survives a dropped link. *)
LEMMA DisconnectInv == ASSUME IInv, Disconnect PROVE IInv'
<1> DEFINE starting == phase = "starting"
           follow   == PassOrphaned /\ pass.pending /\ conn.open
           fresh    == conn.replay = None /\ (starting \/ follow)
           q == [id |-> nextRead, stage |-> "queued", launch |-> None, seq |-> 0, blank |-> TRUE]
<1>1. /\ up' = FALSE /\ hub' = <<>> /\ lagged' = {} /\ wire' = <<>> /\ starts' = {}
      /\ missed' = missed \cup OnTheWay /\ drops' = drops + 1
      /\ phase' = PhaseAfterDrop(phase) /\ ~conn.releasing
      /\ UNCHANGED <<ptyVars, attach, view, redraws, announced, ignored>>
  BY DEF Disconnect, Idle
<1>2. /\ conn' = CASE conn.replay # None ->
                        [conn EXCEPT !.replaying = FALSE, !.releasing = TRUE]
                   [] fresh ->
                        [conn EXCEPT !.replaying = TRUE, !.replay = nextRead,
                                     !.clearScreen = ~starting]
                   [] OTHER -> conn
      /\ reads' = IF fresh THEN {q} ELSE {}
      /\ nextRead' = IF fresh THEN nextRead + 1 ELSE nextRead
      /\ pass' = IF follow THEN PassOver(conn) ELSE IF PassOrphaned THEN NoPass ELSE pass
  BY DEF Disconnect
<1>3. nextRead \in Nat \ {0} /\ conn \in Connections /\ pass \in [waitsOn : Nat, pending : BOOLEAN]
  BY DEF IInv, TypeOK, NetTypeOK, ViewTypeOK
<1>4. q \in Reads /\ q.launch = None /\ q.blank /\ q.id = nextRead
  BY <1>3, NewRead DEF ReadStages
<1>5. starting => conn.open
  BY DEF IInv, ConnectionSound
<1> HIDE DEF q
<1>6. /\ nextRead' \in Nat \ {0} /\ nextRead <= nextRead' /\ reads' \in SUBSET Reads
      /\ \A r \in reads' : r.launch = None /\ r.blank /\ r.id < nextRead'
  BY <1>2, <1>3, <1>4
<1>7. Kept \/ Ended \/ Begun
  <2>1. CASE conn.replay # None
    BY <1>2, <2>1 DEF Ended
  <2>2. CASE conn.replay = None /\ fresh
    <3> DEFINE clear == ~starting
    <3>1. nextRead < nextRead' /\ conn.open /\ clear \in BOOLEAN
      BY <1>2, <1>3, <1>5, <2>2
    <3>2. conn' = [conn EXCEPT !.replaying = TRUE, !.replay = nextRead, !.clearScreen = clear]
      BY <1>2, <2>2
    <3> HIDE DEF clear
    <3> QED
      BY <2>2, <3>1, <3>2 DEF Begun
  <2>3. CASE conn.replay = None /\ ~fresh
    BY <1>2, <2>3 DEF Kept
  <2> QED
    BY <2>1, <2>2, <2>3
<1>8. conn' \in Connections
  BY <1>2, <1>3 DEF Connections
<1>9. pass' \in [waitsOn : Nat, pending : BOOLEAN]
  <2>1. NoPass \in [waitsOn : Nat, pending : BOOLEAN]
    BY DEF NoPass, None
  <2>2. PassOver(conn) \in [waitsOn : Nat, pending : BOOLEAN]
    BY <1>3, PassOverType DEF IInv, TypeOK
  <2> QED
    BY <1>2, <1>3, <2>1, <2>2
<1>10. NetTypeOK'
  BY <1>1, <1>6, RangeEmpty DEF NetTypeOK
<1>11. ViewTypeOK'
  BY <1>1, <1>8, <1>9 DEF IInv, TypeOK, ViewTypeOK, PhaseAfterDrop, Phases
<1>12. BoundTypeOK'
  BY <1>1, OnTheWayType DEF IInv, TypeOK, BoundTypeOK
<1>13. Range(hub') \subseteq Range(hub) /\ Range(wire') \subseteq Range(wire)
  BY <1>1, RangeEmpty
<1> QED
  BY <1>1, <1>6, <1>7, <1>10, <1>11, <1>12, <1>13, BridgeInv

(* The inductive invariant survives a link that is back. *)
LEMMA ReconnectInv == ASSUME IInv, Reconnect PROVE IInv'
<1> DEFINE flushed == {[q EXCEPT !.stage = "sent"] : q \in reads}
           clears  == pass.waitsOn = None /\ conn.open
           fresh   == clears /\ conn.replay = None
           new == [id |-> nextRead, stage |-> "sent", launch |-> None, seq |-> 0, blank |-> TRUE]
<1>1. /\ up' = TRUE /\ missed' = {} /\ announced' = announced \cup missed /\ ~conn.releasing
      /\ starts' = {[c EXCEPT !.sent = TRUE] : c \in starts}
      /\ UNCHANGED <<ptyVars, hub, lagged, wire, phase, attach, view, ignored, drops, redraws>>
  BY DEF Reconnect, Idle
<1>2. /\ reads' = IF fresh THEN flushed \cup {new} ELSE flushed
      /\ nextRead' = IF fresh THEN nextRead + 1 ELSE nextRead
      /\ conn' = IF fresh THEN [conn EXCEPT !.replaying = TRUE, !.replay = nextRead,
                                            !.clearScreen = TRUE]
                 ELSE conn
      /\ pass' = IF clears THEN PassOver(conn)
                 ELSE IF pass.waitsOn # None THEN [pass EXCEPT !.pending = TRUE] ELSE pass
  BY DEF Reconnect
<1>3. /\ nextRead \in Nat \ {0} /\ conn \in Connections
      /\ pass \in [waitsOn : Nat, pending : BOOLEAN]
      /\ reads \in SUBSET Reads /\ starts \in SUBSET Starts
  BY DEF IInv, TypeOK, NetTypeOK, ViewTypeOK
<1>4. new \in Reads /\ new.launch = None /\ new.blank /\ new.id = nextRead
  BY <1>3, NewRead DEF ReadStages
<1>5. \A q \in flushed : q \in Reads /\ \E p \in reads : SameRead(p, q)
  BY <1>3 DEF Reads, ReadStages, SameRead
<1> HIDE DEF new, flushed
<1>6. /\ nextRead' \in Nat \ {0} /\ nextRead <= nextRead' /\ reads' \in SUBSET Reads
      /\ \A q \in reads' : \/ q.launch = None /\ q.blank /\ q.id < nextRead'
                           \/ \E p \in reads : SameRead(p, q)
  BY <1>2, <1>3, <1>4, <1>5
<1>7. Kept \/ Begun
  <2>1. CASE fresh
    <3>1. nextRead < nextRead' /\ conn.open /\ conn.replay = None
      BY <1>2, <1>3, <2>1
    <3>2. conn' = [conn EXCEPT !.replaying = TRUE, !.replay = nextRead, !.clearScreen = TRUE]
      BY <1>2, <2>1
    <3> QED
      BY <3>1, <3>2 DEF Begun
  <2>2. CASE ~fresh
    BY <1>1, <1>2, <2>2 DEF Kept
  <2> QED
    BY <2>1, <2>2
<1>8. conn' \in Connections
  BY <1>2, <1>3 DEF Connections
<1>9. pass' \in [waitsOn : Nat, pending : BOOLEAN]
  <2>1. PassOver(conn) \in [waitsOn : Nat, pending : BOOLEAN]
    BY <1>3, PassOverType DEF IInv, TypeOK
  <2> QED
    BY <1>2, <1>3, <2>1
<1>10. NetTypeOK'
  <2>1. starts' \in SUBSET Starts
    BY <1>1, <1>3 DEF Starts
  <2> QED
    BY <1>1, <1>6, <2>1 DEF IInv, TypeOK, NetTypeOK
<1>11. ViewTypeOK'
  BY <1>1, <1>8, <1>9 DEF IInv, TypeOK, ViewTypeOK
<1>12. BoundTypeOK'
  BY <1>1 DEF IInv, TypeOK, BoundTypeOK
<1> QED
  BY <1>1, <1>6, <1>7, <1>10, <1>11, <1>12, BridgeInv

-----------------------------------------------------------------------------
(* Every step keeps the invariant. *)
LEMMA StepInv == ASSUME IInv, [Next]_vars PROVE IInv'
<1>1. CASE ServerStep
  <2>1. ASSUME NEW l \in Started, Publish(l) PROVE IInv'
    BY <2>1, PublishInv
  <2>2. ASSUME NEW c \in starts, HandleStart(c) PROVE IInv'
    BY <2>2, HandleStartInv
  <2>3. ASSUME NEW q \in reads, TakeSnapshot(q) \/ SendResult(q) PROVE IInv'
    BY <2>3, TakeSnapshotInv, SendResultInv
  <2> QED
    BY <1>1, <2>1, <2>2, <2>3, ForwardEventInv DEF ServerStep
<1>2. CASE ClientStep
  BY <1>2, ReceiveOutputInv, ReceiveResyncInv, ReceiveScrollbackInv, ReceiveStartedInv,
     ReceiveStartFailedInv, ReleaseHeldInv, FinishReplayInv, ReplayInitialInv, ReconnectInv
  DEF ClientStep
<1>3. CASE Environment
  <2>1. ASSUME NEW l \in Started, Push(l) PROVE IInv'
    BY <2>1, PushInv
  <2>2. ASSUME NEW r \in Revisions, OwnerLaunch(r) \/ Mount(r) \/ Retry(r) PROVE IInv'
    BY <2>2, OwnerLaunchInv, ConnectInv DEF Mount, Retry
  <2> QED
    BY <1>3, <2>1, <2>2, CloseInv, UnmountInv, RedrawActionInv, ReplayTimeoutInv, DisconnectInv
    DEF Environment
<1>4. CASE UNCHANGED vars
  <2> USE <1>4 DEF vars, ptyVars, netVars, callVars, viewVars, boundVars
  <2>1. TypeOK'
    BY DEF IInv, TypeOK, PtyTypeOK, NetTypeOK, ViewTypeOK, BoundTypeOK
  <2>2. OutputReal' /\ SnapshotsReal' /\ HeldMatches'
    BY DEF IInv, OutputReal, SnapshotsReal, HeldMatches, Real, Snapshots, Started, RevisionOf
  <2>3. ConnectionSound' /\ HeldOnlyWhileAwaited'
    BY DEF IInv, ConnectionSound, HeldOnlyWhileAwaited
  <2>4. ReadOnly => ViewerInv'
    BY DEF IInv, ViewerInv, FreshRevisions, PositionReal, SnapshotCovers, Snapshots, Started,
       RevisionOf
  <2> QED
    BY <2>1, <2>2, <2>3, <2>4 DEF IInv
<1> QED
  BY <1>1, <1>2, <1>3, <1>4 DEF Next

(* IInv holds in every state the pipeline can reach. *)
THEOREM Invariance == Spec => []IInv
<1>1. Init => IInv
  BY InitInv
<1>2. IInv /\ [Next]_vars => IInv'
  BY StepInv
<1> QED
  BY <1>1, <1>2, PTL DEF Spec

(* Every queue, call and connection has its type, whatever the interleaving. *)
THEOREM TypeCorrect == Spec => []TypeOK
<1>1. IInv => TypeOK
  BY DEF IInv
<1> QED
  BY <1>1, Invariance, PTL

(* Output is never held back with nothing under way that would release it.   *)
THEOREM HeldIsAwaited == Spec => []HeldOnlyWhileAwaited
<1>1. IInv => HeldOnlyWhileAwaited
  BY DEF IInv
<1> QED
  BY <1>1, Invariance, PTL

-----------------------------------------------------------------------------
(* Refinement of StreamPosition, for a viewer. *)

(* What StreamPosition sees of a connection. *)
SameView == conn'.open = conn.open /\ conn'.rev = conn.rev /\ conn'.lastSequence = conn.lastSequence

(* A step that moves none of it is a stutter of StreamPosition. *)
LEMMA Stutter ==
    ASSUME SameView, UNCHANGED <<launches, history>> PROVE UNCHANGED Position!vars
  BY DEF SameView, Position!vars

(* Redraws move nothing StreamPosition sees. *)
LEMMA RedrawnSame ==
    ASSUME NEW c, Redrawn(c),
           c.open = conn.open, c.rev = conn.rev, c.lastSequence = conn.lastSequence
    PROVE  SameView
  BY DEF Redrawn, SameView

(* Beginning a redraw keeps what the view shows and how far it is. *)
LEMMA BeginSame ==
    ASSUME NetTypeOK, ViewTypeOK, conn.open, NEW clear \in BOOLEAN, BeginReplay(conn, clear)
    PROVE  SameView
  BY BeginReplayRedraws, RedrawnSame DEF ViewTypeOK

(* A link that drops or comes back keeps what the view shows and how far it is. *)
LEMMA BridgeSame ==
    ASSUME conn \in Connections, Kept \/ Ended \/ Begun PROVE SameView
  BY DEF Connections, Kept, Ended, Begun, SameView

(* deliver() moves a position forward to one its launch has reached. *)
LEMMA DeliverAdvances ==
    ASSUME IInv, IInv', ReadOnly, UNCHANGED <<launches, history>>, conn.open,
           NEW c \in Connections, NEW e \in Events, Deliver(c, e),
           Real(e), RevisionOf(e.launch) = conn.rev,
           c.open = conn.open, c.rev = conn.rev, c.lastSequence = conn.lastSequence
    PROVE  [Position!Next]_(Position!vars)
<1> conn \in Connections
  BY DEF IInv, TypeOK, ViewTypeOK
<1>1. CASE conn' = c
  BY <1>1, Stutter DEF SameView
<1>2. CASE e.seq > c.lastSequence /\ conn' = [c EXCEPT !.lastSequence = e.seq]
  <2>1. /\ conn'.open /\ conn'.rev = conn.rev /\ conn'.lastSequence = e.seq
        /\ conn.lastSequence <= e.seq /\ conn.lastSequence \in Nat /\ e.seq \in Nat
    <3>1. conn'.open = c.open /\ conn'.rev = c.rev /\ conn'.lastSequence = e.seq
      BY <1>2 DEF Connections
    <3>2. conn.lastSequence \in Nat /\ e.seq \in Nat
      BY DEF Connections, Events
    <3>3. conn.lastSequence <= e.seq
      BY <1>2, <3>2
    <3> QED
      BY <3>1, <3>2, <3>3
  <2>2. e.launch \in Started /\ e.launch \in Launches /\ launches[e.launch] = conn.rev
        /\ e.seq <= history[e.launch].seq /\ history[e.launch].seq \in Nat
    BY PtyTypes DEF IInv, TypeOK, Real, RevisionOf, Started, None
  <2>3. Position!Advance
    <3> DEFINE produced == [l \in Launches |-> history[l].seq]
    <3>1. produced[e.launch] = history[e.launch].seq
      BY <2>2
    <3>2. conn'.lastSequence \in conn.lastSequence..produced[e.launch]
      BY <2>1, <2>2, <3>1
    <3> QED
      BY <2>1, <2>2, <3>2 DEF Position!Advance, Started
  <2> QED
    BY <2>3 DEF Position!Next
<1> QED
  BY <1>1, <1>2 DEF Deliver

(* A redraw draws a snapshot that is real and not behind the view. *)
LEMMA ScrollbackAdvances ==
    ASSUME IInv, IInv', ReadOnly, ReceiveScrollback PROVE [Position!Next]_(Position!vars)
<1> DEFINE r == Head(wire).read
<1>1. r \in Reads /\ r \in Snapshots /\ r.id # None /\ r.seq \in Nat /\ (~r.blank => Real(r))
  <2>1. r \in Reads /\ r \in Snapshots
    BY Taken, FrameTypes DEF ReceiveScrollback, Snapshots
  <2> QED
    BY <2>1, QueueTypes DEF IInv, SnapshotsReal, Reads
<1>2. conn \in Connections /\ conn.lastSequence \in Nat /\ ~conn.releasing
  BY DEF IInv, TypeOK, ViewTypeOK, Connections, ReceiveScrollback, Take, Idle
<1>3. UNCHANGED <<launches, history>>
  BY DEF ReceiveScrollback, ptyVars
<1> HIDE DEF r
<1>4. CASE r.id = conn.replay /\ Matches(conn, r.launch) /\ ~r.blank
  <2>1. conn' = [conn EXCEPT !.lastSequence = r.seq, !.replaying = FALSE, !.releasing = TRUE]
    BY <1>4 DEF ReceiveScrollback, r
  <2>2. conn'.open = conn.open /\ conn'.rev = conn.rev /\ conn'.lastSequence = r.seq
    BY <1>2, <2>1 DEF Connections
  <2>3. conn.open
    BY <1>1, <1>4 DEF IInv, ConnectionSound, Closed
  <2>4. /\ r.launch \in Started /\ r.launch \in Launches /\ launches[r.launch] = conn.rev
        /\ r.seq <= history[r.launch].seq /\ history[r.launch].seq \in Nat
    BY <1>1, <1>4, PtyTypes DEF IInv, TypeOK, Real, Matches, RevisionOf, Started, None
  <2>5. conn.lastSequence <= r.seq
    BY <1>1, <1>2, <1>4 DEF IInv, ViewerInv, SnapshotCovers, Matches
  <2>6. Position!Advance
    <3> DEFINE produced == [l \in Launches |-> history[l].seq]
    <3>1. conn'.lastSequence \in conn.lastSequence..produced[r.launch]
      BY <1>1, <1>2, <2>2, <2>4, <2>5
    <3> QED
      BY <1>3, <2>2, <2>3, <2>4, <3>1 DEF Position!Advance, Started
  <2> QED
    BY <2>6 DEF Position!Next
<1>5. CASE r.id = conn.replay /\ ~(Matches(conn, r.launch) /\ ~r.blank)
  <2>1. conn' = [conn EXCEPT !.replaying = FALSE, !.releasing = TRUE]
    BY <1>5 DEF ReceiveScrollback, r
  <2>2. SameView
    BY <1>2, <2>1 DEF Connections, SameView
  <2> QED
    BY <1>3, <2>2, Stutter
<1>6. CASE EndPass(conn)
  <2>1. SameView
    BY <1>2, <1>6, EndPassRedraws, RedrawnSame DEF IInv, TypeOK
  <2> QED
    BY <1>3, <2>1, Stutter
<1>7. CASE UNCHANGED conn
  BY <1>3, <1>7, Stutter DEF SameView
<1> QED
  BY <1>4, <1>5, <1>6, <1>7 DEF ReceiveScrollback, r

(* Adopting the launch that really runs turns the view to its beginning. *)
LEMMA StartedAdopts ==
    ASSUME IInv, IInv', ReadOnly, ReceiveStarted PROVE [Position!Next]_(Position!vars)
<1> DEFINE r == RevisionOf(Head(wire).launch)
<1>1. conn \in Connections /\ Head(wire).launch \in Started
  BY Taken DEF ReceiveStarted, IInv, OutputReal, TypeOK, ViewTypeOK
<1>2. r = launches[Head(wire).launch]
  BY <1>1 DEF RevisionOf, Started, None
<1>3. UNCHANGED <<launches, history>>
  BY DEF ReceiveStarted, ptyVars
<1>4. CASE conn' = conn
  BY <1>3, <1>4, Stutter DEF SameView
<1>5. CASE /\ phase = "starting" /\ conn.rev # r
           /\ conn' = [conn EXCEPT !.rev = r, !.lastSequence = 0,
                                   !.buffered = HeldFor(conn.buffered, r)]
  <2> HIDE DEF r
  <2>1. conn'.open = conn.open /\ conn'.rev = r /\ conn'.lastSequence = 0
    BY <1>1, <1>5 DEF Connections
  <2>2. conn.open
    BY <1>5 DEF IInv, ConnectionSound
  <2>3. Position!Adopt
    BY <1>1, <1>2, <1>3, <1>5, <2>1, <2>2 DEF Position!Adopt, Started
  <2> QED
    BY <2>3 DEF Position!Next
<1> QED
  BY <1>4, <1>5 DEF ReceiveStarted

(* The backend's part. *)
LEMMA ServerImplements ==
    ASSUME IInv, ReadOnly, ServerStep PROVE [Position!Next]_(Position!vars)
<1>1. ASSUME NEW l \in Started, Publish(l) PROVE UNCHANGED <<launches, history, conn>>
  BY <1>1 DEF Publish, viewVars
<1>2. ASSUME NEW c \in starts, HandleStart(c) PROVE UNCHANGED <<launches, history, conn>>
  BY <1>2 DEF HandleStart, viewVars, ptyVars
<1>3. ASSUME NEW q \in reads, TakeSnapshot(q) \/ SendResult(q)
      PROVE  UNCHANGED <<launches, history, conn>>
  BY <1>3 DEF TakeSnapshot, SendResult, viewVars, ptyVars
<1>4. ForwardEvent => UNCHANGED <<launches, history, conn>>
  BY DEF ForwardEvent, viewVars, ptyVars
<1>5. UNCHANGED <<launches, history, conn>>
  BY <1>1, <1>2, <1>3, <1>4 DEF ServerStep
<1> QED
  BY <1>5, Stutter DEF SameView

(* The browser's part. *)
LEMMA ClientImplements ==
    ASSUME IInv, IInv', ReadOnly, ClientStep PROVE [Position!Next]_(Position!vars)
<1>1. conn \in Connections /\ NetTypeOK /\ ViewTypeOK
  BY DEF IInv, TypeOK, ViewTypeOK
<1>2. CASE ReceiveOutput
  <2> DEFINE e == Head(wire).event
  <2>1. e \in Events /\ Real(e)
    BY <1>2, Taken, FrameTypes DEF ReceiveOutput, IInv, OutputReal
  <2>2. UNCHANGED <<launches, history>>
    BY <1>2 DEF ReceiveOutput, ptyVars
  <2>3. CASE conn.open /\ Matches(conn, e.launch) /\ ~conn.replaying
    <3>1. Deliver(conn, e) /\ RevisionOf(e.launch) = conn.rev
      BY <1>2, <2>3 DEF ReceiveOutput, Matches
    <3> HIDE DEF e
    <3> QED
      BY <1>1, <2>1, <2>2, <2>3, <3>1, DeliverAdvances
  <2>4. CASE ~(conn.open /\ Matches(conn, e.launch) /\ ~conn.replaying)
    <3>1. conn' = conn \/ conn' = [conn EXCEPT !.buffered = Append(conn.buffered, e)]
      BY <1>2, <2>4 DEF ReceiveOutput
    <3>2. SameView
      BY <1>1, <3>1 DEF SameView, Connections
    <3> QED
      BY <2>2, <3>2, Stutter
  <2> QED
    BY <2>3, <2>4
<1>3. CASE ReceiveResync
  <2>1. SameView
    BY <1>1, <1>3, ReplayAllRedraws, RedrawnSame DEF ReceiveResync
  <2> QED
    BY <1>3, <2>1, Stutter DEF ReceiveResync, ptyVars
<1>4. CASE ReceiveStartFailed
  <2>1. SameView
    <3>1. CASE phase = "starting" /\ Head(wire).attach = attach
      BY <1>1, <1>4, <3>1, BeginSame DEF ReceiveStartFailed, IInv, ConnectionSound
    <3>2. CASE ~(phase = "starting" /\ Head(wire).attach = attach)
      BY <1>4, <3>2 DEF ReceiveStartFailed, SameView
    <3> QED
      BY <3>1, <3>2
  <2> QED
    BY <1>4, <2>1, Stutter DEF ReceiveStartFailed, ptyVars
<1>5. CASE ReleaseHeld
  <2> DEFINE e == Head(conn.buffered)
             c == [conn EXCEPT !.buffered = Tail(conn.buffered)]
  <2>1. conn.buffered \in Seq(Events) /\ conn.buffered # <<>> /\ conn.releasing
    BY <1>1, <1>5 DEF ReleaseHeld, Connections
  <2>2. e \in Events /\ e \in Range(conn.buffered) /\ Tail(conn.buffered) \in Seq(Events)
    BY <2>1, RangeTail
  <2>3. Real(e) /\ RevisionOf(e.launch) = conn.rev
    BY <2>2 DEF IInv, OutputReal, HeldMatches
  <2>4. /\ c \in Connections /\ c.open = conn.open /\ c.rev = conn.rev
        /\ c.lastSequence = conn.lastSequence
    BY <1>1, <2>2 DEF Connections
  <2>5. conn.open
    BY <2>1 DEF IInv, ConnectionSound, Closed
  <2>6. Deliver(c, e) /\ UNCHANGED <<launches, history>>
    BY <1>5 DEF ReleaseHeld, ptyVars
  <2> HIDE DEF c, e
  <2> QED
    BY <2>2, <2>3, <2>4, <2>5, <2>6, DeliverAdvances
<1>6. CASE FinishReplay
  <2> DEFINE c == [conn EXCEPT !.releasing = FALSE, !.replay = None]
  <2>1. /\ c \in Connections /\ c.open = conn.open /\ c.rev = conn.rev
        /\ c.lastSequence = conn.lastSequence
    BY <1>1 DEF Connections, None
  <2>2. UNCHANGED <<launches, history>>
    BY <1>6 DEF FinishReplay, ptyVars
  <2>3. CASE phase = "failing"
    <3>1. conn' = Closed /\ conn.open
      BY <1>6, <2>3 DEF FinishReplay, IInv, ConnectionSound
    <3>2. Position!Detach
      BY <2>2, <3>1 DEF Position!Detach, Closed
    <3> QED
      BY <3>2 DEF Position!Next
  <2>4. CASE phase # "failing"
    <3>1. EndPass(c) \/ conn' = c
      BY <1>6, <2>4 DEF FinishReplay
    <3> HIDE DEF c
    <3>2. SameView
      BY <1>1, <2>1, <3>1, EndPassRedraws, RedrawnSame DEF SameView
    <3> QED
      BY <2>2, <3>2, Stutter
  <2> QED
    BY <2>3, <2>4
<1>7. CASE ReplayInitial
  <2>1. SameView
    BY <1>1, <1>7, BeginSame DEF ReplayInitial, IInv, ConnectionSound
  <2> QED
    BY <1>7, <2>1, Stutter DEF ReplayInitial, ptyVars
<1>8. CASE Reconnect
  <2> DEFINE fresh == (pass.waitsOn = None /\ conn.open) /\ conn.replay = None
  <2>1. conn' = IF fresh THEN [conn EXCEPT !.replaying = TRUE, !.replay = nextRead,
                                           !.clearScreen = TRUE]
                ELSE conn
    BY <1>8 DEF Reconnect
  <2>2. SameView
    BY <1>1, <2>1 DEF Connections, SameView
  <2> QED
    BY <1>8, <2>2, Stutter DEF Reconnect, ptyVars
<1> QED
  BY <1>2, <1>3, <1>4, <1>5, <1>6, <1>7, <1>8, ScrollbackAdvances, StartedAdopts DEF ClientStep

(* What the user, the owner and the link do. *)
LEMMA EnvironmentImplements ==
    ASSUME IInv, IInv', ReadOnly, Environment PROVE [Position!Next]_(Position!vars)
<1>1. conn \in Connections /\ NetTypeOK /\ ViewTypeOK
  BY DEF IInv, TypeOK, ViewTypeOK
<1>2. ASSUME NEW l \in Started, Push(l) PROVE [Position!Next]_(Position!vars)
  <2> DEFINE produced == [m \in Launches |-> history[m].seq]
  <2>1. l \in Launches /\ UNCHANGED <<launches, conn>>
    BY <1>2, PtyTypes DEF Push, viewVars, IInv, TypeOK
  <2>2. produced' = [produced EXCEPT ![l] = @ + 1]
    <3>1. /\ history[l].seq \in Nat
          /\ \A m \in Launches : history'[m].seq = IF m = l THEN history[l].seq + 1 ELSE history[m].seq
      BY <1>2, <2>1 DEF Push, IInv, TypeOK, PtyTypeOK
    <3> QED
      BY <2>1, <3>1
  <2>3. Position!Produce
    BY <2>1, <2>2 DEF Position!Produce, Position!view, Started
  <2> QED
    BY <2>3 DEF Position!Next
<1>3. ASSUME NEW r \in Revisions, OwnerLaunch(r) PROVE [Position!Next]_(Position!vars)
  <2>1. /\ launches' = Append(launches, r) /\ UNCHANGED <<history, conn>>
        /\ \A l \in Started : launches[l] # r
    BY <1>3, PtyTypes, TerminalStreamAssumption
    DEF OwnerLaunch, Launch, viewVars, IInv, TypeOK
  <2>2. Position!Launch
    BY <1>3, <2>1 DEF Position!Launch, Position!view, Started
  <2> QED
    BY <2>2 DEF Position!Next
<1>4. ASSUME NEW r \in Revisions, Mount(r) \/ Retry(r) PROVE [Position!Next]_(Position!vars)
  <2>1. /\ conn' = [Closed EXCEPT !.open = TRUE, !.rev = r, !.replaying = TRUE]
        /\ UNCHANGED <<launches, history>>
    BY <1>4 DEF Mount, Retry, Connect, ptyVars
  <2>2. ~conn.open
    BY <1>4 DEF Mount, Retry, IInv, ConnectionSound
  <2>3. conn'.open /\ conn'.rev = r /\ conn'.lastSequence = 0
    BY <2>1 DEF Closed
  <2>4. Position!Attach
    BY <1>4, <2>1, <2>2, <2>3 DEF Position!Attach
  <2> QED
    BY <2>4 DEF Position!Next
<1>5. CASE CloseTerminal
  BY <1>5, Stutter DEF CloseTerminal, viewVars, SameView
<1>6. CASE Unmount
  <2>1. conn' = Closed /\ UNCHANGED <<launches, history>>
    BY <1>6 DEF Unmount, ptyVars
  <2>2. CASE conn.open
    <3>1. Position!Detach
      BY <2>1, <2>2 DEF Position!Detach, Closed
    <3> QED
      BY <3>1 DEF Position!Next
  <2>3. CASE ~conn.open
    BY <2>1, <2>3, Stutter DEF SameView, IInv, ConnectionSound
  <2> QED
    BY <2>2, <2>3
<1>7. CASE Redraw
  <2>1. SameView
    BY <1>1, <1>7, BeginSame DEF Redraw, IInv, ConnectionSound
  <2> QED
    BY <1>7, <2>1, Stutter DEF Redraw, ptyVars
<1>8. CASE ReplayTimeout
  <2>1. CASE conn' = [conn EXCEPT !.replaying = FALSE, !.releasing = TRUE]
    <3>1. SameView
      BY <1>1, <2>1 DEF Connections, SameView
    <3> QED
      BY <1>8, <3>1, Stutter DEF ReplayTimeout, ptyVars
  <2>2. CASE EndPass(conn)
    <3>1. SameView
      BY <1>1, <2>2, EndPassRedraws, RedrawnSame
    <3> QED
      BY <1>8, <3>1, Stutter DEF ReplayTimeout, ptyVars
  <2> QED
    BY <1>8, <2>1, <2>2 DEF ReplayTimeout
<1>9. CASE Disconnect
  <2> DEFINE starting == phase = "starting"
             fresh == conn.replay = None /\ (starting \/ (PassOrphaned /\ pass.pending /\ conn.open))
  <2>1. conn' = CASE conn.replay # None ->
                        [conn EXCEPT !.replaying = FALSE, !.releasing = TRUE]
                   [] fresh ->
                        [conn EXCEPT !.replaying = TRUE, !.replay = nextRead,
                                     !.clearScreen = ~starting]
                   [] OTHER -> conn
    BY <1>9 DEF Disconnect
  <2>2. SameView
    BY <1>1, <2>1 DEF Connections, SameView
  <2> QED
    BY <1>9, <2>2, Stutter DEF Disconnect, ptyVars
<1> QED
  BY <1>2, <1>3, <1>4, <1>5, <1>6, <1>7, <1>8, <1>9 DEF Environment

(* Every step of the pipeline is a step of StreamPosition, or none. *)
LEMMA StepImplements ==
    ASSUME IInv, IInv', ReadOnly, [Next]_vars PROVE [Position!Next]_(Position!vars)
<1>1. CASE UNCHANGED vars
  BY <1>1, Stutter DEF vars, ptyVars, viewVars, SameView
<1> QED
  BY <1>1, ServerImplements, ClientImplements, EnvironmentImplements DEF Next

(* The initial states show nothing of a terminal that never ran. *)
LEMMA InitImplements == Init => Position!Init
  BY DEF Init, Position!Init, Closed, Launches

(* A viewer's position in the output is one the launch it shows has reached,  *)
(* and only moves forward, through lag, resync, reconnect and relaunch.       *)
THEOREM ViewerFollowsPosition == ASSUME ReadOnly PROVE Spec => ImplementsPosition
<1>1. IInv /\ IInv' /\ [Next]_vars => [Position!Next]_(Position!vars)
  BY StepImplements
<1> QED
  BY <1>1, InitImplements, Invariance, PTL DEF Spec, ImplementsPosition, Position!Spec

(* Whatever is applied last, the position a viewer was fed to never goes back *)
(* while it shows the same launch.                                            *)
THEOREM ViewerNeverRewinds == ASSUME ReadOnly PROVE Spec => NeverRewinds
<1>1. ASSUME IInv, [Position!Next]_(Position!vars),
             attach' = attach, conn.open, conn'.open, conn'.rev = conn.rev
      PROVE  conn'.lastSequence >= conn.lastSequence
  <2>1. conn.lastSequence \in Nat
    BY <1>1 DEF IInv, TypeOK, ViewTypeOK, Connections
  <2>2. CASE conn'.lastSequence = conn.lastSequence
    BY <2>1, <2>2
  <2>3. CASE Position!Advance
    BY <2>1, <2>3 DEF Position!Advance
  <2>4. Position!Advance \/ conn'.lastSequence = conn.lastSequence
    BY <1>1 DEF Position!Next, Position!vars, Position!view, Position!Produce,
       Position!Launch, Position!Attach, Position!Detach, Position!Adopt
  <2> QED
    BY <2>2, <2>3, <2>4
<1>2. IInv /\ IInv' /\ [Next]_vars
        => [(attach' = attach /\ conn.open /\ conn'.open /\ conn'.rev = conn.rev)
              => conn'.lastSequence >= conn.lastSequence]_conn
  BY <1>1, StepImplements
<1> QED
  BY <1>2, Invariance, PTL DEF Spec, NeverRewinds

-----------------------------------------------------------------------------
(* The order of what is on its way: nothing is skipped in silence, and for a *)
(* viewer nothing is drawn twice, backwards or of a launch that was replaced.*)
(*                                                                          *)
(* An event waits in the ring, on the wire or in the connection's buffer,   *)
(* or it was overwritten, and then a Resync that names it keeps its place.  *)
(* Seen along that path the chunks of a launch are in the order they were   *)
(* produced in, so that whatever is missing before the next one was         *)
(* announced before.                                                        *)

(* The events of one set come before those of another of the same launch. *)
Before(S, T) == \A x \in S, y \in T : x.launch = y.launch => x.seq < y.seq

(* What a frame delivers, and what it delivers or announces as lost; what all *)
(* frames of a queue do.                                                      *)
Output(f)  == IF f.kind = "output" THEN {f.event} ELSE {}
Carried(f) == IF f.kind = "resync" THEN f.lost ELSE Output(f)
OutputOf(s)  == UNION {Output(f) : f \in Range(s)}
CarriedBy(s) == UNION {Carried(f) : f \in Range(s)}

Sent == CarriedBy(wire)
Held == Range(conn.buffered)

EventsOrdered(s) == \A i, j \in 1..Len(s) : i < j => Before({s[i]}, {s[j]})
FramesOrdered(s) == \A i, j \in 1..Len(s) : i < j => Before(Carried(s[i]), Carried(s[j]))

(* Held output was sent before what is on the wire, which was read before the *)
(* events that were overwritten, and those before what is left in the ring.   *)
PathOrdered ==
    /\ EventsOrdered(conn.buffered) /\ FramesOrdered(wire) /\ EventsOrdered(hub)
    /\ Before(Held, Sent) /\ Before(Held, lagged) /\ Before(Held, Range(hub))
    /\ Before(Sent, lagged) /\ Before(Sent, Range(hub)) /\ Before(lagged, Range(hub))

Published(e) == e.seq <= published[e.launch]

PathPublished ==
    \A e \in Held \cup Sent \cup lagged \cup Range(hub) \cup missed : Published(e)

(* What is lost and not announced does not arrive and is behind all that is   *)
(* held, and while the bridge is up its announcement is on the way.           *)
LossPending ==
    /\ Before(Held, missed) /\ OnTheWay \cap missed = {}
    /\ up => missed \subseteq lagged \cup Sent

(* The events that are still to come, were announced as lost or ignored. *)
Accounted == announced \cup ignored \cup missed \cup Held \cup OnTheWay

(* Everything of launch l after its chunk s is accounted for. *)
Whole(l, s) == \A n \in Nat : s < n /\ n <= published[l] => Event(l, n) \in Accounted

PathWhole == \A e \in Held \cup OnTheWay : Whole(e.launch, e.seq)

(* A snapshot that may still be drawn is continued by what follows. *)
Drawable(q) ==
    /\ conn.replaying /\ q.id = conn.replay /\ q.launch # None
    /\ phase = "starting" \/ RevisionOf(q.launch) = conn.rev
SnapshotsWhole == \A q \in Snapshots : Drawable(q) => Whole(q.launch, q.seq)

Mine(s) == s.attach = attach
Newest == view[Len(view)]

(* What the connection showed last is where its position is. *)
ViewWhole ==
    (conn.open /\ view # <<>> /\ Mine(Newest) /\ RevisionOf(Newest.launch) = conn.rev)
        => Newest.seq = conn.lastSequence /\ Whole(Newest.launch, Newest.seq)

ViewPlausible ==
    \A i \in 1..Len(view) :
        /\ view[i].attach <= attach /\ view[i].launch \in Started
        /\ phase = "starting" /\ Mine(view[i]) => RevisionOf(view[i].launch) = conn.rev

PathInv == PathOrdered /\ PathPublished /\ LossPending
GapInv ==
    /\ PathInv /\ PathWhole /\ SnapshotsWhole
    /\ ViewWhole /\ ViewPlausible /\ NoSilentGap

(* For a viewer: launches are those of the owner, each with a later revision. *)
LaunchesOrdered ==
    /\ \A l, m \in Started : l < m => launches[l] < launches[m]
    /\ session \in {None, Len(launches)}

(* A connection has shown nothing of a later launch than its own, nor more of *)
(* its own than its position says.                                            *)
ShownBefore ==
    conn.open => \A i \in 1..Len(view) :
        Mine(view[i]) =>
            /\ RevisionOf(view[i].launch) <= conn.rev
            /\ RevisionOf(view[i].launch) = conn.rev => view[i].seq <= conn.lastSequence

(* The launches of which a frame brings output, and the one start() is told. *)
Brings(f) == IF f.kind = "output" THEN {f.event.launch}
             ELSE IF f.kind = "scrollback" THEN {f.read.launch} ELSE {}
Names(f)  == IF f.kind = "started" THEN {f.launch} ELSE {}
BroughtBy(s) == UNION {Brings(f) : f \in Range(s)}
NamedBy(s)   == UNION {Names(f) : f \in Range(s)}

(* The launches the view shows or is going to when its output is released. *)
Seen == {view[i].launch : i \in 1..Len(view)} \cup {e.launch : e \in Held}

(* The launch start() is told is no older than all that was seen or sent       *)
(* before it is told.                                                          *)
UpTo(S, T) == \A l \in S, m \in T : l <= m
NamedInOrder(s) == \A i, j \in 1..Len(s) : i < j => UpTo(Brings(s[i]), Names(s[j]))
NamedLast == NamedInOrder(wire) /\ UpTo(Seen, NamedBy(wire))

OrderInv == LaunchesOrdered /\ ShownBefore /\ NamedLast /\ ChunksInOrder

-----------------------------------------------------------------------------
(* Queues in order. *)

(* The head of a queue is what it contains besides its tail. *)
LEMMA RangeSplit ==
    ASSUME NEW S, NEW s \in Seq(S), s # <<>>
    PROVE  /\ Head(s) \in S /\ Tail(s) \in Seq(S)
           /\ Range(s) = {Head(s)} \cup Range(Tail(s))
<1>1. /\ Head(s) \in S /\ Tail(s) \in Seq(S)
      /\ Len(Tail(s)) = Len(s) - 1
      /\ \A i \in 1..Len(Tail(s)) : Tail(s)[i] = s[i + 1]
  BY HeadTailProperties
<1>2. Len(s) \in Nat \ {0} /\ DOMAIN s = 1..Len(s) /\ DOMAIN Tail(s) = 1..Len(s) - 1
  BY <1>1, LenProperties, EmptySeq
<1>3. Head(s) = s[1]
  OBVIOUS
<1>4. ASSUME NEW i \in 1..Len(s) PROVE s[i] \in {Head(s)} \cup Range(Tail(s))
  <2>1. CASE i = 1
    BY <1>3, <2>1
  <2>2. CASE i # 1
    <3>1. i - 1 \in 1..Len(Tail(s)) /\ Tail(s)[i - 1] = s[i]
      BY <1>1, <1>2, <2>2
    <3> QED
      BY <1>1, <1>2, <3>1 DEF Range
  <2> QED
    BY <2>1, <2>2
<1>5. Range(s) \subseteq {Head(s)} \cup Range(Tail(s))
  BY <1>2, <1>4 DEF Range
<1> QED
  BY <1>1, <1>5, RangeTail

(* An event goes to the end of a queue whose events come before it. *)
LEMMA EventsAppend ==
    ASSUME NEW s \in Seq(Events), NEW x \in Events,
           EventsOrdered(s), Before(Range(s), {x})
    PROVE  EventsOrdered(Append(s, x))
<1> DEFINE t == Append(s, x)
<1>1. /\ Len(t) = Len(s) + 1 /\ Len(s) \in Nat
      /\ \A i \in 1..Len(s) : t[i] = s[i] /\ s[i] \in Range(s)
      /\ t[Len(s) + 1] = x
  BY AppendProperties, LenProperties DEF Range
<1> HIDE DEF t
<1>2. ASSUME NEW i \in 1..Len(t), NEW j \in 1..Len(t), i < j PROVE Before({t[i]}, {t[j]})
  <2>1. i \in 1..Len(s)
    BY <1>1, <1>2
  <2>2. CASE j \in 1..Len(s)
    BY <1>1, <1>2, <2>1, <2>2 DEF EventsOrdered
  <2>3. CASE j = Len(s) + 1
    BY <1>1, <2>1, <2>3 DEF Before
  <2> QED
    BY <1>1, <2>2, <2>3
<1> QED
  BY <1>2 DEF EventsOrdered, t

(* The head of a queue in order comes before the rest. *)
LEMMA EventsTail ==
    ASSUME NEW s \in Seq(Events), s # <<>>, EventsOrdered(s)
    PROVE  EventsOrdered(Tail(s)) /\ Before({Head(s)}, Range(Tail(s)))
<1> DEFINE t == Tail(s)
<1>1. /\ Len(t) = Len(s) - 1 /\ Len(s) \in Nat \ {0}
      /\ \A i \in 1..Len(t) : t[i] = s[i + 1]
      /\ DOMAIN t = 1..Len(t) /\ Head(s) = s[1]
  BY HeadTailProperties, LenProperties, EmptySeq
<1> HIDE DEF t
<1>2. ASSUME NEW i \in 1..Len(t), NEW j \in 1..Len(t), i < j PROVE Before({t[i]}, {t[j]})
  <2>1. i + 1 \in 1..Len(s) /\ j + 1 \in 1..Len(s) /\ i + 1 < j + 1
    BY <1>1, <1>2
  <2> QED
    BY <1>1, <2>1 DEF EventsOrdered
<1>3. ASSUME NEW j \in 1..Len(t) PROVE Before({Head(s)}, {t[j]})
  <2>1. 1 \in 1..Len(s) /\ j + 1 \in 1..Len(s) /\ 1 < j + 1
    BY <1>1
  <2> QED
    BY <1>1, <2>1 DEF EventsOrdered
<1>4. Before({Head(s)}, Range(t))
  BY <1>1, <1>3 DEF Before, Range
<1> QED
  BY <1>2, <1>4 DEF EventsOrdered, t

(* What is in a queue of frames after one more. *)
LEMMA FramesAppend ==
    ASSUME NEW s \in Seq(Frames), NEW f \in Frames
    PROVE  /\ CarriedBy(Append(s, f)) = CarriedBy(s) \cup Carried(f)
           /\ OutputOf(Append(s, f)) = OutputOf(s) \cup Output(f)
           /\ FramesOrdered(s) /\ Before(CarriedBy(s), Carried(f))
                => FramesOrdered(Append(s, f))
<1> DEFINE t == Append(s, f)
<1>1. /\ Len(t) = Len(s) + 1 /\ Len(s) \in Nat
      /\ \A i \in 1..Len(s) : t[i] = s[i] /\ s[i] \in Range(s)
      /\ t[Len(s) + 1] = f
  BY AppendProperties, LenProperties DEF Range
<1>2. Range(t) = Range(s) \cup {f}
  BY RangeAppend
<1> HIDE DEF t
<1>3. CarriedBy(t) = CarriedBy(s) \cup Carried(f) /\ OutputOf(t) = OutputOf(s) \cup Output(f)
  BY <1>2 DEF CarriedBy, OutputOf
<1>4. ASSUME FramesOrdered(s), Before(CarriedBy(s), Carried(f)),
             NEW i \in 1..Len(t), NEW j \in 1..Len(t), i < j
      PROVE  Before(Carried(t[i]), Carried(t[j]))
  <2>1. i \in 1..Len(s)
    BY <1>1, <1>4
  <2>2. CASE j \in 1..Len(s)
    BY <1>1, <1>4, <2>1, <2>2 DEF FramesOrdered
  <2>3. CASE j = Len(s) + 1
    <3>1. Carried(t[i]) \subseteq CarriedBy(s)
      BY <1>1, <2>1 DEF CarriedBy
    <3> QED
      BY <1>1, <1>4, <2>3, <3>1 DEF Before
  <2> QED
    BY <1>1, <2>2, <2>3
<1> QED
  BY <1>3, <1>4 DEF FramesOrdered, t

(* What is in a queue of frames besides its head. *)
LEMMA FramesTail ==
    ASSUME NEW s \in Seq(Frames), s # <<>>
    PROVE  /\ CarriedBy(s) = Carried(Head(s)) \cup CarriedBy(Tail(s))
           /\ OutputOf(s) = Output(Head(s)) \cup OutputOf(Tail(s))
           /\ FramesOrdered(s) => /\ FramesOrdered(Tail(s))
                                  /\ Before(Carried(Head(s)), CarriedBy(Tail(s)))
<1> DEFINE t == Tail(s)
<1>1. /\ Len(t) = Len(s) - 1 /\ Len(s) \in Nat \ {0}
      /\ \A i \in 1..Len(t) : t[i] = s[i + 1]
      /\ DOMAIN t = 1..Len(t) /\ Head(s) = s[1]
  BY HeadTailProperties, LenProperties, EmptySeq
<1>2. Range(s) = {Head(s)} \cup Range(t)
  BY RangeSplit
<1> HIDE DEF t
<1>3. /\ CarriedBy(s) = Carried(Head(s)) \cup CarriedBy(t)
      /\ OutputOf(s) = Output(Head(s)) \cup OutputOf(t)
  BY <1>2 DEF CarriedBy, OutputOf
<1>4. ASSUME FramesOrdered(s), NEW i \in 1..Len(t), NEW j \in 1..Len(t), i < j
      PROVE  Before(Carried(t[i]), Carried(t[j]))
  <2>1. i + 1 \in 1..Len(s) /\ j + 1 \in 1..Len(s) /\ i + 1 < j + 1
    BY <1>1, <1>4
  <2> QED
    BY <1>1, <1>4, <2>1 DEF FramesOrdered
<1>5. ASSUME FramesOrdered(s), NEW j \in 1..Len(t)
      PROVE  Before(Carried(Head(s)), Carried(t[j]))
  <2>1. 1 \in 1..Len(s) /\ j + 1 \in 1..Len(s) /\ 1 < j + 1
    BY <1>1
  <2> QED
    BY <1>1, <1>5, <2>1 DEF FramesOrdered
<1>6. FramesOrdered(s) => Before(Carried(Head(s)), CarriedBy(t))
  BY <1>1, <1>5 DEF Before, CarriedBy, Range
<1> QED
  BY <1>3, <1>4, <1>6 DEF FramesOrdered, t

(* What is output is carried; what is on its way is in the ring or on the wire. *)
LEMMA OnTheWayIs == OnTheWay = Range(hub) \cup OutputOf(wire) /\ OutputOf(wire) \subseteq Sent
<1>1. OutputOf(wire) = {f.event : f \in {g \in Range(wire) : g.kind = "output"}}
  BY DEF OutputOf, Output
<1>2. OutputOf(wire) \subseteq Sent
  BY DEF OutputOf, Output, Sent, CarriedBy, Carried
<1> QED
  BY <1>1, <1>2 DEF OnTheWay

(* Everything on the path is an event. *)
LEMMA PathTypes ==
    ASSUME TypeOK
    PROVE  /\ Held \subseteq Events /\ Sent \subseteq Events /\ lagged \subseteq Events
           /\ Range(hub) \subseteq Events /\ missed \subseteq Events /\ OnTheWay \subseteq Events
           /\ hub \in Seq(Events) /\ wire \in Seq(Frames) /\ conn.buffered \in Seq(Events)
           /\ \A e \in Events : e.launch \in Launches /\ e.seq \in Nat
           /\ \A l \in Launches : published[l] \in Nat
<1>1. Held \subseteq Events /\ Range(hub) \subseteq Events /\ Range(wire) \subseteq Frames
  BY QueueTypes DEF Held
<1>2. \A f \in Frames : Carried(f) \subseteq Events
  BY FrameTypes DEF Carried, Output
<1>3. Sent \subseteq Events
  BY <1>1, <1>2 DEF Sent, CarriedBy
<1>4. hub \in Seq(Events) /\ wire \in Seq(Frames) /\ lagged \subseteq Events /\ missed \subseteq Events
  BY DEF TypeOK, NetTypeOK, BoundTypeOK
<1>5. conn.buffered \in Seq(Events) /\ \A l \in Launches : published[l] \in Nat
  BY DEF TypeOK, PtyTypeOK, ViewTypeOK, Connections
<1>6. \A e \in Events : e.launch \in Launches /\ e.seq \in Nat
  BY DEF Events
<1> QED
  BY <1>1, <1>3, <1>4, <1>5, <1>6, OnTheWayType

-----------------------------------------------------------------------------
(* What stays accounted for. *)

(* A launch loses nothing of what follows s when only older chunks of it leave *)
(* the path unannounced.                                                       *)
LEMMA WholeWithout ==
    ASSUME NEW D, Accounted \ D \subseteq Accounted',
           NEW l, NEW s \in Nat, published'[l] = published[l],
           \A d \in D : d.launch = l => d.seq <= s /\ d.seq \in Nat,
           Whole(l, s)
    PROVE  Whole(l, s)'
<1> SUFFICES ASSUME NEW n \in Nat, s < n, n <= published[l] PROVE Event(l, n) \in Accounted'
  BY DEF Whole
<1>1. Event(l, n) \in Accounted
  BY DEF Whole
<1>2. Event(l, n) \notin D
  <2>1. Event(l, n).launch = l /\ Event(l, n).seq = n
    BY DEF Event
  <2> QED
    BY <2>1
<1> QED
  BY <1>1, <1>2

(* What was shown as Whole stays so while nothing leaves the path unannounced. *)
LEMMA WholeLasts ==
    ASSUME Accounted \subseteq Accounted', UNCHANGED published, NEW l, NEW s, Whole(l, s)
    PROVE  Whole(l, s)'
  BY DEF Whole

(* A step that shows nothing: whatever could be drawn could be drawn before, *)
(* and whatever was accounted for still is.                                  *)
LEMMA GapKept ==
    ASSUME IInv, IInv', GapInv, PathInv',
           \A l \in Launches, s \in Nat : Whole(l, s) => Whole(l, s)',
           \A e \in (Held \cup OnTheWay)' : e \in Held \cup OnTheWay \/ Whole(e.launch, e.seq)',
           announced \cup ignored \subseteq (announced \cup ignored)',
           UNCHANGED <<view, attach>>,
           Started \subseteq Started', \A l \in Started : RevisionOf(l)' = RevisionOf(l),
           conn'.open => /\ conn.open /\ conn'.rev = conn.rev
                         /\ conn'.lastSequence = conn.lastSequence,
           phase' = "starting" => phase = "starting",
           \A q \in Snapshots' : Drawable(q)' =>
              \/ q.launch = None \/ Whole(q.launch, q.seq)'
              \/ \E p \in Snapshots : SameRead(p, q) /\ Drawable(p)
    PROVE  GapInv'
<1> USE DEF GapInv
<1>1. /\ \A e \in Held \cup OnTheWay : e.launch \in Launches /\ e.seq \in Nat
      /\ \A q \in Snapshots : q.launch # None => q.launch \in Launches /\ q.seq \in Nat
  <2>1. \A q \in Reads : q.launch # None => q.launch \in Launches /\ q.seq \in Nat
    BY DEF Reads
  <2> QED
    BY <2>1, PathTypes, QueueTypes DEF IInv
<1>2. PathWhole'
  BY <1>1 DEF PathWhole
<1>3. SnapshotsWhole'
  <2> SUFFICES ASSUME NEW q \in Snapshots', Drawable(q)' PROVE Whole(q.launch, q.seq)'
    BY DEF SnapshotsWhole
  <2>1. CASE \E p \in Snapshots : SameRead(p, q) /\ Drawable(p)
    <3>1. PICK p \in Snapshots : SameRead(p, q) /\ Drawable(p)
      BY <2>1
    <3>2. Whole(p.launch, p.seq) /\ p.launch = q.launch /\ p.seq = q.seq /\ p.launch # None
      BY <3>1 DEF SnapshotsWhole, SameRead, Drawable
    <3> QED
      BY <1>1, <3>1, <3>2
  <2> QED
    BY <2>1 DEF Drawable
<1>4. \A i \in 1..Len(view) : view[i].launch \in Started
  BY DEF ViewPlausible
<1>5. view # <<>> => /\ Newest \in {view[i] : i \in 1..Len(view)} /\ Newest' = Newest
                     /\ Newest.launch \in Launches /\ Newest.seq \in Nat
  <2>1. view \in Seq(Shown)
    BY DEF IInv, TypeOK, ViewTypeOK
  <2>2. view # <<>> => Len(view) \in 1..Len(view)
    BY <2>1, LenProperties, EmptySeq
  <2>3. \A s \in Shown : s.launch \in Launches /\ s.seq \in Nat
    BY DEF Shown
  <2> QED
    BY <2>1, <2>2, <2>3 DEF Newest
<1>6. ViewWhole'
  <2> SUFFICES ASSUME (conn.open /\ view # <<>> /\ Mine(Newest)
                         /\ RevisionOf(Newest.launch) = conn.rev)'
               PROVE  (Newest.seq = conn.lastSequence /\ Whole(Newest.launch, Newest.seq))'
    BY DEF ViewWhole
  <2>1. conn.open /\ view # <<>> /\ Mine(Newest) /\ RevisionOf(Newest.launch) = conn.rev
    BY <1>4, <1>5 DEF Mine
  <2>2. Newest.seq = conn.lastSequence /\ Whole(Newest.launch, Newest.seq)
    BY <2>1 DEF ViewWhole
  <2> QED
    BY <1>5, <2>1, <2>2
<1>7. ViewPlausible'
  <2>1. phase' = "starting" => conn'.open
    BY DEF IInv, ConnectionSound
  <2> QED
    BY <1>4, <2>1 DEF ViewPlausible, Mine
<1>8. NoSilentGap'
  BY DEF NoSilentGap, SameRun
<1> QED
  BY <1>2, <1>3, <1>6, <1>7, <1>8

(* The same, when nothing leaves the path unannounced and no output is published. *)
LEMMA GapStands ==
    ASSUME IInv, IInv', GapInv, PathInv',
           Accounted \subseteq Accounted', announced \cup ignored \subseteq (announced \cup ignored)',
           (Held \cup OnTheWay)' \subseteq Held \cup OnTheWay,
           UNCHANGED <<published, view, attach>>,
           Started \subseteq Started', \A l \in Started : RevisionOf(l)' = RevisionOf(l),
           conn'.open => /\ conn.open /\ conn'.rev = conn.rev
                         /\ conn'.lastSequence = conn.lastSequence,
           phase' = "starting" => phase = "starting",
           \A q \in Snapshots' : Drawable(q)' =>
              \/ q.launch = None \/ Whole(q.launch, q.seq)'
              \/ \E p \in Snapshots : SameRead(p, q) /\ Drawable(p)
    PROVE  GapInv'
<1>1. \A l \in Launches, s \in Nat : Whole(l, s) => Whole(l, s)'
  BY WholeLasts
<1>2. \A e \in (Held \cup OnTheWay)' : e \in Held \cup OnTheWay \/ Whole(e.launch, e.seq)'
  OBVIOUS
<1> QED
  BY <1>1, <1>2, GapKept

-----------------------------------------------------------------------------
(* The path through each step: first those that move no event. *)

PathRests == UNCHANGED <<published, up, hub, lagged, missed>> /\ conn'.buffered = conn.buffered

(* The path is the same while the wire carries the same. *)
LEMMA PathSame ==
    ASSUME PathInv, PathRests, FramesOrdered(wire'), CarriedBy(wire') = Sent,
           OutputOf(wire') = OutputOf(wire)
    PROVE  PathInv' /\ Held' = Held /\ OnTheWay' = OnTheWay
<1>1. Held' = Held /\ Sent' = Sent /\ hub' = hub /\ lagged' = lagged /\ missed' = missed
  BY DEF PathRests, Held, Sent
<1>2. OnTheWay' = OnTheWay
  <2>1. OnTheWay' = Range(hub') \cup OutputOf(wire')
    BY OnTheWayIs DEF OutputOf, Output, OnTheWay
  <2> QED
    BY <1>1, <2>1, OnTheWayIs
<1>3. PathOrdered'
  BY <1>1 DEF PathInv, PathRests, PathOrdered
<1>4. PathPublished'
  BY <1>1 DEF PathInv, PathRests, PathPublished, Published
<1>5. LossPending'
  BY <1>1, <1>2 DEF PathInv, PathRests, LossPending
<1> QED
  BY <1>1, <1>2, <1>3, <1>4, <1>5 DEF PathInv

(* An answer goes onto the wire. *)
LEMMA PathAppend ==
    ASSUME TypeOK, PathInv, PathRests, NEW f \in Frames, f.kind \notin {"output", "resync"},
           wire' = Append(wire, f)
    PROVE  PathInv' /\ Held' = Held /\ OnTheWay' = OnTheWay
<1>1. Carried(f) = {} /\ Output(f) = {} /\ wire \in Seq(Frames)
  BY DEF Carried, Output, TypeOK, NetTypeOK
<1>2. FramesOrdered(wire) /\ Before(CarriedBy(wire), Carried(f))
  BY <1>1 DEF PathInv, PathOrdered, Before
<1>3. /\ CarriedBy(wire') = Sent /\ OutputOf(wire') = OutputOf(wire)
      /\ FramesOrdered(wire')
  BY <1>1, <1>2, FramesAppend DEF Sent
<1> QED
  BY <1>3, PathSame

(* The browser reads an answer. *)
LEMMA PathTake ==
    ASSUME IInv, PathInv, PathRests, NEW kind, Take(kind), kind \notin {"output", "resync"}
    PROVE  PathInv' /\ Held' = Held /\ OnTheWay' = OnTheWay
<1>1. wire \in Seq(Frames) /\ wire # <<>> /\ wire' = Tail(wire) /\ up
  BY DEF IInv, TypeOK, NetTypeOK, Take
<1>2. Carried(Head(wire)) = {} /\ Output(Head(wire)) = {}
  BY DEF Carried, Output, Take
<1>3. /\ CarriedBy(wire') = Sent /\ OutputOf(wire') = OutputOf(wire)
      /\ FramesOrdered(wire')
  BY <1>1, <1>2, FramesTail DEF Sent, PathInv, PathOrdered
<1> QED
  BY <1>1, <1>3, PathSame

(* Nothing moves on the path. *)
LEMMA PathStill ==
    ASSUME PathInv, PathRests, wire' = wire
    PROVE  PathInv' /\ Held' = Held /\ OnTheWay' = OnTheWay
  BY PathSame DEF Sent, PathInv, PathOrdered, LossPending

-----------------------------------------------------------------------------
(* Backend steps that move no event. *)

LEMMA BackendStands ==
    ASSUME IInv, IInv', GapInv, UNCHANGED <<viewVars, boundVars, published>>,
           PathInv', Held' = Held, OnTheWay' = OnTheWay,
           Started \subseteq Started', \A l \in Started : launches'[l] = launches[l],
           \A q \in Snapshots' : \/ q \in Snapshots \/ q.launch = None
                                  \/ Whole(q.launch, q.seq)'
    PROVE  GapInv'
<1>1. UNCHANGED <<phase, attach, conn, pass, view, missed, announced, ignored>>
  BY DEF viewVars, boundVars
<1>2. \A l \in Started : RevisionOf(l)' = RevisionOf(l)
  BY DEF RevisionOf
<1>3. Accounted' = Accounted
  BY <1>1 DEF Accounted
<1>4. ASSUME NEW q \in Snapshots, Drawable(q)', q.launch # None
      PROVE  SameRead(q, q) /\ Drawable(q)
  <2>1. q.launch \in Started
    BY <1>4 DEF IInv, SnapshotsReal, Real
  <2>2. conn.replaying /\ q.id = conn.replay
        /\ (phase = "starting" \/ RevisionOf(q.launch)' = conn.rev)
    BY <1>1, <1>4 DEF Drawable
  <2> QED
    BY <1>2, <1>4, <2>1, <2>2 DEF Drawable, SameRead
<1>5. \A q \in Snapshots' : Drawable(q)' =>
         \/ q.launch = None \/ Whole(q.launch, q.seq)'
         \/ \E p \in Snapshots : SameRead(p, q) /\ Drawable(p)
  BY <1>4
<1> QED
  BY <1>1, <1>2, <1>3, <1>5, GapStands

(* Pushing, closing and launching leave the path alone. *)
LEMMA PtyGap ==
    ASSUME IInv, IInv', GapInv, UNCHANGED <<netVars, callVars, viewVars, boundVars, published>>,
           Started \subseteq Started', \A l \in Started : launches'[l] = launches[l]
    PROVE  GapInv'
<1>1. PathRests /\ wire' = wire /\ Snapshots' = Snapshots
  BY DEF PathRests, netVars, callVars, viewVars, boundVars, Snapshots
<1>2. PathInv' /\ Held' = Held /\ OnTheWay' = OnTheWay
  BY <1>1, PathStill DEF GapInv
<1> QED
  BY <1>1, <1>2, BackendStands

LEMMA PushGap == ASSUME IInv, IInv', GapInv, NEW l \in Started, Push(l) PROVE GapInv'
  BY PtyGap DEF Push, Started

LEMMA CloseGap == ASSUME IInv, IInv', GapInv, CloseTerminal PROVE GapInv'
  BY PtyGap DEF CloseTerminal, Started

LEMMA OwnerLaunchGap ==
    ASSUME IInv, IInv', GapInv, NEW r \in Revisions, OwnerLaunch(r) PROVE GapInv'
<1>1. Started' = Started \cup {Len(launches')} /\ \A l \in Started : launches'[l] = launches[l]
  BY LaunchGrows DEF OwnerLaunch, IInv, TypeOK
<1>2. UNCHANGED <<netVars, callVars, viewVars, boundVars, published>>
  BY DEF OwnerLaunch, Launch
<1> QED
  BY <1>1, <1>2, PtyGap

(* The answer to a start goes onto the wire. *)
LEMMA HandleStartGap ==
    ASSUME IInv, IInv', GapInv, NEW c \in starts, HandleStart(c) PROVE GapInv'
<1>1. /\ UNCHANGED <<up, hub, lagged, reads, nextRead, viewVars, boundVars, published>>
      /\ c.attach \in Nat /\ c.rev \in Revisions
  BY DEF HandleStart, ptyVars, Launch, IInv, TypeOK, NetTypeOK, Starts
<1>2. PathRests
  BY <1>1 DEF PathRests, viewVars, boundVars
<1>3. Started \subseteq Started' /\ \A l \in Started : launches'[l] = launches[l]
  <2>1. CASE UNCHANGED ptyVars
    BY <2>1 DEF ptyVars, Started
  <2>2. CASE Launch(c.rev)
    BY <1>1, <2>2, LaunchGrows DEF IInv, TypeOK
  <2> QED
    BY <2>1, <2>2 DEF HandleStart
<1>4. PICK f : wire' = Append(wire, f) /\ f.kind \in {"started", "startFailed"}
  BY DEF HandleStart, StartedFrame, FailedFrame
<1>5. f \in Frames
  <2>1. wire' \in Seq(Frames) /\ wire \in Seq(Frames)
    BY DEF IInv, TypeOK, NetTypeOK
  <2>2. wire'[Len(wire) + 1] = f /\ Len(wire') = Len(wire) + 1 /\ Len(wire) \in Nat
    BY <1>4, <2>1, LenProperties
  <2> QED
    BY <2>1, <2>2
<1>6. PathInv' /\ Held' = Held /\ OnTheWay' = OnTheWay
  BY <1>2, <1>4, <1>5, PathAppend DEF IInv, GapInv
<1>7. Snapshots' = Snapshots
  <2>1. Range(wire') = Range(wire) \cup {f}
    BY <1>4, <1>5, RangeAppend DEF IInv, TypeOK, NetTypeOK
  <2> QED
    BY <1>1, <1>4, <2>1 DEF Snapshots
<1> QED
  BY <1>1, <1>3, <1>6, <1>7, BackendStands

(* What follows a snapshot that is taken now is still to be published. *)
LEMMA TakeSnapshotGap ==
    ASSUME IInv, IInv', GapInv, NEW q \in reads, TakeSnapshot(q) PROVE GapInv'
<1> DEFINE h == IF session = None THEN [seq |-> 0, blank |-> TRUE] ELSE history[session]
           t == [id |-> q.id, stage |-> "taken", launch |-> session,
                 seq |-> h.seq, blank |-> h.blank]
<1>1. /\ reads' = (reads \ {q}) \cup {t}
      /\ UNCHANGED <<ptyVars, netVars, starts, nextRead, viewVars, boundVars>>
  BY DEF TakeSnapshot
<1>2. PathRests /\ wire' = wire /\ UNCHANGED <<published, launches>> /\ Started' = Started
  BY <1>1 DEF PathRests, netVars, viewVars, boundVars, ptyVars, Started
<1>3. PathInv' /\ Held' = Held /\ OnTheWay' = OnTheWay
  BY <1>2, PathStill DEF GapInv
<1>4. ASSUME session # None PROVE Whole(session, history[session].seq)'
  <2>1. session \in Launches /\ published[session] <= history[session].seq
    BY <1>4 DEF IInv, OutputReal, TypeOK, PtyTypeOK
  <2>2. published[session] \in Nat /\ history[session].seq \in Nat
    BY <2>1, PtyTypes DEF IInv, TypeOK
  <2>3. UNCHANGED <<session, history, published>>
    BY <1>1 DEF ptyVars
  <2> QED
    BY <2>1, <2>2, <2>3 DEF Whole
<1>5. ASSUME NEW u, u = t PROVE u.launch = None \/ Whole(u.launch, u.seq)'
  <2>1. session # None => u.launch = session /\ u.seq = history[session].seq
    BY <1>5
  <2>2. session = None => u.launch = None
    BY <1>5
  <2>3. UNCHANGED <<session, history>>
    BY <1>1 DEF ptyVars
  <2> QED
    BY <1>4, <2>1, <2>2, <2>3
<1> HIDE DEF t
<1>6. Snapshots' \subseteq Snapshots \cup {t}
  BY <1>1 DEF Snapshots, netVars
<1>7. UNCHANGED <<viewVars, boundVars>>
  BY <1>1
<1> QED
  BY <1>2, <1>3, <1>5, <1>6, <1>7, BackendStands

LEMMA SendResultGap ==
    ASSUME IInv, IInv', GapInv, NEW q \in reads, SendResult(q) PROVE GapInv'
<1>1. /\ q \in Reads /\ reads' = reads \ {q} /\ wire' = Append(wire, ScrollbackFrame(q))
      /\ UNCHANGED <<ptyVars, up, hub, lagged, starts, nextRead, viewVars, boundVars>>
  BY DEF SendResult, IInv, TypeOK, NetTypeOK
<1>2. /\ ScrollbackFrame(q) \in Frames /\ ScrollbackFrame(q).kind = "scrollback"
      /\ ScrollbackFrame(q).read = q
  BY <1>1 DEF ScrollbackFrame, Frames
<1>3. PathRests /\ UNCHANGED <<published, launches>> /\ Started' = Started
  BY <1>1 DEF PathRests, viewVars, boundVars, ptyVars, Started
<1>4. PathInv' /\ Held' = Held /\ OnTheWay' = OnTheWay
  BY <1>1, <1>2, <1>3, PathAppend DEF IInv, GapInv
<1>5. Snapshots' \subseteq Snapshots
  <2>1. Range(wire') = Range(wire) \cup {ScrollbackFrame(q)}
    BY <1>1, <1>2, RangeAppend DEF IInv, TypeOK, NetTypeOK
  <2> QED
    BY <1>1, <1>2, <2>1 DEF Snapshots
<1> QED
  BY <1>1, <1>3, <1>4, <1>5, BackendStands

-----------------------------------------------------------------------------
(* The events move. *)

(* A launch publishes its next chunk: it comes after all that is on the path. *)
LEMMA PublishedNext ==
    ASSUME IInv, GapInv, NEW l \in Started, Publish(l), NEW e, e = Event(l, published[l] + 1)
    PROVE  /\ e \in Events /\ l \in Launches /\ published' = [published EXCEPT ![l] = @ + 1]
           /\ e.launch = l /\ e.seq = published'[l]
           /\ \A x \in Held \cup Sent \cup lagged \cup Range(hub) \cup missed : Before({x}, {e})
           /\ \A x \in Events : Published(x) => Published(x)'
           /\ Published(e)'
<1>1. /\ l \in Launches /\ published' = [published EXCEPT ![l] = @ + 1]
      /\ published \in [Launches -> Nat]
  BY PtyTypes DEF Publish, IInv, TypeOK, PtyTypeOK
<1>2. e \in Events /\ e.launch = l /\ e.seq = published[l] + 1 /\ published'[l] = published[l] + 1
  BY <1>1 DEF Event, Events
<1>3. \A x \in Events : x.launch \in Launches /\ x.seq \in Nat
  BY DEF Events
<1>4. \A x \in Held \cup Sent \cup lagged \cup Range(hub) \cup missed : x \in Events /\ Published(x)
  BY PathTypes DEF IInv, GapInv, PathInv, PathPublished
<1>5. \A x \in Held \cup Sent \cup lagged \cup Range(hub) \cup missed : Before({x}, {e})
  BY <1>1, <1>2, <1>3, <1>4 DEF Before, Published
<1>6. \A x \in Events : Published(x) => Published(x)'
  BY <1>1, <1>3 DEF Published
<1>7. Published(e)'
  BY <1>1, <1>2 DEF Published
<1> QED
  BY <1>1, <1>2, <1>5, <1>6, <1>7

(* The new chunk is missed, or goes to the ring, where it may displace another. *)
LEMMA PublishPath ==
    ASSUME IInv, GapInv, NEW l \in Started, Publish(l), NEW e, e = Event(l, published[l] + 1)
    PROVE  /\ PathInv' /\ Held' = Held /\ Sent' = Sent
           /\ OnTheWay' \subseteq OnTheWay \cup {e}
           /\ OnTheWay \cup {e} \cup missed \subseteq OnTheWay' \cup missed'
<1> DEFINE Old == Held \cup Sent \cup lagged \cup Range(hub) \cup missed
<1>1. /\ e \in Events
      /\ \A x \in Old : Before({x}, {e}) /\ x \in Events /\ Published(x)
      /\ \A x \in Events : Published(x) => Published(x)'
      /\ Published(e)'
  BY PublishedNext, PathTypes DEF IInv, GapInv, PathInv, PathPublished
<1>2. /\ UNCHANGED <<up, wire, conn>> /\ hub \in Seq(Events)
      /\ Held' = Held /\ Sent' = Sent /\ OutputOf(wire') = OutputOf(wire)
  BY DEF Publish, IInv, TypeOK, NetTypeOK, viewVars, Held, Sent
<1>3. PathOrdered /\ LossPending
  BY DEF GapInv, PathInv
<1>4. OnTheWay = Range(hub) \cup OutputOf(wire) /\ OnTheWay' = Range(hub') \cup OutputOf(wire')
  BY OnTheWayIs DEF OnTheWay, OutputOf, Output
<1>5. ASSUME EventsOrdered(hub'), Range(hub') \subseteq Range(hub) \cup {e},
             lagged' \subseteq lagged \cup Range(hub), missed' \subseteq missed \cup Range(hub) \cup {e},
             Before(lagged', Range(hub')), up => missed' \subseteq lagged' \cup Sent,
             Range(hub) \cup {e} \cup missed \subseteq Range(hub') \cup missed',
             (Range(hub') \cup OutputOf(wire)) \cap missed' = {}
      PROVE  /\ PathInv' /\ Held' = Held /\ Sent' = Sent
             /\ OnTheWay' \subseteq OnTheWay \cup {e}
             /\ OnTheWay \cup {e} \cup missed \subseteq OnTheWay' \cup missed'
  <2>1. /\ Before(Held, lagged') /\ Before(Held, Range(hub')) /\ Before(Held, missed')
        /\ Before(Sent, lagged') /\ Before(Sent, Range(hub'))
    BY <1>1, <1>3, <1>5 DEF PathOrdered, LossPending, Before
  <2>2. PathOrdered'
    BY <1>2, <1>3, <1>5, <2>1 DEF PathOrdered
  <2>3. PathPublished'
    BY <1>1, <1>2, <1>5 DEF PathPublished
  <2>4. LossPending'
    <3>1. OnTheWay' \cap missed' = {}
      BY <1>2, <1>4, <1>5
    <3> QED
      BY <1>2, <1>5, <2>1, <3>1 DEF LossPending
  <2> QED
    BY <1>2, <1>4, <1>5, <2>2, <2>3, <2>4 DEF PathInv
<1>9. /\ e \notin Old
      /\ (Range(hub) \cup OutputOf(wire)) \cap missed = {} /\ OutputOf(wire) \subseteq Sent
      /\ \A x \in Events : x.seq \in Nat
  BY <1>1, <1>3, <1>4, OnTheWayIs DEF Before, LossPending, Events
<1>6. CASE ~up
  <2>1. hub' = hub /\ lagged' = lagged /\ missed' = missed \cup {e}
    BY <1>2, <1>6 DEF Publish
  <2> QED
    BY <1>3, <1>5, <1>6, <1>9, <2>1 DEF PathOrdered
<1>7. CASE up /\ Len(hub) < HubCapacity
  <2>1. hub' = Append(hub, e) /\ lagged' = lagged /\ missed' = missed
    <3>1. Len(hub) \in Nat
      BY <1>2, LenProperties
    <3> QED
      BY <1>7, <3>1, TerminalStreamAssumption DEF Publish
  <2>2. Before(Range(hub), {e}) /\ Before(lagged, {e})
    BY <1>1 DEF Before
  <2>3. EventsOrdered(hub') /\ Range(hub') = Range(hub) \cup {e}
    BY <1>1, <1>2, <1>3, <2>1, <2>2, EventsAppend, RangeAppend DEF PathOrdered
  <2>4. Before(lagged', Range(hub'))
    BY <1>3, <2>1, <2>2, <2>3 DEF PathOrdered, Before
  <2> QED
    BY <1>3, <1>5, <1>9, <2>1, <2>3, <2>4 DEF LossPending
<1>8. CASE up /\ ~(Len(hub) < HubCapacity)
  <2> DEFINE x == Head(hub)
             t == Tail(hub)
  <2>1. /\ hub' = Append(t, e) /\ lagged' = lagged \cup {x} /\ missed' = missed \cup {x}
        /\ hub # <<>>
    BY <1>2, <1>8, TerminalStreamAssumption DEF Publish
  <2>2. /\ t \in Seq(Events) /\ Range(hub) = {x} \cup Range(t)
        /\ EventsOrdered(t) /\ Before({x}, Range(t))
    BY <1>2, <1>3, <2>1, RangeSplit, EventsTail DEF PathOrdered
  <2> HIDE DEF x, t
  <2>3. Before(Range(t), {e}) /\ Before(lagged, {e}) /\ Before({x}, {e})
    BY <1>1, <2>2 DEF Before
  <2>4. EventsOrdered(hub') /\ Range(hub') = Range(t) \cup {e}
    BY <1>1, <2>1, <2>2, <2>3, EventsAppend, RangeAppend
  <2>5. Before(lagged', Range(hub'))
    BY <1>3, <2>1, <2>2, <2>3, <2>4 DEF PathOrdered, Before
  <2>6. x \notin Range(t) /\ x \notin OutputOf(wire) /\ x # e
    <3>1. x.seq \in Nat
      BY <1>1, <1>9, <2>2
    <3> QED
      BY <1>3, <1>9, <2>2, <3>1 DEF PathOrdered, Before
  <2>7. (Range(hub') \cup OutputOf(wire)) \cap missed' = {}
    BY <1>9, <2>1, <2>2, <2>4, <2>6
  <2> QED
    BY <1>3, <1>5, <2>1, <2>2, <2>4, <2>5, <2>7 DEF LossPending
<1> QED
  BY <1>6, <1>7, <1>8

LEMMA PublishGap == ASSUME IInv, IInv', GapInv, NEW l \in Started, Publish(l) PROVE GapInv'
<1>1. PICK e : e = Event(l, published[l] + 1)
  OBVIOUS
<1>2. /\ l \in Launches /\ published' = [published EXCEPT ![l] = @ + 1]
      /\ e.launch = l /\ e.seq = published'[l]
  BY <1>1, PublishedNext
<1>3. /\ PathInv' /\ Held' = Held /\ OnTheWay' \subseteq OnTheWay \cup {e}
      /\ OnTheWay \cup {e} \cup missed \subseteq OnTheWay' \cup missed'
  BY <1>1, PublishPath
<1>4. UNCHANGED <<launches, reads, wire, phase, attach, conn, view, announced, ignored>>
  BY DEF Publish, callVars, viewVars
<1>5. published \in [Launches -> Nat] /\ published'[l] = published[l] + 1
  BY <1>2 DEF IInv, TypeOK, PtyTypeOK
<1>6. ASSUME NEW m \in Launches, NEW s \in Nat, Whole(m, s) PROVE Whole(m, s)'
  <2> SUFFICES ASSUME NEW n \in Nat, s < n, n <= published'[m] PROVE Event(m, n) \in Accounted'
    BY DEF Whole
  <2>1. Accounted \cup {e} \subseteq Accounted'
    BY <1>3, <1>4 DEF Accounted
  <2>2. CASE n <= published[m]
    BY <1>6, <2>1, <2>2 DEF Whole
  <2>3. CASE ~(n <= published[m])
    <3>1. m = l /\ n = published[l] + 1
      BY <1>2, <1>5, <2>3
    <3> QED
      BY <1>1, <2>1, <3>1
  <2> QED
    BY <2>2, <2>3
<1>7. Whole(e.launch, e.seq)'
  BY <1>2, <1>5 DEF Whole
<1>8. /\ Started' = Started /\ Snapshots' = Snapshots
      /\ \A m \in Started : RevisionOf(m)' = RevisionOf(m)
  BY <1>4 DEF Started, Snapshots, RevisionOf
<1>9. \A q \in Snapshots' : Drawable(q)' => \E p \in Snapshots : SameRead(p, q) /\ Drawable(p)
  <2>1. \A q : RevisionOf(q.launch)' = RevisionOf(q.launch)
    BY <1>4 DEF RevisionOf
  <2> QED
    BY <1>4, <1>8, <2>1 DEF Drawable, SameRead
<1> QED
  BY <1>3, <1>4, <1>6, <1>7, <1>8, <1>9, GapKept

(* The lag is announced in front of what survived it. *)
LEMMA AnnouncePath ==
    ASSUME TypeOK, PathInv, UNCHANGED <<published, up, hub, missed, conn>>,
           wire' = Append(wire, ResyncFrame(lagged)), lagged' = {}
    PROVE  PathInv' /\ Held' = Held /\ OnTheWay' = OnTheWay
<1> DEFINE f == ResyncFrame(lagged)
<1>1. f \in Frames /\ Carried(f) = lagged /\ Output(f) = {} /\ wire \in Seq(Frames)
  BY DEF ResyncFrame, Frames, Carried, Output, TypeOK, NetTypeOK
<1>2. wire' = Append(wire, f)
  OBVIOUS
<1> HIDE DEF f
<1>3. PathOrdered /\ LossPending /\ PathPublished
  BY DEF PathInv
<1>4. FramesOrdered(wire) /\ Before(CarriedBy(wire), Carried(f))
  BY <1>1, <1>3 DEF PathOrdered, Sent
<1>5. CarriedBy(wire') = Sent \cup lagged /\ OutputOf(wire') = OutputOf(wire) /\ FramesOrdered(wire')
  BY <1>1, <1>2, <1>4, FramesAppend DEF Sent
<1>6. Held' = Held /\ Sent' = Sent \cup lagged
  BY <1>5 DEF Held, Sent
<1>7. OnTheWay' = OnTheWay
  <2>1. OnTheWay' = Range(hub') \cup OutputOf(wire')
    BY OnTheWayIs DEF OnTheWay, OutputOf, Output
  <2> QED
    BY <1>5, <2>1, OnTheWayIs
<1>8. PathOrdered'
  BY <1>3, <1>5, <1>6 DEF PathOrdered, Before
<1>9. PathPublished'
  BY <1>3, <1>6 DEF PathPublished, Published
<1>10. LossPending'
  BY <1>3, <1>6, <1>7 DEF LossPending
<1> QED
  BY <1>6, <1>7, <1>8, <1>9, <1>10 DEF PathInv

(* The oldest event in the ring goes onto the wire. *)
LEMMA ForwardPath ==
    ASSUME TypeOK, PathInv, UNCHANGED <<published, up, lagged, missed, conn>>,
           hub # <<>>, lagged = {},
           wire' = Append(wire, OutputFrame(Head(hub))), hub' = Tail(hub)
    PROVE  PathInv' /\ Held' = Held /\ OnTheWay' = OnTheWay
<1> DEFINE x == Head(hub)
           t == Tail(hub)
           f == OutputFrame(x)
<1>1. hub \in Seq(Events) /\ wire \in Seq(Frames)
  BY DEF TypeOK, NetTypeOK
<1>2. PathOrdered /\ LossPending /\ PathPublished
  BY DEF PathInv
<1>3. /\ x \in Events /\ t \in Seq(Events) /\ Range(hub) = {x} \cup Range(t)
      /\ EventsOrdered(t) /\ Before({x}, Range(t))
  BY <1>1, <1>2, RangeSplit, EventsTail DEF PathOrdered
<1>4. wire' = Append(wire, f) /\ hub' = t
  OBVIOUS
<1> HIDE DEF x, t
<1>5. f \in Frames /\ Carried(f) = {x} /\ Output(f) = {x}
  BY <1>3 DEF OutputFrame, Frames, Carried, Output
<1> HIDE DEF f
<1>6. FramesOrdered(wire) /\ Before(CarriedBy(wire), Carried(f))
  BY <1>2, <1>3, <1>5 DEF PathOrdered, Sent, Before
<1>7. CarriedBy(wire') = Sent \cup {x} /\ OutputOf(wire') = OutputOf(wire) \cup {x}
      /\ FramesOrdered(wire')
  BY <1>1, <1>4, <1>5, <1>6, FramesAppend DEF Sent
<1>8. Held' = Held /\ Sent' = Sent \cup {x} /\ Range(hub') = Range(t)
  BY <1>4, <1>7 DEF Held, Sent
<1>9. OnTheWay' = OnTheWay
  <2>1. OnTheWay' = Range(hub') \cup OutputOf(wire')
    BY OnTheWayIs DEF OnTheWay, OutputOf, Output
  <2> QED
    BY <1>3, <1>7, <1>8, <2>1, OnTheWayIs
<1>10. PathOrdered'
  <2>1. EventsOrdered(hub') /\ EventsOrdered(conn'.buffered) /\ FramesOrdered(wire')
    BY <1>2, <1>3, <1>4, <1>7 DEF PathOrdered
  <2>2. lagged' = {} /\ Held' = Held
    BY <1>8
  <2> QED
    BY <1>2, <1>3, <1>8, <2>1, <2>2 DEF PathOrdered, Before
<1>11. PathPublished'
  BY <1>2, <1>3, <1>8 DEF PathPublished, Published
<1>12. LossPending'
  BY <1>2, <1>8, <1>9 DEF LossPending
<1> QED
  BY <1>8, <1>9, <1>10, <1>11, <1>12 DEF PathInv

LEMMA ForwardEventGap == ASSUME IInv, IInv', GapInv, ForwardEvent PROVE GapInv'
<1>1. UNCHANGED <<ptyVars, up, reads, viewVars, boundVars, published, missed, conn, launches>>
  BY DEF ForwardEvent, callVars, ptyVars, boundVars, viewVars
<1>2. TypeOK /\ PathInv
  BY DEF IInv, GapInv
<1>3. PathInv' /\ Held' = Held /\ OnTheWay' = OnTheWay
  BY <1>1, <1>2, AnnouncePath, ForwardPath DEF ForwardEvent
<1>4. PICK f : wire' = Append(wire, f) /\ f.kind \in {"output", "resync"}
  BY DEF ForwardEvent, ResyncFrame, OutputFrame
<1>5. f \in Frames
  <2>1. wire' \in Seq(Frames) /\ wire \in Seq(Frames)
    BY DEF IInv, TypeOK, NetTypeOK
  <2>2. wire'[Len(wire) + 1] = f /\ Len(wire') = Len(wire) + 1 /\ Len(wire) \in Nat
    BY <1>4, <2>1, LenProperties
  <2> QED
    BY <2>1, <2>2
<1>6. Snapshots' = Snapshots
  <2>1. Range(wire') = Range(wire) \cup {f}
    BY <1>4, <1>5, RangeAppend DEF IInv, TypeOK, NetTypeOK
  <2> QED
    BY <1>1, <1>4, <2>1 DEF Snapshots
<1> QED
  BY <1>1, <1>3, <1>6, BackendStands DEF Started

-----------------------------------------------------------------------------
(* Browser and bridge steps that show nothing. *)

(* What they leave of the connection: it is where it was, what it holds it    *)
(* still holds, and a redraw it begins waits for a snapshot not yet taken.    *)
Quiet ==
    /\ conn'.open => /\ conn.open /\ conn'.rev = conn.rev
                     /\ conn'.lastSequence = conn.lastSequence
    /\ conn'.buffered = conn.buffered
    /\ conn'.replaying =>
          \/ conn.replaying /\ conn'.replay = conn.replay /\ conn'.rev = conn.rev
          \/ conn'.replay = nextRead
    /\ phase' = "starting" => phase = "starting"
    /\ \A q \in reads' : q.launch = None \/ \E p \in reads : SameRead(p, q)

LEMMA QuietGap ==
    ASSUME IInv, IInv', GapInv, PathInv', Quiet,
           Accounted \subseteq Accounted', announced \cup ignored \subseteq (announced \cup ignored)',
           (Held \cup OnTheWay)' \subseteq Held \cup OnTheWay,
           UNCHANGED <<ptyVars, view, attach>>, Range(wire') \subseteq Range(wire)
    PROVE  GapInv'
<1>1. UNCHANGED <<launches, published, view, attach>>
  BY DEF ptyVars
<1>2. Started' = Started /\ \A l : RevisionOf(l)' = RevisionOf(l)
  BY <1>1 DEF Started, RevisionOf
<1>3. \A q \in Snapshots' : q.launch = None \/ \E p \in Snapshots : SameRead(p, q)
  BY DEF Quiet, Snapshots, SameRead
<1>4. \A p \in Snapshots : p.id < nextRead /\ p.id \in Nat
  BY QueueTypes DEF IInv, SnapshotsReal, Reads
<1>5. nextRead \in Nat
  BY DEF IInv, TypeOK, NetTypeOK
<1>6. ASSUME NEW q \in Snapshots', Drawable(q)', NEW p \in Snapshots, SameRead(p, q)
      PROVE  Drawable(p)
  <2>1. conn'.replaying /\ q.id = conn'.replay /\ q.launch # None
        /\ (phase' = "starting" \/ RevisionOf(q.launch) = conn'.rev)
    BY <1>2, <1>6 DEF Drawable
  <2>2. p.id = q.id /\ p.launch = q.launch
    BY <1>6 DEF SameRead
  <2>3. conn.replaying /\ conn'.replay = conn.replay /\ conn'.rev = conn.rev
    BY <1>4, <1>5, <2>1, <2>2 DEF Quiet
  <2> QED
    BY <2>1, <2>2, <2>3 DEF Quiet, Drawable
<1>7. \A q \in Snapshots' : Drawable(q)' =>
         \/ q.launch = None \/ Whole(q.launch, q.seq)'
         \/ \E p \in Snapshots : SameRead(p, q) /\ Drawable(p)
  BY <1>3, <1>6
<1>8. /\ conn'.open => /\ conn.open /\ conn'.rev = conn.rev
                       /\ conn'.lastSequence = conn.lastSequence
      /\ phase' = "starting" => phase = "starting"
  BY DEF Quiet
<1> QED
  BY <1>1, <1>2, <1>7, <1>8, GapStands

(* The usual case: no event moves. *)
LEMMA QuietOnPath ==
    ASSUME IInv, IInv', GapInv, Quiet,
           UNCHANGED <<ptyVars, up, hub, lagged, missed, announced, ignored, view, attach>>,
           \/ wire' = wire
           \/ \E kind \in {"scrollback", "started", "startFailed"} : Take(kind)
    PROVE  GapInv'
<1>1. PathRests
  BY DEF PathRests, ptyVars, Quiet
<1>2. PathInv' /\ Held' = Held /\ OnTheWay' = OnTheWay
  <2>1. CASE wire' = wire
    BY <1>1, <2>1, PathStill DEF GapInv
  <2>2. ASSUME NEW kind \in {"scrollback", "started", "startFailed"}, Take(kind)
        PROVE  PathInv' /\ Held' = Held /\ OnTheWay' = OnTheWay
    <3>1. kind \notin {"output", "resync"}
      OBVIOUS
    <3> QED
      BY <1>1, <2>2, <3>1, PathTake DEF GapInv
  <2> QED
    BY <2>1, <2>2
<1>3. Accounted' = Accounted /\ announced \cup ignored \subseteq (announced \cup ignored)'
  BY <1>2 DEF Accounted
<1>4. Range(wire') \subseteq Range(wire)
  BY Taken
<1> QED
  BY <1>2, <1>3, <1>4, QuietGap

(* A redraw of what the connection shows is quiet. *)
LEMMA RedrawnQuiet ==
    ASSUME NEW c, Redrawn(c), phase' = "starting" => phase = "starting",
           c.open => conn.open /\ c.rev = conn.rev /\ c.lastSequence = conn.lastSequence,
           c.buffered = conn.buffered,
           c.replaying => conn.replaying /\ c.replay = conn.replay /\ c.rev = conn.rev
    PROVE  Quiet
<1>1. \A q \in reads' : q.launch = None \/ \E p \in reads : SameRead(p, q)
  BY DEF Redrawn, SameRead
<1> QED
  BY <1>1 DEF Redrawn, Quiet

LEMMA RedrawIsQuiet == ASSUME IInv, Redraw PROVE Quiet
<1>1. conn \in Connections /\ conn.open /\ NetTypeOK
  BY DEF Redraw, IInv, TypeOK, ViewTypeOK, ConnectionSound
<1>2. Redrawn(conn) /\ phase' = phase
  BY <1>1, BeginReplayRedraws DEF Redraw
<1> QED
  BY <1>2, RedrawnQuiet

LEMMA RedrawGap == ASSUME IInv, IInv', GapInv, Redraw PROVE GapInv'
  BY RedrawIsQuiet, QuietOnPath DEF Redraw, netVars

LEMMA ReplayInitialIsQuiet == ASSUME IInv, ReplayInitial PROVE Quiet
<1>1. conn \in Connections /\ conn.open /\ NetTypeOK
  BY DEF ReplayInitial, IInv, TypeOK, ViewTypeOK, ConnectionSound
<1>2. Redrawn(conn) /\ phase' = "live"
  BY <1>1, BeginReplayRedraws DEF ReplayInitial
<1> QED
  BY <1>2, RedrawnQuiet

LEMMA ReplayInitialGap == ASSUME IInv, IInv', GapInv, ReplayInitial PROVE GapInv'
  BY ReplayInitialIsQuiet, QuietOnPath DEF ReplayInitial, netVars, boundVars

LEMMA ReceiveStartFailedIsQuiet == ASSUME IInv, ReceiveStartFailed PROVE Quiet
<1>1. conn \in Connections /\ NetTypeOK /\ (phase = "starting" => conn.open)
  BY DEF IInv, TypeOK, ViewTypeOK, ConnectionSound
<1>2. Redrawn(conn) /\ (phase' = "starting" => phase = "starting")
  <2>1. CASE phase = "starting" /\ Head(wire).attach = attach
    BY <1>1, <2>1, BeginReplayRedraws DEF ReceiveStartFailed
  <2>2. CASE ~(phase = "starting" /\ Head(wire).attach = attach)
    BY <1>1, <2>2, Untouched DEF ReceiveStartFailed
  <2> QED
    BY <2>1, <2>2
<1> QED
  BY <1>2, RedrawnQuiet

LEMMA ReceiveStartFailedGap == ASSUME IInv, IInv', GapInv, ReceiveStartFailed PROVE GapInv'
<1>1. Take("startFailed")
  BY DEF ReceiveStartFailed
<1> QED
  BY <1>1, ReceiveStartFailedIsQuiet, QuietOnPath DEF ReceiveStartFailed, boundVars

(* A redraw that is given up is over; what it held stays held until released. *)
LEMMA ReplayTimeoutIsQuiet == ASSUME IInv, ReplayTimeout PROVE Quiet
<1>1. conn \in Connections /\ NetTypeOK /\ ViewTypeOK /\ phase' = phase
  BY DEF ReplayTimeout, IInv, TypeOK, ViewTypeOK
<1>2. CASE /\ conn' = [conn EXCEPT !.replaying = FALSE, !.releasing = TRUE]
           /\ reads' = reads
  <2>1. /\ conn'.open = conn.open /\ conn'.rev = conn.rev
        /\ conn'.lastSequence = conn.lastSequence /\ conn'.buffered = conn.buffered
        /\ ~conn'.replaying
    BY <1>1, <1>2 DEF Connections
  <2> QED
    BY <1>1, <1>2, <2>1 DEF Quiet, SameRead
<1>3. CASE EndPass(conn)
  BY <1>1, <1>3, EndPassRedraws, RedrawnQuiet
<1> QED
  BY <1>2, <1>3 DEF ReplayTimeout

LEMMA ReplayTimeoutGap == ASSUME IInv, IInv', GapInv, ReplayTimeout PROVE GapInv'
  BY ReplayTimeoutIsQuiet, QuietOnPath DEF ReplayTimeout, netVars, boundVars

LEMMA FinishReplayIsQuiet == ASSUME IInv, FinishReplay PROVE Quiet
<1> DEFINE c == [conn EXCEPT !.releasing = FALSE, !.replay = None]
<1>1. conn \in Connections /\ NetTypeOK /\ ViewTypeOK /\ conn.buffered = <<>> /\ conn.releasing
  BY DEF FinishReplay, IInv, TypeOK, ViewTypeOK
<1>2. ~conn.replaying
  BY <1>1 DEF IInv, ConnectionSound
<1>3. /\ c.open = conn.open /\ c.rev = conn.rev /\ c.lastSequence = conn.lastSequence
      /\ c.buffered = conn.buffered /\ ~c.replaying /\ c \in Connections
  BY <1>1, <1>2 DEF Connections, None
<1> HIDE DEF c
<1>4. CASE phase = "failing"
  <2>1. conn' = Closed /\ phase' = "failed" /\ reads' = reads
    BY <1>4 DEF FinishReplay
  <2> QED
    BY <1>1, <2>1 DEF Quiet, Closed, SameRead
<1>5. CASE phase # "failing"
  <2>1. phase' = phase
    BY <1>5 DEF FinishReplay
  <2>2. Redrawn(c)
    <3>1. CASE pass.waitsOn = conn.replay
      <4>1. EndPass(c)
        BY <1>5, <3>1 DEF FinishReplay, c
      <4> QED
        BY <1>1, <1>3, <4>1, EndPassRedraws
    <3>2. CASE pass.waitsOn # conn.replay
      <4>1. conn' = c /\ UNCHANGED <<pass, reads, nextRead>>
        BY <1>5, <3>2 DEF FinishReplay, c
      <4> QED
        BY <1>1, <1>3, <4>1, Untouched
    <3> QED
      BY <3>1, <3>2
  <2> QED
    BY <1>3, <2>1, <2>2, RedrawnQuiet
<1> QED
  BY <1>4, <1>5

LEMMA FinishReplayGap == ASSUME IInv, IInv', GapInv, FinishReplay PROVE GapInv'
  BY FinishReplayIsQuiet, QuietOnPath DEF FinishReplay, netVars, boundVars

(* A Resync leaves the wire: what it tells of is announced and no longer pending. *)
LEMMA ResyncPath ==
    ASSUME IInv, PathInv, Take("resync"), UNCHANGED <<published, hub, lagged>>,
           conn'.buffered = conn.buffered, missed' = missed \ Head(wire).lost, up' = up
    PROVE  /\ PathInv' /\ Held' = Held /\ OnTheWay' = OnTheWay
<1> DEFINE t == Tail(wire)
           lost == Head(wire).lost
<1>1. wire \in Seq(Frames) /\ wire # <<>> /\ wire' = t
  BY DEF IInv, TypeOK, NetTypeOK, Take
<1>2. Carried(Head(wire)) = lost /\ Output(Head(wire)) = {}
  BY DEF Carried, Output, Take
<1>3. PathOrdered /\ LossPending /\ PathPublished
  BY DEF PathInv
<1>4. /\ Sent = lost \cup CarriedBy(t) /\ OutputOf(wire) = OutputOf(t)
      /\ FramesOrdered(t)
  BY <1>1, <1>2, <1>3, FramesTail DEF PathOrdered, Sent
<1>5. missed' = missed \ lost
  OBVIOUS
<1> HIDE DEF t, lost
<1>6. Held' = Held /\ Sent' = CarriedBy(t) /\ OutputOf(wire') = OutputOf(t)
  BY <1>1 DEF Held, Sent
<1>7. OnTheWay' = OnTheWay
  <2>1. OnTheWay' = Range(hub') \cup OutputOf(wire')
    BY OnTheWayIs DEF OnTheWay, OutputOf, Output
  <2> QED
    BY <1>4, <1>6, <2>1, OnTheWayIs
<1>8. PathOrdered'
  <2>1. Before(Held, Sent') /\ Before(Sent', lagged) /\ Before(Sent', Range(hub))
    BY <1>3, <1>4, <1>6 DEF PathOrdered, Before
  <2> QED
    BY <1>1, <1>3, <1>4, <1>6, <2>1 DEF PathOrdered
<1>9. PathPublished'
  BY <1>3, <1>4, <1>5, <1>6 DEF PathPublished, Published
<1>10. LossPending'
  <2>1. Before(Held, missed')
    BY <1>3, <1>5 DEF LossPending, Before
  <2>2. up => missed' \subseteq lagged \cup Sent'
    BY <1>3, <1>4, <1>5, <1>6 DEF LossPending
  <2> QED
    BY <1>3, <1>5, <1>6, <1>7, <2>1, <2>2 DEF LossPending
<1> QED
  BY <1>6, <1>7, <1>8, <1>9, <1>10 DEF PathInv

LEMMA ReceiveResyncIsQuiet == ASSUME IInv, ReceiveResync PROVE Quiet
<1>1. conn \in Connections /\ NetTypeOK /\ ViewTypeOK /\ phase' = phase
  BY DEF ReceiveResync, IInv, TypeOK, ViewTypeOK
<1>2. Redrawn(conn)
  BY <1>1, ReplayAllRedraws DEF ReceiveResync
<1> QED
  BY <1>1, <1>2, RedrawnQuiet

LEMMA ReceiveResyncGap == ASSUME IInv, IInv', GapInv, ReceiveResync PROVE GapInv'
<1>1. Quiet
  BY ReceiveResyncIsQuiet
<1>2. /\ Take("resync") /\ missed' = missed \ Head(wire).lost
      /\ announced' = announced \cup Head(wire).lost
      /\ UNCHANGED <<ptyVars, up, hub, lagged, view, attach, ignored, published>>
  BY DEF ReceiveResync, ptyVars
<1>3. PathInv' /\ Held' = Held /\ OnTheWay' = OnTheWay
  BY <1>1, <1>2, ResyncPath DEF GapInv, Quiet
<1>4. /\ Accounted \subseteq Accounted'
      /\ announced \cup ignored \subseteq (announced \cup ignored)'
  BY <1>2, <1>3 DEF Accounted
<1>5. Range(wire') \subseteq Range(wire)
  BY <1>2, Taken
<1> QED
  BY <1>1, <1>2, <1>3, <1>4, <1>5, QuietGap

(* A dropped link loses what is on its way, all of it behind what is held. *)
LEMMA DisconnectPath ==
    ASSUME TypeOK, PathInv, hub' = <<>>, lagged' = {}, wire' = <<>>, up' = FALSE,
           missed' = missed \cup OnTheWay, UNCHANGED published, conn'.buffered = conn.buffered
    PROVE  PathInv' /\ Held' = Held /\ OnTheWay' = {}
<1>1. Range(hub') = {} /\ Range(wire') = {} /\ Len(hub') = 0 /\ Len(wire') = 0
  BY RangeEmpty
<1>2. Held' = Held /\ Sent' = {} /\ OutputOf(wire') = {}
  BY <1>1 DEF Held, Sent, CarriedBy, OutputOf
<1>3. OnTheWay' = {}
  <2>1. OnTheWay' = Range(hub') \cup OutputOf(wire')
    BY OnTheWayIs DEF OnTheWay, OutputOf, Output
  <2> QED
    BY <1>1, <1>2, <2>1
<1>4. PathOrdered /\ LossPending /\ PathPublished
  BY DEF PathInv
<1>5. PathOrdered'
  BY <1>1, <1>2, <1>4 DEF PathOrdered, Before, EventsOrdered, FramesOrdered
<1>6. OnTheWay \subseteq Range(hub) \cup Sent
  BY OnTheWayIs
<1>7. PathPublished'
  BY <1>1, <1>2, <1>4, <1>6 DEF PathPublished, Published
<1>8. LossPending'
  BY <1>2, <1>3, <1>4, <1>6 DEF LossPending, PathOrdered, Before
<1> QED
  BY <1>2, <1>3, <1>5, <1>7, <1>8 DEF PathInv

LEMMA DisconnectIsQuiet == ASSUME IInv, Disconnect PROVE Quiet
<1> DEFINE fresh == conn.replay = None /\ (phase = "starting" \/ (PassOrphaned /\ pass.pending /\ conn.open))
           clear == ~(phase = "starting")
           q == [id |-> nextRead, stage |-> "queued", launch |-> None, seq |-> 0, blank |-> TRUE]
<1>1. /\ up' = FALSE /\ hub' = <<>> /\ lagged' = {} /\ wire' = <<>>
      /\ missed' = missed \cup OnTheWay
      /\ phase' = PhaseAfterDrop(phase)
      /\ UNCHANGED <<ptyVars, attach, view, announced, ignored, published>>
  BY DEF Disconnect, ptyVars
<1>2. /\ conn' \in {conn, [conn EXCEPT !.replaying = FALSE, !.releasing = TRUE],
                    [conn EXCEPT !.replaying = TRUE, !.replay = nextRead, !.clearScreen = clear]}
      /\ reads' \subseteq {q}
  BY DEF Disconnect
<1>3. conn \in Connections
  BY DEF IInv, TypeOK, ViewTypeOK
<1>4. /\ conn'.open = conn.open /\ conn'.rev = conn.rev
      /\ conn'.lastSequence = conn.lastSequence /\ conn'.buffered = conn.buffered
      /\ conn'.replaying => \/ conn.replaying /\ conn'.replay = conn.replay
                            \/ conn'.replay = nextRead
  BY <1>2, <1>3 DEF Connections
<1> QED
  BY <1>1, <1>2, <1>4 DEF Quiet, PhaseAfterDrop

LEMMA DisconnectGap == ASSUME IInv, IInv', GapInv, Disconnect PROVE GapInv'
<1>1. /\ up' = FALSE /\ hub' = <<>> /\ lagged' = {} /\ wire' = <<>>
      /\ missed' = missed \cup OnTheWay
      /\ UNCHANGED <<ptyVars, attach, view, announced, ignored, published>>
  BY DEF Disconnect, ptyVars
<1>2. Quiet
  BY DisconnectIsQuiet
<1>3. PathInv' /\ Held' = Held /\ OnTheWay' = {}
  BY <1>1, <1>2, DisconnectPath DEF IInv, GapInv, Quiet
<1>4. /\ Accounted \subseteq Accounted'
      /\ announced \cup ignored \subseteq (announced \cup ignored)'
  BY <1>1, <1>3 DEF Accounted
<1>5. Range(wire') \subseteq Range(wire)
  BY <1>1, RangeEmpty
<1> QED
  BY <1>1, <1>2, <1>3, <1>4, <1>5, QuietGap

LEMMA ReconnectIsQuiet == ASSUME IInv, Reconnect PROVE Quiet
<1> DEFINE flushed == {[q EXCEPT !.stage = "sent"] : q \in reads}
           new == [id |-> nextRead, stage |-> "sent", launch |-> None, seq |-> 0, blank |-> TRUE]
<1>1. /\ up' = TRUE /\ missed' = {} /\ announced' = announced \cup missed
      /\ UNCHANGED <<ptyVars, hub, lagged, wire, phase, attach, view, ignored, published>>
  BY DEF Reconnect, ptyVars
<1>2. /\ conn' \in {conn, [conn EXCEPT !.replaying = TRUE, !.replay = nextRead,
                                       !.clearScreen = TRUE]}
      /\ reads' \subseteq flushed \cup {new}
  BY DEF Reconnect
<1>3. conn \in Connections /\ reads \in SUBSET Reads
  BY DEF IInv, TypeOK, ViewTypeOK, NetTypeOK
<1>4. /\ conn'.open = conn.open /\ conn'.rev = conn.rev
      /\ conn'.lastSequence = conn.lastSequence /\ conn'.buffered = conn.buffered
      /\ conn'.replaying => \/ conn.replaying /\ conn'.replay = conn.replay
                            \/ conn'.replay = nextRead
  BY <1>2, <1>3 DEF Connections
<1>5. new.launch = None
  OBVIOUS
<1>6. \A q \in flushed : \E p \in reads : SameRead(p, q)
  BY <1>3 DEF Reads, SameRead
<1> HIDE DEF new, flushed
<1> QED
  BY <1>1, <1>2, <1>4, <1>5, <1>6 DEF Quiet

(* A new link announces everything that was lost. *)
LEMMA ReconnectGap == ASSUME IInv, IInv', GapInv, Reconnect PROVE GapInv'
<1>1. /\ up' = TRUE /\ missed' = {} /\ announced' = announced \cup missed
      /\ UNCHANGED <<ptyVars, hub, lagged, wire, phase, attach, view, ignored, published>>
  BY DEF Reconnect, ptyVars
<1>2. Quiet
  BY ReconnectIsQuiet
<1>3. conn'.buffered = conn.buffered
  BY <1>2 DEF Quiet
<1>4. Held' = Held /\ Sent' = Sent /\ OnTheWay' = OnTheWay
  BY <1>1, <1>3 DEF Held, Sent, OnTheWay
<1>5. PathInv'
  <2>1. PathOrdered'
    BY <1>1, <1>3, <1>4 DEF GapInv, PathInv, PathOrdered
  <2>2. PathPublished'
    BY <1>1, <1>4 DEF GapInv, PathInv, PathPublished, Published
  <2>3. LossPending'
    BY <1>1, <1>4 DEF LossPending, Before
  <2> QED
    BY <2>1, <2>2, <2>3 DEF PathInv
<1>6. /\ Accounted \subseteq Accounted'
      /\ announced \cup ignored \subseteq (announced \cup ignored)'
  BY <1>1, <1>4 DEF Accounted
<1> QED
  BY <1>1, <1>2, <1>4, <1>5, <1>6, QuietGap

-----------------------------------------------------------------------------
(* What a view shows, and what it drops. *)

(* What is behind all that leaves the path is as complete as it was. *)
LEMMA PathWholeWithout ==
    ASSUME TypeOK, PathWhole, NEW D \in SUBSET Events, Accounted \ D \subseteq Accounted',
           UNCHANGED published,
           \A x \in (Held \cup OnTheWay)' : x \in Held \cup OnTheWay /\ Before(D, {x})
    PROVE  PathWhole'
<1> SUFFICES ASSUME NEW x \in (Held \cup OnTheWay)' PROVE Whole(x.launch, x.seq)'
  BY DEF PathWhole
<1>1. x \in Held \cup OnTheWay /\ Before(D, {x})
  OBVIOUS
<1>2. x.seq \in Nat /\ \A d \in D : d.seq \in Nat
  BY <1>1, PathTypes
<1>3. \A d \in D : d.launch = x.launch => d.seq <= x.seq /\ d.seq \in Nat
  BY <1>1, <1>2 DEF Before
<1>4. Whole(x.launch, x.seq)
  BY <1>1 DEF PathWhole
<1> DEFINE l == x.launch
           s == x.seq
<1>5. s \in Nat /\ published'[l] = published[l] /\ Whole(l, s)
      /\ \A d \in D : d.launch = l => d.seq <= s /\ d.seq \in Nat
  BY <1>2, <1>3, <1>4
<1> QED
  BY <1>5, WholeWithout

(* A connection that gives up what it holds leaves the rest of the path. *)
LEMMA HeldDropped ==
    ASSUME TypeOK, PathInv, conn'.buffered = <<>>,
           UNCHANGED <<published, up, hub, lagged, missed, announced, ignored>>,
           FramesOrdered(wire'), CarriedBy(wire') = Sent, OutputOf(wire') = OutputOf(wire)
    PROVE  /\ PathInv' /\ Held' = {} /\ OnTheWay' = OnTheWay
           /\ Accounted \ Held \subseteq Accounted'
           /\ \A x \in (Held \cup OnTheWay)' : x \in Held \cup OnTheWay /\ Before(Held, {x})
<1>1. Held' = {} /\ Sent' = Sent /\ Len(conn'.buffered) = 0
  BY RangeEmpty DEF Held, Sent
<1>2. OnTheWay' = OnTheWay
  <2>1. OnTheWay' = Range(hub') \cup OutputOf(wire')
    BY OnTheWayIs DEF OnTheWay, OutputOf, Output
  <2> QED
    BY <2>1, OnTheWayIs
<1>3. PathOrdered /\ LossPending /\ PathPublished
  BY DEF PathInv
<1>4. PathOrdered'
  BY <1>1, <1>3 DEF PathOrdered, EventsOrdered, Before
<1>5. PathPublished'
  BY <1>1, <1>3 DEF PathPublished, Published
<1>6. LossPending'
  BY <1>1, <1>2, <1>3 DEF LossPending, Before
<1>7. Accounted \ Held \subseteq Accounted'
  BY <1>2 DEF Accounted
<1>8. \A x \in OnTheWay : Before(Held, {x})
  BY <1>3, OnTheWayIs DEF PathOrdered, Before
<1> QED
  BY <1>1, <1>2, <1>4, <1>5, <1>6, <1>7, <1>8 DEF PathInv

(* A connection that begins has shown nothing and draws nothing yet. *)
LEMMA ConnectGap ==
    ASSUME IInv, IInv', GapInv, NEW r \in Revisions, Connect(r), UNCHANGED view,
           phase \in {"unmounted", "failed"}
    PROVE  GapInv'
<1>1. /\ conn' = [Closed EXCEPT !.open = TRUE, !.rev = r, !.replaying = TRUE]
      /\ phase' = "starting" /\ attach' = attach + 1
      /\ UNCHANGED <<ptyVars, netVars, reads, nextRead, pass, boundVars>>
  BY DEF Connect
<1>2. conn'.buffered = <<>> /\ conn'.replay = None
  BY <1>1 DEF Closed
<1>3. conn.buffered = <<>>
  BY DEF IInv, ConnectionSound, Closed
<1>4. PathRests /\ wire' = wire
  BY <1>1, <1>2, <1>3 DEF PathRests, netVars, ptyVars, boundVars
<1>5. PathInv' /\ Held' = Held /\ OnTheWay' = OnTheWay
  BY <1>4, PathStill DEF GapInv
<1>6. UNCHANGED <<published, launches, announced, ignored, missed, view, reads, wire>>
  BY <1>1 DEF ptyVars, boundVars, netVars
<1>7. Accounted' = Accounted /\ Started' = Started
  BY <1>5, <1>6 DEF Accounted, Started
<1>8. PathWhole'
  BY <1>5, <1>6, <1>7 DEF GapInv, PathWhole, Whole
<1>9. SnapshotsWhole'
  <2>1. \A q \in Snapshots' : q.id # None
    <3>1. Snapshots' = Snapshots
      BY <1>6 DEF Snapshots
    <3> QED
      BY <3>1, QueueTypes DEF IInv, Reads
  <2> QED
    BY <1>2, <2>1 DEF SnapshotsWhole, Drawable
<1>10. \A i \in 1..Len(view) : view[i].attach \in Nat /\ view[i].attach < attach'
  <2>1. view \in Seq(Shown) /\ attach \in Nat
    BY DEF IInv, TypeOK, ViewTypeOK
  <2>2. \A s \in Shown : s.attach \in Nat
    BY DEF Shown
  <2>3. \A i \in 1..Len(view) : view[i] \in Shown
    BY <2>1, LenProperties
  <2> QED
    BY <1>1, <2>1, <2>2, <2>3 DEF GapInv, ViewPlausible
<1>11. ViewWhole'
  <2>1. view # <<>> => Len(view) \in 1..Len(view)
    BY LenProperties, EmptySeq DEF IInv, TypeOK, ViewTypeOK
  <2>2. view # <<>> => ~Mine(Newest)'
    BY <1>6, <1>10, <2>1 DEF Newest, Mine
  <2> QED
    BY <1>6, <2>2 DEF ViewWhole
<1>12. ViewPlausible'
  <2>1. attach' \in Nat
    BY DEF IInv, TypeOK, ViewTypeOK
  <2> QED
    BY <1>6, <1>7, <1>10, <2>1 DEF GapInv, ViewPlausible, Mine
<1>13. NoSilentGap'
  BY <1>6 DEF GapInv, NoSilentGap, SameRun
<1> QED
  BY <1>5, <1>8, <1>9, <1>11, <1>12, <1>13 DEF GapInv

(* An unmounted panel shows nothing, and what it held is gone. *)
LEMMA UnmountGap == ASSUME IInv, IInv', GapInv, Unmount PROVE GapInv'
<1>1. /\ conn' = Closed /\ phase' = "unmounted" /\ view' = <<>>
      /\ UNCHANGED <<ptyVars, netVars, callVars, attach, pass, boundVars>>
  BY DEF Unmount
<1>2. conn'.buffered = <<>> /\ ~conn'.replaying /\ ~conn'.open /\ Len(view') = 0
      /\ DOMAIN view' = {}
  BY <1>1 DEF Closed
<1>3. UNCHANGED <<published, up, hub, lagged, missed, announced, ignored, wire>>
  BY <1>1 DEF ptyVars, netVars, boundVars
<1>4. /\ FramesOrdered(wire') /\ CarriedBy(wire') = Sent /\ OutputOf(wire') = OutputOf(wire)
      /\ TypeOK /\ PathInv /\ PathWhole
  BY <1>3 DEF GapInv, PathInv, PathOrdered, Sent, IInv
<1>5. /\ PathInv' /\ Accounted \ Held \subseteq Accounted'
      /\ \A x \in (Held \cup OnTheWay)' : x \in Held \cup OnTheWay /\ Before(Held, {x})
  BY <1>2, <1>3, <1>4, HeldDropped
<1>6. PathWhole'
  BY <1>3, <1>4, <1>5, PathWholeWithout, PathTypes
<1>7. SnapshotsWhole' /\ ViewWhole' /\ ViewPlausible' /\ NoSilentGap'
  BY <1>2 DEF SnapshotsWhole, Drawable, ViewWhole, ViewPlausible, NoSilentGap
<1> QED
  BY <1>5, <1>6, <1>7 DEF GapInv

(* start() names the launch the view shows: if it is another than the one it  *)
(* asked for, what it held and what it showed were of that one.               *)
LEMMA ReceiveStartedGap == ASSUME IInv, IInv', GapInv, ReceiveStarted PROVE GapInv'
<1> DEFINE r == RevisionOf(Head(wire).launch)
<1>1. /\ UNCHANGED <<ptyVars, up, hub, lagged, reads, attach, view, missed, announced, ignored,
                     published, launches>>
      /\ Take("started") /\ conn \in Connections
  BY DEF ReceiveStarted, callVars, boundVars, ptyVars, IInv, TypeOK, ViewTypeOK
<1>2. CASE conn' = conn /\ (phase' = "starting" => phase = "starting")
  <2>1. Quiet
    BY <1>1, <1>2 DEF Quiet, SameRead
  <2> QED
    BY <1>1, <2>1, QuietOnPath
<1>3. CASE /\ phase = "starting" /\ phase' = "settling" /\ conn.rev # r
           /\ conn' = [conn EXCEPT !.rev = r, !.lastSequence = 0, !.buffered = HeldFor(@, r)]
  <2>1. HeldFor(conn.buffered, r) = <<>>
    BY <1>3, AdoptedHoldsNothing DEF IInv
  <2>2. /\ conn'.buffered = <<>> /\ conn'.rev = r /\ conn'.replaying = conn.replaying
        /\ conn'.replay = conn.replay
    BY <1>1, <1>3, <2>1 DEF Connections
  <2> HIDE DEF r
  <2>3. wire \in Seq(Frames) /\ wire # <<>> /\ wire' = Tail(wire)
        /\ Carried(Head(wire)) = {} /\ Output(Head(wire)) = {}
    BY <1>1 DEF Take, IInv, TypeOK, NetTypeOK, Carried, Output
  <2>4. /\ FramesOrdered(wire') /\ CarriedBy(wire') = Sent /\ OutputOf(wire') = OutputOf(wire)
    BY <2>3, FramesTail DEF GapInv, PathInv, PathOrdered, Sent
  <2>5. TypeOK /\ PathInv /\ PathWhole
    BY DEF GapInv, IInv
  <2>6. /\ PathInv' /\ Accounted \ Held \subseteq Accounted'
        /\ \A x \in (Held \cup OnTheWay)' : x \in Held \cup OnTheWay /\ Before(Held, {x})
    BY <1>1, <2>2, <2>4, <2>5, HeldDropped
  <2>7. PathWhole'
    BY <1>1, <2>5, <2>6, PathWholeWithout, PathTypes
  <2>8. Started' = Started /\ \A l : RevisionOf(l)' = RevisionOf(l)
    BY <1>1 DEF Started, RevisionOf
  <2>9. SnapshotsWhole'
    <3> SUFFICES ASSUME NEW q \in Snapshots', Drawable(q)' PROVE Whole(q.launch, q.seq)'
      BY DEF SnapshotsWhole
    <3>1. q \in Snapshots
      <4>1. Range(wire') \subseteq Range(wire)
        BY <1>1, Taken
      <4> QED
        BY <1>1, <4>1 DEF Snapshots
    <3>2. RevisionOf(q.launch) = r /\ Drawable(q)
      BY <1>3, <2>2, <2>8 DEF Drawable
    <3>3. Whole(q.launch, q.seq) /\ q.seq \in Nat
      BY <3>1, <3>2, QueueTypes DEF GapInv, SnapshotsWhole, IInv
    <3>4. \A d \in Held : d.launch # q.launch
      BY <1>3, <3>2 DEF IInv, HeldMatches, Held
    <3> DEFINE l == q.launch
               s == q.seq
    <3>5. /\ s \in Nat /\ published'[l] = published[l] /\ Whole(l, s)
          /\ \A d \in Held : d.launch = l => d.seq <= s /\ d.seq \in Nat
      BY <1>1, <3>3, <3>4
    <3> QED
      BY <2>6, <3>5, WholeWithout
  <2>10. ViewWhole'
    <3>1. view # <<>> => Len(view) \in 1..Len(view)
      BY LenProperties, EmptySeq DEF IInv, TypeOK, ViewTypeOK
    <3>2. view # <<>> /\ Mine(Newest) => RevisionOf(Newest.launch) # r
      BY <1>3, <3>1 DEF GapInv, ViewPlausible, Newest
    <3> QED
      BY <1>1, <2>2, <2>8, <3>2 DEF ViewWhole, Newest, Mine
  <2>11. ViewPlausible'
    BY <1>1, <1>3, <2>8 DEF GapInv, ViewPlausible, Mine
  <2>12. NoSilentGap'
    BY <1>1 DEF GapInv, NoSilentGap, SameRun
  <2> QED
    BY <2>6, <2>7, <2>9, <2>10, <2>11, <2>12 DEF GapInv
<1> QED
  BY <1>2, <1>3 DEF ReceiveStarted

(* Showing x keeps the view without silent gaps when what lies between x and  *)
(* what was shown before is announced.                                        *)
LEMMA ShownNext ==
    ASSUME IInv, IInv', GapInv, PathInv', PathWhole', SnapshotsWhole',
           UNCHANGED <<launches, attach, phase, announced, ignored>>,
           conn'.rev = conn.rev,
           NEW x \in Shown, x.attach = attach, x.launch \in Started,
           RevisionOf(x.launch) = conn.rev,
           view' = Append(view, x) \/ view' = Append(<<>>, x),
           conn'.lastSequence = x.seq, Whole(x.launch, x.seq)',
           (x.kind = "chunk" /\ view # <<>> /\ Newest.attach = x.attach /\ Newest.launch = x.launch)
              => /\ view' = Append(view, x)
                 /\ \A n \in Newest.seq + 1 .. x.seq - 1 :
                       Event(x.launch, n) \in announced \cup ignored
    PROVE  GapInv'
<1>1. view \in Seq(Shown) /\ <<>> \in Seq(Shown)
  BY RangeEmpty DEF IInv, TypeOK, ViewTypeOK
<1>2. PICK old \in {view, <<>>} : view' = Append(old, x)
  OBVIOUS
<1>3. old \in Seq(Shown) /\ Len(old) \in Nat /\ Len(view) \in Nat
  BY <1>1, <1>2, LenProperties
<1>4. /\ Len(view') = Len(old) + 1 /\ DOMAIN view' = 1..Len(old) + 1
      /\ \A i \in 1..Len(old) : view'[i] = old[i]
      /\ view'[Len(old) + 1] = x
  <2>1. view' \in Seq(Shown)
    BY DEF IInv, TypeOK, ViewTypeOK
  <2> QED
    BY <1>2, <1>3, <2>1, AppendProperties, LenProperties
<1>5. old = view \/ Len(old) = 0
  BY <1>2
<1>6. \A l : RevisionOf(l)' = RevisionOf(l)
  BY DEF RevisionOf
<1>7. Started' = Started
  BY DEF Started
<1>8. ViewWhole'
  <2>1. Newest' = x
    BY <1>4 DEF Newest
  <2> QED
    BY <2>1 DEF ViewWhole
<1>9. ViewPlausible'
  <2>1. attach <= attach
    BY DEF IInv, TypeOK, ViewTypeOK
  <2>2. ASSUME NEW i \in 1..Len(view'), NEW y, y = view'[i]
        PROVE  /\ y.attach <= attach /\ y.launch \in Started
               /\ phase = "starting" /\ Mine(y) => RevisionOf(y.launch) = conn.rev
    <3>1. CASE i = Len(old) + 1
      BY <1>4, <2>1, <2>2, <3>1
    <3>2. CASE i # Len(old) + 1
      <4>1. i \in 1..Len(view) /\ y = view[i]
        BY <1>3, <1>4, <1>5, <2>2, <3>2
      <4> QED
        BY <4>1 DEF GapInv, ViewPlausible
    <3> QED
      BY <3>1, <3>2
  <2> QED
    BY <1>6, <1>7, <2>2 DEF ViewPlausible, Mine
<1>10. NoSilentGap'
  <2> SUFFICES ASSUME NEW i \in (DOMAIN view') \ {1}, SameRun(i - 1, i)', view'[i].kind = "chunk",
                      NEW n \in view'[i - 1].seq + 1 .. view'[i].seq - 1
               PROVE  Event(view'[i].launch, n) \in announced \cup ignored
    BY DEF NoSilentGap
  <2>1. i \in 2..Len(old) + 1 /\ old = view
    BY <1>3, <1>4, <1>5
  <2>2. CASE i = Len(old) + 1
    <3>1. view # <<>> /\ view'[i - 1] = Newest /\ view'[i] = x
      BY <1>3, <1>4, <2>1, <2>2 DEF Newest
    <3>2. Newest.attach = x.attach /\ Newest.launch = x.launch /\ x.kind = "chunk"
      BY <3>1 DEF SameRun
    <3> QED
      BY <3>1, <3>2
  <2>3. CASE i # Len(old) + 1
    <3>1. i \in (DOMAIN view) \ {1} /\ i - 1 \in 1..Len(view) /\ i \in 1..Len(view)
      BY <1>1, <1>3, <2>1, <2>3, LenProperties
    <3>2. view'[i] = view[i] /\ view'[i - 1] = view[i - 1]
      BY <1>4, <2>1, <3>1
    <3>3. SameRun(i - 1, i)
      BY <3>2 DEF SameRun
    <3> QED
      BY <3>1, <3>2, <3>3 DEF GapInv, NoSilentGap
  <2> QED
    BY <2>2, <2>3
<1> QED
  BY <1>8, <1>9, <1>10 DEF GapInv

(* The snapshot that is drawn is continued by what follows. *)
LEMMA DrawGap ==
    ASSUME IInv, IInv', GapInv, Take("scrollback"),
           UNCHANGED <<ptyVars, up, hub, lagged, phase, attach, boundVars, reads>>,
           NEW r, r = Head(wire).read, r.id = conn.replay,
           Matches(conn, r.launch), ~r.blank,
           view' = Append(IF conn.clearScreen THEN <<>> ELSE view, ShownSnapshot(r)),
           conn' = [conn EXCEPT !.lastSequence = r.seq, !.replaying = FALSE, !.releasing = TRUE]
    PROVE  GapInv'
<1>0. PICK x : x = ShownSnapshot(r)
  OBVIOUS
<1>1. /\ r \in Reads /\ r \in Snapshots /\ ~conn.releasing
  BY Taken, FrameTypes DEF Snapshots
<1>2. r.launch # None /\ r.launch \in Started /\ r.id \in Nat \ {0} /\ r.seq \in Nat
  BY <1>1 DEF IInv, SnapshotsReal, Real, Reads, None
<1>3. conn.replaying
  BY <1>1, <1>2 DEF IInv, HeldOnlyWhileAwaited, None
<1>4. Whole(r.launch, r.seq)
  BY <1>1, <1>2, <1>3 DEF Drawable, Matches, GapInv, SnapshotsWhole
<1>5. conn \in Connections
  BY DEF IInv, TypeOK, ViewTypeOK
<1>6. /\ conn'.buffered = conn.buffered /\ ~conn'.replaying /\ conn'.rev = conn.rev
      /\ conn'.lastSequence = r.seq
  BY <1>5 DEF Connections
<1>7. PathRests /\ UNCHANGED <<published, launches, announced, ignored, missed>>
  BY <1>6 DEF PathRests, ptyVars, boundVars
<1>8. PathInv' /\ Held' = Held /\ OnTheWay' = OnTheWay
  BY <1>7, PathTake DEF GapInv
<1>9. Accounted \subseteq Accounted'
  BY <1>7, <1>8 DEF Accounted
<1>10. Whole(r.launch, r.seq)'
  BY <1>4, <1>7, <1>9, WholeLasts
<1>11. PathWhole'
  BY <1>7, <1>8, <1>9, WholeLasts DEF GapInv, PathWhole
<1>12. SnapshotsWhole'
  BY <1>6 DEF SnapshotsWhole, Drawable
<1>13. /\ x.kind = "snapshot" /\ x.attach = attach /\ x.launch = r.launch /\ x.seq = r.seq
       /\ x \in Shown
  BY <1>0, <1>2, PtyTypes DEF ShownSnapshot, Shown, IInv, TypeOK, ViewTypeOK
<1>14. view' = Append(view, x) \/ view' = Append(<<>>, x)
  BY <1>0
<1>15. RevisionOf(x.launch) = conn.rev
  BY <1>13 DEF Matches
<1>16. x.kind # "chunk" /\ x.launch \in Started /\ conn'.lastSequence = x.seq
       /\ x.launch = r.launch /\ x.seq = r.seq
  BY <1>2, <1>6, <1>13
<1>17. Whole(x.launch, x.seq)'
  BY <1>10, <1>16
<1> QED
  BY <1>6, <1>7, <1>8, <1>11, <1>12, <1>13, <1>14, <1>15, <1>16, <1>17, ShownNext

LEMMA UndrawnIsQuiet ==
    ASSUME IInv, ReceiveScrollback, NEW r, r = Head(wire).read,
           ~(r.id = conn.replay /\ Matches(conn, r.launch) /\ ~r.blank)
    PROVE  Quiet /\ UNCHANGED view
<1>1. /\ conn \in Connections /\ NetTypeOK /\ ViewTypeOK /\ phase' = phase
  BY DEF ReceiveScrollback, IInv, TypeOK, ViewTypeOK
<1>2. UNCHANGED view
  BY DEF ReceiveScrollback
<1>3. CASE r.id = conn.replay
  <2>1. conn' = [conn EXCEPT !.replaying = FALSE, !.releasing = TRUE] /\ reads' = reads
    BY <1>3 DEF ReceiveScrollback
  <2>2. /\ conn'.open = conn.open /\ conn'.rev = conn.rev
        /\ conn'.lastSequence = conn.lastSequence /\ conn'.buffered = conn.buffered
        /\ ~conn'.replaying
    BY <1>1, <2>1 DEF Connections
  <2> QED
    BY <1>1, <1>2, <2>1, <2>2 DEF Quiet, SameRead
<1>4. CASE r.id # conn.replay
  <2>1. Redrawn(conn)
    <3>1. CASE EndPass(conn)
      BY <1>1, <3>1, EndPassRedraws
    <3>2. CASE UNCHANGED <<conn, reads, nextRead>>
      BY <1>1, <3>2, Untouched
    <3> QED
      BY <1>4, <3>1, <3>2 DEF ReceiveScrollback
  <2> QED
    BY <1>1, <1>2, <2>1, RedrawnQuiet
<1> QED
  BY <1>3, <1>4

LEMMA ReceiveScrollbackGap == ASSUME IInv, IInv', GapInv, ReceiveScrollback PROVE GapInv'
<1>1. /\ Take("scrollback")
      /\ UNCHANGED <<ptyVars, up, hub, lagged, starts, phase, attach, boundVars>>
  BY DEF ReceiveScrollback
<1>2. PICK r : r = Head(wire).read
  OBVIOUS
<1>3. CASE /\ r.id = conn.replay /\ Matches(conn, r.launch) /\ ~r.blank
  <2>1. /\ view' = Append(IF conn.clearScreen THEN <<>> ELSE view, ShownSnapshot(r))
        /\ conn' = [conn EXCEPT !.lastSequence = r.seq, !.replaying = FALSE, !.releasing = TRUE]
        /\ UNCHANGED reads
    BY <1>2, <1>3 DEF ReceiveScrollback
  <2> QED
    BY <1>1, <1>2, <1>3, <2>1, DrawGap
<1>4. CASE ~(r.id = conn.replay /\ Matches(conn, r.launch) /\ ~r.blank)
  <2>1. Quiet /\ UNCHANGED view
    BY <1>2, <1>4, UndrawnIsQuiet
  <2> QED
    BY <1>1, <2>1, QuietOnPath DEF boundVars
<1> QED
  BY <1>3, <1>4

(* The chunk at the head of the wire comes before all that is behind it, and  *)
(* what is lost before it has been announced.                                 *)
LEMMA OutputTaken ==
    ASSUME IInv, PathInv, Take("output"), UNCHANGED <<published, up, hub, lagged, missed>>,
           NEW e, e = Head(wire).event,
           \/ conn'.buffered = conn.buffered
           \/ conn'.buffered = Append(conn.buffered, e)
    PROVE  /\ PathInv' /\ e \in Events /\ Published(e)
           /\ \/ Held' = Held /\ conn'.buffered = conn.buffered
              \/ Held' = Held \cup {e}
           /\ OnTheWay = OnTheWay' \cup {e}
           /\ \A x \in OnTheWay' \cup missed : Before({e}, {x})
<1> DEFINE t == Tail(wire)
<1>1. wire \in Seq(Frames) /\ wire # <<>> /\ wire' = t /\ up /\ up' = up /\ Head(wire) \in Frames
  BY Taken DEF IInv, TypeOK, NetTypeOK, Take
<1>2. Head(wire).kind = "output"
  BY DEF Take
<1>3. Carried(Head(wire)) = {e} /\ Output(Head(wire)) = {e} /\ e \in Events
  BY <1>1, <1>2, FrameTypes DEF Carried, Output
<1>4. PathOrdered /\ LossPending /\ PathPublished
  BY DEF PathInv
<1>5. /\ Sent = {e} \cup CarriedBy(t) /\ OutputOf(wire) = {e} \cup OutputOf(t)
      /\ FramesOrdered(t) /\ Before({e}, CarriedBy(t))
  BY <1>1, <1>3, <1>4, FramesTail DEF PathOrdered, Sent
<1> HIDE DEF t
<1>6. Sent' = CarriedBy(t) /\ OutputOf(wire') = OutputOf(t)
  BY <1>1 DEF Sent
<1>7. OnTheWay = Range(hub) \cup {e} \cup OutputOf(t) /\ OnTheWay' = Range(hub) \cup OutputOf(t)
      /\ OutputOf(t) \subseteq CarriedBy(t)
  <2>1. OnTheWay' = Range(hub') \cup OutputOf(wire')
    BY OnTheWayIs DEF OnTheWay, OutputOf, Output
  <2>2. OutputOf(t) \subseteq CarriedBy(t)
    BY DEF OutputOf, CarriedBy, Output, Carried
  <2> QED
    BY <1>5, <1>6, <2>1, <2>2, OnTheWayIs
<1>8. Before({e}, OnTheWay') /\ Before({e}, lagged)
  BY <1>4, <1>5, <1>7 DEF PathOrdered, Before
<1>9. e \notin missed /\ missed \subseteq lagged \cup {e} \cup CarriedBy(t)
  BY <1>1, <1>4, <1>5, <1>7 DEF LossPending
<1>10. Before({e}, missed)
  BY <1>5, <1>8, <1>9 DEF Before
<1>11. /\ conn.buffered \in Seq(Events) /\ Before(Held, {e})
       /\ EventsOrdered(conn.buffered)
  BY <1>4, <1>5, PathTypes DEF IInv, PathOrdered, Before
<1>12. /\ EventsOrdered(conn'.buffered)
       /\ \/ Held' = Held /\ conn'.buffered = conn.buffered
          \/ Held' = Held \cup {e}
  <2>1. CASE conn'.buffered = conn.buffered
    BY <1>11, <2>1 DEF Held
  <2>2. CASE conn'.buffered = Append(conn.buffered, e)
    <3>1. Range(conn'.buffered) = Range(conn.buffered) \cup {e}
      BY <1>3, <1>11, <2>2, RangeAppend
    <3>2. EventsOrdered(conn'.buffered)
      BY <1>3, <1>11, <2>2, EventsAppend DEF Held
    <3> QED
      BY <3>1, <3>2 DEF Held
  <2> QED
    BY <2>1, <2>2
<1>13. PathOrdered'
  <2>1. /\ Before(Held', Sent') /\ Before(Held', lagged) /\ Before(Held', Range(hub))
        /\ Before(Sent', lagged) /\ Before(Sent', Range(hub))
    BY <1>4, <1>5, <1>6, <1>7, <1>8, <1>12 DEF PathOrdered, Before
  <2> QED
    BY <1>1, <1>4, <1>5, <1>12, <2>1 DEF PathOrdered
<1>14. PathPublished' /\ Published(e)
  BY <1>4, <1>5, <1>6, <1>12 DEF PathPublished, Published
<1>15. LossPending'
  <2>1. Before(Held', missed) /\ OnTheWay' \cap missed = {}
    BY <1>4, <1>7, <1>10, <1>12 DEF LossPending, Before
  <2>2. missed \subseteq lagged \cup Sent'
    BY <1>6, <1>9
  <2> QED
    BY <2>1, <2>2 DEF LossPending
<1>16. \A x \in OnTheWay' \cup missed : Before({e}, {x})
  BY <1>8, <1>10 DEF Before
<1> QED
  BY <1>3, <1>7, <1>12, <1>13, <1>14, <1>15, <1>16 DEF PathInv

(* The chunk released first comes before all that is held, sent or lost. *)
LEMMA HeldTaken ==
    ASSUME IInv, PathInv, UNCHANGED <<published, up, hub, lagged, missed, wire>>,
           conn.buffered # <<>>, conn'.buffered = Tail(conn.buffered),
           NEW e, e = Head(conn.buffered)
    PROVE  /\ PathInv' /\ e \in Events /\ Published(e)
           /\ Held = Held' \cup {e} /\ OnTheWay' = OnTheWay
           /\ \A x \in Held' \cup OnTheWay \cup missed : Before({e}, {x})
<1> DEFINE t == Tail(conn.buffered)
<1>1. conn.buffered \in Seq(Events) /\ conn'.buffered = t
  BY PathTypes DEF IInv
<1>2. PathOrdered /\ LossPending /\ PathPublished
  BY DEF PathInv
<1>3. /\ e \in Events /\ Held = {e} \cup Range(t)
      /\ EventsOrdered(t) /\ Before({e}, Range(t))
  BY <1>1, <1>2, RangeSplit, EventsTail DEF PathOrdered, Held
<1> HIDE DEF t
<1>4. Held' = Range(t) /\ Sent' = Sent /\ OnTheWay' = OnTheWay
  BY <1>1 DEF Held, Sent, OnTheWay
<1>5. /\ Before(Held', Sent) /\ Before(Held', lagged) /\ Before(Held', Range(hub))
      /\ Before(Held', missed)
  BY <1>2, <1>3, <1>4 DEF PathOrdered, LossPending, Before
<1>6. PathOrdered'
  BY <1>1, <1>2, <1>3, <1>4, <1>5 DEF PathOrdered
<1>7. PathPublished' /\ Published(e)
  BY <1>2, <1>3, <1>4 DEF PathPublished, Published
<1>8. LossPending'
  BY <1>2, <1>4, <1>5 DEF LossPending
<1>9. \A x \in Held' \cup OnTheWay \cup missed : Before({e}, {x})
  <2>1. OnTheWay \subseteq Range(hub) \cup Sent
    BY OnTheWayIs
  <2> QED
    BY <1>2, <1>3, <1>4, <2>1 DEF PathOrdered, LossPending, Before
<1> QED
  BY <1>3, <1>4, <1>6, <1>7, <1>8, <1>9 DEF PathInv

(* When the first chunk of the path is gone, what was whole from it on still is. *)
LEMMA ChunkGone ==
    ASSUME IInv, GapInv, NEW e \in Held \cup OnTheWay,
           UNCHANGED <<published, missed, announced, ignored>>,
           Held \cup OnTheWay \subseteq (Held \cup OnTheWay)' \cup {e},
           \A x \in (Held \cup OnTheWay)' : x \in Held \cup OnTheWay /\ Before({e}, {x})
    PROVE  /\ PathWhole' /\ Whole(e.launch, e.seq)'
           /\ \A l, s : s \in Nat /\ Whole(l, s) /\ (l = e.launch => e.seq <= s) => Whole(l, s)'
<1>1. e \in Events /\ e.seq \in Nat /\ TypeOK /\ PathWhole /\ e.launch \in Launches
  BY PathTypes DEF IInv, GapInv
<1>2. Accounted \ {e} \subseteq Accounted'
  BY DEF Accounted
<1>3. PathWhole'
  <2> DEFINE D == {e}
  <2>1. D \in SUBSET Events /\ Accounted \ D \subseteq Accounted'
    BY <1>1, <1>2
  <2>2. \A x \in (Held \cup OnTheWay)' : x \in Held \cup OnTheWay /\ Before(D, {x})
    OBVIOUS
  <2> HIDE DEF D
  <2> QED
    BY <1>1, <2>1, <2>2, PathWholeWithout
<1>4. ASSUME NEW l, NEW s \in Nat, Whole(l, s), l = e.launch => e.seq <= s PROVE Whole(l, s)'
  <2>1. \A d \in {e} : d.launch = l => d.seq <= s /\ d.seq \in Nat
    BY <1>1, <1>4
  <2> QED
    BY <1>2, <1>4, <2>1, WholeWithout
<1>5. PICK l, s : l = e.launch /\ s = e.seq
  OBVIOUS
<1>6. Whole(l, s) /\ s \in Nat /\ e.seq <= s
  BY <1>1, <1>5 DEF PathWhole
<1>7. Whole(l, s)'
  BY <1>4, <1>6
<1> QED
  BY <1>3, <1>4, <1>5, <1>7

(* The first chunk of the path leaves nothing before it unaccounted for. *)
LEMMA NothingSkipped ==
    ASSUME IInv, NEW e \in Events, Published(e), NEW s \in Nat, Whole(e.launch, s),
           \A x \in Held \cup OnTheWay \cup missed : x = e \/ Before({e}, {x})
    PROVE  \A n \in s + 1 .. e.seq - 1 : Event(e.launch, n) \in announced \cup ignored
<1> SUFFICES ASSUME NEW n \in s + 1 .. e.seq - 1
             PROVE  Event(e.launch, n) \in announced \cup ignored
  OBVIOUS
<1>1. e.seq \in Nat /\ published[e.launch] \in Nat
  BY PathTypes DEF IInv
<1>2. n \in Nat /\ s < n /\ n <= published[e.launch] /\ n < e.seq
  BY <1>1 DEF Published
<1>3. Event(e.launch, n) \in Accounted
  BY <1>2 DEF Whole
<1>4. Event(e.launch, n).launch = e.launch /\ Event(e.launch, n).seq = n
  BY DEF Event
<1>5. Event(e.launch, n) \notin Held \cup OnTheWay \cup missed
  BY <1>1, <1>2, <1>4 DEF Before
<1> QED
  BY <1>3, <1>5 DEF Accounted

(* deliver() shows the first chunk of the path, or drops what was shown. *)
LEMMA DeliverGap ==
    ASSUME IInv, IInv', GapInv, PathInv', NEW e \in Held \cup OnTheWay, Published(e),
           UNCHANGED <<published, launches, attach, phase, missed, announced, ignored>>,
           Held \cup OnTheWay \subseteq (Held \cup OnTheWay)' \cup {e},
           \A x \in (Held \cup OnTheWay)' : x \in Held \cup OnTheWay /\ Before({e}, {x}),
           \A x \in missed : Before({e}, {x}),
           e.launch \in Started, RevisionOf(e.launch) = conn.rev,
           NEW c \in Connections, conn.open, c.open, c.rev = conn.rev, ~c.replaying,
           c.lastSequence = conn.lastSequence, Deliver(c, e)
    PROVE  GapInv'
<1>1. e \in Events /\ e.seq \in Nat /\ e.launch \in Launches
  BY PathTypes DEF IInv
<1>2. /\ PathWhole' /\ Whole(e.launch, e.seq)'
      /\ \A l, s : s \in Nat /\ Whole(l, s) /\ (l = e.launch => e.seq <= s) => Whole(l, s)'
  BY ChunkGone
<1>3. \A x \in Held \cup OnTheWay \cup missed : x = e \/ Before({e}, {x})
  OBVIOUS
<1>4. view # <<>> => /\ Newest.launch \in Launches /\ Newest.seq \in Nat
                     /\ Newest \in {view[i] : i \in 1..Len(view)}
  <2>1. view \in Seq(Shown)
    BY DEF IInv, TypeOK, ViewTypeOK
  <2>2. view # <<>> => Len(view) \in 1..Len(view) /\ view[Len(view)] \in Shown
    BY <2>1, LenProperties, EmptySeq
  <2> QED
    BY <2>2 DEF Shown, Newest
<1>5. CASE e.seq > c.lastSequence
  <2>1. /\ conn' = [c EXCEPT !.lastSequence = e.seq]
        /\ view' = Append(view, ShownChunk(e))
    BY <1>5 DEF Deliver
  <2>2. /\ conn'.rev = conn.rev /\ conn'.lastSequence = e.seq /\ ~conn'.replaying
    BY <2>1 DEF Connections
  <2>3. SnapshotsWhole'
    BY <2>2 DEF SnapshotsWhole, Drawable
  <2>4. PICK x : x = ShownChunk(e)
    OBVIOUS
  <2>5. /\ x \in Shown /\ x.kind = "chunk" /\ x.attach = attach /\ x.launch = e.launch
        /\ x.seq = e.seq
    BY <1>1, <2>4 DEF ShownChunk, Shown, IInv, TypeOK, ViewTypeOK
  <2>6. ASSUME view # <<>>, Newest.attach = x.attach, Newest.launch = x.launch
        PROVE  \A n \in Newest.seq + 1 .. x.seq - 1 : Event(x.launch, n) \in announced \cup ignored
    <3>1. Whole(e.launch, Newest.seq)
      BY <2>5, <2>6 DEF GapInv, ViewWhole, Mine
    <3> DEFINE s == Newest.seq
    <3>2. s \in Nat /\ Whole(e.launch, s)
      BY <1>4, <2>6, <3>1
    <3> HIDE DEF s
    <3>3. \A n \in s + 1 .. e.seq - 1 : Event(e.launch, n) \in announced \cup ignored
      BY <1>1, <1>3, <3>2, NothingSkipped
    <3> QED
      BY <2>5, <3>3 DEF s
  <2>7. x.launch \in Started /\ RevisionOf(x.launch) = conn.rev /\ Whole(x.launch, x.seq)'
    BY <1>2, <2>5
  <2>8. view' = Append(view, x)
    BY <2>1, <2>4
  <2> QED
    BY <1>2, <2>2, <2>3, <2>5, <2>6, <2>7, <2>8, ShownNext
<1>6. CASE ~(e.seq > c.lastSequence)
  <2>1. conn' = c /\ view' = view
    BY <1>6 DEF Deliver
  <2>2. SnapshotsWhole'
    BY <2>1 DEF SnapshotsWhole, Drawable
  <2>3. \A l : RevisionOf(l)' = RevisionOf(l)
    BY DEF RevisionOf
  <2>4. ViewWhole'
    <3> SUFFICES ASSUME (conn.open /\ view # <<>> /\ Mine(Newest)
                           /\ RevisionOf(Newest.launch) = conn.rev)'
                 PROVE  (Newest.seq = conn.lastSequence /\ Whole(Newest.launch, Newest.seq))'
      BY DEF ViewWhole
    <3>1. PICK y : y = Newest /\ y = Newest'
      BY <2>1 DEF Newest
    <3>2. view # <<>> /\ Mine(Newest) /\ RevisionOf(Newest.launch) = conn.rev
      BY <2>1, <2>3, <3>1 DEF Mine
    <3>3. y.seq = conn.lastSequence /\ Whole(y.launch, y.seq) /\ y.seq \in Nat
      BY <1>4, <3>1, <3>2 DEF GapInv, ViewWhole
    <3>4. e.seq <= y.seq
      BY <1>1, <1>6, <3>3
    <3>5. Whole(y.launch, y.seq)'
      BY <1>2, <3>3, <3>4
    <3> QED
      BY <2>1, <3>1, <3>3, <3>5
  <2>5. ViewPlausible'
    BY <2>1, <2>3 DEF GapInv, ViewPlausible, Mine, Started
  <2>6. NoSilentGap'
    BY <2>1 DEF GapInv, NoSilentGap, SameRun
  <2> QED
    BY <1>2, <2>2, <2>4, <2>5, <2>6 DEF GapInv
<1> QED
  BY <1>5, <1>6

(* A chunk of another launch than the one shown is dropped: nothing that is   *)
(* held, drawn or shown waits for it.                                         *)
LEMMA StrangerGap ==
    ASSUME IInv, IInv', GapInv, Take("output"), phase # "starting",
           UNCHANGED <<ptyVars, up, hub, lagged, reads, phase, attach, conn, view, missed,
                       announced, ignored>>,
           NEW e, e = Head(wire).event, ~conn.open \/ RevisionOf(e.launch) # conn.rev
    PROVE  GapInv'
<1>1. UNCHANGED <<published, launches>> /\ PathInv
  BY DEF ptyVars, GapInv
<1>2. /\ PathInv' /\ e \in Events
      /\ OnTheWay = OnTheWay' \cup {e}
      /\ \A x \in OnTheWay' \cup missed : Before({e}, {x})
  BY <1>1, OutputTaken
<1>3. Held' = Held
  BY DEF Held
<1>4. \A x \in Held : x.launch # e.launch
  <2>1. ~conn.open => Held = {}
    BY RangeEmpty DEF IInv, ConnectionSound, Closed, Held
  <2> QED
    BY <2>1 DEF IInv, HeldMatches, Held
<1>5. \A x \in (Held \cup OnTheWay)' : x \in Held \cup OnTheWay /\ Before({e}, {x})
  BY <1>2, <1>3, <1>4 DEF Before
<1>6. e \in Held \cup OnTheWay /\ Held \cup OnTheWay \subseteq (Held \cup OnTheWay)' \cup {e}
  BY <1>2, <1>3
<1>7. /\ PathWhole'
      /\ \A l, s : s \in Nat /\ Whole(l, s) /\ (l = e.launch => e.seq <= s) => Whole(l, s)'
  BY <1>1, <1>5, <1>6, ChunkGone
<1>8. Started' = Started /\ \A l : RevisionOf(l)' = RevisionOf(l)
  BY <1>1 DEF Started, RevisionOf
<1>9. SnapshotsWhole'
  <2> SUFFICES ASSUME NEW q \in Snapshots', Drawable(q)' PROVE Whole(q.launch, q.seq)'
    BY DEF SnapshotsWhole
  <2>1. q \in Snapshots
    <3>1. Range(wire') \subseteq Range(wire)
      BY Taken
    <3> QED
      BY <3>1 DEF Snapshots
  <2>2. Drawable(q) /\ RevisionOf(q.launch) = conn.rev /\ conn.open
    BY <1>8 DEF Drawable, IInv, ConnectionSound, Closed
  <2>3. PICK l, s : l = q.launch /\ s = q.seq
    OBVIOUS
  <2>4. Whole(l, s) /\ s \in Nat /\ l # e.launch
    BY <2>1, <2>2, <2>3, QueueTypes DEF GapInv, SnapshotsWhole, IInv
  <2> QED
    BY <1>7, <2>3, <2>4
<1>10. ViewWhole'
  <2> SUFFICES ASSUME (conn.open /\ view # <<>> /\ Mine(Newest)
                         /\ RevisionOf(Newest.launch) = conn.rev)'
               PROVE  (Newest.seq = conn.lastSequence /\ Whole(Newest.launch, Newest.seq))'
    BY DEF ViewWhole
  <2>1. PICK y : y = Newest /\ y = Newest'
    BY DEF Newest
  <2>2. conn.open /\ view # <<>> /\ Mine(Newest) /\ RevisionOf(y.launch) = conn.rev
    BY <1>8, <2>1 DEF Mine
  <2>3. y.seq = conn.lastSequence /\ Whole(y.launch, y.seq) /\ y.launch # e.launch
    BY <2>1, <2>2 DEF GapInv, ViewWhole
  <2>4. conn.lastSequence \in Nat
    BY DEF IInv, TypeOK, ViewTypeOK, Connections
  <2>5. PICK l, s : l = y.launch /\ s = y.seq
    OBVIOUS
  <2>6. Whole(l, s)'
    BY <1>7, <2>3, <2>4, <2>5
  <2> QED
    BY <2>1, <2>3, <2>5, <2>6
<1>11. ViewPlausible'
  BY <1>8 DEF GapInv, ViewPlausible, Mine
<1>12. NoSilentGap'
  BY DEF GapInv, NoSilentGap, SameRun
<1> QED
  BY <1>2, <1>7, <1>9, <1>10, <1>11, <1>12 DEF GapInv

LEMMA ReceiveOutputGap == ASSUME IInv, IInv', GapInv, ReceiveOutput PROVE GapInv'
<1>1. PICK e : e = Head(wire).event
  OBVIOUS
<1>2. /\ Take("output") /\ PathInv /\ conn \in Connections /\ ~conn.releasing
      /\ UNCHANGED <<ptyVars, up, hub, lagged, reads, phase, attach, missed, announced,
                     published, launches>>
  BY DEF ReceiveOutput, Take, Idle, callVars, ptyVars, GapInv, IInv, TypeOK, ViewTypeOK
<1>3. e.launch \in Started
  BY <1>1, <1>2, Taken DEF IInv, OutputReal, Real
<1>4. \A l : RevisionOf(l)' = RevisionOf(l)
  BY <1>2 DEF RevisionOf
<1>5. CASE ~conn.open \/ RevisionOf(e.launch) # conn.rev
  <2>1. UNCHANGED <<conn, view>>
    BY <1>1, <1>5 DEF ReceiveOutput, Matches
  <2>2. CASE phase # "starting"
    <3>1. ignored' = ignored
      BY <2>2 DEF ReceiveOutput
    <3> QED
      BY <1>1, <1>2, <1>5, <2>1, <2>2, <3>1, StrangerGap
  <2>3. CASE phase = "starting"
    <3>1. ignored' = ignored \cup {e}
      BY <1>1, <1>5, <2>3 DEF ReceiveOutput, Matches, IInv, ConnectionSound
    <3>2. /\ PathInv' /\ OnTheWay = OnTheWay' \cup {e} /\ Held' = Held
      <4>1. conn'.buffered = conn.buffered /\ Held' = Held
        BY <2>1 DEF Held
      <4> QED
        BY <1>1, <1>2, <4>1, OutputTaken
    <3>3. /\ Accounted \subseteq Accounted'
          /\ announced \cup ignored \subseteq (announced \cup ignored)'
      BY <1>2, <3>1, <3>2 DEF Accounted
    <3>4. Quiet
      BY <1>2, <2>1 DEF Quiet, SameRead
    <3>5. Range(wire') \subseteq Range(wire)
      BY <1>2, Taken
    <3> QED
      BY <1>2, <2>1, <3>2, <3>3, <3>4, <3>5, QuietGap
  <2> QED
    BY <2>2, <2>3
<1>6. CASE conn.open /\ RevisionOf(e.launch) = conn.rev /\ conn.replaying
  <2>1. conn' = [conn EXCEPT !.buffered = Append(conn.buffered, e)]
        /\ view' = view /\ ignored' = ignored
    BY <1>1, <1>6 DEF ReceiveOutput, Matches
  <2>2. /\ conn'.buffered = Append(conn.buffered, e) /\ conn'.open = conn.open
        /\ conn'.rev = conn.rev /\ conn'.lastSequence = conn.lastSequence
        /\ conn'.replaying = conn.replaying /\ conn'.replay = conn.replay
    BY <1>2, <2>1 DEF Connections
  <2>3. PathInv' /\ OnTheWay = OnTheWay' \cup {e} /\ Held' = Held \cup {e}
    <3>1. Held' = Held \cup {e}
      <4>1. e \in Events /\ conn.buffered \in Seq(Events)
        BY <1>1, <1>2, Taken, FrameTypes, PathTypes DEF IInv
      <4> QED
        BY <2>2, <4>1, RangeAppend DEF Held
    <3> QED
      BY <1>1, <1>2, <2>2, <3>1, OutputTaken
  <2>4. Accounted' = Accounted /\ (Held \cup OnTheWay)' \subseteq Held \cup OnTheWay
    BY <1>2, <2>1, <2>3 DEF Accounted
  <2>5. Started' = Started
    BY <1>2 DEF Started
  <2>6. \A q \in Snapshots' : Drawable(q)' => \E p \in Snapshots : SameRead(p, q) /\ Drawable(p)
    <3>1. Snapshots' \subseteq Snapshots
      <4>1. Range(wire') \subseteq Range(wire)
        BY <1>2, Taken
      <4> QED
        BY <1>2, <4>1 DEF Snapshots
    <3> QED
      BY <1>2, <1>4, <2>2, <3>1 DEF Drawable, SameRead
  <2> QED
    BY <1>2, <1>4, <2>1, <2>2, <2>3, <2>4, <2>5, <2>6, GapStands
<1>7. CASE conn.open /\ RevisionOf(e.launch) = conn.rev /\ ~conn.replaying
  <2>1. Deliver(conn, e) /\ ignored' = ignored
    BY <1>1, <1>7 DEF ReceiveOutput, Matches
  <2>2. conn'.buffered = conn.buffered
    BY <1>2, <2>1 DEF Deliver, Connections
  <2>3. Held = {} /\ Held' = {}
    <3>1. conn.buffered = <<>>
      BY <1>2, <1>7 DEF IInv, HeldOnlyWhileAwaited
    <3> QED
      BY <2>2, <3>1, RangeEmpty DEF Held
  <2>4. /\ PathInv' /\ e \in Events /\ Published(e)
        /\ OnTheWay = OnTheWay' \cup {e}
        /\ \A x \in OnTheWay' \cup missed : Before({e}, {x})
    BY <1>1, <1>2, <2>2, OutputTaken
  <2>5. /\ e \in Held \cup OnTheWay
        /\ Held \cup OnTheWay \subseteq (Held \cup OnTheWay)' \cup {e}
        /\ \A x \in (Held \cup OnTheWay)' : x \in Held \cup OnTheWay /\ Before({e}, {x})
    BY <2>3, <2>4
  <2> QED
    BY <1>2, <1>3, <1>7, <2>1, <2>4, <2>5, DeliverGap
<1> QED
  BY <1>5, <1>6, <1>7

LEMMA ReleaseHeldGap == ASSUME IInv, IInv', GapInv, ReleaseHeld PROVE GapInv'
<1>1. PICK e : e = Head(conn.buffered)
  OBVIOUS
<1>2. PICK c : c = [conn EXCEPT !.buffered = Tail(@)]
  OBVIOUS
<1>3. /\ UNCHANGED <<published, launches, up, hub, lagged, wire, phase, attach, missed, announced,
                     ignored>>
      /\ conn.releasing /\ conn.buffered # <<>> /\ Deliver(c, e) /\ conn \in Connections
      /\ PathInv /\ conn.buffered \in Seq(Events)
  BY <1>1, <1>2 DEF ReleaseHeld, ptyVars, netVars, boundVars, IInv, TypeOK, ViewTypeOK, GapInv,
     Connections
<1>4. ~conn.replaying /\ conn.open
  BY <1>3 DEF IInv, ConnectionSound, Closed
<1>5. /\ c \in Connections /\ c.open = conn.open /\ c.rev = conn.rev /\ ~c.replaying
      /\ c.lastSequence = conn.lastSequence /\ c.buffered = Tail(conn.buffered)
  <2>1. Tail(conn.buffered) \in Seq(Events)
    BY <1>3, RangeTail
  <2> QED
    BY <1>2, <1>3, <1>4, <2>1 DEF Connections
<1>6. conn'.buffered = Tail(conn.buffered)
  BY <1>3, <1>5 DEF Deliver, Connections
<1>7. /\ PathInv' /\ e \in Events /\ Published(e)
      /\ Held = Held' \cup {e} /\ OnTheWay' = OnTheWay
      /\ \A x \in Held' \cup OnTheWay \cup missed : Before({e}, {x})
  BY <1>1, <1>3, <1>6, HeldTaken
<1>8. e.launch \in Started /\ RevisionOf(e.launch) = conn.rev
  BY <1>7 DEF IInv, OutputReal, HeldMatches, Real, Held
<1>9. /\ e \in Held \cup OnTheWay
      /\ Held \cup OnTheWay \subseteq (Held \cup OnTheWay)' \cup {e}
      /\ \A x \in (Held \cup OnTheWay)' : x \in Held \cup OnTheWay /\ Before({e}, {x})
  BY <1>7
<1>10. c.open
  BY <1>4, <1>5
<1> QED
  BY <1>3, <1>4, <1>5, <1>7, <1>8, <1>9, <1>10, DeliverGap

-----------------------------------------------------------------------------
(* The invariant of the path and the view, for every client. *)

LEMMA InitGap == Init => GapInv
<1> SUFFICES ASSUME Init PROVE GapInv
  OBVIOUS
<1>1. /\ hub = <<>> /\ wire = <<>> /\ conn = Closed /\ view = <<>> /\ lagged = {} /\ missed = {}
      /\ reads = {} /\ up
  BY DEF Init
<1>2. conn.buffered = <<>> /\ ~conn.open /\ ~conn.replaying
  BY <1>1 DEF Closed
<1>3. Held = {} /\ Sent = {} /\ Range(hub) = {} /\ OutputOf(wire) = {} /\ OnTheWay = {}
  <2>1. Held = {} /\ Range(hub) = {} /\ Range(wire) = {}
    BY <1>1, <1>2, RangeEmpty DEF Held
  <2> QED
    BY <2>1, OnTheWayIs DEF Sent, CarriedBy, OutputOf
<1>4. PathOrdered
  BY <1>1, <1>2, <1>3 DEF PathOrdered, Before, EventsOrdered, FramesOrdered
<1>5. PathPublished /\ LossPending /\ PathWhole
  BY <1>1, <1>3 DEF PathPublished, LossPending, PathWhole, Before
<1>6. SnapshotsWhole /\ ViewWhole /\ ViewPlausible /\ NoSilentGap
  BY <1>1, <1>2 DEF SnapshotsWhole, Drawable, ViewWhole, ViewPlausible, NoSilentGap
<1> QED
  BY <1>4, <1>5, <1>6 DEF GapInv, PathInv

LEMMA StutterGap == ASSUME IInv, IInv', GapInv, UNCHANGED vars PROVE GapInv'
<1>1. UNCHANGED <<ptyVars, up, hub, lagged, missed, announced, ignored, view, attach, wire, conn,
                  phase, reads>>
  BY DEF vars, netVars, callVars, viewVars, boundVars
<1>2. Quiet
  BY <1>1 DEF Quiet, SameRead
<1> QED
  BY <1>1, <1>2, QuietOnPath

LEMMA StepGap == ASSUME IInv, IInv', GapInv, [Next]_vars PROVE GapInv'
<1>1. CASE ServerStep
  BY <1>1, PublishGap, HandleStartGap, TakeSnapshotGap, SendResultGap, ForwardEventGap
  DEF ServerStep
<1>2. CASE ClientStep
  BY <1>2, ReceiveOutputGap, ReceiveResyncGap, ReceiveScrollbackGap, ReceiveStartedGap,
     ReceiveStartFailedGap, ReleaseHeldGap, FinishReplayGap, ReplayInitialGap, ReconnectGap
  DEF ClientStep
<1>3. CASE Environment
  <2>1. ASSUME NEW r \in Revisions, Mount(r) \/ Retry(r) PROVE GapInv'
    BY <2>1, ConnectGap DEF Mount, Retry
  <2> QED
    BY <1>3, <2>1, PushGap, OwnerLaunchGap, CloseGap, UnmountGap, RedrawGap, ReplayTimeoutGap,
       DisconnectGap
    DEF Environment
<1> QED
  BY <1>1, <1>2, <1>3, StutterGap DEF Next

(* Whatever the ring drops, the link loses and the redraws cover, a view      *)
(* never shows a chunk after a gap the browser was not told of, except for    *)
(* output discarded before start() named the launch (broadcast hub, the       *)
(* Lagged branch of handle_connection, deliver, replayOnce, replaySignals).   *)
THEOREM NoGapIsSilent == Spec => []NoSilentGap
<1>1. Init => IInv /\ GapInv
  BY InitInv, InitGap
<1>2. (IInv /\ GapInv) /\ [Next]_vars => (IInv /\ GapInv)'
  BY StepInv, StepGap
<1>3. IInv /\ GapInv => NoSilentGap
  BY DEF GapInv
<1> QED
  BY <1>1, <1>2, <1>3, PTL DEF Spec

-----------------------------------------------------------------------------
(* For a viewer: what is shown is in order. *)

(* What a queue brings and names after one more frame. *)
LEMMA NamedAppend ==
    ASSUME NEW s \in Seq(Frames), NEW f \in Frames
    PROVE  /\ NamedBy(Append(s, f)) = NamedBy(s) \cup Names(f)
           /\ NamedInOrder(s) /\ UpTo(BroughtBy(s), Names(f)) => NamedInOrder(Append(s, f))
<1> DEFINE t == Append(s, f)
<1>1. /\ Len(t) = Len(s) + 1 /\ Len(s) \in Nat
      /\ \A i \in 1..Len(s) : t[i] = s[i] /\ s[i] \in Range(s)
      /\ t[Len(s) + 1] = f
  BY AppendProperties, LenProperties DEF Range
<1>2. Range(t) = Range(s) \cup {f}
  BY RangeAppend
<1> HIDE DEF t
<1>3. NamedBy(t) = NamedBy(s) \cup Names(f)
  BY <1>2 DEF NamedBy
<1>4. ASSUME NamedInOrder(s), UpTo(BroughtBy(s), Names(f)),
             NEW i \in 1..Len(t), NEW j \in 1..Len(t), i < j
      PROVE  UpTo(Brings(t[i]), Names(t[j]))
  <2>1. i \in 1..Len(s)
    BY <1>1, <1>4
  <2>2. CASE j \in 1..Len(s)
    BY <1>1, <1>4, <2>1, <2>2 DEF NamedInOrder
  <2>3. CASE j = Len(s) + 1
    <3>1. Brings(t[i]) \subseteq BroughtBy(s)
      BY <1>1, <2>1 DEF BroughtBy
    <3> QED
      BY <1>1, <1>4, <2>3, <3>1 DEF UpTo
  <2> QED
    BY <1>1, <2>2, <2>3
<1> QED
  BY <1>3, <1>4 DEF NamedInOrder, t

(* What a queue brings and names besides its head. *)
LEMMA NamedTail ==
    ASSUME NEW s \in Seq(Frames), s # <<>>, NamedInOrder(s)
    PROVE  /\ NamedInOrder(Tail(s)) /\ NamedBy(Tail(s)) \subseteq NamedBy(s)
           /\ UpTo(Brings(Head(s)), NamedBy(Tail(s)))
<1> DEFINE t == Tail(s)
<1>1. /\ Len(t) = Len(s) - 1 /\ Len(s) \in Nat \ {0}
      /\ \A i \in 1..Len(t) : t[i] = s[i + 1]
      /\ DOMAIN t = 1..Len(t) /\ Head(s) = s[1]
  BY HeadTailProperties, LenProperties, EmptySeq
<1>2. Range(t) \subseteq Range(s)
  BY RangeTail
<1> HIDE DEF t
<1>3. NamedBy(t) \subseteq NamedBy(s)
  BY <1>2 DEF NamedBy
<1>4. ASSUME NEW i \in 1..Len(t), NEW j \in 1..Len(t), i < j
      PROVE  UpTo(Brings(t[i]), Names(t[j]))
  <2>1. i + 1 \in 1..Len(s) /\ j + 1 \in 1..Len(s) /\ i + 1 < j + 1
    BY <1>1, <1>4
  <2> QED
    BY <1>1, <2>1 DEF NamedInOrder
<1>5. ASSUME NEW j \in 1..Len(t) PROVE UpTo(Brings(Head(s)), Names(t[j]))
  <2>1. 1 \in 1..Len(s) /\ j + 1 \in 1..Len(s) /\ 1 < j + 1
    BY <1>1, <1>5
  <2> QED
    BY <1>1, <2>1 DEF NamedInOrder
<1>6. UpTo(Brings(Head(s)), NamedBy(t))
  BY <1>1, <1>5 DEF UpTo, NamedBy, Range
<1> QED
  BY <1>3, <1>4, <1>6 DEF NamedInOrder, t

(* The wire through the steps: nothing happens to it, or it is gone. *)
LEMMA NamedStays ==
    ASSUME NamedLast, Seen' \subseteq Seen, wire' = wire \/ wire' = <<>>
    PROVE  NamedLast'
<1>1. CASE wire' = wire
  BY <1>1 DEF NamedLast, UpTo
<1>2. CASE wire' = <<>>
  <2>1. Range(wire') = {} /\ Len(wire') = 0
    BY <1>2, RangeEmpty
  <2> QED
    BY <2>1 DEF NamedLast, UpTo, NamedInOrder, NamedBy
<1> QED
  BY <1>1, <1>2

(* What the head of the wire brings may be seen from now on. *)
LEMMA NamedTaken ==
    ASSUME IInv, NamedLast, NEW kind, Take(kind), Seen' \subseteq Seen \cup Brings(Head(wire))
    PROVE  NamedLast'
<1>1. wire \in Seq(Frames) /\ wire # <<>> /\ wire' = Tail(wire)
  BY DEF IInv, TypeOK, NetTypeOK, Take
<1>2. /\ NamedInOrder(wire') /\ NamedBy(wire') \subseteq NamedBy(wire)
      /\ UpTo(Brings(Head(wire)), NamedBy(wire'))
  BY <1>1, NamedTail DEF NamedLast
<1>3. UpTo(Seen', NamedBy(wire'))
  BY <1>2 DEF NamedLast, UpTo
<1> QED
  BY <1>2, <1>3 DEF NamedLast, NamedBy, Names

(* The newest launch is named, or none is. *)
LEMMA NamedQueued ==
    ASSUME IInv, GapInv, NamedLast, NEW f \in Frames, wire' = Append(wire, f),
           Seen' \subseteq Seen, Names(f) \subseteq {Len(launches)}
    PROVE  NamedLast'
<1>1. wire \in Seq(Frames) /\ Len(launches) \in Nat
  BY PtyTypes DEF IInv, TypeOK, NetTypeOK
<1>2. BroughtBy(wire) \subseteq Started \cup {None}
  <2>1. \A g \in Range(wire) : g.kind = "scrollback" => g.read \in Snapshots
    BY DEF Snapshots
  <2> QED
    BY <2>1 DEF BroughtBy, Brings, IInv, OutputReal, SnapshotsReal, Real
<1>3. Seen \subseteq Started
  BY DEF Seen, GapInv, ViewPlausible, IInv, OutputReal, Real, Held
<1>4. UpTo(BroughtBy(wire), Names(f)) /\ UpTo(Seen, Names(f))
  BY <1>1, <1>2, <1>3 DEF UpTo, Started, None
<1>5. NamedInOrder(wire') /\ NamedBy(wire') = NamedBy(wire) \cup Names(f)
  BY <1>1, <1>4, NamedAppend DEF NamedLast
<1>6. UpTo(Seen', NamedBy(wire'))
  BY <1>4, <1>5 DEF NamedLast, UpTo
<1> QED
  BY <1>5, <1>6 DEF NamedLast, NamedBy, Names

(* A step that shows nothing and leaves the connection where it is. *)
LEMMA OrderStands ==
    ASSUME IInv, GapInv, OrderInv, LaunchesOrdered', NamedLast', UNCHANGED <<view, attach>>,
           \A l \in Started : RevisionOf(l)' = RevisionOf(l),
           conn'.open => /\ conn.open /\ conn'.rev = conn.rev
                         /\ conn'.lastSequence = conn.lastSequence
    PROVE  OrderInv'
<1>1. \A i \in 1..Len(view) : view[i].launch \in Started
  BY DEF GapInv, ViewPlausible
<1>2. ShownBefore'
  BY <1>1 DEF OrderInv, ShownBefore, Mine
<1>3. ChunksInOrder'
  BY DEF OrderInv, ChunksInOrder, SameRun
<1> QED
  BY <1>2, <1>3 DEF OrderInv

(* The usual case: nothing is launched. *)
LEMMA OrderRests ==
    ASSUME IInv, GapInv, OrderInv, NamedLast', UNCHANGED <<ptyVars, view, attach>>,
           conn'.open => /\ conn.open /\ conn'.rev = conn.rev
                         /\ conn'.lastSequence = conn.lastSequence
    PROVE  OrderInv'
<1>1. UNCHANGED <<launches, session>>
  BY DEF ptyVars
<1>2. LaunchesOrdered'
  BY <1>1 DEF OrderInv, LaunchesOrdered, Started
<1>3. \A l \in Started : RevisionOf(l)' = RevisionOf(l)
  BY <1>1 DEF RevisionOf
<1> QED
  BY <1>2, <1>3, OrderStands

(* x is shown after everything the connection has shown so far. *)
LEMMA OrderShows ==
    ASSUME IInv, IInv', GapInv, OrderInv, ReadOnly, NamedLast',
           UNCHANGED <<ptyVars, attach>>, conn.open,
           conn'.rev = conn.rev, conn.lastSequence <= conn'.lastSequence,
           NEW x \in Shown, x.attach = attach, x.launch \in Started,
           RevisionOf(x.launch) = conn.rev, x.seq = conn'.lastSequence,
           x.kind = "chunk" => conn.lastSequence < x.seq,
           view' = Append(view, x) \/ view' = Append(<<>>, x)
    PROVE  OrderInv'
<1>1. view \in Seq(Shown) /\ <<>> \in Seq(Shown)
  BY RangeEmpty DEF IInv, TypeOK, ViewTypeOK
<1>2. PICK old \in {view, <<>>} : view' = Append(old, x)
  OBVIOUS
<1>3. old \in Seq(Shown) /\ Len(old) \in Nat /\ Len(view) \in Nat
  BY <1>1, <1>2, LenProperties
<1>4. /\ Len(view') = Len(old) + 1 /\ DOMAIN view' = 1..Len(old) + 1
      /\ \A i \in 1..Len(old) : view'[i] = old[i]
      /\ view'[Len(old) + 1] = x
  <2>1. view' \in Seq(Shown)
    BY DEF IInv, TypeOK, ViewTypeOK
  <2> QED
    BY <1>2, <1>3, <2>1, AppendProperties, LenProperties
<1>5. old = view \/ Len(old) = 0
  BY <1>2
<1>6. UNCHANGED <<launches, session>> /\ \A l : RevisionOf(l)' = RevisionOf(l)
  BY DEF ptyVars, RevisionOf
<1>7. LaunchesOrdered'
  BY <1>6 DEF OrderInv, LaunchesOrdered, Started
<1>8. /\ conn.rev \in Nat /\ conn.lastSequence \in Nat /\ conn'.lastSequence \in Nat
      /\ \A l \in Started : RevisionOf(l) \in Nat /\ l \in Nat
  <2>1. \A l \in Started : RevisionOf(l) = launches[l] /\ l \in Nat
    BY DEF RevisionOf, Started, None
  <2> QED
    BY <2>1, PtyTypes, TerminalStreamAssumption DEF IInv, TypeOK, ViewTypeOK, Connections
<1>9. \A i \in 1..Len(view) : view[i].launch \in Started /\ view[i].seq \in Nat
  <2>1. \A i \in 1..Len(view) : view[i] \in Shown
    BY <1>1, LenProperties
  <2> QED
    BY <2>1 DEF GapInv, ViewPlausible, Shown
<1>10. ShownBefore'
  <2>1. ASSUME NEW i \in 1..Len(view'), NEW y, y = view'[i], Mine(y)
        PROVE  /\ RevisionOf(y.launch) <= conn.rev
               /\ RevisionOf(y.launch) = conn.rev => y.seq <= conn'.lastSequence
    <3>1. CASE i = Len(old) + 1
      BY <1>4, <1>8, <2>1, <3>1
    <3>2. CASE i # Len(old) + 1
      <4>1. i \in 1..Len(view) /\ y = view[i]
        BY <1>3, <1>4, <1>5, <2>1, <3>2
      <4>2. /\ RevisionOf(y.launch) <= conn.rev
            /\ RevisionOf(y.launch) = conn.rev => y.seq <= conn.lastSequence
        BY <2>1, <4>1 DEF OrderInv, ShownBefore
      <4> QED
        BY <1>8, <1>9, <4>1, <4>2
    <3> QED
      BY <3>1, <3>2
  <2> QED
    BY <1>6, <2>1 DEF ShownBefore, Mine
<1>11. ASSUME NEW i \in 1..Len(view), view[i].attach = attach
       PROVE  \/ view[i].launch < x.launch
              \/ view[i].launch = x.launch /\ (x.kind = "chunk" => view[i].seq < x.seq)
  <2>1. /\ RevisionOf(view[i].launch) <= conn.rev
        /\ RevisionOf(view[i].launch) = conn.rev => view[i].seq <= conn.lastSequence
    BY <1>11 DEF OrderInv, ShownBefore, Mine
  <2>2. view[i].launch \in Started /\ view[i].seq \in Nat
    BY <1>9
  <2>3. CASE RevisionOf(view[i].launch) = conn.rev
    <3>1. view[i].launch = x.launch
      BY <2>2, <2>3 DEF IInv, ViewerInv, FreshRevisions, RevisionOf, Started, None
    <3> QED
      BY <1>8, <2>1, <2>2, <2>3, <3>1
  <2>4. CASE RevisionOf(view[i].launch) < conn.rev
    <3>1. launches[view[i].launch] < launches[x.launch]
      BY <2>2, <2>4 DEF RevisionOf, Started, None
    <3>2. ~(x.launch < view[i].launch) /\ x.launch # view[i].launch
      <4>1. launches[view[i].launch] \in Nat /\ launches[x.launch] \in Nat
        BY <2>2, PtyTypes, TerminalStreamAssumption DEF IInv, TypeOK
      <4> QED
        BY <2>2, <3>1, <4>1 DEF OrderInv, LaunchesOrdered
    <3> QED
      BY <1>8, <2>2, <3>2
  <2> QED
    BY <1>8, <2>1, <2>2, <2>3, <2>4
<1>12. ChunksInOrder'
  <2> SUFFICES ASSUME NEW i \in DOMAIN view', NEW j \in DOMAIN view', i < j,
                      view'[i].attach = view'[j].attach
               PROVE  \/ view'[i].launch < view'[j].launch
                      \/ SameRun(i, j)' /\ (view'[j].kind = "chunk" => view'[i].seq < view'[j].seq)
    BY DEF ChunksInOrder
  <2>1. i \in 1..Len(old) /\ view'[i] = old[i] /\ old = view /\ DOMAIN view = 1..Len(view)
    BY <1>1, <1>3, <1>4, <1>5, LenProperties
  <2>2. CASE j = Len(old) + 1
    <3>1. view'[j] = x
      BY <1>4, <2>2
    <3> QED
      BY <1>11, <2>1, <3>1 DEF SameRun
  <2>3. CASE j # Len(old) + 1
    <3>1. j \in 1..Len(view) /\ view'[j] = view[j] /\ view'[i] = view[i]
      BY <1>3, <1>4, <2>1, <2>3
    <3>2. \/ view[i].launch < view[j].launch
          \/ SameRun(i, j) /\ (view[j].kind = "chunk" => view[i].seq < view[j].seq)
      BY <2>1, <3>1 DEF OrderInv, ChunksInOrder
    <3> QED
      BY <3>1, <3>2 DEF SameRun
  <2> QED
    BY <2>2, <2>3
<1> QED
  BY <1>7, <1>10, <1>12 DEF OrderInv

(* What the backend does leaves what is seen as it is. *)
LEMMA SeenStands ==
    ASSUME UNCHANGED view, conn'.buffered = conn.buffered
    PROVE  Seen' = Seen
  BY DEF Seen, Held

(* The backend names no launch on the wire but the newest. *)
LEMMA ServerOrder ==
    ASSUME IInv, IInv', GapInv, OrderInv, UNCHANGED <<ptyVars, viewVars>>,
           \/ wire' = wire
           \/ \E f \in Frames : wire' = Append(wire, f) /\ Names(f) \subseteq {Len(launches)}
    PROVE  OrderInv'
<1>1. UNCHANGED <<view, attach, conn>> /\ NamedLast
  BY DEF viewVars, OrderInv
<1>2. Seen' = Seen
  BY <1>1, SeenStands
<1>3. NamedLast'
  BY <1>1, <1>2, NamedStays, NamedQueued
<1> QED
  BY <1>1, <1>3, OrderRests

LEMMA PushOrder == ASSUME IInv, IInv', GapInv, OrderInv, NEW l \in Started, Push(l) PROVE OrderInv'
<1>1. UNCHANGED <<launches, session, wire, view, attach, conn>> /\ NamedLast
  BY DEF Push, netVars, viewVars, OrderInv
<1>2. NamedLast'
  BY <1>1, SeenStands, NamedStays
<1>3. LaunchesOrdered' /\ \A m \in Started : RevisionOf(m)' = RevisionOf(m)
  BY <1>1 DEF OrderInv, LaunchesOrdered, Started, RevisionOf
<1> QED
  BY <1>1, <1>2, <1>3, OrderStands

LEMMA PublishOrder ==
    ASSUME IInv, IInv', GapInv, OrderInv, NEW l \in Started, Publish(l) PROVE OrderInv'
<1>1. UNCHANGED <<launches, session, wire, view, attach, conn>> /\ NamedLast
  BY DEF Publish, viewVars, OrderInv
<1>2. NamedLast'
  BY <1>1, SeenStands, NamedStays
<1>3. LaunchesOrdered' /\ \A m \in Started : RevisionOf(m)' = RevisionOf(m)
  BY <1>1 DEF OrderInv, LaunchesOrdered, Started, RevisionOf
<1> QED
  BY <1>1, <1>2, <1>3, OrderStands

LEMMA CloseOrder == ASSUME IInv, IInv', GapInv, OrderInv, CloseTerminal PROVE OrderInv'
<1>1. UNCHANGED <<launches, wire, view, attach, conn>> /\ session' = None /\ NamedLast
  BY DEF CloseTerminal, netVars, viewVars, OrderInv
<1>2. NamedLast'
  BY <1>1, SeenStands, NamedStays
<1>3. LaunchesOrdered' /\ \A m \in Started : RevisionOf(m)' = RevisionOf(m)
  BY <1>1 DEF OrderInv, LaunchesOrdered, Started, RevisionOf
<1> QED
  BY <1>1, <1>2, <1>3, OrderStands

(* The owner's launch is the newest, with the latest revision. *)
LEMMA OwnerLaunchOrder ==
    ASSUME IInv, IInv', GapInv, OrderInv, NEW r \in Revisions, OwnerLaunch(r) PROVE OrderInv'
<1>1. UNCHANGED <<wire, view, attach, conn>> /\ NamedLast
  BY DEF OwnerLaunch, netVars, viewVars, OrderInv
<1>2. NamedLast'
  BY <1>1, SeenStands, NamedStays
<1>3. /\ Len(launches') = Len(launches) + 1 /\ session' = Len(launches')
      /\ \A l \in Started : launches'[l] = launches[l]
      /\ launches'[Len(launches')] = r
      /\ Started' = Started \cup {Len(launches')}
      /\ Len(launches) \in Nat
  BY LaunchGrows, PtyTypes DEF OwnerLaunch, IInv, TypeOK
<1>4. \A l \in Started : launches[l] < r /\ l < Len(launches')
  BY <1>3 DEF OwnerLaunch, Started
<1>5. LaunchesOrdered'
  <2>1. ASSUME NEW l \in Started', NEW m \in Started', l < m PROVE launches'[l] < launches'[m]
    <3>1. l \in Started
      BY <1>3, <1>4, <2>1 DEF Started
    <3>2. CASE m \in Started
      BY <1>3, <2>1, <3>1, <3>2 DEF OrderInv, LaunchesOrdered
    <3>3. CASE m = Len(launches')
      BY <1>3, <1>4, <3>1, <3>3
    <3> QED
      BY <1>3, <3>2, <3>3
  <2> QED
    BY <1>3, <2>1 DEF LaunchesOrdered
<1>6. \A l \in Started : RevisionOf(l)' = RevisionOf(l)
  BY <1>3 DEF RevisionOf
<1> QED
  BY <1>1, <1>2, <1>5, <1>6, OrderStands

(* A viewer's call is told the launch that runs, which is the newest. *)
LEMMA HandleStartOrder ==
    ASSUME IInv, IInv', GapInv, OrderInv, ReadOnly, NEW c \in starts, HandleStart(c)
    PROVE  OrderInv'
<1>1. UNCHANGED <<ptyVars, viewVars>> /\ c.attach \in Nat
  BY DEF HandleStart, IInv, TypeOK, NetTypeOK, Starts
<1>2. PICK f : wire' = Append(wire, f) /\ Names(f) \subseteq {Len(launches)}
  <2>1. CASE session # None /\ wire' = Append(wire, StartedFrame(c.attach, session))
    <3>1. Names(StartedFrame(c.attach, session)) = {session}
      BY DEF Names, StartedFrame
    <3> QED
      BY <2>1, <3>1 DEF OrderInv, LaunchesOrdered
  <2>2. CASE wire' = Append(wire, FailedFrame(c.attach))
    <3>1. Names(FailedFrame(c.attach)) = {}
      BY DEF Names, FailedFrame
    <3> QED
      BY <2>2, <3>1
  <2> QED
    BY <2>1, <2>2 DEF HandleStart
<1>3. f \in Frames
  <2>1. wire' \in Seq(Frames) /\ wire \in Seq(Frames)
    BY DEF IInv, TypeOK, NetTypeOK
  <2>2. wire'[Len(wire) + 1] = f /\ Len(wire') = Len(wire) + 1 /\ Len(wire) \in Nat
    BY <1>2, <2>1, LenProperties
  <2> QED
    BY <2>1, <2>2
<1> QED
  BY <1>1, <1>2, <1>3, ServerOrder

LEMMA TakeSnapshotOrder ==
    ASSUME IInv, IInv', GapInv, OrderInv, NEW q \in reads, TakeSnapshot(q) PROVE OrderInv'
  BY ServerOrder DEF TakeSnapshot, netVars

LEMMA SendResultOrder ==
    ASSUME IInv, IInv', GapInv, OrderInv, NEW q \in reads, SendResult(q) PROVE OrderInv'
<1>1. PICK f : f = ScrollbackFrame(q)
  OBVIOUS
<1>2. f \in Frames /\ Names(f) = {}
  BY <1>1 DEF ScrollbackFrame, Frames, Names, IInv, TypeOK, NetTypeOK
<1> QED
  BY <1>1, <1>2, ServerOrder DEF SendResult

LEMMA ForwardEventOrder == ASSUME IInv, IInv', GapInv, OrderInv, ForwardEvent PROVE OrderInv'
<1>1. PICK f : wire' = Append(wire, f) /\ f.kind \in {"output", "resync"}
  BY DEF ForwardEvent, OutputFrame, ResyncFrame
<1>2. f \in Frames
  <2>1. wire' \in Seq(Frames) /\ wire \in Seq(Frames)
    BY DEF IInv, TypeOK, NetTypeOK
  <2>2. wire'[Len(wire) + 1] = f /\ Len(wire') = Len(wire) + 1 /\ Len(wire) \in Nat
    BY <1>1, <2>1, LenProperties
  <2> QED
    BY <2>1, <2>2
<1>3. Names(f) = {}
  BY <1>1 DEF Names
<1> QED
  BY <1>1, <1>2, <1>3, ServerOrder DEF ForwardEvent

(* A quiet step of the browser or the bridge. *)
LEMMA QuietOrder ==
    ASSUME IInv, IInv', GapInv, OrderInv, Quiet, UNCHANGED <<ptyVars, view, attach>>,
           \/ wire' = wire \/ wire' = <<>>
           \/ \E kind \in {"resync", "scrollback", "started", "startFailed"} : Take(kind)
    PROVE  OrderInv'
<1>1. Seen' = Seen /\ NamedLast
  BY SeenStands DEF Quiet, OrderInv
<1>2. NamedLast'
  BY <1>1, NamedStays, NamedTaken
<1> QED
  BY <1>2, OrderRests DEF Quiet

LEMMA RedrawOrder == ASSUME IInv, IInv', GapInv, OrderInv, Redraw PROVE OrderInv'
  BY RedrawIsQuiet, QuietOrder DEF Redraw, netVars

LEMMA ReplayInitialOrder == ASSUME IInv, IInv', GapInv, OrderInv, ReplayInitial PROVE OrderInv'
  BY ReplayInitialIsQuiet, QuietOrder DEF ReplayInitial, netVars

LEMMA ReceiveStartFailedOrder ==
    ASSUME IInv, IInv', GapInv, OrderInv, ReceiveStartFailed PROVE OrderInv'
  BY ReceiveStartFailedIsQuiet, QuietOrder DEF ReceiveStartFailed

LEMMA ReplayTimeoutOrder == ASSUME IInv, IInv', GapInv, OrderInv, ReplayTimeout PROVE OrderInv'
  BY ReplayTimeoutIsQuiet, QuietOrder DEF ReplayTimeout, netVars

LEMMA FinishReplayOrder == ASSUME IInv, IInv', GapInv, OrderInv, FinishReplay PROVE OrderInv'
  BY FinishReplayIsQuiet, QuietOrder DEF FinishReplay, netVars

LEMMA ReceiveResyncOrder == ASSUME IInv, IInv', GapInv, OrderInv, ReceiveResync PROVE OrderInv'
  BY ReceiveResyncIsQuiet, QuietOrder DEF ReceiveResync

LEMMA DisconnectOrder == ASSUME IInv, IInv', GapInv, OrderInv, Disconnect PROVE OrderInv'
  BY DisconnectIsQuiet, QuietOrder DEF Disconnect

LEMMA ReconnectOrder == ASSUME IInv, IInv', GapInv, OrderInv, Reconnect PROVE OrderInv'
  BY ReconnectIsQuiet, QuietOrder DEF Reconnect

(* One more is seen. *)
LEMMA SeenNext ==
    ASSUME view \in Seq(Shown), NEW x \in Shown, Held' \subseteq Held,
           view' = Append(view, x) \/ view' = Append(<<>>, x)
    PROVE  Seen' \subseteq Seen \cup {x.launch}
<1>1. PICK old \in {view, <<>>} : view' = Append(old, x)
  OBVIOUS
<1>2. old \in Seq(Shown) /\ (old = view \/ Len(old) = 0)
  BY <1>1, RangeEmpty
<1>3. /\ Len(view') = Len(old) + 1 /\ Len(old) \in Nat
      /\ \A i \in 1..Len(old) : view'[i] = old[i]
      /\ view'[Len(old) + 1] = x
  BY <1>1, <1>2, AppendProperties, LenProperties
<1>4. ASSUME NEW i \in 1..Len(view'), NEW l, l = view'[i].launch
      PROVE  l \in {view[k].launch : k \in 1..Len(view)} \cup {x.launch}
  <2>1. CASE i = Len(old) + 1
    BY <1>3, <1>4, <2>1
  <2>2. CASE i # Len(old) + 1
    <3>1. i \in 1..Len(view) /\ view'[i] = view[i]
      BY <1>2, <1>3, <2>2
    <3> QED
      BY <1>4, <3>1
  <2> QED
    BY <2>1, <2>2
<1> QED
  BY <1>4 DEF Seen

(* deliver() shows the chunk or drops it. *)
LEMMA SeenDelivered ==
    ASSUME view \in Seq(Shown), IInv, NEW e \in Events, NEW c, Deliver(c, e),
           Held' \subseteq Held
    PROVE  Seen' \subseteq Seen \cup {e.launch}
<1>1. CASE view' = view
  BY <1>1 DEF Seen
<1>2. CASE view' = Append(view, ShownChunk(e))
  <2>1. PICK x : x = ShownChunk(e)
    OBVIOUS
  <2>2. x \in Shown /\ x.launch = e.launch
    BY <2>1 DEF ShownChunk, Shown, Events, IInv, TypeOK, ViewTypeOK
  <2>3. Seen' \subseteq Seen \cup {x.launch}
    BY <1>2, <2>1, <2>2, SeenNext
  <2> QED
    BY <2>2, <2>3
<1> QED
  BY <1>1, <1>2 DEF Deliver

(* A connection that begins has shown nothing. *)
LEMMA ConnectOrder ==
    ASSUME IInv, IInv', GapInv, OrderInv, NEW r \in Revisions, Connect(r), UNCHANGED view,
           phase \in {"unmounted", "failed"}
    PROVE  OrderInv'
<1>1. /\ conn' = [Closed EXCEPT !.open = TRUE, !.rev = r, !.replaying = TRUE]
      /\ attach' = attach + 1 /\ attach \in Nat
      /\ UNCHANGED <<launches, session, wire>>
  BY DEF Connect, ptyVars, netVars, IInv, TypeOK, ViewTypeOK
<1>2. conn.buffered = <<>> /\ conn'.buffered = <<>>
  BY <1>1 DEF IInv, ConnectionSound, Closed
<1>3. NamedLast'
  BY <1>1, <1>2, SeenStands, NamedStays DEF OrderInv
<1>4. \A i \in 1..Len(view) : view[i].attach # attach'
  <2>1. \A s \in Shown : s.attach \in Nat
    BY DEF Shown
  <2>2. \A i \in 1..Len(view) : view[i] \in Shown
    BY LenProperties DEF IInv, TypeOK, ViewTypeOK
  <2> QED
    BY <1>1, <2>1, <2>2 DEF GapInv, ViewPlausible
<1>5. ShownBefore'
  BY <1>4 DEF ShownBefore, Mine
<1>6. LaunchesOrdered' /\ ChunksInOrder'
  BY <1>1 DEF OrderInv, LaunchesOrdered, Started, ChunksInOrder, SameRun
<1> QED
  BY <1>3, <1>5, <1>6 DEF OrderInv

LEMMA UnmountOrder == ASSUME IInv, IInv', GapInv, OrderInv, Unmount PROVE OrderInv'
<1>1. /\ conn' = Closed /\ view' = <<>> /\ UNCHANGED <<launches, session, wire>>
  BY DEF Unmount, ptyVars, netVars
<1>2. conn'.buffered = <<>> /\ ~conn'.open /\ DOMAIN view' = {} /\ Len(view') = 0
  BY <1>1 DEF Closed
<1>3. Seen' = {}
  BY <1>2, RangeEmpty DEF Seen, Held
<1>4. NamedLast'
  BY <1>1, <1>3, NamedStays DEF OrderInv
<1>5. LaunchesOrdered' /\ ShownBefore' /\ ChunksInOrder'
  BY <1>1, <1>2 DEF OrderInv, LaunchesOrdered, Started, ShownBefore, ChunksInOrder
<1> QED
  BY <1>4, <1>5 DEF OrderInv

(* start() names a launch that is newer than the one the view was opened for, *)
(* if that is another: what was shown belongs to the older one.               *)
LEMMA ReceiveStartedOrder ==
    ASSUME IInv, IInv', GapInv, OrderInv, ReceiveStarted PROVE OrderInv'
<1> DEFINE r == RevisionOf(Head(wire).launch)
<1>1. /\ UNCHANGED <<ptyVars, reads, attach, view, launches, session>>
      /\ Take("started") /\ conn \in Connections
  BY DEF ReceiveStarted, callVars, ptyVars, IInv, TypeOK, ViewTypeOK
<1>2. CASE conn' = conn /\ (phase' = "starting" => phase = "starting")
  <2>1. Quiet
    BY <1>1, <1>2 DEF Quiet, SameRead
  <2> QED
    BY <1>1, <2>1, QuietOrder
<1>3. CASE /\ phase = "starting" /\ conn.rev # r
           /\ conn' = [conn EXCEPT !.rev = r, !.lastSequence = 0, !.buffered = HeldFor(@, r)]
  <2>1. HeldFor(conn.buffered, r) = <<>>
    BY <1>3, AdoptedHoldsNothing DEF IInv
  <2>2. conn'.buffered = <<>> /\ conn'.rev = r
    BY <1>1, <1>3, <2>1 DEF Connections
  <2> HIDE DEF r
  <2>3. Seen' \subseteq Seen
    BY <1>1, <2>2, RangeEmpty DEF Seen, Held
  <2>4. NamedLast'
    BY <1>1, <2>3, NamedTaken DEF OrderInv
  <2>5. /\ Head(wire).launch \in Started /\ Head(wire).launch \in NamedBy(wire)
        /\ r = launches[Head(wire).launch]
    <3>1. Head(wire) \in Range(wire) /\ Head(wire).kind = "started"
      BY <1>1, Taken
    <3>2. Head(wire).launch \in NamedBy(wire)
      BY <3>1 DEF NamedBy, Names
    <3>3. Head(wire).launch \in Started /\ Head(wire).launch # None
      BY <3>1 DEF IInv, OutputReal, Started, None
    <3> QED
      BY <3>2, <3>3 DEF r, RevisionOf
  <2>6. ASSUME NEW i \in 1..Len(view), Mine(view[i])
        PROVE  RevisionOf(view[i].launch) <= r /\ RevisionOf(view[i].launch) # r
    <3>1. /\ view[i].launch \in Started /\ RevisionOf(view[i].launch) # r
          /\ RevisionOf(view[i].launch) = launches[view[i].launch]
      BY <1>3, <2>6 DEF GapInv, ViewPlausible, RevisionOf, Started, None
    <3>2. view[i].launch <= Head(wire).launch
      BY <2>5 DEF OrderInv, NamedLast, UpTo, Seen
    <3>3. view[i].launch # Head(wire).launch
      BY <2>5, <3>1
    <3>4. view[i].launch < Head(wire).launch
      BY <2>5, <3>1, <3>2, <3>3 DEF Started
    <3>5. launches[view[i].launch] < launches[Head(wire).launch]
      BY <2>5, <3>1, <3>4 DEF OrderInv, LaunchesOrdered
    <3>6. launches[view[i].launch] \in Nat /\ launches[Head(wire).launch] \in Nat
      BY <2>5, <3>1, PtyTypes, TerminalStreamAssumption DEF IInv, TypeOK
    <3> QED
      BY <2>5, <3>1, <3>5, <3>6
  <2>7. ShownBefore'
    <3>1. \A l : RevisionOf(l)' = RevisionOf(l)
      BY <1>1 DEF RevisionOf
    <3> QED
      BY <1>1, <2>2, <2>6, <3>1 DEF ShownBefore, Mine
  <2>8. LaunchesOrdered' /\ ChunksInOrder'
    BY <1>1 DEF OrderInv, LaunchesOrdered, Started, ChunksInOrder, SameRun
  <2> QED
    BY <2>4, <2>7, <2>8 DEF OrderInv
<1> QED
  BY <1>2, <1>3 DEF ReceiveStarted

(* A snapshot that is drawn is not behind what was shown. *)
LEMMA DrawOrder ==
    ASSUME IInv, IInv', GapInv, OrderInv, ReadOnly, Take("scrollback"), UNCHANGED <<ptyVars, attach>>,
           NEW r, r = Head(wire).read, r.id = conn.replay,
           Matches(conn, r.launch), ~r.blank,
           view' = Append(IF conn.clearScreen THEN <<>> ELSE view, ShownSnapshot(r)),
           conn' = [conn EXCEPT !.lastSequence = r.seq, !.replaying = FALSE, !.releasing = TRUE]
    PROVE  OrderInv'
<1>0. PICK x : x = ShownSnapshot(r)
  OBVIOUS
<1>1. /\ r \in Reads /\ r \in Snapshots /\ ~conn.releasing /\ Head(wire).kind = "scrollback"
  BY Taken, FrameTypes DEF Snapshots
<1>2. r.launch # None /\ r.launch \in Started /\ r.id \in Nat \ {0} /\ r.seq \in Nat
  BY <1>1 DEF IInv, SnapshotsReal, Real, Reads, None
<1>3. conn \in Connections
  BY DEF IInv, TypeOK, ViewTypeOK
<1>4. /\ conn'.buffered = conn.buffered /\ conn'.rev = conn.rev /\ conn'.lastSequence = r.seq
  BY <1>3 DEF Connections
<1>5. conn.open
  BY <1>2 DEF IInv, ConnectionSound, Closed
<1>6. conn.lastSequence <= r.seq
  BY <1>1, <1>2 DEF Matches, IInv, ViewerInv, SnapshotCovers, None
<1>7. /\ x.kind = "snapshot" /\ x.attach = attach /\ x.launch = r.launch /\ x.seq = r.seq
      /\ x \in Shown
  BY <1>0, <1>2, PtyTypes DEF ShownSnapshot, Shown, IInv, TypeOK, ViewTypeOK
<1>8. view' = Append(view, x) \/ view' = Append(<<>>, x)
  BY <1>0
<1>9. NamedLast'
  <2>1. Brings(Head(wire)) = {x.launch}
    BY <1>1, <1>7 DEF Brings
  <2>2. Seen' \subseteq Seen \cup {x.launch}
    BY <1>4, <1>7, <1>8, SeenNext DEF Held, IInv, TypeOK, ViewTypeOK
  <2> QED
    BY <2>1, <2>2, NamedTaken DEF OrderInv
<1>10. x.kind # "chunk" /\ RevisionOf(x.launch) = conn.rev /\ x.launch \in Started
       /\ x.seq = conn'.lastSequence /\ conn.lastSequence <= conn'.lastSequence
  BY <1>2, <1>4, <1>6, <1>7 DEF Matches
<1> QED
  BY <1>4, <1>5, <1>7, <1>8, <1>9, <1>10, OrderShows

LEMMA ReceiveScrollbackOrder ==
    ASSUME IInv, IInv', GapInv, OrderInv, ReadOnly, ReceiveScrollback PROVE OrderInv'
<1>1. Take("scrollback") /\ UNCHANGED <<ptyVars, attach>>
  BY DEF ReceiveScrollback
<1>2. PICK r : r = Head(wire).read
  OBVIOUS
<1>3. CASE /\ r.id = conn.replay /\ Matches(conn, r.launch) /\ ~r.blank
  <2>1. /\ view' = Append(IF conn.clearScreen THEN <<>> ELSE view, ShownSnapshot(r))
        /\ conn' = [conn EXCEPT !.lastSequence = r.seq, !.replaying = FALSE, !.releasing = TRUE]
    BY <1>2, <1>3 DEF ReceiveScrollback
  <2> QED
    BY <1>1, <1>2, <1>3, <2>1, DrawOrder
<1>4. CASE ~(r.id = conn.replay /\ Matches(conn, r.launch) /\ ~r.blank)
  <2>1. Quiet /\ UNCHANGED view
    BY <1>2, <1>4, UndrawnIsQuiet
  <2> QED
    BY <1>1, <2>1, QuietOrder
<1> QED
  BY <1>3, <1>4

(* deliver() shows a chunk beyond the position, or nothing. *)
LEMMA DeliverOrder ==
    ASSUME IInv, IInv', GapInv, OrderInv, ReadOnly, NamedLast', UNCHANGED <<ptyVars, attach>>,
           NEW e \in Events, e.launch \in Started, RevisionOf(e.launch) = conn.rev,
           NEW c \in Connections, conn.open, c.open, c.rev = conn.rev,
           c.lastSequence = conn.lastSequence, Deliver(c, e)
    PROVE  OrderInv'
<1>1. e.seq \in Nat /\ e.launch \in Launches /\ conn.lastSequence \in Nat
  BY DEF Events, Connections
<1>2. CASE e.seq > c.lastSequence
  <2>1. conn' = [c EXCEPT !.lastSequence = e.seq]
    BY <1>2 DEF Deliver
  <2>2. PICK x : x = ShownChunk(e)
    OBVIOUS
  <2>3. view' = Append(view, x)
    BY <1>2, <2>2 DEF Deliver
  <2>4. conn'.rev = conn.rev /\ conn'.lastSequence = e.seq
    BY <2>1 DEF Connections
  <2>5. /\ x \in Shown /\ x.attach = attach /\ x.launch = e.launch /\ x.seq = e.seq
    BY <1>1, <2>2 DEF ShownChunk, Shown, IInv, TypeOK, ViewTypeOK
  <2>6. /\ x.launch \in Started /\ RevisionOf(x.launch) = conn.rev
        /\ x.seq = conn'.lastSequence /\ conn.lastSequence <= conn'.lastSequence
        /\ conn.lastSequence < x.seq
    BY <1>1, <1>2, <2>4, <2>5
  <2> QED
    BY <2>3, <2>4, <2>5, <2>6, OrderShows
<1>3. CASE ~(e.seq > c.lastSequence)
  <2>1. conn' = c /\ view' = view
    BY <1>3 DEF Deliver
  <2> QED
    BY <2>1, OrderRests
<1> QED
  BY <1>2, <1>3

LEMMA ReceiveOutputOrder ==
    ASSUME IInv, IInv', GapInv, OrderInv, ReadOnly, ReceiveOutput PROVE OrderInv'
<1>1. PICK e : e = Head(wire).event
  OBVIOUS
<1>2. /\ Take("output") /\ conn \in Connections /\ UNCHANGED <<ptyVars, attach>>
      /\ conn.buffered \in Seq(Events) /\ view \in Seq(Shown)
  BY DEF ReceiveOutput, IInv, TypeOK, ViewTypeOK, Connections
<1>3. e.launch \in Started /\ e \in Events /\ Brings(Head(wire)) = {e.launch}
  BY <1>1, <1>2, Taken, FrameTypes DEF IInv, OutputReal, Real, Brings
<1>4. CASE ~conn.open \/ RevisionOf(e.launch) # conn.rev
  <2>1. UNCHANGED <<conn, view>>
    BY <1>1, <1>4 DEF ReceiveOutput, Matches
  <2>2. NamedLast'
    BY <1>2, <2>1, SeenStands, NamedTaken DEF OrderInv
  <2> QED
    BY <1>2, <2>1, <2>2, OrderRests
<1>5. CASE conn.open /\ RevisionOf(e.launch) = conn.rev /\ conn.replaying
  <2>1. conn' = [conn EXCEPT !.buffered = Append(conn.buffered, e)] /\ view' = view
    BY <1>1, <1>5 DEF ReceiveOutput, Matches
  <2>2. /\ conn'.buffered = Append(conn.buffered, e) /\ conn'.open = conn.open
        /\ conn'.rev = conn.rev /\ conn'.lastSequence = conn.lastSequence
    BY <1>2, <2>1 DEF Connections
  <2>3. Held' = Held \cup {e}
    BY <1>2, <1>3, <2>2, RangeAppend DEF Held
  <2>4. Seen' \subseteq Seen \cup {e.launch}
    BY <2>1, <2>3 DEF Seen
  <2>5. NamedLast'
    BY <1>2, <1>3, <2>4, NamedTaken DEF OrderInv
  <2> QED
    BY <1>2, <2>1, <2>2, <2>5, OrderRests
<1>6. CASE conn.open /\ RevisionOf(e.launch) = conn.rev /\ ~conn.replaying
  <2>1. Deliver(conn, e)
    BY <1>1, <1>6 DEF ReceiveOutput, Matches
  <2>2. conn'.buffered = conn.buffered
    BY <1>2, <2>1 DEF Deliver, Connections
  <2>3. Seen' \subseteq Seen \cup {e.launch}
    <3>1. Held' \subseteq Held
      BY <2>2 DEF Held
    <3> QED
      BY <1>2, <1>3, <2>1, <3>1, SeenDelivered
  <2>4. NamedLast'
    BY <1>2, <1>3, <2>3, NamedTaken DEF OrderInv
  <2> QED
    BY <1>2, <1>3, <1>6, <2>1, <2>4, DeliverOrder
<1> QED
  BY <1>4, <1>5, <1>6

LEMMA ReleaseHeldOrder ==
    ASSUME IInv, IInv', GapInv, OrderInv, ReadOnly, ReleaseHeld PROVE OrderInv'
<1>1. PICK e : e = Head(conn.buffered)
  OBVIOUS
<1>2. PICK c : c = [conn EXCEPT !.buffered = Tail(@)]
  OBVIOUS
<1>3. /\ UNCHANGED <<ptyVars, wire, attach>>
      /\ conn.releasing /\ conn.buffered # <<>> /\ Deliver(c, e) /\ conn \in Connections
      /\ conn.buffered \in Seq(Events) /\ view \in Seq(Shown)
  BY <1>1, <1>2 DEF ReleaseHeld, netVars, IInv, TypeOK, ViewTypeOK, Connections
<1>4. conn.open
  BY <1>3 DEF IInv, ConnectionSound, Closed
<1>5. /\ Tail(conn.buffered) \in Seq(Events) /\ e \in Events /\ e \in Held
      /\ Range(Tail(conn.buffered)) \subseteq Held
  BY <1>1, <1>3, RangeTail DEF Held
<1>6. /\ c \in Connections /\ c.open = conn.open /\ c.rev = conn.rev
      /\ c.lastSequence = conn.lastSequence /\ c.buffered = Tail(conn.buffered)
  BY <1>2, <1>3, <1>5 DEF Connections
<1>7. conn'.buffered = Tail(conn.buffered)
  BY <1>3, <1>6 DEF Deliver, Connections
<1>8. e.launch \in Started /\ RevisionOf(e.launch) = conn.rev /\ e.launch \in Seen
  BY <1>5 DEF IInv, OutputReal, HeldMatches, Real, Held, Seen
<1>9. Seen' \subseteq Seen \cup {e.launch}
  BY <1>3, <1>5, <1>7, SeenDelivered DEF Held
<1>10. NamedLast'
  BY <1>3, <1>8, <1>9, NamedStays DEF OrderInv
<1> QED
  BY <1>3, <1>4, <1>5, <1>6, <1>8, <1>10, DeliverOrder

-----------------------------------------------------------------------------
(* The invariant of the order, for a viewer. *)

LEMMA InitOrder == Init => OrderInv
<1> SUFFICES ASSUME Init PROVE OrderInv
  OBVIOUS
<1>1. /\ wire = <<>> /\ conn = Closed /\ view = <<>> /\ launches = <<>> /\ session = None
  BY DEF Init
<1>2. ~conn.open /\ Started = {} /\ Len(wire) = 0 /\ Range(wire) = {} /\ DOMAIN view = {}
  BY <1>1, RangeEmpty DEF Closed, Started
<1>3. NamedLast
  BY <1>2 DEF NamedLast, NamedInOrder, NamedBy, UpTo
<1> QED
  BY <1>1, <1>2, <1>3 DEF OrderInv, LaunchesOrdered, ShownBefore, ChunksInOrder

LEMMA StutterOrder == ASSUME IInv, IInv', GapInv, OrderInv, UNCHANGED vars PROVE OrderInv'
  BY ServerOrder DEF vars, netVars

LEMMA StepOrder ==
    ASSUME ReadOnly, IInv, IInv', GapInv, OrderInv, [Next]_vars PROVE OrderInv'
<1>1. CASE ServerStep
  BY <1>1, PublishOrder, HandleStartOrder, TakeSnapshotOrder, SendResultOrder, ForwardEventOrder
  DEF ServerStep
<1>2. CASE ClientStep
  BY <1>2, ReceiveOutputOrder, ReceiveResyncOrder, ReceiveScrollbackOrder, ReceiveStartedOrder,
     ReceiveStartFailedOrder, ReleaseHeldOrder, FinishReplayOrder, ReplayInitialOrder,
     ReconnectOrder
  DEF ClientStep
<1>3. CASE Environment
  <2>1. ASSUME NEW r \in Revisions, Mount(r) \/ Retry(r) PROVE OrderInv'
    BY <2>1, ConnectOrder DEF Mount, Retry
  <2> QED
    BY <1>3, <2>1, PushOrder, OwnerLaunchOrder, CloseOrder, UnmountOrder, RedrawOrder,
       ReplayTimeoutOrder, DisconnectOrder
    DEF Environment
<1> QED
  BY <1>1, <1>2, <1>3, StutterOrder DEF Next

(* A viewer's connection never draws a chunk twice or backwards, nor anything *)
(* of a launch that was replaced, whichever way snapshots, held output and    *)
(* live output meet (deliver, terminalEventMatchesSession, replayOnce).       *)
THEOREM ViewerChunksInOrder == ASSUME ReadOnly PROVE Spec => []ChunksInOrder
<1>1. Init => IInv /\ GapInv /\ OrderInv
  BY InitInv, InitGap, InitOrder
<1>2. (IInv /\ GapInv /\ OrderInv) /\ [Next]_vars => (IInv /\ GapInv /\ OrderInv)'
  BY StepInv, StepGap, StepOrder
<1>3. IInv /\ GapInv /\ OrderInv => ChunksInOrder
  BY DEF OrderInv
<1> QED
  BY <1>1, <1>2, <1>3, PTL DEF Spec

-----------------------------------------------------------------------------
(* A viewer's screen is whole once all is at rest, however often the link was *)
(* lost, the panel mounted or the terminal relaunched, unless the ring of the *)
(* hub overflowed: then a redraw may be under way whose snapshot is older     *)
(* than what was lost, and nothing asks for another.                          *)

(* A viewer of a terminal whose screen is never blank again once something    *)
(* was printed, and whose redraws are answered before their time-out.         *)
PatientViewer == ReadOnly /\ ScreensAfterPush = {FALSE} /\ ~ReplayTimeouts

(* What s, on screen, shows of launch l: its chunk n. *)
Shows(s, l, n) == s.launch = l /\ IF s.kind = "snapshot" THEN n <= s.seq ELSE n = s.seq
Drawn(l, n) == \E i \in 1..Len(view) : Shows(view[i], l, n)

(* What is not there yet is empty, and what is on screen is not. *)
OutputKnown ==
    /\ \A l \in Launches \ Started : history[l].seq = 0
    /\ \A l \in Launches : history[l].blank => history[l].seq = 0
    /\ \A q \in Snapshots : q.blank => q.seq = 0
    /\ \A i \in 1..Len(view) :
          /\ view[i].seq <= history[view[i].launch].seq
          /\ view[i].kind = "chunk" => view[i].seq # 0

(* A redraw asks once, and what is on the wire was read. *)
ReadsOnce ==
    /\ \A p, q \in Snapshots : p.id = q.id => p = q
    /\ \A f \in Range(wire) : f.kind = "scrollback" => f.read.stage = "taken"
    /\ \A f \in Range(wire) : f.kind # "resync"

Awaits == conn.replay # None /\ ~conn.releasing
Awaited == Awaits => \E q \in Snapshots : q.id = conn.replay

(* While the bridge is down every call waits, and so does every pass. *)
Down ==
    ~up => /\ wire = <<>> /\ \A q \in reads : q.stage = "queued"
           /\ \A c \in starts : ~c.sent
           /\ PassOrphaned => phase \notin {"settling", "live"}

(* deliver() drops by sequence number only what was drawn. *)
Behind ==
    conn.open =>
      \A l \in Started : launches[l] = conn.rev =>
         \A n \in 1..conn.lastSequence :
            n > published[l] \/ Event(l, n) \in Held \cup OnTheWay => Drawn(l, n)

(* The snapshot a redraw waits for, once taken, shows all that is on screen. *)
ReadAhead ==
    \A q \in Snapshots :
        Awaits /\ q.id = conn.replay /\ q.stage = "taken" =>
          \A i \in 1..Len(view) : view[i].launch = q.launch => view[i].seq <= q.seq

(* The redraw awaited will show chunk n of launch l. *)
FreshRead(l, n) ==
    /\ Awaits
    /\ \E q \in Snapshots : q.id = conn.replay /\ (q.stage = "taken" => q.launch = l /\ n <= q.seq)

(* A chunk is on screen or will be, unless it was ignored. *)
Coming(l, n) ==
    \/ Event(l, n) \in ignored \cup Held \cup OnTheWay
    \/ FreshRead(l, n)
    \/ launches[l] = conn.rev /\ Drawn(l, n)

(* The view is connected to the launch that runs and was, or is being, drawn. *)
Owed ==
    /\ up /\ session # None
    /\ phase \in {"starting", "settling", "live"}
    /\ phase # "starting" => RevisionOf(session) = conn.rev
    /\ phase = "live" \/ Awaits

Promised == Owed => \A n \in 1..published[session] : Coming(session, n)

WholeInv ==
    OutputKnown /\ ReadsOnce /\ Awaited /\ Down /\ Behind /\ ReadAhead /\ Promised

(* The read a redraw sends or queues. *)
FreshAsk(s) == [id |-> nextRead, stage |-> s, launch |-> None, seq |-> 0, blank |-> TRUE]

(* A redraw of connection c asks for its snapshot, or it is as it was. *)
Asks(c) ==
    \/ conn' = c /\ reads' = reads
    \/ /\ c.replay = None /\ conn'.replay = nextRead /\ conn'.releasing = c.releasing
       /\ \E s \in {"queued", "sent"} :
             s = (IF up THEN "sent" ELSE "queued") /\ reads' = reads \cup {FreshAsk(s)}

LEMMA FreshAskIs ==
    ASSUME NEW s
    PROVE  /\ FreshAsk(s).id = nextRead /\ FreshAsk(s).stage = s /\ FreshAsk(s).launch = None
           /\ FreshAsk(s).seq = 0 /\ FreshAsk(s).blank
  BY DEF FreshAsk

LEMMA BeginAsks ==
    ASSUME NEW c \in Connections, NEW clear \in BOOLEAN, BeginReplay(c, clear)
    PROVE  Asks(c)
<1>1. CASE c.replay # None
  BY <1>1 DEF BeginReplay, Asks
<1>2. CASE c.replay = None
  <2>1. PICK s \in {"queued", "sent"} : s = IF up THEN "sent" ELSE "queued"
    OBVIOUS
  <2>2. /\ conn' = [c EXCEPT !.replaying = TRUE, !.replay = nextRead, !.clearScreen = clear]
        /\ reads' = reads \cup {FreshAsk(s)}
    BY <1>2, <2>1 DEF BeginReplay, FreshAsk
  <2>3. conn'.replay = nextRead /\ conn'.releasing = c.releasing
    BY <2>2 DEF Connections
  <2>4. \E t \in {"queued", "sent"} :
           t = (IF up THEN "sent" ELSE "queued") /\ reads' = reads \cup {FreshAsk(t)}
    BY <2>1, <2>2
  <2> QED
    BY <1>2, <2>3, <2>4 DEF Asks
<1> QED
  BY <1>1, <1>2

LEMMA EndPassAsks ==
    ASSUME NEW c \in Connections, EndPass(c)
    PROVE  Asks(c)
<1>1. CASE pass.pending /\ c.open
  BY <1>1, BeginAsks DEF EndPass
<1>2. CASE ~(pass.pending /\ c.open)
  BY <1>2 DEF EndPass, Asks
<1> QED
  BY <1>1, <1>2

(* What is read and on the wire when at most one fresh read was added. *)
LEMMA ReadsStill ==
    ASSUME IInv, ReadsOnce, Range(wire') \subseteq Range(wire),
           \/ reads' \subseteq reads
           \/ \E s \in {"queued", "sent"} : reads' \subseteq reads \cup {FreshAsk(s)}
    PROVE  /\ ReadsOnce'
           /\ \A q \in Snapshots' : \/ q \in Snapshots
                                    \/ q.id = nextRead /\ q.stage # "taken" /\ q.seq = 0
<1>1. \A q \in Snapshots : q.id < nextRead /\ q.id \in Nat
  BY QueueTypes DEF IInv, SnapshotsReal, Reads
<1>2. nextRead \in Nat
  BY DEF IInv, TypeOK, NetTypeOK
<1>3. PICK s \in {"queued", "sent"} : reads' \subseteq reads \cup {FreshAsk(s)}
  OBVIOUS
<1>4. PICK F : F = FreshAsk(s)
  OBVIOUS
<1>5. F.id = nextRead /\ F.stage # "taken" /\ F.seq = 0
  BY <1>4, FreshAskIs
<1>6. Snapshots' \subseteq Snapshots \cup {F}
  BY <1>3, <1>4 DEF Snapshots
<1>7. \A p, q \in Snapshots' : p.id = q.id => p = q
  BY <1>1, <1>2, <1>5, <1>6 DEF ReadsOnce
<1> QED
  BY <1>5, <1>6, <1>7 DEF ReadsOnce

(* Nothing the backend produced or the view shows changes. *)
LEMMA KnownStill ==
    ASSUME OutputKnown, UNCHANGED <<ptyVars, view>>,
           \A q \in Snapshots' : q \in Snapshots \/ q.seq = 0
    PROVE  OutputKnown'
<1>1. UNCHANGED <<launches, history, view>> /\ Started' = Started
  BY DEF ptyVars, Started
<1> QED
  BY <1>1 DEF OutputKnown

(* A step that shows nothing and moves no event but, perhaps, drops them all. *)
LEMMA QuietWhole ==
    ASSUME IInv, IInv', Behind, ReadAhead, Promised, Quiet, UNCHANGED <<ptyVars, view>>,
           (Held \cup OnTheWay)' \subseteq Held \cup OnTheWay,
           Owed' => ignored \cup Held \cup OnTheWay \subseteq (ignored \cup Held \cup OnTheWay)',
           \A q \in Snapshots' : q \in Snapshots \/ q.stage # "taken",
           \/ /\ Awaits' /\ \E q \in Snapshots' : q.id = conn'.replay
              /\ \A q \in Snapshots' : q.id = conn'.replay => q.stage # "taken"
           \/ /\ Awaits /\ Awaits' /\ conn'.replay = conn.replay
              /\ \A q \in Snapshots : q.id = conn.replay => q \in Snapshots'
              /\ Owed' => Owed
              /\ Awaited
           \/ ~Awaits' /\ (Owed' => Owed /\ ~Awaits)
    PROVE  Awaited' /\ Behind' /\ ReadAhead' /\ Promised'
<1>1. UNCHANGED <<launches, history, published, session, view>> /\ Started' = Started
  BY DEF ptyVars, Started
<1>2. \A l, n : Drawn(l, n)' = Drawn(l, n)
  BY <1>1 DEF Drawn
<1>3. Behind'
  BY <1>1, <1>2 DEF Behind, Quiet
<1>4. Owed' => conn'.open /\ conn.open /\ conn'.rev = conn.rev
  BY DEF Owed, IInv, ConnectionSound, Quiet
<1>5. CASE /\ Awaits' /\ \E q \in Snapshots' : q.id = conn'.replay
           /\ \A q \in Snapshots' : q.id = conn'.replay => q.stage # "taken"
  <2>1. \A l, n : FreshRead(l, n)'
    BY <1>5 DEF FreshRead
  <2> QED
    BY <1>3, <1>5, <2>1 DEF Awaited, ReadAhead, Promised, Coming
<1>6. CASE /\ Awaits /\ Awaits' /\ conn'.replay = conn.replay
           /\ \A q \in Snapshots : q.id = conn.replay => q \in Snapshots'
           /\ Owed' => Owed
           /\ Awaited
  <2>1. Awaited'
    BY <1>6 DEF Awaited
  <2>2. \A q \in Snapshots' : q.id = conn.replay /\ q.stage = "taken" => q \in Snapshots
    OBVIOUS
  <2>3. ReadAhead'
    BY <1>1, <1>6, <2>2 DEF ReadAhead
  <2>4. \A l, n : FreshRead(l, n) => FreshRead(l, n)'
    BY <1>6 DEF FreshRead
  <2>5. ASSUME Owed', NEW n \in 1..published[session] PROVE Coming(session, n)'
    <3>1. Coming(session, n)
      BY <1>6, <2>5 DEF Promised
    <3> QED
      BY <1>1, <1>2, <1>4, <2>4, <2>5, <3>1 DEF Coming
  <2> QED
    BY <1>1, <1>3, <2>1, <2>3, <2>5 DEF Promised
<1>7. CASE ~Awaits' /\ (Owed' => Owed /\ ~Awaits)
  <2>1. ASSUME Owed', NEW n \in 1..published[session] PROVE Coming(session, n)'
    <3>1. Coming(session, n) /\ ~FreshRead(session, n)
      BY <1>7, <2>1 DEF Promised, FreshRead
    <3> QED
      BY <1>1, <1>2, <1>4, <2>1, <3>1 DEF Coming
  <2>2. Awaited' /\ ReadAhead'
    BY <1>7 DEF Awaited, ReadAhead
  <2> QED
    BY <1>1, <1>3, <2>1, <2>2 DEF Promised
<1> QED
  BY <1>5, <1>6, <1>7

(* A redraw that begins, or goes on, in a step that shows nothing. *)
LEMMA AsksWhole ==
    ASSUME IInv, IInv', OutputKnown, ReadsOnce, Awaited, Behind, ReadAhead, Promised, Quiet,
           UNCHANGED <<ptyVars, view, ignored>>, Held' = Held, OnTheWay' = OnTheWay,
           NEW c \in Connections, Asks(c), ~c.releasing,
           \/ c.replay = conn.replay /\ ~conn.releasing
           \/ c.replay = None /\ conn.releasing,
           Owed' => Owed \/ (Awaits' /\ c.replay = None),
           Range(wire') \subseteq Range(wire),
           \A f \in Range(wire) : (f.kind = "scrollback" /\ f.read.id = conn.replay)
                                     => f \in Range(wire')
    PROVE  OutputKnown' /\ ReadsOnce' /\ Awaited' /\ Behind' /\ ReadAhead' /\ Promised'
<1>1. /\ ReadsOnce'
      /\ \A q \in Snapshots' : \/ q \in Snapshots
                               \/ q.id = nextRead /\ q.stage # "taken" /\ q.seq = 0
  BY ReadsStill DEF Asks
<1>2. OutputKnown'
  BY <1>1, KnownStill
<1>3. (Held \cup OnTheWay)' \subseteq Held \cup OnTheWay
      /\ ignored \cup Held \cup OnTheWay \subseteq (ignored \cup Held \cup OnTheWay)'
  OBVIOUS
<1>4. reads \subseteq reads'
  BY DEF Asks
<1>5. \A q \in Snapshots : q.id = conn.replay => q \in Snapshots'
  BY <1>4 DEF Snapshots
<1>6. CASE conn' = c /\ reads' = reads
  <2>1. CASE c.replay = conn.replay /\ ~conn.releasing
    <3>1. CASE Awaits
      <4>1. Awaits' /\ conn'.replay = conn.replay /\ (Owed' => Owed)
        BY <1>6, <2>1, <3>1 DEF Awaits
      <4> QED
        BY <1>1, <1>2, <1>3, <1>5, <3>1, <4>1, QuietWhole
    <3>2. CASE ~Awaits
      <4>1. ~Awaits' /\ (Owed' => Owed /\ ~Awaits)
        BY <1>6, <2>1, <3>2 DEF Awaits
      <4> QED
        BY <1>1, <1>2, <1>3, <4>1, QuietWhole
    <3> QED
      BY <3>1, <3>2
  <2>2. CASE c.replay = None /\ conn.releasing
    <3>1. ~Awaits' /\ (Owed' => Owed /\ ~Awaits)
      BY <1>6, <2>2 DEF Awaits
    <3> QED
      BY <1>1, <1>2, <1>3, <3>1, QuietWhole
  <2> QED
    BY <2>1, <2>2
<1>7. CASE /\ c.replay = None /\ conn'.replay = nextRead /\ conn'.releasing = c.releasing
           /\ \E s \in {"queued", "sent"} :
             s = (IF up THEN "sent" ELSE "queued") /\ reads' = reads \cup {FreshAsk(s)}
  <2>1. PICK s \in {"queued", "sent"} : reads' = reads \cup {FreshAsk(s)}
    BY <1>7
  <2>2. \E q \in Snapshots' : q.id = nextRead
    BY <2>1, FreshAskIs DEF Snapshots
  <2>3. nextRead # None
    BY DEF IInv, TypeOK, NetTypeOK, None
  <2>4. Awaits'
    BY <1>7, <2>3 DEF Awaits
  <2>5. \A q \in Snapshots' : q.id = conn'.replay => q.stage # "taken"
    <3>1. nextRead \in Nat /\ \A q \in Snapshots : q.id < nextRead /\ q.id \in Nat
      BY QueueTypes DEF IInv, SnapshotsReal, Reads, TypeOK, NetTypeOK
    <3> QED
      BY <1>1, <1>7, <3>1
  <2> QED
    BY <1>1, <1>2, <1>3, <1>7, <2>2, <2>4, <2>5, QuietWhole
<1> QED
  BY <1>6, <1>7 DEF Asks

(* While the link stays as it is, only a panel that settles has to look at its pass. *)
LEMMA DownStill ==
    ASSUME Down, up' = up, Range(wire') \subseteq Range(wire), wire \in Seq(Frames),
           wire' \in Seq(Frames),
           \A c \in starts' : c \in starts \/ c.sent = up,
           \A q \in reads' : q \in reads \/ q.stage = IF up THEN "sent" ELSE "queued",
           ~up /\ phase' \in {"settling", "live"} =>
              /\ phase \in {"settling", "live"}
              /\ \/ pass' = pass /\ (conn'.replay = conn.replay \/ conn.replay = None)
                 \/ pass'.waitsOn \in {None, conn'.replay}
    PROVE  Down'
<1> SUFFICES ASSUME ~up PROVE Down'
  BY DEF Down
<1>1. wire' = <<>>
  <2>1. wire = <<>> /\ Range(wire) = {}
    BY RangeEmpty DEF Down
  <2>2. Range(wire') = {}
    BY <2>1
  <2> QED
    BY <2>2, RangeTail
<1>2. (\A q \in reads' : q.stage = "queued") /\ \A c \in starts' : ~c.sent
  BY DEF Down
<1>3. PassOrphaned' => phase' \notin {"settling", "live"}
  BY DEF Down, PassOrphaned
<1> QED
  BY <1>1, <1>2, <1>3 DEF Down

LEMMA AskedStages ==
    ASSUME NEW c, Asks(c)
    PROVE  \A q \in reads' : q \in reads \/ q.stage = IF up THEN "sent" ELSE "queued"
  BY FreshAskIs DEF Asks

LEMMA RedrawWhole == ASSUME IInv, IInv', GapInv, WholeInv, Redraw PROVE WholeInv'
<1>1. conn \in Connections /\ ~conn.releasing /\ wire \in Seq(Frames)
  BY DEF Redraw, IInv, TypeOK, ViewTypeOK, NetTypeOK, Idle
<1>2. Asks(conn) /\ phase' = phase /\ phase \in {"settling", "live"}
  BY <1>1, BeginAsks DEF Redraw
<1>3. UNCHANGED <<ptyVars, up, hub, lagged, wire, starts, pass, view, ignored, conn.buffered>>
  <2>1. conn'.buffered = conn.buffered
    BY RedrawIsQuiet DEF Quiet
  <2> QED
    BY <2>1 DEF Redraw, netVars
<1>4. Held' = Held /\ OnTheWay' = OnTheWay
  BY <1>3 DEF Held, OnTheWay
<1>5. Owed' => Owed \/ (Awaits' /\ conn.replay = None)
  <2>1. conn'.rev = conn.rev
    BY <1>2, RedrawIsQuiet DEF Quiet, Owed, IInv, ConnectionSound
  <2>2. \A l : RevisionOf(l)' = RevisionOf(l)
    BY <1>3 DEF RevisionOf, ptyVars
  <2> QED
    BY <1>1, <1>2, <1>3, <2>1, <2>2 DEF Owed, Awaits, ptyVars, Asks
<1>6. Down'
  <2>1. conn'.replay = conn.replay \/ conn.replay = None
    BY <1>2 DEF Asks
  <2> QED
    BY <1>1, <1>2, <1>3, <2>1, AskedStages, DownStill DEF WholeInv
<1> QED
  BY <1>1, <1>2, <1>3, <1>4, <1>5, <1>6, RedrawIsQuiet, AsksWhole DEF WholeInv

LEMMA ReplayInitialWhole == ASSUME IInv, IInv', GapInv, WholeInv, ReplayInitial PROVE WholeInv'
<1>1. conn \in Connections /\ ~conn.releasing /\ wire \in Seq(Frames) /\ conn.open
      /\ nextRead # None
  BY DEF ReplayInitial, IInv, TypeOK, ViewTypeOK, NetTypeOK, Idle, ConnectionSound, None
<1>2. Asks(conn) /\ phase' = "live" /\ phase = "settling"
  BY <1>1, BeginAsks DEF ReplayInitial
<1>3. conn'.buffered = conn.buffered /\ (conn'.open => conn'.rev = conn.rev)
  BY ReplayInitialIsQuiet DEF Quiet
<1>4. UNCHANGED <<ptyVars, up, hub, lagged, wire, starts, pass, view, ignored>>
  BY DEF ReplayInitial, netVars, boundVars
<1>5. Held' = Held /\ OnTheWay' = OnTheWay
  BY <1>3, <1>4 DEF Held, OnTheWay
<1>6. conn'.replay # None
  BY <1>1, BeginReplayRedraws DEF ReplayInitial, IInv, TypeOK
<1>7. Owed' => Owed \/ (Awaits' /\ conn.replay = None)
  <2>1. conn'.open
    BY <1>2 DEF IInv, ConnectionSound
  <2>2. \A l : RevisionOf(l)' = RevisionOf(l)
    BY <1>4 DEF RevisionOf, ptyVars
  <2>3. CASE conn.replay = None
    BY <1>1, <1>2, <1>6, <2>3 DEF Awaits, Asks
  <2>4. CASE conn.replay # None
    BY <1>1, <1>2, <1>3, <1>4, <2>1, <2>2, <2>4 DEF Awaits, Asks, Owed, ptyVars
  <2> QED
    BY <2>3, <2>4
<1>8. Down'
  <2>1. conn'.replay = conn.replay \/ conn.replay = None
    BY <1>2 DEF Asks
  <2> QED
    BY <1>1, <1>2, <1>4, <2>1, AskedStages, DownStill DEF WholeInv
<1> QED
  BY <1>1, <1>2, <1>4, <1>5, <1>7, <1>8, ReplayInitialIsQuiet, AsksWhole DEF WholeInv

LEMMA ReceiveStartFailedWhole ==
    ASSUME IInv, IInv', GapInv, WholeInv, ReceiveStartFailed PROVE WholeInv'
<1>1. /\ conn \in Connections /\ ~conn.releasing /\ wire \in Seq(Frames) /\ wire # <<>>
      /\ wire' = Tail(wire) /\ Head(wire).kind = "startFailed" /\ up
  BY DEF ReceiveStartFailed, Take, IInv, TypeOK, ViewTypeOK, NetTypeOK, Idle
<1>2. Asks(conn) /\ ((phase' = phase /\ conn' = conn) \/ phase' = "failing")
  <2>1. CASE phase = "starting" /\ Head(wire).attach = attach
    BY <1>1, <2>1, BeginAsks DEF ReceiveStartFailed
  <2>2. CASE ~(phase = "starting" /\ Head(wire).attach = attach)
    BY <2>2 DEF ReceiveStartFailed, Asks
  <2> QED
    BY <2>1, <2>2
<1>3. UNCHANGED <<ptyVars, up, hub, lagged, starts, pass, view, ignored>>
  BY DEF ReceiveStartFailed, boundVars
<1>4. Quiet
  BY ReceiveStartFailedIsQuiet
<1>5. Held' = Held /\ OnTheWay' = OnTheWay
  <2>1. PathRests
    BY <1>3, <1>4 DEF PathRests, Quiet, ptyVars, ReceiveStartFailed, boundVars
  <2> QED
    BY <2>1, PathTake DEF GapInv, ReceiveStartFailed
<1>6. Range(wire) = {Head(wire)} \cup Range(wire') /\ wire' \in Seq(Frames)
  BY <1>1, RangeSplit, RangeTail
<1>7. Owed' => Owed
  BY <1>2, <1>3 DEF Owed, Awaits, RevisionOf, ptyVars
<1>8. Down'
  BY <1>1, <1>2, <1>3, <1>6, AskedStages, DownStill DEF WholeInv
<1> QED
  BY <1>1, <1>2, <1>3, <1>4, <1>5, <1>6, <1>7, <1>8, AsksWhole DEF WholeInv

(* The end of a pass waits on the redraw that follows, or on none. *)
LEMMA EndPassWaits ==
    ASSUME NEW c \in Connections, c.replay = None, EndPass(c)
    PROVE  pass'.waitsOn \in {None, conn'.replay}
<1>1. CASE pass.pending /\ c.open
  <2>1. conn' = [c EXCEPT !.replaying = TRUE, !.replay = nextRead, !.clearScreen = TRUE]
        /\ pass' = PassOver(c)
    BY <1>1 DEF EndPass, BeginReplay
  <2>2. conn'.replay = nextRead /\ pass'.waitsOn = nextRead
    BY <2>1 DEF PassOver, Connections
  <2> QED
    BY <2>2
<1>2. CASE ~(pass.pending /\ c.open)
  <2>1. pass' = NoPass
    BY <1>2 DEF EndPass
  <2> QED
    BY <2>1 DEF NoPass
<1> QED
  BY <1>1, <1>2

LEMMA FinishReplayWhole == ASSUME IInv, IInv', GapInv, WholeInv, FinishReplay PROVE WholeInv'
<1> DEFINE c == [conn EXCEPT !.releasing = FALSE, !.replay = None]
<1>1. /\ conn \in Connections /\ conn.releasing /\ wire \in Seq(Frames) /\ conn.buffered = <<>>
      /\ conn.replay # None
  BY DEF FinishReplay, IInv, TypeOK, ViewTypeOK, NetTypeOK, ConnectionSound
<1>2. c \in Connections /\ c.replay = None /\ ~c.releasing
  BY <1>1 DEF Connections, None
<1>3. UNCHANGED <<ptyVars, up, hub, lagged, wire, starts, view, ignored>>
  BY DEF FinishReplay, netVars, boundVars
<1>4. Quiet
  BY FinishReplayIsQuiet
<1>5. Held' = Held /\ OnTheWay' = OnTheWay
  BY <1>3, <1>4 DEF Held, OnTheWay, Quiet
<1>6. CASE phase = "failing"
  <2>1. conn' = Closed /\ phase' = "failed" /\ reads' = reads
    BY <1>1, <1>6 DEF FinishReplay
  <2>2. ~Awaits' /\ ~Owed' /\ Snapshots' = Snapshots
    BY <1>3, <2>1 DEF Awaits, Owed, Closed, None, Snapshots
  <2>3. Awaited' /\ Behind' /\ ReadAhead' /\ Promised'
    BY <1>3, <1>4, <1>5, <2>2, QuietWhole DEF WholeInv
  <2>4. OutputKnown' /\ ReadsOnce'
    BY <1>3, <2>1, <2>2, KnownStill, ReadsStill DEF WholeInv
  <2>5. Down'
    BY <1>1, <1>3, <2>1, DownStill DEF WholeInv
  <2> QED
    BY <2>3, <2>4, <2>5 DEF WholeInv
<1>7. CASE phase # "failing"
  <2>1. /\ phase' = phase
        /\ \/ pass.waitsOn = conn.replay /\ EndPass(c)
           \/ pass.waitsOn # conn.replay /\ conn' = c /\ UNCHANGED <<pass, reads, nextRead>>
    BY <1>1, <1>7 DEF FinishReplay
  <2> HIDE DEF c
  <2>2. Asks(c)
    BY <1>2, <2>1, EndPassAsks DEF Asks
  <2>3. Owed' => Owed \/ (Awaits' /\ c.replay = None)
    <3>1. \A l : RevisionOf(l)' = RevisionOf(l)
      BY <1>3 DEF RevisionOf, ptyVars
    <3>2. Owed' => conn'.rev = conn.rev
      BY <1>4 DEF Owed, IInv, ConnectionSound, Quiet
    <3> QED
      BY <1>2, <1>3, <2>1, <3>1, <3>2 DEF Owed, ptyVars
  <2>4. Down'
    <3>1. ~up /\ phase \in {"settling", "live"} => pass'.waitsOn \in {None, conn'.replay}
      BY <1>2, <2>1, EndPassWaits DEF WholeInv, Down, PassOrphaned
    <3> QED
      BY <1>1, <1>3, <2>1, <2>2, <3>1, AskedStages, DownStill DEF WholeInv
  <2> QED
    BY <1>1, <1>2, <1>3, <1>4, <1>5, <2>2, <2>3, <2>4, AsksWhole DEF WholeInv
<1> QED
  BY <1>6, <1>7

(* No Resync is on its way while the ring has never overflowed. *)
LEMMA NoResync == ASSUME IInv, WholeInv PROVE ~ReceiveResync
  BY Taken DEF WholeInv, ReadsOnce, ReceiveResync

-----------------------------------------------------------------------------
(* Backend steps. *)

(* The backend moved, and no event with it: what was to come still is. *)
LEMMA BackendWhole ==
    ASSUME IInv, Awaited, Behind, Promised,
           UNCHANGED <<launches, published, viewVars, up, ignored>>,
           session' \in {session, None}, OnTheWay' = OnTheWay,
           \A q \in Snapshots :
              \E p \in Snapshots' :
                 /\ p.id = q.id
                 /\ p.stage = "taken" =>
                       \/ q.stage = "taken" /\ p.launch = q.launch /\ p.seq = q.seq
                       \/ session # None => /\ p.launch = session
                                             /\ \A n \in 1..published[session] : n <= p.seq
    PROVE  Awaited' /\ Behind' /\ Promised'
<1>1. UNCHANGED <<launches, published, phase, conn, view, up, ignored>> /\ Started' = Started
  BY DEF viewVars, Started
<1>2. \A l, n : Drawn(l, n)' = Drawn(l, n)
  BY <1>1 DEF Drawn
<1>3. Held' = Held /\ Awaits' = Awaits
  BY <1>1 DEF Held, Awaits
<1>4. Awaited'
  BY <1>1, <1>3 DEF Awaited
<1>5. Behind'
  BY <1>1, <1>2, <1>3 DEF Behind
<1>6. ASSUME Owed', NEW n \in 1..published[session] PROVE Coming(session, n)'
  <2>1. session' = session /\ session # None /\ Owed
    BY <1>1, <1>3, <1>6 DEF Owed, RevisionOf
  <2>2. CASE FreshRead(session, n)
    <3>1. PICK q \in Snapshots : q.id = conn.replay
                                 /\ (q.stage = "taken" => q.launch = session /\ n <= q.seq)
      BY <2>2 DEF FreshRead
    <3>2. PICK p \in Snapshots' :
             /\ p.id = q.id
             /\ p.stage = "taken" =>
                   \/ q.stage = "taken" /\ p.launch = q.launch /\ p.seq = q.seq
                   \/ p.launch = session /\ \A m \in 1..published[session] : m <= p.seq
      BY <2>1, <3>1
    <3>3. p.stage = "taken" => p.launch = session /\ n <= p.seq
      BY <1>6, <3>1, <3>2
    <3> QED
      BY <1>1, <1>3, <2>1, <2>2, <3>1, <3>2, <3>3 DEF FreshRead, Coming
  <2>3. CASE ~FreshRead(session, n)
    <3>1. Coming(session, n)
      BY <1>6, <2>1 DEF Promised
    <3> QED
      BY <1>1, <1>2, <1>3, <2>1, <2>3, <3>1 DEF Coming
  <2> QED
    BY <2>2, <2>3
<1> QED
  BY <1>1, <1>4, <1>5, <1>6 DEF Promised, Owed

(* What runs was started. *)
LEMMA SessionStarted ==
    ASSUME PtyTypeOK, session # None
    PROVE  session \in Started /\ session \in Launches
  BY TerminalStreamAssumption DEF PtyTypeOK, Started, Launches, None

(* What is on screen has the type of what is shown. *)
LEMMA ViewTypes ==
    ASSUME TypeOK, NEW i \in 1..Len(view)
    PROVE  view[i].launch \in Launches /\ view[i].seq \in Nat
<1>1. view \in Seq(Shown)
  BY DEF TypeOK, ViewTypeOK
<1>2. view[i] \in Shown
  BY <1>1
<1> QED
  BY <1>2 DEF Shown

(* Nothing that is read, waited for or on the wire moves. *)
LEMMA StillDown ==
    ASSUME Down, UNCHANGED <<up, wire, reads, starts, viewVars>>
    PROVE  Down'
  BY DEF Down, PassOrphaned, viewVars

LEMMA PushWhole ==
    ASSUME PatientViewer, IInv, IInv', GapInv, WholeInv, NEW l \in Started, Push(l)
    PROVE  WholeInv'
<1>1. PICK blank \in ScreensAfterPush :
         history' = [history EXCEPT ![l] = [seq |-> @.seq + 1, blank |-> blank]]
  BY DEF Push
<1>2. ~blank
  BY DEF PatientViewer
<1>3. UNCHANGED <<launches, session, published, up, hub, lagged, wire, reads, starts, viewVars, ignored>>
      /\ Started' = Started /\ Snapshots' = Snapshots
  BY DEF Push, netVars, callVars, boundVars, Started, Snapshots
<1>4. UNCHANGED <<view, conn>>
  BY <1>3 DEF viewVars
<1>5. OnTheWay' = OnTheWay
  BY <1>3 DEF OnTheWay
<1>6. l \in Launches /\ history[l].seq \in Nat
  BY PtyTypes DEF IInv, TypeOK
<1>7. PICK h : h = [seq |-> history[l].seq + 1, blank |-> blank]
  OBVIOUS
<1>8. /\ history'[l] = h /\ h.seq = history[l].seq + 1 /\ ~h.blank
      /\ \A m \in Launches \ {l} : history'[m] = history[m]
  BY <1>1, <1>2, <1>6, <1>7 DEF IInv, TypeOK, PtyTypeOK
<1>9. OutputKnown'
  <2>1. \A m \in Launches : history'[m].blank => history'[m].seq = 0
    BY <1>8 DEF WholeInv, OutputKnown
  <2>2. \A m \in Launches \ Started : history'[m].seq = 0
    BY <1>8 DEF WholeInv, OutputKnown
  <2>3. ASSUME NEW i \in 1..Len(view) PROVE view[i].seq <= history'[view[i].launch].seq
    <3>1. view[i].launch \in Launches /\ view[i].seq \in Nat
      BY ViewTypes DEF IInv
    <3>2. view[i].seq <= history[view[i].launch].seq
      BY DEF WholeInv, OutputKnown
    <3> QED
      BY <1>6, <1>8, <3>1, <3>2
  <2> QED
    BY <1>3, <1>4, <2>1, <2>2, <2>3 DEF WholeInv, OutputKnown
<1>10. ReadsOnce' /\ ReadAhead' /\ Down'
  BY <1>3, <1>4, StillDown DEF WholeInv, ReadsOnce, ReadAhead, Awaits
<1>11. Awaited' /\ Behind' /\ Promised'
  BY <1>3, <1>5, BackendWhole DEF WholeInv
<1> QED
  BY <1>9, <1>10, <1>11 DEF WholeInv

LEMMA CloseWhole == ASSUME IInv, IInv', GapInv, WholeInv, CloseTerminal PROVE WholeInv'
<1>1. UNCHANGED <<launches, history, published, up, hub, lagged, wire, reads, starts, viewVars, ignored>>
      /\ session' = None /\ Started' = Started /\ Snapshots' = Snapshots
  BY DEF CloseTerminal, netVars, callVars, boundVars, Started, Snapshots
<1>2. UNCHANGED <<view, conn>>
  BY <1>1 DEF viewVars
<1>3. OutputKnown' /\ ReadsOnce' /\ ReadAhead' /\ Down'
  BY <1>1, <1>2, StillDown DEF WholeInv, OutputKnown, ReadsOnce, ReadAhead, Awaits
<1>4. OnTheWay' = OnTheWay
  BY <1>1 DEF OnTheWay
<1>5. Awaited' /\ Behind' /\ Promised'
  BY <1>1, <1>4, BackendWhole DEF WholeInv
<1> QED
  BY <1>3, <1>5 DEF WholeInv

LEMMA ForwardEventWhole ==
    ASSUME IInv, IInv', GapInv, WholeInv, lagged = {}, ForwardEvent
    PROVE  WholeInv'
<1>1. /\ up /\ up' /\ hub # <<>> /\ wire' = Append(wire, OutputFrame(Head(hub))) /\ hub' = Tail(hub)
      /\ UNCHANGED <<launches, session, history, published, reads, starts, viewVars, ignored>>
      /\ Started' = Started
  BY DEF ForwardEvent, ptyVars, callVars, boundVars, Started
<1>2. UNCHANGED <<view, conn>>
  BY <1>1 DEF viewVars
<1>3. PICK f : f = OutputFrame(Head(hub))
  OBVIOUS
<1>4. /\ hub \in Seq(Events) /\ wire \in Seq(Frames) /\ Head(hub) \in Events
      /\ Range(hub) = {Head(hub)} \cup Range(Tail(hub))
  BY <1>1, RangeTail, RangeSplit DEF IInv, TypeOK, NetTypeOK
<1>5. f.kind = "output" /\ f.event = Head(hub) /\ f \in Frames
  BY <1>3, <1>4 DEF OutputFrame, Frames
<1>6. Range(wire') = Range(wire) \cup {f}
  BY <1>1, <1>3, <1>4, <1>5, RangeAppend
<1>7. Snapshots' = Snapshots
  BY <1>1, <1>5, <1>6 DEF Snapshots
<1>8. OnTheWay' = OnTheWay
  <2>1. {g.event : g \in {k \in Range(wire') : k.kind = "output"}}
          = {g.event : g \in {k \in Range(wire) : k.kind = "output"}} \cup {Head(hub)}
    BY <1>5, <1>6
  <2> QED
    BY <1>1, <1>4, <2>1 DEF OnTheWay
<1>9. ReadsOnce' /\ OutputKnown' /\ ReadAhead' /\ Down'
  BY <1>1, <1>2, <1>5, <1>6, <1>7 DEF WholeInv, OutputKnown, ReadsOnce, ReadAhead, Awaits, Down
<1>10. Awaited' /\ Behind' /\ Promised'
  BY <1>1, <1>7, <1>8, BackendWhole DEF WholeInv
<1> QED
  BY <1>9, <1>10 DEF WholeInv

LEMMA PublishWhole ==
    ASSUME IInv, IInv', GapInv, WholeInv, lagged = {}, lagged' = {}, NEW l \in Started, Publish(l)
    PROVE  WholeInv'
<1> DEFINE e == Event(l, published[l] + 1)
<1>1. /\ UNCHANGED <<launches, session, history, up, wire, reads, starts, viewVars, ignored>>
      /\ Started' = Started /\ Snapshots' = Snapshots
      /\ published' = [published EXCEPT ![l] = @ + 1]
  BY DEF Publish, callVars, Started, Snapshots
<1>2. UNCHANGED <<view, conn, phase>>
  BY <1>1 DEF viewVars
<1>3. OutputKnown' /\ ReadsOnce' /\ Awaited' /\ ReadAhead' /\ Down'
  BY <1>1, <1>2, StillDown DEF WholeInv, OutputKnown, ReadsOnce, Awaited, ReadAhead, Awaits
<1>4. l \in Launches /\ published[l] \in Nat
  BY PtyTypes DEF IInv, TypeOK
<1>5. published'[l] = published[l] + 1 /\ \A m \in Launches \ {l} : published'[m] = published[m]
  BY <1>1, <1>4 DEF IInv, TypeOK, PtyTypeOK
<1>6. /\ e \in Events /\ e.launch = l /\ e.seq = published[l] + 1
      /\ \A m, n : Event(m, n) = e => m = l /\ n = published[l] + 1
  <2>1. e \in Events /\ e.launch = l /\ e.seq = published[l] + 1
    BY <1>4 DEF Event, Events
  <2>2. \A m, n : Event(m, n).launch = m /\ Event(m, n).seq = n
    BY DEF Event
  <2> QED
    BY <2>1, <2>2
<1>7. \/ ~up /\ hub' = hub
      \/ up /\ hub' = Append(hub, e)
  BY DEF Publish
<1> HIDE DEF e
<1>8. OnTheWay' \subseteq OnTheWay \cup {e} /\ (up => e \in OnTheWay' /\ OnTheWay \subseteq OnTheWay')
  <2>1. CASE ~up /\ hub' = hub
    BY <1>1, <2>1 DEF OnTheWay
  <2>2. CASE up /\ hub' = Append(hub, e)
    <3>1. Range(hub') = Range(hub) \cup {e}
      BY <1>6, <2>2, RangeAppend DEF IInv, TypeOK, NetTypeOK
    <3> QED
      BY <1>1, <3>1 DEF OnTheWay
  <2> QED
    BY <1>7, <2>1, <2>2
<1>9. \A m, n : Drawn(m, n)' = Drawn(m, n)
  BY <1>2 DEF Drawn
<1>10. Held' = Held
  BY <1>2 DEF Held
<1>11. \A m \in Started : m \in Launches /\ published[m] \in Nat
  BY PtyTypes DEF IInv, TypeOK
<1>12. Behind'
  <2> SUFFICES ASSUME conn.open, NEW m \in Started, launches[m] = conn.rev,
                      NEW n \in 1..conn.lastSequence,
                      n > published'[m] \/ Event(m, n) \in (Held \cup OnTheWay)'
               PROVE  Drawn(m, n)
    BY <1>1, <1>2, <1>9 DEF Behind
  <2>1. conn.lastSequence \in Nat
    BY DEF IInv, TypeOK, ViewTypeOK, Connections
  <2>2. n > published[m] \/ Event(m, n) \in Held \cup OnTheWay
    BY <1>4, <1>5, <1>6, <1>8, <1>10, <1>11, <2>1
  <2> QED
    BY <2>2 DEF WholeInv, Behind
<1>13. Promised'
  <2> SUFFICES ASSUME Owed', NEW n \in 1..published'[session]
               PROVE  Coming(session, n)'
    BY <1>1 DEF Promised
  <2>1. Owed
    BY <1>1, <1>2 DEF Owed, Awaits, RevisionOf
  <2>2. up /\ session \in Started
    BY <2>1, SessionStarted DEF Owed, IInv, TypeOK
  <2>3. CASE n \in 1..published[session]
    <3>1. Coming(session, n)
      BY <2>1, <2>3 DEF WholeInv, Promised
    <3>2. \A q : FreshRead(session, q)' = FreshRead(session, q)
      BY <1>1, <1>2 DEF FreshRead, Awaits
    <3> QED
      BY <1>1, <1>2, <1>8, <1>9, <1>10, <2>2, <3>1, <3>2 DEF Coming
  <2>4. CASE n \notin 1..published[session]
    <3>1. session = l /\ n = published[l] + 1
      BY <1>4, <1>5, <1>11, <2>2, <2>4
    <3>2. Event(session, n) = e
      BY <3>1 DEF e
    <3> QED
      BY <1>1, <1>8, <2>2, <3>2 DEF Coming
  <2> QED
    BY <2>3, <2>4
<1> QED
  BY <1>3, <1>12, <1>13 DEF WholeInv

LEMMA OwnerLaunchWhole ==
    ASSUME ReadOnly, IInv, IInv', GapInv, WholeInv, NEW r \in Revisions, OwnerLaunch(r)
    PROVE  WholeInv'
<1>1. /\ UNCHANGED <<history, published, up, hub, lagged, wire, reads, starts, viewVars, ignored>>
      /\ Snapshots' = Snapshots /\ session' = Len(launches) + 1
  BY DEF OwnerLaunch, Launch, netVars, callVars, boundVars, Snapshots
<1>2. UNCHANGED <<view, conn, phase>>
  BY <1>1 DEF viewVars
<1>3. /\ Started' = Started \cup {session'} /\ session' \in Launches \ Started
      /\ \A m \in Started : launches'[m] = launches[m]
  <2>1. Launch(r) /\ PtyTypeOK /\ Len(launches) \in Nat
    BY PtyTypes DEF OwnerLaunch, IInv, TypeOK
  <2>2. /\ Started' = Started \cup {Len(launches')} /\ Len(launches') = Len(launches) + 1
        /\ \A m \in Started : launches'[m] = launches[m]
    BY <2>1, LaunchGrows
  <2>3. Len(launches) + 1 \in Launches \ Started
    BY <2>1, TerminalStreamAssumption DEF Launch, Launches, Started
  <2> QED
    BY <1>1, <2>1, <2>2, <2>3
<1>4. OutputKnown' /\ ReadsOnce' /\ Awaited' /\ ReadAhead' /\ Down'
  BY <1>1, <1>2, <1>3, StillDown DEF WholeInv, OutputKnown, ReadsOnce, Awaited, ReadAhead, Awaits
<1>5. OnTheWay' = OnTheWay /\ Held' = Held /\ \A m, n : Drawn(m, n)' = Drawn(m, n)
  BY <1>1, <1>2 DEF OnTheWay, Held, Drawn
<1>6. Behind'
  <2> SUFFICES ASSUME conn.open, NEW m \in Started', launches'[m] = conn.rev,
                      NEW n \in 1..conn.lastSequence,
                      n > published[m] \/ Event(m, n) \in Held \cup OnTheWay
               PROVE  Drawn(m, n)
    BY <1>1, <1>2, <1>5 DEF Behind
  <2>1. CASE m \in Started
    BY <1>3, <2>1 DEF WholeInv, Behind
  <2>2. CASE m = session'
    <3>1. \A k \in Started : launches[k] # conn.rev
      BY <1>3, <2>2 DEF IInv, ViewerInv, FreshRevisions
    <3>2. conn.lastSequence = 0
      BY <3>1 DEF IInv, ViewerInv, PositionReal
    <3> QED
      BY <3>2
  <2> QED
    BY <1>3, <2>1, <2>2
<1>7. published'[session'] = 0
  <2>1. history[session'].seq = 0
    BY <1>3 DEF WholeInv, OutputKnown
  <2>2. published[session'] <= history[session'].seq /\ published[session'] \in Nat
    BY <1>3 DEF IInv, OutputReal, TypeOK, PtyTypeOK
  <2> QED
    BY <1>1, <2>1, <2>2
<1>8. Promised'
  BY <1>7 DEF Promised
<1> QED
  BY <1>4, <1>6, <1>8 DEF WholeInv

LEMMA HandleStartWhole ==
    ASSUME ReadOnly, IInv, IInv', GapInv, WholeInv, NEW c \in starts, HandleStart(c)
    PROVE  WholeInv'
<1>1. /\ UNCHANGED <<ptyVars, up, hub, lagged, reads, nextRead, viewVars, boundVars>>
      /\ starts' = starts \ {c} /\ c.sent
  BY DEF HandleStart
<1>2. /\ UNCHANGED <<launches, session, history, published, view, conn, ignored>>
      /\ Started' = Started
  BY <1>1 DEF ptyVars, viewVars, boundVars, Started
<1>3. PICK f : wire' = Append(wire, f) /\ f.kind \in {"started", "startFailed"}
  BY DEF HandleStart, StartedFrame, FailedFrame
<1>4. f \in Frames /\ wire \in Seq(Frames)
  <2>1. wire' \in Seq(Frames) /\ wire \in Seq(Frames)
    BY DEF IInv, TypeOK, NetTypeOK
  <2>2. wire'[Len(wire) + 1] = f /\ Len(wire') = Len(wire) + 1 /\ Len(wire) \in Nat
    BY <1>3, <2>1, LenProperties
  <2> QED
    BY <2>1, <2>2
<1>5. Range(wire') = Range(wire) \cup {f}
  BY <1>3, <1>4, RangeAppend
<1>6. Snapshots' = Snapshots /\ OnTheWay' = OnTheWay
  BY <1>1, <1>3, <1>5 DEF Snapshots, OnTheWay
<1>7. up
  BY <1>1 DEF WholeInv, Down
<1>8. OutputKnown' /\ ReadsOnce' /\ ReadAhead' /\ Down'
  BY <1>1, <1>2, <1>3, <1>5, <1>6, <1>7
     DEF WholeInv, OutputKnown, ReadsOnce, ReadAhead, Awaits, Down
<1>9. Awaited' /\ Behind' /\ Promised'
  BY <1>1, <1>2, <1>6, BackendWhole DEF WholeInv
<1> QED
  BY <1>8, <1>9 DEF WholeInv

LEMMA SendResultWhole ==
    ASSUME IInv, IInv', GapInv, WholeInv, NEW q \in reads, SendResult(q)
    PROVE  WholeInv'
<1>1. /\ q \in Reads /\ q.stage = "taken" /\ reads' = reads \ {q}
      /\ wire' = Append(wire, ScrollbackFrame(q))
      /\ UNCHANGED <<ptyVars, up, hub, lagged, starts, nextRead, viewVars, boundVars>>
  BY DEF SendResult, IInv, TypeOK, NetTypeOK
<1>2. /\ UNCHANGED <<launches, session, history, published, view, conn, ignored>>
      /\ Started' = Started
  BY <1>1 DEF ptyVars, viewVars, boundVars, Started
<1>3. PICK f : f = ScrollbackFrame(q)
  OBVIOUS
<1>4. f \in Frames /\ f.kind = "scrollback" /\ f.read = q
  BY <1>1, <1>3 DEF ScrollbackFrame, Frames
<1>5. Range(wire') = Range(wire) \cup {f}
  BY <1>1, <1>3, <1>4, RangeAppend DEF IInv, TypeOK, NetTypeOK
<1>6. Snapshots' = Snapshots /\ OnTheWay' = OnTheWay
  BY <1>1, <1>4, <1>5 DEF Snapshots, OnTheWay
<1>7. up
  BY <1>1 DEF WholeInv, Down
<1>8. OutputKnown' /\ ReadsOnce' /\ ReadAhead' /\ Down'
  BY <1>1, <1>2, <1>4, <1>5, <1>6, <1>7
     DEF WholeInv, OutputKnown, ReadsOnce, ReadAhead, Awaits, Down
<1>9. Awaited' /\ Behind' /\ Promised'
  BY <1>1, <1>2, <1>6, BackendWhole DEF WholeInv
<1> QED
  BY <1>8, <1>9 DEF WholeInv

LEMMA TakeSnapshotWhole ==
    ASSUME IInv, IInv', GapInv, WholeInv, NEW q \in reads, TakeSnapshot(q)
    PROVE  WholeInv'
<1> DEFINE h == IF session = None THEN [seq |-> 0, blank |-> TRUE] ELSE history[session]
           T == [id |-> q.id, stage |-> "taken", launch |-> session,
                 seq |-> h.seq, blank |-> h.blank]
<1>1. /\ q.stage = "sent" /\ reads' = (reads \ {q}) \cup {T}
      /\ UNCHANGED <<ptyVars, netVars, starts, nextRead, viewVars, boundVars>>
  BY DEF TakeSnapshot
<1>2. /\ UNCHANGED <<launches, session, history, published, view, conn, ignored, up, wire, hub>>
      /\ Started' = Started
  BY <1>1 DEF ptyVars, viewVars, boundVars, netVars, Started
<1>3. PICK t : t = T
  OBVIOUS
<1>4. /\ t.id = q.id /\ t.stage = "taken" /\ t.launch = session
      /\ session # None => t.seq = history[session].seq /\ t.blank = history[session].blank
      /\ session = None => t.seq = 0
  BY <1>3
<1>5. reads' = (reads \ {q}) \cup {t}
  BY <1>1, <1>3
<1> HIDE DEF T
<1>6. OnTheWay' = OnTheWay
  BY <1>2 DEF OnTheWay
<1>7. \A p \in Snapshots : p.id = q.id => p = q
  BY DEF WholeInv, ReadsOnce, Snapshots
<1>8. \A f \in Range(wire) : f.kind = "scrollback" => f.read # q
  BY <1>1 DEF WholeInv, ReadsOnce
<1>9. Snapshots' = (Snapshots \ {q}) \cup {t}
  BY <1>2, <1>5, <1>8 DEF Snapshots
<1>10. ReadsOnce'
  BY <1>2, <1>4, <1>7, <1>9 DEF WholeInv, ReadsOnce
<1>11. OutputKnown'
  <2>1. t.blank => t.seq = 0
    BY <1>4, SessionStarted DEF WholeInv, OutputKnown, IInv, TypeOK
  <2> QED
    BY <1>2, <1>9, <2>1 DEF WholeInv, OutputKnown
<1>12. ReadAhead'
  <2>1. ASSUME NEW i \in 1..Len(view), view[i].launch = t.launch PROVE view[i].seq <= t.seq
    <3>1. session # None
      BY <1>4, <2>1, ViewTypes DEF IInv, Launches, None
    <3> QED
      BY <1>4, <2>1, <3>1 DEF WholeInv, OutputKnown
  <2> QED
    BY <1>2, <1>9, <2>1 DEF WholeInv, ReadAhead, Awaits
<1>13. Down'
  <2>1. up
    BY <1>1 DEF WholeInv, Down
  <2> QED
    BY <1>2, <2>1 DEF Down
<1>14. Awaited' /\ Behind' /\ Promised'
  <2>1. session # None => \A n \in 1..published[session] : n <= t.seq
    <3>1. ASSUME session # None
          PROVE  /\ published[session] <= history[session].seq
                 /\ history[session].seq \in Nat /\ published[session] \in Nat
      BY <3>1, SessionStarted, PtyTypes DEF IInv, TypeOK, OutputReal
    <3> QED
      BY <1>4, <3>1
  <2>2. ASSUME NEW p \in Snapshots
        PROVE  \E s \in Snapshots' :
                 /\ s.id = p.id
                 /\ s.stage = "taken" =>
                       \/ p.stage = "taken" /\ s.launch = p.launch /\ s.seq = p.seq
                       \/ session # None => /\ s.launch = session
                                             /\ \A n \in 1..published[session] : n <= s.seq
    <3>1. CASE p = q
      BY <1>4, <1>9, <2>1, <3>1
    <3>2. CASE p # q
      BY <1>9, <3>2
    <3> QED
      BY <3>1, <3>2
  <2> QED
    BY <1>1, <1>2, <1>6, <2>2, BackendWhole DEF WholeInv
<1> QED
  BY <1>10, <1>11, <1>12, <1>13, <1>14 DEF WholeInv

-----------------------------------------------------------------------------
(* The bridge and the panel. *)

(* A connection that is not awaited and not owed anything leaves little to show. *)
LEMMA NothingOwed ==
    ASSUME OutputKnown, ReadsOnce, IInv, UNCHANGED ptyVars,
           view' = view \/ view' = <<>>, reads' = reads,
           Range(wire') \subseteq Range(wire), ~Awaits', ~Owed',
           conn'.open => conn'.lastSequence = 0
    PROVE  OutputKnown' /\ ReadsOnce' /\ Awaited' /\ Behind' /\ ReadAhead' /\ Promised'
<1>1. UNCHANGED <<launches, history>> /\ Started' = Started
  BY DEF ptyVars, Started
<1>2. ReadsOnce' /\ Snapshots' \subseteq Snapshots
  <2>1. Snapshots' \subseteq Snapshots
    BY DEF Snapshots
  <2> QED
    BY <2>1, ReadsStill
<1>3. OutputKnown'
  <2>1. \A i \in 1..Len(view') : i \in 1..Len(view) /\ view'[i] = view[i]
    <3>1. view' = <<>> => Len(view') = 0
      OBVIOUS
    <3> QED
      BY <3>1
  <2> QED
    BY <1>1, <1>2, <2>1 DEF OutputKnown
<1>4. Behind'
  BY DEF Behind
<1> QED
  BY <1>2, <1>3, <1>4 DEF Awaited, ReadAhead, Promised

LEMMA ConnectWhole ==
    ASSUME IInv, IInv', GapInv, WholeInv, Idle, NEW r \in Revisions, Connect(r), UNCHANGED view
    PROVE  WholeInv'
<1>1. /\ UNCHANGED <<ptyVars, netVars, reads, nextRead, pass, boundVars>>
      /\ phase' = "starting"
      /\ conn' = [Closed EXCEPT !.open = TRUE, !.rev = r, !.replaying = TRUE]
      /\ starts' = starts \cup {[attach |-> attach', rev |-> r, sent |-> up]}
  BY DEF Connect
<1>2. conn'.replay = None /\ conn'.lastSequence = 0
  BY <1>1 DEF Closed
<1>3. ~Awaits' /\ ~Owed'
  BY <1>1, <1>2 DEF Awaits, Owed
<1>4. up' = up /\ wire' = wire /\ wire \in Seq(Frames)
  BY <1>1 DEF netVars, IInv, TypeOK, NetTypeOK
<1>5. Down'
  BY <1>1, <1>4, DownStill DEF WholeInv
<1> QED
  BY <1>1, <1>2, <1>3, <1>4, <1>5, NothingOwed DEF WholeInv

LEMMA UnmountWhole == ASSUME IInv, IInv', GapInv, WholeInv, Unmount PROVE WholeInv'
<1>1. /\ UNCHANGED <<ptyVars, netVars, callVars, attach, pass, boundVars>>
      /\ phase' = "unmounted" /\ conn' = Closed /\ view' = <<>>
  BY DEF Unmount
<1>2. ~Awaits' /\ ~Owed' /\ conn'.lastSequence = 0
  BY <1>1 DEF Awaits, Owed, Closed, None
<1>3. up' = up /\ wire' = wire /\ wire \in Seq(Frames) /\ reads' = reads /\ starts' = starts
  BY <1>1 DEF netVars, callVars, IInv, TypeOK, NetTypeOK
<1>4. Down'
  BY <1>1, <1>3, DownStill DEF WholeInv
<1> QED
  BY <1>1, <1>2, <1>3, <1>4, NothingOwed DEF WholeInv

LEMMA DisconnectWhole == ASSUME IInv, IInv', GapInv, WholeInv, Disconnect PROVE WholeInv'
<1> DEFINE starting == phase = "starting"
           follow   == PassOrphaned /\ pass.pending /\ conn.open
           fresh    == conn.replay = None /\ (starting \/ follow)
<1>1. /\ up' = FALSE /\ hub' = <<>> /\ wire' = <<>> /\ starts' = {} /\ ~conn.releasing
      /\ lagged' = {} /\ missed' = missed \cup OnTheWay
      /\ UNCHANGED <<ptyVars, view, ignored>>
  BY DEF Disconnect, Idle
<1>2. /\ conn' = CASE conn.replay # None ->
                        [conn EXCEPT !.replaying = FALSE, !.releasing = TRUE]
                   [] fresh ->
                        [conn EXCEPT !.replaying = TRUE, !.replay = nextRead,
                                     !.clearScreen = ~starting]
                   [] OTHER -> conn
      /\ reads' = IF fresh THEN {FreshAsk("queued")} ELSE {}
      /\ pass' = IF follow THEN PassOver(conn) ELSE IF PassOrphaned THEN NoPass ELSE pass
  BY DEF Disconnect, FreshAsk
<1>3. conn \in Connections /\ nextRead # None
  BY DEF IInv, TypeOK, ViewTypeOK, NetTypeOK, None
<1>4. Quiet
  BY DisconnectIsQuiet
<1>5. Held' = Held /\ OnTheWay' = {}
  <2>1. published' = published /\ conn'.buffered = conn.buffered
    BY <1>1, <1>4 DEF ptyVars, Quiet
  <2> QED
    BY <1>1, <2>1, DisconnectPath DEF IInv, GapInv
<1>6. Range(wire') = {}
  BY <1>1, RangeEmpty
<1>7. /\ ReadsOnce'
      /\ \A q \in Snapshots' : q.id = nextRead /\ q.stage # "taken" /\ q.seq = 0
      /\ Snapshots' = reads'
  <2>1. Snapshots' = reads'
    BY <1>6 DEF Snapshots
  <2>2. \A q \in reads' : q = FreshAsk("queued")
    BY <1>2
  <2> QED
    BY <1>6, <2>1, <2>2, FreshAskIs DEF ReadsOnce
<1>8. OutputKnown'
  BY <1>1, <1>7, KnownStill DEF WholeInv
<1>9. ~Owed'
  BY <1>1 DEF Owed
<1>10. CASE fresh
  <2>1. conn' = [conn EXCEPT !.replaying = TRUE, !.replay = nextRead, !.clearScreen = ~starting]
        /\ reads' = {FreshAsk("queued")}
    BY <1>2, <1>10
  <2>2. conn'.replay = nextRead /\ ~conn'.releasing
    BY <1>1, <1>3, <2>1 DEF Connections
  <2>3. Awaits' /\ \E q \in Snapshots' : q.id = conn'.replay
    BY <1>3, <1>7, <2>1, <2>2, FreshAskIs DEF Awaits
  <2>4. Awaited' /\ Behind' /\ ReadAhead' /\ Promised'
    BY <1>1, <1>4, <1>5, <1>7, <1>9, <2>3, QuietWhole DEF WholeInv
  <2>5. pass'.waitsOn \in {None, conn'.replay}
    BY <1>2, <1>10, <2>2 DEF PassOver, PassOrphaned, NoPass
  <2>6. Down'
    BY <1>1, <1>2, <1>10, <2>1, <2>5, FreshAskIs DEF Down, PassOrphaned
  <2> QED
    BY <1>7, <1>8, <2>4, <2>6 DEF WholeInv
<1>11. CASE ~fresh
  <2>1. ~Awaits' /\ conn'.replay = conn.replay
    BY <1>1, <1>2, <1>3, <1>11 DEF Awaits, Connections
  <2>2. Awaited' /\ Behind' /\ ReadAhead' /\ Promised'
    BY <1>1, <1>4, <1>5, <1>7, <1>9, <2>1, QuietWhole DEF WholeInv
  <2>3. pass'.waitsOn \in {None, conn'.replay}
    BY <1>2, <1>11, <2>1 DEF PassOver, PassOrphaned, NoPass
  <2>4. Down'
    BY <1>1, <1>2, <1>11, <2>3 DEF Down, PassOrphaned
  <2> QED
    BY <1>7, <1>8, <2>2, <2>4 DEF WholeInv
<1> QED
  BY <1>10, <1>11

LEMMA ReconnectWhole == ASSUME IInv, IInv', GapInv, WholeInv, Reconnect PROVE WholeInv'
<1> DEFINE flushed == {[q EXCEPT !.stage = "sent"] : q \in reads}
           clears  == pass.waitsOn = None /\ conn.open
           fresh   == clears /\ conn.replay = None
<1>1. /\ ~up /\ up' = TRUE /\ ~conn.releasing
      /\ UNCHANGED <<ptyVars, hub, wire, phase, view, ignored>>
      /\ reads' = IF fresh THEN flushed \cup {FreshAsk("sent")} ELSE flushed
      /\ conn' = IF fresh THEN [conn EXCEPT !.replaying = TRUE, !.replay = nextRead,
                                            !.clearScreen = TRUE]
                 ELSE conn
  BY DEF Reconnect, Idle, FreshAsk
<1>2. conn \in Connections /\ nextRead \in Nat /\ nextRead # None /\ reads \in SUBSET Reads
  BY DEF IInv, TypeOK, ViewTypeOK, NetTypeOK, None
<1>3. Quiet
  BY ReconnectIsQuiet
<1>4. Held' = Held /\ OnTheWay' = OnTheWay
  BY <1>1, <1>3 DEF Held, OnTheWay, Quiet
<1>5. wire = <<>> /\ Range(wire) = {} /\ Range(wire') = {}
  BY <1>1, RangeEmpty DEF WholeInv, Down
<1>6. Snapshots = reads /\ Snapshots' = reads'
  BY <1>5 DEF Snapshots
<1>7. \A q \in reads : LET f == [q EXCEPT !.stage = "sent"] IN SameRead(q, f) /\ f.stage = "sent"
  BY <1>2 DEF Reads, SameRead
<1>8. \A f \in flushed : f.stage = "sent" /\ \E q \in reads : f = [q EXCEPT !.stage = "sent"] /\ SameRead(q, f)
  BY <1>7
<1>9. \A q \in reads : \E f \in flushed : f.id = q.id
  BY <1>7 DEF SameRead
<1> HIDE DEF flushed
<1>10. \A q \in reads : q.id < nextRead /\ q.id \in Nat
  BY <1>2, <1>6 DEF IInv, SnapshotsReal, Reads
<1>11. \A p, q \in reads' : p.id = q.id => p = q
  <2>1. \A p, q \in flushed : p.id = q.id => p = q
    BY <1>6, <1>8 DEF WholeInv, ReadsOnce, SameRead
  <2>2. \A p \in flushed : p.id < nextRead /\ p.id \in Nat
    BY <1>8, <1>10 DEF SameRead
  <2> QED
    BY <1>1, <1>2, <2>1, <2>2, FreshAskIs
<1>12. ReadsOnce'
  BY <1>5, <1>6, <1>11 DEF ReadsOnce
<1>13. \A q \in Snapshots' : q.stage # "taken" /\ (q.blank => q.seq = 0)
  <2>1. \A q \in flushed : q.blank => q.seq = 0
    BY <1>6, <1>8 DEF SameRead, WholeInv, OutputKnown
  <2> QED
    BY <1>1, <1>6, <1>8, <2>1, FreshAskIs
<1>14. OutputKnown'
  <2>1. UNCHANGED <<launches, history, view>> /\ Started' = Started
    BY <1>1 DEF ptyVars, Started
  <2> QED
    BY <1>13, <2>1 DEF WholeInv, OutputKnown
<1>15. Down'
  BY <1>1 DEF Down
<1>16. CASE Awaits'
  <2>1. \E q \in Snapshots' : q.id = conn'.replay
    <3>1. CASE fresh
      <4>1. conn'.replay = nextRead
        BY <1>1, <1>2, <3>1 DEF Connections
      <4> QED
        BY <1>1, <1>6, <3>1, <4>1, FreshAskIs
    <3>2. CASE ~fresh
      <4>1. conn' = conn /\ Awaits
        BY <1>1, <1>16, <3>2 DEF Awaits
      <4> QED
        BY <1>1, <1>6, <1>9, <3>2, <4>1 DEF WholeInv, Awaited
    <3> QED
      BY <3>1, <3>2
  <2> QED
    BY <1>1, <1>3, <1>4, <1>12, <1>13, <1>14, <1>15, <1>16, <2>1, QuietWhole DEF WholeInv
<1>17. CASE ~Awaits'
  <2>1. ~fresh /\ conn' = conn /\ conn.replay = None
    BY <1>1, <1>2, <1>17 DEF Awaits, Connections
  <2>2. ASSUME Owed' PROVE FALSE
    <3>1. phase = "live"
      BY <1>1, <1>17, <2>2 DEF Owed
    <3>2. conn.open
      BY <3>1 DEF IInv, ConnectionSound
    <3>3. PassOrphaned
      BY <2>1, <3>2 DEF PassOrphaned
    <3> QED
      BY <1>1, <3>1, <3>3 DEF WholeInv, Down
  <2> QED
    BY <1>1, <1>3, <1>4, <1>12, <1>13, <1>14, <1>15, <1>17, <2>2, QuietWhole DEF WholeInv
<1> QED
  BY <1>16, <1>17

-----------------------------------------------------------------------------
(* The panel's callbacks. *)

(* A frame that is neither output nor a snapshot is taken from the wire. *)
LEMMA ReceiveStartedWhole ==
    ASSUME ReadOnly, IInv, IInv', GapInv, WholeInv, ReceiveStarted
    PROVE  WholeInv'
<1> DEFINE r == RevisionOf(Head(wire).launch)
<1>1. /\ wire \in Seq(Frames) /\ wire # <<>> /\ wire' = Tail(wire) /\ Head(wire).kind = "started"
      /\ up /\ ~conn.releasing
      /\ UNCHANGED <<ptyVars, up, hub, lagged, callVars, attach, pass, view, boundVars>>
  BY DEF ReceiveStarted, Take, Idle, IInv, TypeOK, NetTypeOK
<1>2. Range(wire) = {Head(wire)} \cup Range(wire')
  BY <1>1, RangeSplit
<1>3. /\ UNCHANGED <<launches, session, history, published, reads, ignored>> /\ Started' = Started
  BY <1>1 DEF ptyVars, callVars, boundVars, Started
<1>4. Snapshots' = Snapshots /\ OnTheWay' = OnTheWay
  BY <1>1, <1>2, <1>3 DEF Snapshots, OnTheWay
<1>5. OutputKnown' /\ ReadsOnce' /\ Down'
  BY <1>1, <1>2, <1>3, <1>4 DEF WholeInv, OutputKnown, ReadsOnce, Down
<1>6. CASE conn' = conn /\ (phase' = phase \/ (phase = "starting" /\ phase' = "settling"))
  <2>1. Quiet
    BY <1>3, <1>6 DEF Quiet, SameRead
  <2>2. Asks(conn) /\ Held' = Held
    BY <1>3, <1>6 DEF Asks, Held
  <2>3. Owed' => Owed
    BY <1>1, <1>3, <1>6 DEF Owed, Awaits, RevisionOf
  <2>4. conn \in Connections
    BY DEF IInv, TypeOK, ViewTypeOK
  <2> QED
    BY <1>1, <1>2, <1>3, <1>4, <1>5, <2>1, <2>2, <2>3, <2>4, AsksWhole DEF WholeInv
<1>7. CASE phase = "starting" /\ phase' = "settling" /\ conn.rev # r
           /\ conn' = [conn EXCEPT !.rev = r, !.lastSequence = 0,
                                   !.buffered = HeldFor(conn.buffered, r)]
  <2>1. /\ conn'.rev = r /\ conn'.lastSequence = 0 /\ conn'.replay = conn.replay
        /\ conn'.releasing = conn.releasing
    BY <1>7 DEF IInv, TypeOK, ViewTypeOK, Connections
  <2>2. Awaits' = Awaits
    BY <2>1 DEF Awaits
  <2>3. Awaited' /\ Behind' /\ ReadAhead'
    BY <1>1, <1>4, <2>1, <2>2 DEF WholeInv, Awaited, Behind, ReadAhead
  <2>4. ASSUME Owed', NEW n \in 1..published[session] PROVE Coming(session, n)'
    <3>1. Awaits /\ session # None /\ RevisionOf(session) = r /\ Owed
      BY <1>1, <1>3, <1>7, <2>1, <2>2, <2>4 DEF Owed, RevisionOf
    <3>2. Coming(session, n)
      BY <2>4, <3>1 DEF WholeInv, Promised
    <3>3. Event(session, n) \notin Held
      BY <1>7, <3>1 DEF IInv, HeldMatches, Held, Event
    <3>4. launches[session] # conn.rev
      BY <1>7, <3>1 DEF RevisionOf
    <3>5. FreshRead(session, n)' = FreshRead(session, n)
      BY <1>3, <1>4, <2>1, <2>2 DEF FreshRead
    <3> QED
      BY <1>3, <1>4, <3>2, <3>3, <3>4, <3>5 DEF Coming
  <2> QED
    BY <1>3, <1>5, <2>3, <2>4 DEF WholeInv, Promised, Owed
<1>8. \/ conn' = conn /\ (phase' = phase \/ (phase = "starting" /\ phase' = "settling"))
      \/ /\ phase = "starting" /\ phase' = "settling" /\ conn.rev # r
         /\ conn' = [conn EXCEPT !.rev = r, !.lastSequence = 0,
                                 !.buffered = HeldFor(conn.buffered, r)]
  <2>1. CASE phase = "starting" /\ Head(wire).attach = attach
    <3>1. phase' = "settling" /\ conn' = IF conn.rev = r THEN conn
                       ELSE [conn EXCEPT !.rev = r, !.lastSequence = 0,
                                         !.buffered = HeldFor(conn.buffered, r)]
      BY <2>1 DEF ReceiveStarted
    <3> HIDE DEF r
    <3> QED
      BY <2>1, <3>1
  <2>2. CASE ~(phase = "starting" /\ Head(wire).attach = attach)
    BY <2>2 DEF ReceiveStarted
  <2> QED
    BY <2>1, <2>2
<1> HIDE DEF r
<1> QED
  BY <1>6, <1>7, <1>8

(* The snapshot awaited is drawn: it shows what was on screen and what it was to. *)
LEMMA DrawWhole ==
    ASSUME ReadOnly, IInv, IInv', GapInv, WholeInv, Take("scrollback"),
           UNCHANGED <<ptyVars, up, hub, starts, phase, attach, ignored, pass, reads>>,
           NEW r, r = Head(wire).read, r.id = conn.replay,
           Matches(conn, r.launch), ~r.blank,
           view' = Append(IF conn.clearScreen THEN <<>> ELSE view, ShownSnapshot(r)),
           conn' = [conn EXCEPT !.lastSequence = r.seq, !.replaying = FALSE, !.releasing = TRUE]
    PROVE  WholeInv'
<1>1. PICK x : x = ShownSnapshot(r)
  OBVIOUS
<1>2. /\ wire \in Seq(Frames) /\ wire # <<>> /\ wire' = Tail(wire) /\ Head(wire).kind = "scrollback"
      /\ up /\ ~conn.releasing /\ Range(wire) = {Head(wire)} \cup Range(wire')
  BY RangeSplit DEF Take, Idle, IInv, TypeOK, NetTypeOK
<1>3. r \in Snapshots /\ r \in Reads /\ r.stage = "taken"
  BY <1>2, QueueTypes DEF Snapshots, WholeInv, ReadsOnce, IInv
<1>4. r.launch # None /\ r.launch \in Started /\ r.id # None /\ r.seq \in Nat
      /\ r.seq <= history[r.launch].seq
  BY <1>3 DEF IInv, SnapshotsReal, Real, Reads, None
<1>5. x.kind = "snapshot" /\ x.launch = r.launch /\ x.seq = r.seq
  BY <1>1 DEF ShownSnapshot
<1>6. /\ conn'.rev = conn.rev /\ conn'.lastSequence = r.seq /\ conn'.releasing
      /\ conn'.buffered = conn.buffered
  BY DEF IInv, TypeOK, ViewTypeOK, Connections
<1>7. UNCHANGED <<launches, session, history, published, ignored>> /\ Started' = Started
  BY DEF ptyVars, Started
<1>8. OnTheWay' = OnTheWay /\ Held' = Held /\ Snapshots' \subseteq Snapshots
  BY <1>2, <1>6 DEF OnTheWay, Held, Snapshots
<1>9. ReadsOnce' /\ Down'
  BY <1>2, <1>8 DEF WholeInv, ReadsOnce, Down
<1>10. /\ Len(view') \in 1..Len(view') /\ view'[Len(view')] = x
       /\ \A i \in 1..Len(view') : view'[i] = x \/ \E j \in 1..Len(view) : view'[i] = view[j]
  <2> DEFINE v == IF conn.clearScreen THEN <<>> ELSE view
  <2>1. v \in Seq(Shown) /\ view' = Append(v, x) /\ (v = view \/ v = <<>>)
    BY <1>1 DEF IInv, TypeOK, ViewTypeOK
  <2>2. v = <<>> => Len(v) = 0
    OBVIOUS
  <2> HIDE DEF v
  <2>3. /\ Len(view') = Len(v) + 1 /\ Len(v) \in Nat
        /\ \A i \in 1..Len(v) : view'[i] = v[i]
        /\ view'[Len(v) + 1] = x
    <3>1. x \in Shown
      BY <1>1, <1>4, PtyTypes DEF ShownSnapshot, Shown, IInv, TypeOK, ViewTypeOK
    <3> QED
      BY <2>1, <3>1, AppendProperties
  <2> QED
    BY <2>1, <2>2, <2>3
<1>11. OutputKnown'
  <2>1. \A i \in 1..Len(view') : /\ view'[i].seq <= history[view'[i].launch].seq
                                 /\ view'[i].kind = "chunk" => view'[i].seq # 0
    BY <1>4, <1>5, <1>10 DEF WholeInv, OutputKnown
  <2> QED
    BY <1>7, <1>8, <2>1 DEF WholeInv, OutputKnown
<1>12. ~Awaits' /\ Awaits
  BY <1>2, <1>4, <1>6 DEF Awaits
<1>13. Awaited' /\ ReadAhead'
  BY <1>12 DEF Awaited, ReadAhead
<1>14. \A l \in Started : launches[l] = conn.rev => l = r.launch
  BY <1>4 DEF IInv, ViewerInv, FreshRevisions, Matches, RevisionOf
<1>15. \A n \in 1..r.seq : Drawn(r.launch, n)'
  BY <1>5, <1>10 DEF Drawn, Shows
<1>16. Behind'
  BY <1>6, <1>7, <1>14, <1>15 DEF Behind
<1>17. ASSUME Owed', NEW n \in 1..published[session] PROVE Coming(session, n)'
  <2>1. Owed /\ RevisionOf(session) = conn.rev /\ session # None /\ session \in Started
    BY <1>2, <1>6, <1>7, <1>12, <1>17, SessionStarted DEF Owed, RevisionOf, IInv, TypeOK
  <2>2. r.launch = session /\ launches[session] = conn.rev
    BY <1>14, <2>1 DEF RevisionOf
  <2>3. Coming(session, n)
    BY <1>17, <2>1 DEF WholeInv, Promised
  <2>4. CASE FreshRead(session, n) \/ Drawn(session, n)
    <3>1. n \in 1..r.seq
      <4>1. CASE FreshRead(session, n)
        <5>1. PICK q \in Snapshots : q.id = conn.replay /\ (q.stage = "taken" => n <= q.seq)
          BY <4>1 DEF FreshRead
        <5>2. q = r
          BY <1>3, <5>1 DEF WholeInv, ReadsOnce
        <5> QED
          BY <1>3, <1>4, <1>17, <5>1, <5>2
      <4>2. CASE Drawn(session, n)
        <5>1. PICK i \in 1..Len(view) : Shows(view[i], session, n)
          BY <4>2 DEF Drawn
        <5>2. n <= view[i].seq /\ view[i].launch = session /\ view[i].seq \in Nat
          BY <5>1, ViewTypes DEF Shows, IInv
        <5>3. view[i].seq <= r.seq
          BY <1>3, <1>12, <2>2, <5>2 DEF WholeInv, ReadAhead
        <5> QED
          BY <1>4, <1>17, <5>2, <5>3
      <4> QED
        BY <2>4, <4>1, <4>2
    <3> QED
      BY <1>6, <1>7, <1>15, <2>2, <3>1 DEF Coming
  <2>5. CASE ~(FreshRead(session, n) \/ Drawn(session, n))
    BY <1>7, <1>8, <2>3, <2>5 DEF Coming
  <2> QED
    BY <2>4, <2>5
<1> QED
  BY <1>7, <1>9, <1>11, <1>13, <1>16, <1>17 DEF WholeInv, Promised, Owed

(* A snapshot that shows nothing of the launch on screen ends its redraw. *)
LEMMA EndedWhole ==
    ASSUME ReadOnly, IInv, IInv', GapInv, WholeInv, Take("scrollback"),
           UNCHANGED <<ptyVars, up, hub, starts, phase, view, ignored, reads>>, Quiet,
           NEW r, r = Head(wire).read, r.id = conn.replay,
           ~(Matches(conn, r.launch) /\ ~r.blank),
           conn' = [conn EXCEPT !.replaying = FALSE, !.releasing = TRUE]
    PROVE  WholeInv'
<1>1. /\ wire \in Seq(Frames) /\ wire # <<>> /\ wire' = Tail(wire) /\ Head(wire).kind = "scrollback"
      /\ up /\ ~conn.releasing /\ Range(wire) = {Head(wire)} \cup Range(wire')
  BY RangeSplit DEF Take, Idle, IInv, TypeOK, NetTypeOK
<1>2. r \in Snapshots /\ r \in Reads /\ r.stage = "taken" /\ r.seq \in Nat
  BY <1>1, QueueTypes DEF Snapshots, WholeInv, ReadsOnce, IInv
<1>3. /\ conn'.rev = conn.rev /\ conn'.releasing /\ conn'.open = conn.open
      /\ conn'.lastSequence = conn.lastSequence /\ conn'.buffered = conn.buffered
  BY DEF IInv, TypeOK, ViewTypeOK, Connections
<1>4. UNCHANGED <<launches, session, history, published, view, ignored>> /\ Started' = Started
  BY DEF ptyVars, Started
<1>5. OnTheWay' = OnTheWay /\ Held' = Held /\ Snapshots' \subseteq Snapshots
  BY <1>1, <1>3 DEF OnTheWay, Held, Snapshots
<1>6. OutputKnown' /\ ReadsOnce' /\ Down'
  BY <1>1, <1>4, <1>5 DEF WholeInv, OutputKnown, ReadsOnce, Down
<1>7. ~Awaits'
  BY <1>3 DEF Awaits
<1>8. Awaited' /\ ReadAhead'
  BY <1>7 DEF Awaited, ReadAhead
<1>9. \A l, n : Drawn(l, n)' = Drawn(l, n)
  BY <1>4 DEF Drawn
<1>10. Behind'
  BY <1>3, <1>4, <1>5, <1>9 DEF WholeInv, Behind
<1>11. ASSUME Owed', NEW n \in 1..published[session] PROVE Coming(session, n)'
  <2>1. Owed /\ RevisionOf(session) = conn.rev
    BY <1>1, <1>3, <1>4, <1>7, <1>11 DEF Owed, RevisionOf
  <2>2. Coming(session, n)
    BY <1>11, <2>1 DEF WholeInv, Promised
  <2>3. ASSUME FreshRead(session, n) PROVE FALSE
    <3>1. PICK q \in Snapshots : /\ q.id = conn.replay
                                 /\ q.stage = "taken" => q.launch = session /\ n <= q.seq
      BY <2>3 DEF FreshRead
    <3>2. q = r
      BY <1>2, <3>1 DEF WholeInv, ReadsOnce
    <3>3. r.launch = session /\ n <= r.seq
      BY <1>2, <3>1, <3>2
    <3>4. r.seq = 0
      BY <1>2, <2>1, <3>3 DEF Matches, WholeInv, OutputKnown
    <3> QED
      BY <1>11, <3>3, <3>4
  <2> QED
    BY <1>3, <1>4, <1>5, <1>9, <2>2, <2>3 DEF Coming
<1> QED
  BY <1>4, <1>6, <1>8, <1>10, <1>11 DEF WholeInv, Promised, Owed

LEMMA ReceiveScrollbackWhole ==
    ASSUME ReadOnly, IInv, IInv', GapInv, WholeInv, ReceiveScrollback
    PROVE  WholeInv'
<1>1. /\ Take("scrollback")
      /\ UNCHANGED <<ptyVars, up, hub, lagged, starts, phase, attach, boundVars>>
  BY DEF ReceiveScrollback
<1>2. PICK r : r = Head(wire).read
  OBVIOUS
<1>3. UNCHANGED ignored
  BY <1>1 DEF boundVars
<1>4. CASE r.id = conn.replay /\ Matches(conn, r.launch) /\ ~r.blank
  <2>1. /\ view' = Append(IF conn.clearScreen THEN <<>> ELSE view, ShownSnapshot(r))
        /\ conn' = [conn EXCEPT !.lastSequence = r.seq, !.replaying = FALSE, !.releasing = TRUE]
        /\ UNCHANGED <<reads, pass>>
    BY <1>2, <1>4 DEF ReceiveScrollback
  <2> QED
    BY <1>1, <1>2, <1>3, <1>4, <2>1, DrawWhole
<1>5. CASE r.id = conn.replay /\ ~(Matches(conn, r.launch) /\ ~r.blank)
  <2>1. /\ conn' = [conn EXCEPT !.replaying = FALSE, !.releasing = TRUE]
        /\ UNCHANGED <<reads, view>>
    BY <1>2, <1>5 DEF ReceiveScrollback
  <2>2. Quiet
    BY <1>2, <1>5, UndrawnIsQuiet
  <2> QED
    BY <1>1, <1>2, <1>3, <1>5, <2>1, <2>2, EndedWhole
<1>6. CASE r.id # conn.replay
  <2>1. conn \in Connections /\ wire \in Seq(Frames) /\ wire # <<>> /\ wire' = Tail(wire)
        /\ up /\ ~conn.releasing /\ Head(wire).kind = "scrollback"
    BY <1>1 DEF Take, Idle, IInv, TypeOK, ViewTypeOK, NetTypeOK
  <2>2. Range(wire) = {Head(wire)} \cup Range(wire')
    BY <2>1, RangeSplit
  <2>3. Quiet /\ UNCHANGED view
    BY <1>2, <1>6, UndrawnIsQuiet
  <2>4. Asks(conn)
    <3>1. CASE EndPass(conn)
      BY <2>1, <3>1, EndPassAsks
    <3>2. CASE UNCHANGED <<conn, reads>>
      BY <3>2 DEF Asks
    <3> QED
      BY <1>2, <1>6, <3>1, <3>2 DEF ReceiveScrollback
  <2>5. OnTheWay' = OnTheWay /\ Held' = Held
    BY <1>1, <2>1, <2>2, <2>3 DEF OnTheWay, Held, Quiet
  <2>6. Owed' => Owed \/ (Awaits' /\ conn.replay = None)
    <3>1. Owed' => conn'.rev = conn.rev
      BY <2>3 DEF Owed, IInv, ConnectionSound, Quiet
    <3>2. \A l : RevisionOf(l)' = RevisionOf(l)
      BY <1>1 DEF RevisionOf, ptyVars
    <3> QED
      BY <1>1, <2>1, <2>4, <3>1, <3>2 DEF Owed, Awaits, Asks, ptyVars
  <2>7. Down'
    BY <1>1, <2>1 DEF Down
  <2> QED
    BY <1>1, <1>2, <1>3, <1>6, <2>1, <2>2, <2>3, <2>4, <2>5, <2>6, <2>7, AsksWhole DEF WholeInv
<1> QED
  BY <1>4, <1>5, <1>6

(* One more thing on screen. *)
LEMMA ViewAppended ==
    ASSUME TypeOK, NEW x \in Shown, view' = Append(view, x)
    PROVE  /\ \A i \in 1..Len(view) : i \in 1..Len(view') /\ view'[i] = view[i]
           /\ Len(view') \in 1..Len(view') /\ view'[Len(view')] = x
           /\ \A i \in 1..Len(view') : view'[i] = x \/ (i \in 1..Len(view) /\ view'[i] = view[i])
<1>1. view \in Seq(Shown)
  BY DEF TypeOK, ViewTypeOK
<1>2. /\ Len(view') = Len(view) + 1 /\ Len(view) \in Nat
      /\ \A i \in 1..Len(view) : view'[i] = view[i]
      /\ view'[Len(view) + 1] = x
  BY <1>1, AppendProperties, LenProperties
<1> QED
  BY <1>2

(* deliver() shows the first chunk of the path, unless it is on screen. *)
LEMMA DeliverWhole ==
    ASSUME ReadOnly, IInv, GapInv, WholeInv, NEW e \in Held \cup OnTheWay, Real(e), Published(e),
           RevisionOf(e.launch) = conn.rev, conn.open,
           Held \cup OnTheWay \subseteq (Held \cup OnTheWay)' \cup {e},
           \A x \in (Held \cup OnTheWay)' : x \in Held \cup OnTheWay /\ Before({e}, {x}),
           NEW c \in Connections, c.open, c.rev = conn.rev, c.lastSequence = conn.lastSequence,
           c.replay = conn.replay, c.releasing = conn.releasing, ~Awaits,
           Deliver(c, e), Snapshots' = Snapshots,
           UNCHANGED <<ptyVars, up, phase, attach, ignored>>
    PROVE  OutputKnown' /\ Awaited' /\ Behind' /\ ReadAhead' /\ Promised'
<1>1. /\ e \in Events /\ e.seq \in Nat /\ e.launch \in Launches /\ e.launch \in Started
      /\ e.launch # None
  BY PathTypes DEF IInv, Real, Launches, None
<1>2. conn.lastSequence \in Nat /\ conn \in Connections
  BY DEF IInv, TypeOK, ViewTypeOK, Connections
<1>3. UNCHANGED <<launches, session, history, published, ignored>> /\ Started' = Started
  BY DEF ptyVars, Started
<1>4. /\ conn'.rev = conn.rev /\ conn'.replay = conn.replay /\ conn'.releasing = conn.releasing
      /\ conn'.open = conn.open
      /\ \/ e.seq > conn.lastSequence /\ conn'.lastSequence = e.seq /\ view' = Append(view, ShownChunk(e))
         \/ e.seq <= conn.lastSequence /\ conn'.lastSequence = conn.lastSequence /\ view' = view
  <2>1. CASE e.seq > c.lastSequence
    <3>1. conn' = [c EXCEPT !.lastSequence = e.seq] /\ view' = Append(view, ShownChunk(e))
      BY <2>1 DEF Deliver
    <3>2. /\ conn'.rev = c.rev /\ conn'.replay = c.replay /\ conn'.releasing = c.releasing
          /\ conn'.open = c.open /\ conn'.lastSequence = e.seq
      BY <3>1 DEF Connections
    <3>3. e.seq > conn.lastSequence
      BY <2>1
    <3>4. c.open = conn.open
      BY <1>2 DEF Connections
    <3> QED
      BY <3>1, <3>2, <3>3, <3>4
  <2>2. CASE ~(e.seq > c.lastSequence)
    <3>1. conn' = c /\ view' = view
      BY <2>2 DEF Deliver
    <3>2. c.open = conn.open
      BY <1>2 DEF Connections
    <3>3. e.seq <= conn.lastSequence
      BY <1>1, <1>2, <2>2
    <3> QED
      BY <3>1, <3>2, <3>3
  <2> QED
    BY <2>1, <2>2
<1>5. ~Awaits'
  BY <1>4 DEF Awaits
<1>6. Awaited' /\ ReadAhead'
  BY <1>5 DEF Awaited, ReadAhead
<1>7. PICK x : x = ShownChunk(e)
  OBVIOUS
<1>8. x \in Shown /\ x.kind = "chunk" /\ x.launch = e.launch /\ x.seq = e.seq
  BY <1>1, <1>7 DEF ShownChunk, Shown, IInv, TypeOK, ViewTypeOK
<1>9. /\ \A i \in 1..Len(view) : i \in 1..Len(view') /\ view'[i] = view[i]
      /\ \A i \in 1..Len(view') : \/ i \in 1..Len(view) /\ view'[i] = view[i]
                                  \/ view'[i] = x /\ e.seq > conn.lastSequence
      /\ e.seq > conn.lastSequence => Len(view') \in 1..Len(view') /\ view'[Len(view')] = x
  <2>1. CASE e.seq > conn.lastSequence /\ view' = Append(view, x)
    BY <1>8, <2>1, ViewAppended DEF IInv
  <2>2. CASE e.seq <= conn.lastSequence /\ view' = view
    BY <1>1, <1>2, <2>2
  <2> QED
    BY <1>1, <1>2, <1>4, <1>7, <2>1, <2>2
<1>10. /\ \A l, n : Drawn(l, n) => Drawn(l, n)'
       /\ e.seq > conn.lastSequence => Drawn(e.launch, e.seq)'
  <2>1. ASSUME NEW l, NEW n, Drawn(l, n) PROVE Drawn(l, n)'
    BY <1>9, <2>1 DEF Drawn, Shows
  <2>2. ASSUME e.seq > conn.lastSequence PROVE Drawn(e.launch, e.seq)'
    BY <1>8, <1>9, <2>2 DEF Drawn, Shows
  <2> QED
    BY <2>1, <2>2
<1>11. OutputKnown'
  <2>1. \A i \in 1..Len(view') : /\ view'[i].seq <= history[view'[i].launch].seq
                                 /\ view'[i].kind = "chunk" => view'[i].seq # 0
    <3>1. x.seq <= history[x.launch].seq
      BY <1>8 DEF Real
    <3>2. e.seq > conn.lastSequence => x.seq # 0
      BY <1>1, <1>2, <1>8
    <3> QED
      BY <1>9, <3>1, <3>2 DEF WholeInv, OutputKnown
  <2> QED
    BY <1>3, <2>1 DEF WholeInv, OutputKnown
<1>12. \A l \in Started : launches[l] = conn.rev => l = e.launch
  BY <1>1 DEF IInv, ViewerInv, FreshRevisions, RevisionOf
<1>13. Behind'
  <2> SUFFICES ASSUME NEW l \in Started, launches[l] = conn.rev, NEW n \in 1..conn'.lastSequence,
                      n > published[l] \/ Event(l, n) \in (Held \cup OnTheWay)'
               PROVE  Drawn(l, n)'
    BY <1>3, <1>4 DEF Behind
  <2>1. l = e.launch
    BY <1>12
  <2>2. CASE n <= conn.lastSequence
    <3>0. conn'.lastSequence \in Nat
      BY <1>1, <1>2, <1>4
    <3>3. n \in 1..conn.lastSequence
      BY <1>2, <2>2, <3>0
    <3>4. n > published[l] \/ Event(l, n) \in Held \cup OnTheWay
      OBVIOUS
    <3>1. n \in 1..conn.lastSequence /\ (n > published[l] \/ Event(l, n) \in Held \cup OnTheWay)
      BY <3>3, <3>4
    <3>2. Drawn(l, n)
      BY <3>1 DEF WholeInv, Behind
    <3> QED
      BY <1>10, <3>2
  <2>3. CASE ~(n <= conn.lastSequence)
    <3>1. conn'.lastSequence = e.seq /\ e.seq > conn.lastSequence /\ n <= e.seq
      BY <1>1, <1>2, <1>4, <2>3
    <3>2. CASE n = e.seq
      BY <1>10, <2>1, <3>1, <3>2
    <3>3. CASE n # e.seq
      <4>1. n < e.seq /\ n <= published[l] /\ published[l] \in Nat
        BY <1>1, <2>1, <3>1, <3>3, PtyTypes DEF Published, IInv, TypeOK
      <4>2. Event(l, n) \notin (Held \cup OnTheWay)'
        <5>1. Event(l, n).launch = l /\ Event(l, n).seq = n
          BY DEF Event
        <5> QED
          BY <1>1, <2>1, <4>1, <5>1 DEF Before
      <4> QED
        BY <4>1, <4>2
    <3> QED
      BY <3>2, <3>3
  <2> QED
    BY <2>2, <2>3
<1>14. ASSUME Owed', NEW n \in 1..published[session] PROVE Coming(session, n)'
  <2>1. Owed
    BY <1>3, <1>4, <1>5, <1>14 DEF Owed, RevisionOf
  <2>2. Coming(session, n) /\ ~FreshRead(session, n)
    BY <1>14, <2>1 DEF WholeInv, Promised, FreshRead
  <2>3. CASE Event(session, n) = e
    <3>1. e.launch = session /\ e.seq = n
      BY <2>3 DEF Event
    <3>2. launches[session] = conn.rev /\ session \in Started
      BY <1>1, <3>1 DEF RevisionOf
    <3>3. Drawn(session, n)'
      <4>1. CASE e.seq > conn.lastSequence
        <5>1. Drawn(e.launch, e.seq)'
          BY <1>10, <4>1
        <5> QED
          BY <1>3, <3>1, <5>1 DEF Drawn
      <4>2. CASE e.seq <= conn.lastSequence
        <5>1. n \in 1..conn.lastSequence /\ Event(session, n) \in Held \cup OnTheWay
          BY <1>1, <1>2, <1>14, <2>3, <3>1, <4>2
        <5>2. Drawn(session, n)
          BY <3>2, <5>1 DEF WholeInv, Behind
        <5>3. session' = session
          BY <1>3
        <5> QED
          BY <1>10, <5>2, <5>3 DEF Drawn
      <4> QED
        BY <1>1, <1>2, <4>1, <4>2
    <3> QED
      BY <1>3, <1>4, <3>2, <3>3 DEF Coming
  <2>4. CASE Event(session, n) # e
    BY <1>3, <1>4, <1>10, <2>2, <2>4 DEF Coming
  <2> QED
    BY <2>3, <2>4
<1> QED
  BY <1>3, <1>6, <1>11, <1>13, <1>14 DEF Promised, Owed

LEMMA ReceiveOutputWhole ==
    ASSUME ReadOnly, IInv, IInv', GapInv, WholeInv, ReceiveOutput PROVE WholeInv'
<1>1. PICK e : e = Head(wire).event
  OBVIOUS
<1>2. /\ Take("output") /\ PathInv /\ conn \in Connections /\ ~conn.releasing /\ up
      /\ wire' = Tail(wire) /\ Head(wire).kind = "output"
      /\ UNCHANGED <<ptyVars, up, hub, lagged, reads, starts, phase, attach, missed>>
  BY DEF ReceiveOutput, Take, Idle, callVars, GapInv, IInv, TypeOK, ViewTypeOK
<1>3. Range(wire) = {Head(wire)} \cup Range(wire')
  BY <1>2, RangeSplit DEF Take, IInv, TypeOK, NetTypeOK
<1>4. Snapshots' = Snapshots
  BY <1>2, <1>3 DEF Snapshots
<1>5. ReadsOnce' /\ Down'
  <2>1. Range(wire') \subseteq Range(wire) /\ reads' \subseteq reads
    BY <1>2, <1>3
  <2>2. ReadsOnce'
    BY <2>1, ReadsStill DEF WholeInv
  <2> QED
    BY <1>2, <2>2 DEF Down
<1>6. UNCHANGED <<launches, session, history, published>> /\ Started' = Started
  BY <1>2 DEF ptyVars, Started
<1>7. ASSUME UNCHANGED <<view, conn.rev, conn.open, conn.lastSequence, conn.replay, conn.releasing>>,
             (Held \cup OnTheWay)' \subseteq Held \cup OnTheWay,
             Owed => \A n \in 1..published[session] :
                        Event(session, n) \in ignored \cup Held \cup OnTheWay =>
                           Event(session, n) \in (ignored \cup Held \cup OnTheWay)'
      PROVE  WholeInv'
  <2>1. OutputKnown'
    BY <1>2, <1>4, <1>7, KnownStill DEF WholeInv
  <2>2. Awaits' = Awaits
    BY <1>7 DEF Awaits
  <2>3. Awaited' /\ ReadAhead'
    BY <1>4, <1>7, <2>2 DEF WholeInv, Awaited, ReadAhead
  <2>4. Behind'
    BY <1>6, <1>7 DEF WholeInv, Behind, Drawn
  <2>5. Owed' => Owed
    BY <1>2, <1>6, <1>7, <2>2 DEF Owed, RevisionOf
  <2>6. Promised'
    <3> SUFFICES ASSUME Owed', NEW n \in 1..published[session] PROVE Coming(session, n)'
      BY <1>6 DEF Promised
    <3>1. Coming(session, n)
      BY <2>5 DEF WholeInv, Promised
    <3>2. CASE Event(session, n) \in ignored \cup Held \cup OnTheWay
      <4>1. Event(session, n) \in (ignored \cup Held \cup OnTheWay)'
        BY <1>7, <2>5, <3>2
      <4> QED
        BY <1>6, <4>1 DEF Coming, Event
    <3>3. CASE FreshRead(session, n) \/ (launches[session] = conn.rev /\ Drawn(session, n))
      BY <1>4, <1>6, <1>7, <2>2, <3>3 DEF Coming, FreshRead, Drawn
    <3> QED
      BY <3>1, <3>2, <3>3 DEF Coming
  <2> QED
    BY <1>5, <2>1, <2>3, <2>4, <2>6 DEF WholeInv
<1>8. CASE ~conn.open \/ RevisionOf(e.launch) # conn.rev
  <2>1. /\ UNCHANGED <<conn, view>>
        /\ ignored' = IF phase = "starting" /\ RevisionOf(e.launch) # conn.rev
                      THEN ignored \cup {e} ELSE ignored
    BY <1>1, <1>8 DEF ReceiveOutput, Matches
  <2>2. OnTheWay = OnTheWay' \cup {e} /\ Held' = Held
    <3>1. conn'.buffered = conn.buffered /\ Held' = Held
      BY <2>1 DEF Held
    <3>2. published' = published
      BY <1>6
    <3> QED
      BY <1>1, <1>2, <3>1, <3>2, OutputTaken
  <2>3. ASSUME Owed, NEW n \in 1..published[session], Event(session, n) = e
        PROVE  e \in ignored'
    <3>1. conn.open /\ RevisionOf(e.launch) # conn.rev
      BY <1>8, <2>3 DEF Owed, IInv, ConnectionSound
    <3>2. e.launch = session
      BY <2>3 DEF Event
    <3>3. phase = "starting"
      BY <2>3, <3>1, <3>2 DEF Owed
    <3> QED
      BY <2>1, <3>1, <3>3
  <2>4. ignored \subseteq ignored'
    BY <2>1
  <2> QED
    BY <1>7, <2>1, <2>2, <2>3, <2>4
<1>9. CASE conn.open /\ RevisionOf(e.launch) = conn.rev /\ conn.replaying
  <2>1. conn' = [conn EXCEPT !.buffered = Append(conn.buffered, e)]
        /\ view' = view /\ ignored' = ignored
    BY <1>1, <1>9 DEF ReceiveOutput, Matches
  <2>2. /\ conn'.buffered = Append(conn.buffered, e) /\ conn'.open = conn.open
        /\ conn'.rev = conn.rev /\ conn'.lastSequence = conn.lastSequence
        /\ conn'.releasing = conn.releasing /\ conn'.replay = conn.replay
    BY <1>2, <2>1 DEF Connections
  <2>3. Held' = Held \cup {e}
    <3>1. e \in Events /\ conn.buffered \in Seq(Events)
      BY <1>1, <1>2, Taken, FrameTypes, PathTypes DEF IInv
    <3> QED
      BY <2>2, <3>1, RangeAppend DEF Held
  <2>4. OnTheWay = OnTheWay' \cup {e}
    BY <1>1, <1>2, <1>6, <2>2, OutputTaken
  <2> QED
    BY <1>7, <2>1, <2>2, <2>3, <2>4
<1>10. CASE conn.open /\ RevisionOf(e.launch) = conn.rev /\ ~conn.replaying
  <2>1. Deliver(conn, e) /\ ignored' = ignored
    BY <1>1, <1>10 DEF ReceiveOutput, Matches
  <2>2. conn'.buffered = conn.buffered
    BY <1>2, <2>1 DEF Deliver, Connections
  <2>3. Held = {} /\ Held' = {} /\ ~Awaits
    <3>1. conn.buffered = <<>> /\ conn.replay = None
      BY <1>2, <1>10 DEF IInv, HeldOnlyWhileAwaited
    <3> QED
      BY <2>2, <3>1, RangeEmpty DEF Held, Awaits
  <2>4. /\ Published(e) /\ OnTheWay = OnTheWay' \cup {e}
        /\ \A x \in OnTheWay' \cup missed : Before({e}, {x})
    BY <1>1, <1>2, <1>6, <2>2, OutputTaken
  <2>5. /\ e \in Held \cup OnTheWay
        /\ Held \cup OnTheWay \subseteq (Held \cup OnTheWay)' \cup {e}
        /\ \A x \in (Held \cup OnTheWay)' : x \in Held \cup OnTheWay /\ Before({e}, {x})
    BY <2>3, <2>4
  <2>6. Real(e)
    BY <1>1, <1>2, Taken DEF IInv, OutputReal
  <2> QED
    BY <1>2, <1>4, <1>5, <1>10, <2>1, <2>3, <2>4, <2>5, <2>6, DeliverWhole DEF WholeInv
<1> QED
  BY <1>8, <1>9, <1>10

LEMMA ReleaseHeldWhole ==
    ASSUME ReadOnly, IInv, IInv', GapInv, WholeInv, ReleaseHeld PROVE WholeInv'
<1>1. PICK e : e = Head(conn.buffered)
  OBVIOUS
<1>2. PICK c : c = [conn EXCEPT !.buffered = Tail(@)]
  OBVIOUS
<1>3. /\ UNCHANGED <<ptyVars, published, up, hub, lagged, wire, reads, starts, phase, attach, pass,
                     missed, ignored>>
      /\ conn.releasing /\ conn.buffered # <<>> /\ Deliver(c, e) /\ conn \in Connections
      /\ PathInv /\ conn.buffered \in Seq(Events)
  BY <1>1, <1>2 DEF ReleaseHeld, ptyVars, netVars, callVars, boundVars, IInv, TypeOK, ViewTypeOK,
     GapInv, Connections
<1>4. conn.open
  BY <1>3 DEF IInv, ConnectionSound, Closed
<1>5. /\ c \in Connections /\ c.open = conn.open /\ c.rev = conn.rev /\ c.replay = conn.replay
      /\ c.releasing = conn.releasing
      /\ c.lastSequence = conn.lastSequence /\ c.buffered = Tail(conn.buffered)
  <2>1. Tail(conn.buffered) \in Seq(Events)
    BY <1>3, RangeTail
  <2> QED
    BY <1>2, <1>3, <1>4, <2>1 DEF Connections
<1>6. conn'.buffered = Tail(conn.buffered) /\ conn'.replay = conn.replay
  BY <1>3, <1>5 DEF Deliver, Connections
<1>7. /\ e \in Events /\ Published(e)
      /\ Held = Held' \cup {e} /\ OnTheWay' = OnTheWay
      /\ \A x \in Held' \cup OnTheWay \cup missed : Before({e}, {x})
  BY <1>1, <1>3, <1>6, HeldTaken
<1>8. Real(e) /\ RevisionOf(e.launch) = conn.rev
  BY <1>7 DEF IInv, OutputReal, HeldMatches, Held
<1>9. /\ e \in Held \cup OnTheWay
      /\ Held \cup OnTheWay \subseteq (Held \cup OnTheWay)' \cup {e}
      /\ \A x \in (Held \cup OnTheWay)' : x \in Held \cup OnTheWay /\ Before({e}, {x})
  BY <1>7
<1>10. c.open /\ ~Awaits /\ Snapshots' = Snapshots
  BY <1>3, <1>4, <1>5 DEF Awaits, Snapshots
<1>11. ReadsOnce' /\ Down'
  BY <1>3, <1>6, <1>10 DEF WholeInv, ReadsOnce, Down, PassOrphaned
<1> QED
  BY <1>3, <1>4, <1>5, <1>7, <1>8, <1>9, <1>10, <1>11, DeliverWhole DEF WholeInv

-----------------------------------------------------------------------------
(* The invariant of a viewer's screen. *)

LEMMA InitWhole == Init => WholeInv
<1> SUFFICES ASSUME Init PROVE WholeInv
  OBVIOUS
<1>1. /\ conn = Closed /\ view = <<>> /\ wire = <<>> /\ reads = {} /\ up /\ phase = "unmounted"
      /\ \A l \in Launches : history[l].seq = 0
  BY DEF Init
<1>2. Range(wire) = {} /\ Len(view) = 0 /\ conn.replay = None /\ ~conn.open
  BY <1>1, RangeEmpty DEF Closed
<1>3. Snapshots = {} /\ ~Awaits
  BY <1>1, <1>2 DEF Snapshots, Awaits
<1>4. OutputKnown /\ ReadsOnce /\ Awaited /\ Down
  BY <1>1, <1>2, <1>3 DEF OutputKnown, ReadsOnce, Awaited, Down
<1>5. Behind /\ ReadAhead /\ Promised
  BY <1>1, <1>2, <1>3 DEF Behind, ReadAhead, Promised, Owed
<1> QED
  BY <1>4, <1>5 DEF WholeInv

LEMMA StutterWhole == ASSUME WholeInv, UNCHANGED vars PROVE WholeInv'
<1>1. UNCHANGED <<launches, session, history, published, up, hub, wire, starts, reads, phase,
                  conn, pass, view, ignored>>
  BY DEF vars, ptyVars, netVars, callVars, viewVars, boundVars
<1>2. /\ Snapshots' = Snapshots /\ Started' = Started /\ Held' = Held /\ OnTheWay' = OnTheWay
      /\ Awaits' = Awaits /\ Owed' = Owed
  BY <1>1 DEF Snapshots, Started, Held, OnTheWay, Awaits, Owed, RevisionOf
<1>3. OutputKnown' /\ ReadsOnce' /\ Awaited' /\ Down'
  BY <1>1, <1>2 DEF WholeInv, OutputKnown, ReadsOnce, Awaited, Down, PassOrphaned
<1>4. \A l, n : Drawn(l, n)' = Drawn(l, n)
  BY <1>1 DEF Drawn
<1>5. Behind' /\ ReadAhead'
  BY <1>1, <1>2, <1>4 DEF WholeInv, Behind, ReadAhead
<1>6. Promised'
  BY <1>1, <1>2, <1>4 DEF WholeInv, Promised, Coming, FreshRead, Drawn
<1> QED
  BY <1>3, <1>5, <1>6 DEF WholeInv

LEMMA StepWhole ==
    ASSUME PatientViewer, IInv, IInv', GapInv, WholeInv, lagged = {}, lagged' = {}, [Next]_vars
    PROVE  WholeInv'
<1>1. ReadOnly /\ ~ReplayTimeout
  BY DEF PatientViewer, ReplayTimeout
<1>2. CASE ServerStep
  BY <1>1, <1>2, PublishWhole, HandleStartWhole, TakeSnapshotWhole, SendResultWhole,
     ForwardEventWhole
  DEF ServerStep
<1>3. CASE ClientStep
  BY <1>1, <1>3, ReceiveOutputWhole, NoResync, ReceiveScrollbackWhole, ReceiveStartedWhole,
     ReceiveStartFailedWhole, ReleaseHeldWhole, FinishReplayWhole, ReplayInitialWhole,
     ReconnectWhole
  DEF ClientStep
<1>4. CASE Environment
  <2>1. ASSUME NEW r \in Revisions, Mount(r) \/ Retry(r) PROVE WholeInv'
    BY <2>1, ConnectWhole DEF Mount, Retry
  <2> QED
    BY <1>1, <1>4, <2>1, PushWhole, OwnerLaunchWhole, CloseWhole, UnmountWhole, RedrawWhole,
       DisconnectWhole
    DEF Environment
<1> QED
  BY <1>2, <1>3, <1>4, StutterWhole DEF Next

(* At rest nothing is on its way any more: what was promised is on screen. *)
LEMMA AtRest ==
    ASSUME IInv, WholeInv, \A e \in ignored : e.launch # session
    PROVE  WholeWhenQuiescent
<1> SUFFICES ASSUME Quiescent, session # None, RevisionOf(session) = conn.rev
             PROVE  Covered(session) = 1..history[session].seq
  BY DEF WholeWhenQuiescent
<1>1. /\ up /\ phase = "live" /\ ~conn.releasing /\ hub = <<>> /\ wire = <<>> /\ reads = {}
      /\ \A l \in Started : published[l] = history[l].seq
  BY DEF Quiescent, Idle
<1>2. Range(hub) = {} /\ Range(wire) = {}
  BY <1>1, RangeEmpty
<1>3. Snapshots = {} /\ OnTheWay = {}
  BY <1>1, <1>2 DEF Snapshots, OnTheWay
<1>4. ~Awaits /\ conn.replay = None
  BY <1>1, <1>3 DEF WholeInv, Awaited, Awaits
<1>5. conn.buffered = <<>>
  BY <1>1, <1>4 DEF IInv, HeldOnlyWhileAwaited
<1>6. Held = {}
  BY <1>5, RangeEmpty DEF Held
<1>7. session \in Started /\ session \in Launches
  BY SessionStarted DEF IInv, TypeOK
<1>8. history[session].seq \in Nat /\ published[session] = history[session].seq
  BY <1>1, <1>7, PtyTypes DEF IInv, TypeOK
<1>9. view \in Seq(Shown) /\ DOMAIN view = 1..Len(view)
  BY LenProperties DEF IInv, TypeOK, ViewTypeOK
<1>10. ASSUME NEW n \in 1..history[session].seq PROVE n \in Covered(session)
  <2>1. Owed
    BY <1>1 DEF Owed
  <2>2. Coming(session, n)
    BY <1>8, <2>1 DEF WholeInv, Promised
  <2>3. Event(session, n) \notin ignored
    BY DEF Event
  <2>4. Drawn(session, n)
    BY <1>3, <1>4, <1>6, <2>2, <2>3 DEF Coming, FreshRead
  <2>5. PICK i \in 1..Len(view) : Shows(view[i], session, n)
    BY <2>4 DEF Drawn
  <2>6. view[i].launch = session /\ view[i].seq \in Nat
    BY <2>5, ViewTypes DEF Shows, IInv
  <2>7. n \in IF view[i].kind = "snapshot" THEN 1..view[i].seq ELSE {view[i].seq}
    BY <1>8, <2>5, <2>6 DEF Shows
  <2> QED
    BY <1>9, <2>6, <2>7 DEF Covered
<1>11. ASSUME NEW n \in Covered(session) PROVE n \in 1..history[session].seq
  <2>1. PICK i \in 1..Len(view) :
           /\ view[i].launch = session
           /\ n \in IF view[i].kind = "snapshot" THEN 1..view[i].seq ELSE {view[i].seq}
    BY <1>9, <1>11 DEF Covered
  <2>2. /\ view[i].seq <= history[session].seq
        /\ view[i].kind = "chunk" => view[i].seq # 0
    BY <2>1 DEF WholeInv, OutputKnown
  <2>0. view[i] \in Shown
    BY <1>9
  <2>3. view[i].kind \in {"snapshot", "chunk"}
    BY <2>0 DEF Shown
  <2>4. view[i].seq \in Nat
    BY ViewTypes DEF IInv
  <2>5. CASE view[i].kind = "snapshot"
    BY <1>8, <2>1, <2>2, <2>4, <2>5
  <2>6. CASE view[i].kind = "chunk"
    BY <1>8, <2>1, <2>2, <2>4, <2>6
  <2> QED
    BY <2>3, <2>5, <2>6
<1> QED
  BY <1>10, <1>11

(* A viewer's screen is whole once all is at rest, however often the link was *)
(* lost, the panel mounted or the terminal relaunched, as long as the ring of *)
(* the hub never overflowed and nothing of the launch that runs was discarded *)
(* before start() named it (deliver, replayOnce, replayAll, onReconnected).   *)
THEOREM ViewerWholeAtRest ==
    ASSUME PatientViewer
    PROVE  Spec /\ [](lagged = {})
             => []((\A e \in ignored : e.launch # session) => WholeWhenQuiescent)
<1>1. Init => IInv /\ GapInv /\ WholeInv
  BY InitInv, InitGap, InitWhole
<1>2. /\ IInv /\ GapInv /\ WholeInv
      /\ lagged = {} /\ (lagged = {})' /\ [Next]_vars
      => (IInv /\ GapInv /\ WholeInv)'
  BY StepInv, StepGap, StepWhole
<1>3. IInv /\ WholeInv => ((\A e \in ignored : e.launch # session) => WholeWhenQuiescent)
  BY AtRest
<1> QED
  BY <1>1, <1>2, <1>3, PTL DEF Spec
=============================================================================
