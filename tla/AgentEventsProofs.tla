------------------------- MODULE AgentEventsProofs --------------------------
(***************************************************************************)
(* What is proved about AgentEvents: what a hook has written is not lost   *)
(* but where it is named, and reaches every client that was there to hear  *)
(* of it.                                                                  *)
(*                                                                         *)
(* The status a client derives is a fold over the events of a batch, of    *)
(* which nothing can be proved here; so the types of pages leave it out.   *)
(***************************************************************************)
EXTENDS AgentEvents, TLAPS

CallSteps == {"idle", "read", "saved", "truncating"}
CallRecords == [step : CallSteps, batch : SUBSET Nat, by : Clients \cup {None}]
IsPage(p) == DOMAIN p = {"phase", "status", "at", "cut", "fresh", "handled", "listed"}

Typed ==
    /\ log \in Seq(EventTypes) /\ firing \subseteq Fired
    /\ spool \in Seq(Nat) /\ torn \in BOOLEAN
    /\ cursor \in Nat /\ cursorFile \in Nat
    /\ call \in [Calls -> CallRecords]
    /\ DOMAIN page = Clients /\ \A c \in Clients : IsPage(page[c])
    /\ DOMAIN unheard = Clients
    /\ DOMAIN wire = Clients /\ \A c \in Clients : wire[c] \in Seq(Range(wire[c]))

-----------------------------------------------------------------------------
(* The way of a line from the spool to the database.                        *)

(* Events that are in the hands of a call, saved, or known to be lost.      *)
Accounted == Unsaved \cup db \cup lost

Stored == \A e \in Fired \ firing : e \in Range(spool) \cup Accounted

(* The lines before the cursor have been read, also when the cursor lies    *)
(* behind the end: what is appended before it is then known to be lost.     *)
ReadKept == \A i \in DOMAIN spool : i <= cursor => spool[i] \in Accounted
Ahead == cursor > Len(spool) => misplaced
TornLine == torn => spool # <<>>

(* A spool that is about to be truncated has nothing that is still wanted.  *)
Emptyable == Locked => Range(spool) \subseteq Accounted

SpoolKept == Stored /\ ReadKept /\ Ahead /\ TornLine /\ Emptyable

(* The way of a saved event to a client.                                    *)
Untold == UNION {call[k].batch : k \in {l \in Calls : call[l].step \in {"saved", "truncating"}}}
Known(c) ==
    page[c].handled \cup page[c].fresh \cup unheard[c] \cup OnTheWay(c) \cup Untold
      \cup (IF page[c].phase = "listed" THEN page[c].listed ELSE {})

(* Before it has listed the events a page need not have heard of any.       *)
AllKnown == \A c \in Clients : page[c].phase \in {"listed", "polling"} => db \subseteq Known(c)

IInv == Typed /\ SpoolKept /\ AllKnown

-----------------------------------------------------------------------------
(* Sequences, calls and pages.                                              *)

LEMMA SeqOver ==
    ASSUME NEW S, NEW R, NEW z \in Seq(S), \A i \in 1 .. Len(z) : z[i] \in R
    PROVE  z \in Seq(R)
OBVIOUS

LEMMA Appended ==
    ASSUME NEW s, s \in Seq(Range(s)), NEW x, NEW z, z = Append(s, x)
    PROVE  z \in Seq(Range(z)) /\ Range(z) = Range(s) \cup {x}
<1>1. /\ Len(z) = Len(s) + 1 /\ Len(s) \in Nat /\ z[Len(s) + 1] = x
      /\ \A i \in 1 .. Len(s) : z[i] = s[i]
      /\ DOMAIN z = 1 .. Len(s) + 1 /\ DOMAIN s = 1 .. Len(s)
  <2>1. s \in Seq(Range(s) \cup {x}) /\ x \in Range(s) \cup {x}
    OBVIOUS
  <2> QED
    BY <2>1
<1>2. Range(z) = Range(s) \cup {x}
  BY <1>1 DEF Range
<1>3. z \in Seq(Range(s) \cup {x})
  <2>1. s \in Seq(Range(s) \cup {x}) /\ x \in Range(s) \cup {x}
    OBVIOUS
  <2> QED
    BY <2>1
<1> QED
  BY <1>2, <1>3

LEMMA Taken ==
    ASSUME NEW s, s \in Seq(Range(s)), s # <<>>, NEW z, z = Tail(s)
    PROVE  z \in Seq(Range(z)) /\ Range(s) = Range(z) \cup {Head(s)}
<1>1. /\ Len(s) \in Nat \ {0} /\ Len(z) = Len(s) - 1 /\ Head(s) = s[1]
      /\ \A i \in 1 .. Len(z) : z[i] = s[i + 1]
      /\ DOMAIN z = 1 .. Len(z) /\ DOMAIN s = 1 .. Len(s)
  OBVIOUS
<1>2. Range(s) = Range(z) \cup {Head(s)}
  <2>1. ASSUME NEW i \in 1 .. Len(s)
        PROVE  s[i] \in Range(z) \cup {Head(s)}
    <3>1. CASE i = 1
      BY <1>1, <3>1
    <3>2. CASE i # 1
      <4>1. i - 1 \in 1 .. Len(z) /\ (i - 1) + 1 = i
        BY <1>1, <2>1, <3>2
      <4>2. s[i] = z[i - 1]
        BY <1>1, <4>1
      <4> QED
        BY <1>1, <4>1, <4>2 DEF Range
    <3> QED
      BY <3>1, <3>2
  <2>2. ASSUME NEW j \in 1 .. Len(z)
        PROVE  z[j] \in Range(s)
    <3>1. j + 1 \in 1 .. Len(s) /\ z[j] = s[j + 1]
      BY <1>1, <2>2
    <3> QED
      BY <1>1, <3>1 DEF Range
  <2>3. Head(s) \in Range(s)
    BY <1>1 DEF Range
  <2> QED
    BY <1>1, <2>1, <2>2, <2>3 DEF Range
<1>3. z \in Seq(Range(s))
  OBVIOUS
<1>4. \A i \in 1 .. Len(z) : z[i] \in Range(z)
  BY <1>1 DEF Range
<1>5. z \in Seq(Range(z))
  BY <1>3, <1>4, SeqOver
<1> QED
  BY <1>2, <1>5

(* A call goes on.                                                          *)
LEMMA CallMoves ==
    ASSUME call \in [Calls -> CallRecords], NEW k \in Calls, NEW r \in CallRecords,
           call' = [call EXCEPT ![k] = r]
    PROVE  /\ call' \in [Calls -> CallRecords]
           /\ Unsaved \subseteq Unsaved' \cup (IF call[k].step = "read" THEN call[k].batch ELSE {})
           /\ Untold \subseteq Untold' \cup (IF call[k].step \in {"saved", "truncating"}
                                             THEN call[k].batch ELSE {})
           /\ r.step = "read" => r.batch \subseteq Unsaved'
           /\ r.step \in {"saved", "truncating"} => r.batch \subseteq Untold'
           /\ Locked' => Locked \/ r.step = "truncating"
<1>1. call' \in [Calls -> CallRecords] /\ call'[k] = r /\ \A l \in Calls \ {k} : call'[l] = call[l]
  OBVIOUS
<1>2. \A e \in Unsaved : \E l \in Calls : call[l].step = "read" /\ e \in call[l].batch
  BY DEF Unsaved
<1>3. \A l \in Calls : call'[l].step = "read" => call'[l].batch \subseteq Unsaved'
  BY DEF Unsaved
<1>4. \A e \in Untold : \E l \in Calls : call[l].step \in {"saved", "truncating"} /\ e \in call[l].batch
  BY DEF Untold
<1>5. \A l \in Calls : call'[l].step \in {"saved", "truncating"} => call'[l].batch \subseteq Untold'
  BY DEF Untold
<1> QED
  BY <1>1, <1>2, <1>3, <1>4, <1>5 DEF Locked

(* Calls whose page is no longer there.                                     *)
LEMMA CallsAbandoned ==
    ASSUME call \in [Calls -> CallRecords], NEW c \in Clients, call' = Abandoned(c)
    PROVE  /\ call' \in [Calls -> CallRecords]
           /\ Unsaved' = Unsaved /\ Untold' = Untold /\ (Locked' => Locked)
<1>1. ASSUME NEW k \in Calls
      PROVE  /\ call'[k] \in CallRecords
             /\ call'[k].step = call[k].step /\ call'[k].batch = call[k].batch
  <2>1. call[k] \in CallRecords
    OBVIOUS
  <2>2. call'[k] = IF call[k].by = c THEN [call[k] EXCEPT !.by = None] ELSE call[k]
    BY DEF Abandoned
  <2> QED
    BY <2>1, <2>2 DEF CallRecords
<1>2. call' \in [Calls -> CallRecords]
  BY <1>1 DEF Abandoned
<1> QED
  BY <1>1, <1>2 DEF Unsaved, Untold, Locked

(* Steps that change nothing of the file and lose nothing.                  *)
LEMMA SpoolFrame ==
    ASSUME SpoolKept, UNCHANGED <<log, firing, spool, torn, cursor, misplaced>>,
           Accounted \subseteq Accounted', Locked' => Locked \/ Range(spool) \subseteq Accounted
    PROVE  SpoolKept'
<1>1. Stored'
  BY DEF SpoolKept, Stored, Fired
<1>2. ReadKept' /\ Ahead' /\ TornLine'
  BY DEF SpoolKept, ReadKept, Ahead, TornLine
<1>3. Emptyable'
  BY DEF SpoolKept, Emptyable
<1> QED
  BY <1>1, <1>2, <1>3 DEF SpoolKept

LEMMA KnownFrame ==
    ASSUME AllKnown, UNCHANGED <<db, call, page, unheard, wire>>
    PROVE  AllKnown'
  BY DEF AllKnown, Known, OnTheWay, Untold

LEMMA SameAccounts ==
    ASSUME UNCHANGED <<call, db, lost>>
    PROVE  Accounted' = Accounted /\ (Locked' => Locked) /\ Unsaved' = Unsaved
  BY DEF Accounted, Unsaved, Locked

-----------------------------------------------------------------------------
(* The hooks.                                                               *)

LEMMA FireStep ==
    ASSUME IInv, NEW type \in EventTypes, Fire(type)
    PROVE  IInv'
<1>1. Typed /\ SpoolKept /\ AllKnown
  BY DEF IInv
<1>2. /\ log' = Append(log, type) /\ firing' = firing \cup {Len(log) + 1}
      /\ UNCHANGED <<spool, torn, cursor, cursorFile, db, call, page, wire, misplaced, lost, unheard>>
  BY DEF Fire, file, store, client
<1>3. log' \in Seq(EventTypes) /\ Len(log) \in Nat /\ Len(log') = Len(log) + 1
  BY <1>1, <1>2 DEF Typed
<1>4. Fired' = Fired \cup {Len(log) + 1}
  BY <1>3 DEF Fired
<1>5. Typed'
  BY <1>1, <1>2, <1>3, <1>4 DEF Typed
<1>6. Accounted' = Accounted /\ (Locked' => Locked)
  BY <1>2, SameAccounts
<1>7. Stored'
  BY <1>1, <1>2, <1>4, <1>6 DEF SpoolKept, Stored
<1>8. ReadKept' /\ Ahead' /\ TornLine' /\ Emptyable'
  BY <1>1, <1>2, <1>6 DEF SpoolKept, ReadKept, Ahead, TornLine, Emptyable
<1>9. AllKnown'
  BY <1>1, <1>2, KnownFrame
<1> QED
  BY <1>5, <1>7, <1>8, <1>9 DEF IInv, SpoolKept

LEMMA AppendLineStep ==
    ASSUME IInv, NEW e \in firing, AppendLine(e)
    PROVE  IInv'
<1>1. Typed /\ SpoolKept /\ AllKnown
  BY DEF IInv
<1>2. /\ spool' = Append(spool, e) /\ torn' \in BOOLEAN /\ firing' = firing \ {e}
      /\ lost' = IF Locked \/ (misplaced /\ Len(spool') <= cursor) THEN lost \cup {e} ELSE lost
      /\ UNCHANGED <<log, cursor, cursorFile, db, call, page, wire, misplaced, unheard>>
  BY DEF AppendLine, store, client
<1>3. e \in Nat /\ e \in Fired
  BY <1>1 DEF Typed, Fired
<1>4. PICK n \in Nat : n = Len(spool)
  BY <1>1 DEF Typed
<1>5. /\ spool' \in Seq(Nat) /\ Len(spool') = n + 1 /\ spool'[n + 1] = e
      /\ DOMAIN spool = 1 .. n /\ DOMAIN spool' = 1 .. n + 1 /\ spool' # <<>>
      /\ \A i \in 1 .. n : spool'[i] = spool[i]
  BY <1>1, <1>2, <1>3, <1>4 DEF Typed
<1>6. Range(spool') = Range(spool) \cup {e}
  BY <1>5 DEF Range
<1>7. Typed'
  <2>1. firing' \subseteq Fired'
    BY <1>1, <1>2 DEF Typed, Fired
  <2> QED
    BY <1>1, <1>2, <1>5, <2>1 DEF Typed
<1>8. Accounted \subseteq Accounted' /\ lost' \subseteq Accounted' /\ (Locked' => Locked)
  BY <1>2 DEF Accounted, Unsaved, Locked
<1>9. Stored'
  BY <1>1, <1>2, <1>6, <1>8 DEF SpoolKept, Stored, Fired
<1>10. ReadKept'
  <2> SUFFICES ASSUME NEW i \in 1 .. n + 1, i <= cursor
               PROVE  spool'[i] \in Accounted'
    BY <1>2, <1>5 DEF ReadKept
  <2>1. CASE i \in 1 .. n
    BY <1>1, <1>5, <1>8, <2>1 DEF SpoolKept, ReadKept
  <2>2. CASE i = n + 1
    <3>1. cursor > Len(spool) /\ Len(spool') <= cursor
      BY <1>1, <1>4, <1>5, <2>2 DEF Typed
    <3>2. e \in lost'
      BY <1>1, <1>2, <3>1 DEF SpoolKept, Ahead
    <3> QED
      BY <1>5, <1>8, <2>2, <3>2
  <2> QED
    BY <2>1, <2>2
<1>11. Ahead' /\ TornLine'
  BY <1>1, <1>2, <1>4, <1>5 DEF SpoolKept, Ahead, TornLine, Typed
<1>12. Emptyable'
  BY <1>1, <1>2, <1>6, <1>8 DEF SpoolKept, Emptyable
<1>13. AllKnown'
  BY <1>1, <1>2, KnownFrame
<1> QED
  BY <1>7, <1>9, <1>10, <1>11, <1>12, <1>13 DEF IInv, SpoolKept

LEMMA CompleteLineStep ==
    ASSUME IInv, CompleteLine
    PROVE  IInv'
<1>1. Typed /\ SpoolKept /\ AllKnown
  BY DEF IInv
<1>2. /\ torn' = FALSE
      /\ UNCHANGED <<log, firing, spool, cursor, cursorFile, db, call, page, wire, misplaced, lost,
                     unheard>>
  BY DEF CompleteLine, store, client, ghosts
<1>3. Typed'
  BY <1>1, <1>2 DEF Typed, Fired
<1>4. Accounted' = Accounted /\ (Locked' => Locked)
  BY <1>2, SameAccounts
<1>5. SpoolKept'
  BY <1>1, <1>2, <1>4 DEF SpoolKept, Stored, Fired, ReadKept, Ahead, TornLine, Emptyable
<1>6. AllKnown'
  BY <1>1, <1>2, KnownFrame
<1> QED
  BY <1>3, <1>5, <1>6 DEF IInv

-----------------------------------------------------------------------------
(* sync_agent_events.                                                       *)

LEMMA WhereReading ==
    ASSUME Typed, SpoolKept
    PROVE  /\ Complete \in Nat /\ Complete <= Len(spool) /\ Len(spool) \in Nat
           /\ StartedAt \in Nat /\ StartedAt <= cursor
           /\ DOMAIN spool = 1 .. Len(spool)
           /\ \A i \in 1 .. Complete : spool[i] \in Accounted \cup Lines(StartedAt, Complete)
           /\ Lines(StartedAt, Complete) \subseteq Nat
<1>1. Len(spool) \in Nat /\ DOMAIN spool = 1 .. Len(spool) /\ cursor \in Nat
  BY DEF Typed
<1>2. torn => Len(spool) > 0
  BY <1>1 DEF Typed, SpoolKept, TornLine
<1>3. Complete \in Nat /\ Complete <= Len(spool)
  BY <1>1, <1>2 DEF Complete
<1>4. StartedAt \in Nat /\ StartedAt <= cursor
  BY <1>1 DEF StartedAt
<1>5. ASSUME NEW i \in 1 .. Complete
      PROVE  spool[i] \in Accounted \cup Lines(StartedAt, Complete)
  <2>1. CASE i <= StartedAt
    <3>1. i <= cursor /\ i \in DOMAIN spool
      BY <1>1, <1>3, <1>4, <2>1
    <3> QED
      BY <3>1 DEF SpoolKept, ReadKept
  <2>2. CASE i > StartedAt
    <3>1. i \in StartedAt + 1 .. Complete
      BY <1>3, <1>4, <2>2
    <3> QED
      BY <3>1 DEF Lines
  <2> QED
    BY <1>3, <1>4, <2>1, <2>2
<1>6. Lines(StartedAt, Complete) \subseteq Nat
  <2>1. ASSUME NEW i \in StartedAt + 1 .. Complete
        PROVE  spool[i] \in Nat
    <3>1. i \in 1 .. Len(spool)
      BY <1>1, <1>3, <1>4
    <3> QED
      BY <3>1 DEF Typed
  <2> QED
    BY <2>1 DEF Lines
<1> QED
  BY <1>1, <1>3, <1>4, <1>5, <1>6

(* The lines are read, and are in the hands of a call, or known to be lost. *)
LEMMA LinesRead ==
    ASSUME Typed, SpoolKept, ReadLines, UNCHANGED <<log, firing, spool, torn>>,
           Accounted \cup Lines(StartedAt, Complete) \subseteq Accounted', ~Locked'
    PROVE  SpoolKept' /\ cursor' \in Nat
<1>1. cursor' = Complete /\ misplaced' = FALSE
  BY DEF ReadLines
<1>2. Stored'
  BY DEF SpoolKept, Stored, Fired
<1>3. ReadKept'
  <2>1. \A i \in DOMAIN spool : i <= Complete => i \in 1 .. Complete
    BY WhereReading
  <2> QED
    BY <1>1, <2>1, WhereReading DEF ReadKept
<1>4. Ahead'
  BY <1>1, WhereReading DEF Ahead
<1>5. TornLine' /\ Emptyable'
  BY DEF SpoolKept, TornLine, Emptyable
<1> QED
  BY <1>1, <1>2, <1>3, <1>4, <1>5, WhereReading DEF SpoolKept

LEMMA SyncSteps ==
    ASSUME IInv, NEW c \in Clients, NEW k \in Calls, NEW by \in Clients \cup {None}, Sync(c, k, by)
    PROVE  /\ SpoolKept' /\ cursor' \in Nat /\ cursorFile' \in Nat
           /\ call' \in [Calls -> CallRecords]
           /\ UNCHANGED <<log, firing, spool, torn, db, wire, unheard>>
           /\ Untold \subseteq Untold'
<1>1. Typed /\ SpoolKept
  BY DEF IInv
<1>2. /\ call[k] = Idle /\ ReadLines
      /\ cursorFile' \in {cursor', cursorFile}
      /\ UNCHANGED <<log, firing, spool, torn, db, wire, lost, unheard>>
  BY DEF Sync, file
<1>3. PICK batch : batch = Lines(StartedAt, Complete)
  OBVIOUS
<1>4. PICK r : r = [step |-> IF batch = {} THEN "saved" ELSE "read", batch |-> batch, by |-> by]
  OBVIOUS
<1>5. call' = [call EXCEPT ![k] = r]
  BY <1>3, <1>4 DEF Sync
<1>6. r \in CallRecords /\ r.batch = batch /\ r.step \in {"saved", "read"}
      /\ (batch # {} => r.step = "read")
  BY <1>1, <1>3, <1>4, WhereReading DEF CallRecords, CallSteps
<1>7. call[k].step = "idle"
  BY <1>2 DEF Idle
<1>8. /\ call' \in [Calls -> CallRecords]
      /\ Unsaved \subseteq Unsaved' /\ Untold \subseteq Untold'
      /\ r.step = "read" => r.batch \subseteq Unsaved'
      /\ Locked' => Locked
  BY <1>1, <1>5, <1>6, <1>7, CallMoves DEF Typed
<1>9. ~Locked'
  BY <1>2, <1>8 DEF ReadLines
<1>10. Accounted \cup Lines(StartedAt, Complete) \subseteq Accounted'
  BY <1>2, <1>3, <1>6, <1>8 DEF Accounted
<1>11. SpoolKept' /\ cursor' \in Nat
  BY <1>1, <1>2, <1>9, <1>10, LinesRead
<1> QED
  BY <1>1, <1>2, <1>8, <1>11 DEF Typed

LEMMA PollStep ==
    ASSUME IInv, NEW c \in Clients, NEW k \in Calls, Poll(c, k)
    PROVE  IInv'
<1>1. Typed /\ AllKnown
  BY DEF IInv
<1>2. Sync(c, k, None) /\ UNCHANGED page
  BY DEF Poll
<1>3. /\ SpoolKept' /\ cursor' \in Nat /\ cursorFile' \in Nat
      /\ call' \in [Calls -> CallRecords]
      /\ UNCHANGED <<log, firing, spool, torn, db, wire, unheard>>
      /\ Untold \subseteq Untold'
  BY <1>2, SyncSteps
<1>4. Typed'
  BY <1>1, <1>2, <1>3 DEF Typed, Fired
<1>5. AllKnown'
  BY <1>1, <1>2, <1>3 DEF AllKnown, Known, OnTheWay
<1> QED
  BY <1>3, <1>4, <1>5 DEF IInv

(* A page goes to a phase in which it need not have heard of anything.      *)
LEMMA PhaseSet ==
    ASSUME Typed, NEW c \in Clients, NEW ph, page' = [page EXCEPT ![c].phase = ph]
    PROVE  /\ DOMAIN page' = Clients /\ \A o \in Clients : IsPage(page'[o])
           /\ page'[c].phase = ph
           /\ \A o \in Clients \ {c} : page'[o] = page[o]
<1>1. IsPage(page[c]) /\ DOMAIN page = Clients
  BY DEF Typed
<1>2. PICK q : q = [page[c] EXCEPT !.phase = ph]
  OBVIOUS
<1>3. IsPage(q) /\ q.phase = ph
  BY <1>1, <1>2 DEF IsPage
<1>4. page' = [page EXCEPT ![c] = q]
  BY <1>2
<1> QED
  BY <1>1, <1>3, <1>4 DEF Typed

LEMMA WatchStep ==
    ASSUME IInv, NEW c \in Clients, NEW k \in Calls, Watch(c, k)
    PROVE  IInv'
<1>1. Typed /\ AllKnown
  BY DEF IInv
<1>2. PICK ph : ph = "syncing"
  OBVIOUS
<1>3. Sync(c, k, c) /\ page' = [page EXCEPT ![c].phase = ph]
  BY <1>2 DEF Watch
<1>4. /\ SpoolKept' /\ cursor' \in Nat /\ cursorFile' \in Nat
      /\ call' \in [Calls -> CallRecords]
      /\ UNCHANGED <<log, firing, spool, torn, db, wire, unheard>>
      /\ Untold \subseteq Untold'
  BY <1>3, SyncSteps
<1>5. /\ DOMAIN page' = Clients /\ \A o \in Clients : IsPage(page'[o])
      /\ page'[c].phase = ph /\ \A o \in Clients \ {c} : page'[o] = page[o]
  BY <1>1, <1>3, PhaseSet
<1>6. Typed'
  BY <1>1, <1>4, <1>5 DEF Typed, Fired
<1>7. AllKnown'
  BY <1>1, <1>2, <1>4, <1>5 DEF AllKnown, Known, OnTheWay
<1> QED
  BY <1>4, <1>6, <1>7 DEF IInv

LEMMA CallStepped ==
    ASSUME Typed, NEW k \in Calls, NEW st \in CallSteps, call' = [call EXCEPT ![k].step = st]
    PROVE  \E r \in CallRecords : /\ call' = [call EXCEPT ![k] = r]
                                  /\ r.step = st /\ r.batch = call[k].batch
<1>1. call[k] \in CallRecords
  BY DEF Typed
<1>2. PICK r : r = [call[k] EXCEPT !.step = st]
  OBVIOUS
<1>3. r \in CallRecords /\ r.step = st /\ r.batch = call[k].batch
  BY <1>1, <1>2 DEF CallRecords
<1>4. call' = [call EXCEPT ![k] = r]
  BY <1>2
<1> QED
  BY <1>3, <1>4

LEMMA SaveEventsStep ==
    ASSUME IInv, NEW k \in Calls, SaveEvents(k)
    PROVE  IInv'
<1>1. Typed /\ SpoolKept /\ AllKnown
  BY DEF IInv
<1>2. PICK st : st = "saved"
  OBVIOUS
<1>3. /\ call[k].step = "read" /\ db' = db \cup call[k].batch
      /\ call' = [call EXCEPT ![k].step = st]
      /\ UNCHANGED <<log, firing, spool, torn, cursor, cursorFile, page, wire, misplaced, lost, unheard>>
  BY <1>2 DEF SaveEvents, file, store, client, ghosts
<1>4. PICK r \in CallRecords : /\ call' = [call EXCEPT ![k] = r]
                               /\ r.step = st /\ r.batch = call[k].batch
  BY <1>1, <1>2, <1>3, CallStepped DEF CallSteps
<1>5. /\ call' \in [Calls -> CallRecords]
      /\ Unsaved \subseteq Unsaved' \cup call[k].batch
      /\ Untold \subseteq Untold' /\ call[k].batch \subseteq Untold'
      /\ Locked' => Locked
  BY <1>1, <1>2, <1>3, <1>4, CallMoves DEF Typed
<1>6. Typed'
  BY <1>1, <1>3, <1>5 DEF Typed, Fired
<1>7. SpoolKept'
  <2>1. Accounted \subseteq Accounted'
    BY <1>3, <1>5 DEF Accounted
  <2> QED
    BY <1>1, <1>3, <1>5, <2>1, SpoolFrame
<1>8. AllKnown'
  BY <1>1, <1>3, <1>5 DEF AllKnown, Known, OnTheWay
<1> QED
  BY <1>6, <1>7, <1>8 DEF IInv

(* A call ends; the page that waits for it lists the events.                *)
LEMMA CallEnds ==
    ASSUME Typed, NEW k \in Calls, page' = Ends(call[k].by), call' = [call EXCEPT ![k] = Idle]
    PROVE  /\ DOMAIN page' = Clients /\ \A c \in Clients : IsPage(page'[c])
           /\ \A c \in Clients : page'[c] = page[c] \/ page'[c].phase = "listing"
           /\ call' \in [Calls -> CallRecords]
           /\ Unsaved \subseteq Unsaved' \cup (IF call[k].step = "read" THEN call[k].batch ELSE {})
           /\ Untold \subseteq Untold' \cup call[k].batch
           /\ call[k].step = "read" => Untold \subseteq Untold'
           /\ Locked' => Locked
<1>1. Idle \in CallRecords /\ Idle.step = "idle"
  BY DEF Idle, CallRecords, CallSteps
<1>2. /\ call' \in [Calls -> CallRecords]
      /\ Unsaved \subseteq Unsaved' \cup (IF call[k].step = "read" THEN call[k].batch ELSE {})
      /\ Untold \subseteq Untold' \cup (IF call[k].step \in {"saved", "truncating"}
                                        THEN call[k].batch ELSE {})
      /\ Locked' => Locked
  BY <1>1, CallMoves DEF Typed
<1>3. /\ DOMAIN page' = Clients /\ \A c \in Clients : IsPage(page'[c])
      /\ \A c \in Clients : page'[c] = page[c] \/ page'[c].phase = "listing"
  <2>1. CASE call[k].by \in Clients
    <3>1. PICK b \in Clients : b = call[k].by
      BY <2>1
    <3>2. PICK ph : ph = "listing"
      OBVIOUS
    <3>3. page' = [page EXCEPT ![b].phase = ph]
      BY <3>1, <3>2 DEF Ends
    <3> QED
      BY <3>2, <3>3, PhaseSet
  <2>2. CASE call[k].by \notin Clients
    BY <2>2 DEF Ends, Typed
  <2> QED
    BY <2>1, <2>2
<1> QED
  BY <1>2, <1>3

LEMMA AnnounceSteps ==
    ASSUME IInv, NEW k \in Calls, Announce(k), call[k].step \in {"saved", "truncating"},
           UNCHANGED <<log, firing, db, lost>>
    PROVE  /\ call' \in [Calls -> CallRecords]
           /\ DOMAIN page' = Clients /\ \A c \in Clients : IsPage(page'[c])
           /\ DOMAIN unheard' = Clients
           /\ DOMAIN wire' = Clients /\ \A c \in Clients : wire'[c] \in Seq(Range(wire'[c]))
           /\ Accounted \subseteq Accounted' /\ (Locked' => Locked)
           /\ AllKnown'
<1>1. Typed /\ AllKnown
  BY DEF IInv
<1>2. PICK batch : batch = call[k].batch
  OBVIOUS
<1>3. /\ wire' = [c \in Clients |-> IF c \in Told(batch)
                                    THEN Append(wire[c], [kind |-> "events", batch |-> batch]) ELSE wire[c]]
      /\ unheard' = [c \in Clients |-> IF link[c] THEN unheard[c] ELSE unheard[c] \cup batch]
      /\ call' = [call EXCEPT ![k] = Idle] /\ page' = Ends(call[k].by)
  BY <1>2 DEF Announce
<1>4. /\ DOMAIN page' = Clients /\ \A c \in Clients : IsPage(page'[c])
      /\ \A c \in Clients : page'[c] = page[c] \/ page'[c].phase = "listing"
      /\ call' \in [Calls -> CallRecords]
      /\ Unsaved \subseteq Unsaved' \cup (IF call[k].step = "read" THEN call[k].batch ELSE {})
      /\ Untold \subseteq Untold' \cup batch
      /\ Locked' => Locked
  BY <1>1, <1>2, <1>3, CallEnds
<1>5. ASSUME NEW c \in Clients
      PROVE  /\ wire'[c] \in Seq(Range(wire'[c]))
             /\ OnTheWay(c) \subseteq OnTheWay(c)'
             /\ unheard[c] \subseteq unheard'[c]
             /\ batch \subseteq OnTheWay(c)' \cup unheard'[c]
  <2>1. PICK m : m = [kind |-> "events", batch |-> batch]
    OBVIOUS
  <2>2. EventsIn(m) = batch
    BY <2>1 DEF EventsIn
  <2>3. wire'[c] = IF c \in Told(batch) THEN Append(wire[c], m) ELSE wire[c]
    BY <1>3, <2>1
  <2>4. wire[c] \in Seq(Range(wire[c]))
    BY <1>1 DEF Typed
  <2>5. CASE c \in Told(batch)
    <3>1. wire'[c] \in Seq(Range(wire'[c])) /\ Range(wire'[c]) = Range(wire[c]) \cup {m}
      BY <2>3, <2>4, <2>5, Appended
    <3>2. OnTheWay(c)' = OnTheWay(c) \cup batch
      BY <2>2, <3>1 DEF OnTheWay, EventsIn
    <3> QED
      BY <1>3, <3>1, <3>2
  <2>6. CASE c \notin Told(batch)
    <3>1. batch = {} \/ ~link[c]
      BY <2>6 DEF Told
    <3>2. OnTheWay(c)' = OnTheWay(c)
      BY <2>3, <2>6 DEF OnTheWay
    <3> QED
      BY <1>3, <2>3, <2>4, <2>6, <3>1, <3>2
  <2> QED
    BY <2>5, <2>6
<1>6. AllKnown'
  <2> SUFFICES ASSUME NEW c \in Clients, page'[c].phase \in {"listed", "polling"}
               PROVE  db' \subseteq Known(c)'
    BY DEF AllKnown
  <2>1. page'[c] = page[c]
    BY <1>4
  <2>2. db \subseteq Known(c)
    BY <1>1, <2>1 DEF AllKnown
  <2> QED
    BY <1>4, <1>5, <2>1, <2>2 DEF Known
<1>7. Accounted \subseteq Accounted'
  BY <1>4 DEF Accounted
<1>8. DOMAIN unheard' = Clients /\ DOMAIN wire' = Clients
  BY <1>3
<1> QED
  BY <1>4, <1>5, <1>6, <1>7, <1>8

LEMMA CompactStep ==
    ASSUME IInv, NEW k \in Calls, Compact(k)
    PROVE  IInv'
<1>1. Typed /\ SpoolKept /\ AllKnown
  BY DEF IInv
<1>2. /\ call[k].step = "saved"
      /\ UNCHANGED <<log, firing, spool, torn, cursor, cursorFile, db, misplaced, lost>>
  BY DEF Compact, file
<1>3. CASE MayTruncate
  <2>1. PICK st : st = "truncating"
    OBVIOUS
  <2>2. call' = [call EXCEPT ![k].step = st] /\ UNCHANGED <<wire, unheard, page>>
    BY <1>3, <2>1 DEF Compact
  <2>3. PICK r \in CallRecords : /\ call' = [call EXCEPT ![k] = r]
                                 /\ r.step = st /\ r.batch = call[k].batch
    BY <1>1, <2>1, <2>2, CallStepped DEF CallSteps
  <2>4. /\ call' \in [Calls -> CallRecords]
        /\ Unsaved \subseteq Unsaved' /\ Untold \subseteq Untold'
    BY <1>1, <1>2, <2>1, <2>3, CallMoves DEF Typed
  <2>5. Accounted \subseteq Accounted'
    BY <1>2, <2>4 DEF Accounted
  <2>6. Range(spool) \subseteq Accounted
    <3>1. cursor = Len(spool)
      BY <1>3 DEF MayTruncate, Drained
    <3>2. \A i \in DOMAIN spool : i <= cursor
      BY <1>1, <3>1 DEF Typed
    <3> QED
      BY <1>1, <3>2 DEF SpoolKept, ReadKept, Range
  <2>7. SpoolKept'
    BY <1>1, <1>2, <2>5, <2>6, SpoolFrame
  <2>8. Typed'
    BY <1>1, <1>2, <2>2, <2>4 DEF Typed, Fired
  <2>9. AllKnown'
    BY <1>1, <1>2, <2>2, <2>4 DEF AllKnown, Known, OnTheWay
  <2> QED
    BY <2>7, <2>8, <2>9 DEF IInv
<1>4. CASE ~MayTruncate
  <2>1. Announce(k)
    BY <1>4 DEF Compact
  <2>2. /\ call' \in [Calls -> CallRecords]
        /\ DOMAIN page' = Clients /\ \A c \in Clients : IsPage(page'[c])
        /\ DOMAIN unheard' = Clients
        /\ DOMAIN wire' = Clients /\ \A c \in Clients : wire'[c] \in Seq(Range(wire'[c]))
        /\ Accounted \subseteq Accounted' /\ (Locked' => Locked)
        /\ AllKnown'
    BY <1>2, <2>1, AnnounceSteps
  <2>3. Typed'
    BY <1>1, <1>2, <2>2 DEF Typed, Fired
  <2>4. SpoolKept'
    BY <1>1, <1>2, <2>2, SpoolFrame
  <2> QED
    BY <2>2, <2>3, <2>4 DEF IInv
<1> QED
  BY <1>3, <1>4

(* The spool becomes empty, and nothing in it was wanted.                   *)
LEMMA SpoolEmptied ==
    ASSUME Typed, SpoolKept, Locked, Emptied, UNCHANGED <<log, firing>>,
           Accounted \subseteq Accounted', cursor' \in Nat, cursor' > 0 => misplaced'
    PROVE  SpoolKept' /\ spool' \in Seq(Nat) /\ torn' \in BOOLEAN
<1>1. spool' = <<>> /\ torn' = FALSE
  BY DEF Emptied
<1>2. Len(spool') = 0 /\ DOMAIN spool' = {} /\ Range(spool') = {} /\ spool' \in Seq(Nat)
  <2>1. Len(<<>>) = 0 /\ DOMAIN <<>> = {} /\ <<>> \in Seq(Nat)
    OBVIOUS
  <2> QED
    BY <1>1, <2>1 DEF Range
<1>3. Stored'
  BY <1>2 DEF SpoolKept, Stored, Emptyable, Fired
<1>4. ReadKept' /\ Ahead' /\ TornLine' /\ Emptyable'
  BY <1>1, <1>2 DEF ReadKept, Ahead, TornLine, Emptyable
<1> QED
  BY <1>1, <1>2, <1>3, <1>4 DEF SpoolKept

LEMMA TruncateStep ==
    ASSUME IInv, NEW k \in Calls, Truncate(k)
    PROVE  IInv'
<1>1. Typed /\ SpoolKept
  BY DEF IInv
<1>2. /\ call[k].step = "truncating" /\ Emptied /\ cursor' = 0 /\ cursorFile' = 0 /\ Announce(k)
      /\ UNCHANGED <<log, firing, db, misplaced, lost>>
  BY DEF Truncate, Restarted
<1>3. Locked
  BY <1>2 DEF Locked
<1>4. /\ call' \in [Calls -> CallRecords]
      /\ DOMAIN page' = Clients /\ \A c \in Clients : IsPage(page'[c])
      /\ DOMAIN unheard' = Clients
      /\ DOMAIN wire' = Clients /\ \A c \in Clients : wire'[c] \in Seq(Range(wire'[c]))
      /\ Accounted \subseteq Accounted' /\ AllKnown'
  BY <1>2, AnnounceSteps
<1>5. SpoolKept' /\ spool' \in Seq(Nat) /\ torn' \in BOOLEAN
  BY <1>1, <1>2, <1>3, <1>4, SpoolEmptied
<1>6. Typed'
  BY <1>1, <1>2, <1>4, <1>5 DEF Typed, Fired
<1> QED
  BY <1>4, <1>5, <1>6 DEF IInv

-----------------------------------------------------------------------------
(* Calls that fail.                                                         *)

LEMMA PersistFailsStep ==
    ASSUME IInv, NEW c \in Clients, NEW k \in Calls, PersistFails(c, k)
    PROVE  IInv'
<1>1. Typed /\ SpoolKept /\ AllKnown
  BY DEF IInv
<1>2. /\ ReadLines /\ lost' = lost \cup Lines(StartedAt, Complete)
      /\ page' = IF page[c].phase = "loaded" THEN Ends(c) ELSE page
      /\ UNCHANGED <<log, firing, spool, torn, cursorFile, db, call, wire, unheard>>
  BY DEF PersistFails, file
<1>3. Unsaved' = Unsaved /\ Untold' = Untold /\ ~Locked'
  BY <1>2 DEF ReadLines, Unsaved, Untold, Locked
<1>4. SpoolKept' /\ cursor' \in Nat
  <2>1. Accounted \cup Lines(StartedAt, Complete) \subseteq Accounted'
    BY <1>2, <1>3 DEF Accounted
  <2> QED
    BY <1>1, <1>2, <1>3, <2>1, LinesRead
<1>5. /\ DOMAIN page' = Clients /\ \A o \in Clients : IsPage(page'[o])
      /\ \A o \in Clients : page'[o] = page[o] \/ page'[o].phase = "listing"
  <2>1. CASE page[c].phase = "loaded"
    <3>1. PICK ph : ph = "listing"
      OBVIOUS
    <3>2. page' = [page EXCEPT ![c].phase = ph]
      BY <1>2, <2>1, <3>1 DEF Ends
    <3> QED
      BY <1>1, <3>1, <3>2, PhaseSet
  <2>2. CASE page[c].phase # "loaded"
    BY <1>1, <1>2, <2>2 DEF Typed
  <2> QED
    BY <2>1, <2>2
<1>6. Typed'
  BY <1>1, <1>2, <1>4, <1>5 DEF Typed, Fired
<1>7. AllKnown'
  <2> SUFFICES ASSUME NEW o \in Clients, page'[o].phase \in {"listed", "polling"}
               PROVE  db' \subseteq Known(o)'
    BY DEF AllKnown
  <2>1. page'[o] = page[o]
    BY <1>5
  <2> QED
    BY <1>1, <1>2, <1>3, <2>1 DEF AllKnown, Known, OnTheWay
<1> QED
  BY <1>4, <1>6, <1>7 DEF IInv

LEMMA SaveFailsStep ==
    ASSUME IInv, NEW k \in Calls, SaveFails(k)
    PROVE  IInv'
<1>1. Typed /\ SpoolKept /\ AllKnown
  BY DEF IInv
<1>2. /\ call[k].step = "read" /\ lost' = lost \cup call[k].batch
      /\ call' = [call EXCEPT ![k] = Idle] /\ page' = Ends(call[k].by)
      /\ UNCHANGED <<log, firing, spool, torn, cursor, cursorFile, db, wire, misplaced, unheard>>
  BY DEF SaveFails, Fails, file, store
<1>3. /\ DOMAIN page' = Clients /\ \A c \in Clients : IsPage(page'[c])
      /\ \A c \in Clients : page'[c] = page[c] \/ page'[c].phase = "listing"
      /\ call' \in [Calls -> CallRecords]
      /\ Unsaved \subseteq Unsaved' \cup call[k].batch
      /\ Untold \subseteq Untold' /\ (Locked' => Locked)
  BY <1>1, <1>2, CallEnds
<1>4. Typed'
  BY <1>1, <1>2, <1>3 DEF Typed, Fired
<1>5. SpoolKept'
  <2>1. Accounted \subseteq Accounted'
    BY <1>2, <1>3 DEF Accounted
  <2> QED
    BY <1>1, <1>2, <1>3, <2>1, SpoolFrame
<1>6. AllKnown'
  <2> SUFFICES ASSUME NEW o \in Clients, page'[o].phase \in {"listed", "polling"}
               PROVE  db' \subseteq Known(o)'
    BY DEF AllKnown
  <2>1. page'[o] = page[o]
    BY <1>3
  <2> QED
    BY <1>1, <1>2, <1>3, <2>1 DEF AllKnown, Known, OnTheWay
<1> QED
  BY <1>4, <1>5, <1>6 DEF IInv

LEMMA TruncateFailsStep ==
    ASSUME IInv, NEW k \in Calls, TruncateFails(k)
    PROVE  IInv'
<1>1. Typed /\ SpoolKept /\ AllKnown
  BY DEF IInv
<1>2. /\ call[k].step = "truncating"
      /\ unheard' = [c \in Clients |-> unheard[c] \cup call[k].batch]
      /\ call' = [call EXCEPT ![k] = Idle] /\ page' = Ends(call[k].by)
      /\ UNCHANGED <<log, firing, cursorFile, db, wire, misplaced, lost>>
  BY DEF TruncateFails, Fails
<1>3. /\ DOMAIN page' = Clients /\ \A c \in Clients : IsPage(page'[c])
      /\ \A c \in Clients : page'[c] = page[c] \/ page'[c].phase = "listing"
      /\ call' \in [Calls -> CallRecords]
      /\ Unsaved \subseteq Unsaved'
      /\ Untold \subseteq Untold' \cup call[k].batch /\ (Locked' => Locked)
  BY <1>1, <1>2, CallEnds
<1>4. Accounted \subseteq Accounted' /\ Locked
  BY <1>2, <1>3 DEF Accounted, Locked
<1>5. SpoolKept' /\ spool' \in Seq(Nat) /\ torn' \in BOOLEAN /\ cursor' \in Nat
  <2>1. CASE UNCHANGED <<file, cursor>>
    <3>1. UNCHANGED <<spool, torn, cursor>>
      BY <2>1 DEF file
    <3> QED
      BY <1>1, <1>2, <1>4, <3>1, SpoolFrame DEF Typed
  <2>2. CASE Emptied /\ cursor' = 0
    BY <1>1, <1>2, <1>4, <2>2, SpoolEmptied
  <2> QED
    BY <2>1, <2>2 DEF TruncateFails
<1>6. Typed'
  BY <1>1, <1>2, <1>3, <1>5 DEF Typed, Fired
<1>7. AllKnown'
  <2> SUFFICES ASSUME NEW o \in Clients, page'[o].phase \in {"listed", "polling"}
               PROVE  db' \subseteq Known(o)'
    BY DEF AllKnown
  <2>1. page'[o] = page[o]
    BY <1>3
  <2> QED
    BY <1>1, <1>2, <1>3, <2>1 DEF AllKnown, Known, OnTheWay
<1> QED
  BY <1>5, <1>6, <1>7 DEF IInv

-----------------------------------------------------------------------------
(* What the pages do.                                                       *)

LEMMA PageSet ==
    ASSUME Typed, NEW c \in Clients, NEW q, IsPage(q), page' = [page EXCEPT ![c] = q]
    PROVE  /\ DOMAIN page' = Clients /\ \A o \in Clients : IsPage(page'[o])
           /\ page'[c] = q /\ \A o \in Clients \ {c} : page'[o] = page[o]
  BY DEF Typed

(* Steps of pages that leave the events and calls alone.                    *)
LEMMA PageFrame ==
    ASSUME IInv, UNCHANGED <<log, firing, spool, torn, cursor, cursorFile, db, call, misplaced, lost>>
    PROVE  /\ SpoolKept' /\ Untold' = Untold
           /\ (/\ DOMAIN page' = Clients /\ \A c \in Clients : IsPage(page'[c])
               /\ DOMAIN unheard' = Clients
               /\ DOMAIN wire' = Clients /\ \A c \in Clients : wire'[c] \in Seq(Range(wire'[c])))
                => Typed'
<1>1. Typed /\ SpoolKept
  BY DEF IInv
<1>2. Accounted' = Accounted /\ (Locked' => Locked)
  BY SameAccounts
<1>3. SpoolKept'
  BY <1>1, <1>2, SpoolFrame
<1>4. Untold' = Untold
  BY DEF Untold
<1> QED
  BY <1>1, <1>3, <1>4 DEF Typed, Fired

LEMMA ApplyStep ==
    ASSUME IInv, NEW c \in Clients, Apply(c)
    PROVE  IInv'
<1>1. Typed /\ AllKnown
  BY DEF IInv
<1>2. UNCHANGED <<log, firing, spool, torn, cursor, cursorFile, db, call, wire, misplaced, lost, unheard>>
  BY DEF Apply, file, store
<1>3. SpoolKept' /\ Untold' = Untold
  BY <1>2, PageFrame
<1>4. PICK s : page' = [page EXCEPT ![c].status = s.status, ![c].at = s.at, ![c].fresh = {},
                                    ![c].handled = @ \cup page[c].fresh]
  BY DEF Apply
<1>5. PICK st, at : st = s.status /\ at = s.at
  OBVIOUS
<1>6. PICK q : q = [page[c] EXCEPT !.status = st, !.at = at, !.fresh = {},
                                   !.handled = @ \cup page[c].fresh]
  OBVIOUS
<1>7. page' = [page EXCEPT ![c] = q]
  BY <1>4, <1>5, <1>6
<1>8. /\ IsPage(q) /\ q.handled = page[c].handled \cup page[c].fresh
      /\ q.phase = page[c].phase /\ q.listed = page[c].listed
  BY <1>1, <1>6 DEF Typed, IsPage
<1>9. /\ DOMAIN page' = Clients /\ \A o \in Clients : IsPage(page'[o])
      /\ page'[c] = q /\ \A o \in Clients \ {c} : page'[o] = page[o]
  BY <1>1, <1>7, <1>8, PageSet
<1>10. Typed'
  BY <1>1, <1>2, <1>9, PageFrame DEF Typed
<1>11. AllKnown'
  BY <1>1, <1>2, <1>3, <1>8, <1>9 DEF AllKnown, Known, OnTheWay
<1> QED
  BY <1>3, <1>10, <1>11 DEF IInv

(* A page whose phase and events stay.                                      *)
LEMMA PageKeeps ==
    ASSUME IInv, NEW c \in Clients, NEW q, IsPage(q), page' = [page EXCEPT ![c] = q],
           q.handled = page[c].handled, q.fresh = page[c].fresh, q.listed = page[c].listed,
           q.phase = page[c].phase \/ q.phase \in {"loading", "loaded"},
           UNCHANGED <<log, firing, spool, torn, cursor, cursorFile, db, call, misplaced, lost,
                       wire, unheard>>
    PROVE  IInv'
<1>1. Typed /\ AllKnown
  BY DEF IInv
<1>2. SpoolKept' /\ Untold' = Untold
  BY PageFrame
<1>3. /\ DOMAIN page' = Clients /\ \A o \in Clients : IsPage(page'[o])
      /\ page'[c] = q /\ \A o \in Clients \ {c} : page'[o] = page[o]
  BY <1>1, PageSet
<1>4. Typed'
  BY <1>1, <1>3, PageFrame DEF Typed
<1>5. AllKnown'
  BY <1>1, <1>2, <1>3 DEF AllKnown, Known, OnTheWay
<1> QED
  BY <1>2, <1>4, <1>5 DEF IInv

LEMMA InputStep ==
    ASSUME IInv, NEW c \in Clients, NEW status \in Inputs, Input(c, status)
    PROVE  IInv'
<1>1. Typed
  BY DEF IInv
<1>2. UNCHANGED <<log, firing, spool, torn, cursor, cursorFile, db, call, misplaced, lost, wire, unheard>>
  BY DEF Input, file, store
<1>3. PICK at : at = Later(page[c].at, Now)
  OBVIOUS
<1>4. PICK q : q = [page[c] EXCEPT !.status = status, !.at = at]
  OBVIOUS
<1>5. page' = [page EXCEPT ![c] = q]
  BY <1>3, <1>4 DEF Input
<1>6. /\ IsPage(q) /\ q.handled = page[c].handled /\ q.fresh = page[c].fresh
      /\ q.listed = page[c].listed /\ q.phase = page[c].phase
  BY <1>1, <1>4 DEF Typed, IsPage
<1> QED
  BY <1>2, <1>5, <1>6, PageKeeps

LEMMA ShowRowsStep ==
    ASSUME IInv, NEW c \in Clients, ShowRows(c)
    PROVE  IInv'
<1>1. Typed
  BY DEF IInv
<1>2. UNCHANGED <<log, firing, spool, torn, cursor, cursorFile, db, call, misplaced, lost, wire, unheard>>
  BY DEF ShowRows, file, store
<1>3. PICK st, ph : st = (IF page[c].status = "STARTING" THEN page[c].status ELSE row) /\ ph = "loaded"
  OBVIOUS
<1>4. PICK q : q = [page[c] EXCEPT !.phase = ph, !.status = st]
  OBVIOUS
<1>5. page' = [page EXCEPT ![c] = q]
  BY <1>1, <1>3, <1>4 DEF ShowRows, Typed, IsPage
<1>6. /\ IsPage(q) /\ q.handled = page[c].handled /\ q.fresh = page[c].fresh
      /\ q.listed = page[c].listed /\ q.phase = ph
  BY <1>1, <1>4 DEF Typed, IsPage
<1>7. q.phase \in {"loading", "loaded"}
  BY <1>3, <1>6
<1> QED
  BY <1>2, <1>5, <1>6, <1>7, PageKeeps

LEMMA ReconnectStep ==
    ASSUME IInv, NEW c \in Clients, Reconnect(c)
    PROVE  IInv'
<1>1. Typed
  BY DEF IInv
<1>2. UNCHANGED <<log, firing, spool, torn, cursor, cursorFile, db, call, misplaced, lost, wire, unheard>>
  BY DEF Reconnect, file, store, ghosts
<1>3. CASE page[c].phase = "loading"
  <2>1. UNCHANGED page
    BY <1>3 DEF Reconnect
  <2>2. SpoolKept' /\ Typed'
    BY <1>1, <1>2, <2>1, PageFrame DEF Typed
  <2>3. AllKnown'
    BY <1>2, <2>1, KnownFrame DEF IInv
  <2> QED
    BY <2>2, <2>3 DEF IInv
<1>4. CASE page[c].phase # "loading"
  <2>1. PICK q : q = [page[c] EXCEPT !.status = row]
    OBVIOUS
  <2>2. page' = [page EXCEPT ![c] = q]
    BY <1>4, <2>1 DEF Reconnect
  <2>3. /\ IsPage(q) /\ q.handled = page[c].handled /\ q.fresh = page[c].fresh
        /\ q.listed = page[c].listed /\ q.phase = page[c].phase
    BY <1>1, <2>1 DEF Typed, IsPage
  <2> QED
    BY <1>2, <2>2, <2>3, PageKeeps
<1> QED
  BY <1>3, <1>4

LEMMA SaveRowStep ==
    ASSUME IInv, NEW c \in Clients, SaveRow(c)
    PROVE  IInv'
<1>1. Typed /\ AllKnown
  BY DEF IInv
<1>2. /\ UNCHANGED <<log, firing, spool, torn, cursor, cursorFile, db, call, page, misplaced, lost, unheard>>
      /\ wire' = [o \in Clients |-> IF o # c /\ link[o] THEN Append(wire[o], [kind |-> "row", status |-> row'])
                                    ELSE wire[o]]
  BY DEF SaveRow, file, store, ghosts
<1>3. SpoolKept' /\ Untold' = Untold
  BY <1>2, PageFrame
<1>4. PICK m : m = [kind |-> "row", status |-> row']
  OBVIOUS
<1>5. ASSUME NEW o \in Clients
      PROVE  wire'[o] \in Seq(Range(wire'[o])) /\ OnTheWay(o) \subseteq OnTheWay(o)'
  <2>1. wire[o] \in Seq(Range(wire[o]))
    BY <1>1 DEF Typed
  <2>2. CASE o # c /\ link[o]
    <3>1. wire'[o] = Append(wire[o], m)
      BY <1>2, <1>4, <2>2
    <3>2. wire'[o] \in Seq(Range(wire'[o])) /\ Range(wire'[o]) = Range(wire[o]) \cup {m}
      BY <2>1, <3>1, Appended
    <3> QED
      BY <3>2 DEF OnTheWay, EventsIn
  <2>3. CASE ~(o # c /\ link[o])
    <3>1. wire'[o] = wire[o]
      BY <1>2, <2>3
    <3> QED
      BY <2>1, <3>1 DEF OnTheWay
  <2> QED
    BY <2>2, <2>3
<1>6. Typed'
  BY <1>1, <1>2, <1>5, PageFrame DEF Typed
<1>7. AllKnown'
  BY <1>1, <1>2, <1>3, <1>5 DEF AllKnown, Known
<1> QED
  BY <1>3, <1>6, <1>7 DEF IInv

(* What is taken off a wire is applied, remembered, or not for this page.   *)
LEMMA WireTaken ==
    ASSUME Typed, NEW c \in Clients, wire[c] # <<>>, wire' = [wire EXCEPT ![c] = Tail(@)]
    PROVE  /\ DOMAIN wire' = Clients /\ \A o \in Clients : wire'[o] \in Seq(Range(wire'[o]))
           /\ OnTheWay(c) = OnTheWay(c)' \cup EventsIn(Head(wire[c]))
           /\ \A o \in Clients \ {c} : OnTheWay(o)' = OnTheWay(o)
<1>1. wire[c] \in Seq(Range(wire[c])) /\ wire'[c] = Tail(wire[c])
  BY DEF Typed
<1>2. /\ wire'[c] \in Seq(Range(wire'[c]))
      /\ Range(wire[c]) = Range(wire'[c]) \cup {Head(wire[c])}
  BY <1>1, Taken
<1>3. \A o \in Clients \ {c} : wire'[o] = wire[o]
  OBVIOUS
<1>4. OnTheWay(c) = OnTheWay(c)' \cup EventsIn(Head(wire[c]))
  BY <1>2 DEF OnTheWay, EventsIn
<1>5. \A o \in Clients \ {c} : OnTheWay(o)' = OnTheWay(o)
  BY <1>3 DEF OnTheWay
<1>6. \A o \in Clients : wire'[o] \in Seq(Range(wire'[o]))
  BY <1>2, <1>3 DEF Typed
<1> QED
  BY <1>4, <1>5, <1>6 DEF Typed

LEMMA ReceiveStep ==
    ASSUME IInv, NEW c \in Clients, Receive(c)
    PROVE  IInv'
<1>1. Typed /\ AllKnown
  BY DEF IInv
<1>2. /\ wire[c] # <<>> /\ wire' = [wire EXCEPT ![c] = Tail(@)]
      /\ UNCHANGED <<log, firing, spool, torn, cursor, cursorFile, db, call, misplaced, lost, unheard>>
  BY DEF Receive, file, store, ghosts
<1>3. SpoolKept' /\ Untold' = Untold
  BY <1>2, PageFrame
<1>4. /\ DOMAIN wire' = Clients /\ \A o \in Clients : wire'[o] \in Seq(Range(wire'[o]))
      /\ OnTheWay(c) = OnTheWay(c)' \cup EventsIn(Head(wire[c]))
      /\ \A o \in Clients \ {c} : OnTheWay(o)' = OnTheWay(o)
  BY <1>1, <1>2, WireTaken
<1>5. PICK m : m = Head(wire[c])
  OBVIOUS
<1>6. page' = CASE m.kind = "row" /\ page[c].phase # "loading" -> External(c, m.status)
                [] m.kind = "events" /\ Listens(c) ->
                     [page EXCEPT ![c].fresh = @ \cup Unhandled(c, m.batch)]
                [] OTHER -> page
  BY <1>5 DEF Receive
<1>7. \E q : /\ DOMAIN page' = Clients /\ \A o \in Clients : IsPage(page'[o])
             /\ page'[c] = q /\ \A o \in Clients \ {c} : page'[o] = page[o]
             /\ q.phase = page[c].phase /\ q.handled = page[c].handled /\ q.listed = page[c].listed
             /\ page[c].fresh \subseteq q.fresh
             /\ Listens(c) => EventsIn(m) \subseteq q.fresh \cup q.handled
  <2>1. CASE m.kind = "row" /\ page[c].phase # "loading"
    <3>1. PICK st, at : st = m.status
                        /\ at = (IF m.status # page[c].status THEN Later(page[c].at, Now) ELSE page[c].at)
      OBVIOUS
    <3>2. PICK q : q = [page[c] EXCEPT !.status = st, !.at = at]
      OBVIOUS
    <3>3. page' = External(c, m.status)
      BY <1>6, <2>1
    <3>4. page' = [page EXCEPT ![c] = q]
      BY <1>1, <3>1, <3>2, <3>3 DEF External, Typed, IsPage
    <3>5. /\ IsPage(q) /\ q.phase = page[c].phase /\ q.handled = page[c].handled
          /\ q.listed = page[c].listed /\ q.fresh = page[c].fresh
      BY <1>1, <3>2 DEF Typed, IsPage
    <3>6. EventsIn(m) = {}
      BY <2>1 DEF EventsIn
    <3> QED
      BY <1>1, <3>4, <3>5, <3>6, PageSet
  <2>2. CASE m.kind = "events" /\ Listens(c)
    <3>1. PICK new : new = page[c].fresh \cup Unhandled(c, m.batch)
      OBVIOUS
    <3>2. PICK q : q = [page[c] EXCEPT !.fresh = new]
      OBVIOUS
    <3>3. page' = [page EXCEPT ![c] = q]
      BY <1>6, <2>2, <3>1, <3>2
    <3>4. /\ IsPage(q) /\ q.phase = page[c].phase /\ q.handled = page[c].handled
          /\ q.listed = page[c].listed /\ q.fresh = new
      BY <1>1, <3>2 DEF Typed, IsPage
    <3>5. EventsIn(m) \subseteq new \cup page[c].handled
      BY <2>2, <3>1 DEF EventsIn, Unhandled
    <3> QED
      BY <1>1, <3>1, <3>3, <3>4, <3>5, PageSet
  <2>3. CASE ~(m.kind = "row" /\ page[c].phase # "loading") /\ ~(m.kind = "events" /\ Listens(c))
    <3>1. page' = page
      BY <1>6, <2>3
    <3>2. Listens(c) => EventsIn(m) = {}
      BY <2>3 DEF EventsIn
    <3> QED
      BY <1>1, <3>1, <3>2 DEF Typed
  <2> QED
    BY <2>1, <2>2, <2>3
<1>8. PICK q : /\ DOMAIN page' = Clients /\ \A o \in Clients : IsPage(page'[o])
               /\ page'[c] = q /\ \A o \in Clients \ {c} : page'[o] = page[o]
               /\ q.phase = page[c].phase /\ q.handled = page[c].handled /\ q.listed = page[c].listed
               /\ page[c].fresh \subseteq q.fresh
               /\ Listens(c) => EventsIn(m) \subseteq q.fresh \cup q.handled
  BY <1>7
<1>9. Typed'
  BY <1>1, <1>2, <1>4, <1>8, PageFrame DEF Typed
<1>10. AllKnown'
  <2> SUFFICES ASSUME NEW o \in Clients, page'[o].phase \in {"listed", "polling"}
               PROVE  db' \subseteq Known(o)'
    BY DEF AllKnown
  <2>1. CASE o # c
    BY <1>1, <1>2, <1>3, <1>4, <1>8, <2>1 DEF AllKnown, Known
  <2>2. CASE o = c
    <3>1. Listens(c) /\ page[c].phase \in {"listed", "polling"}
      BY <1>8, <2>2 DEF Listens
    <3>2. db \subseteq Known(c)
      BY <1>1, <3>1 DEF AllKnown
    <3>3. Known(c) \subseteq Known(c)'
      BY <1>2, <1>3, <1>4, <1>5, <1>8, <3>1 DEF Known
    <3> QED
      BY <1>2, <2>2, <3>2, <3>3
  <2> QED
    BY <2>1, <2>2
<1> QED
  BY <1>3, <1>9, <1>10 DEF IInv

(* Before it has loaded the list a page need not have heard of anything.    *)
LEMMA ListEventsStep ==
    ASSUME IInv, NEW c \in Clients, ListEvents(c)
    PROVE  IInv'
<1>1. Typed /\ AllKnown
  BY DEF IInv
<1>2. UNCHANGED <<log, firing, spool, torn, cursor, cursorFile, db, call, misplaced, lost, wire, unheard>>
  BY DEF ListEvents, file, store, ghosts
<1>3. PICK ph : ph = "listed"
  OBVIOUS
<1>4. PICK q : q = [page[c] EXCEPT !.phase = ph, !.listed = db]
  OBVIOUS
<1>5. page' = [page EXCEPT ![c] = q]
  BY <1>3, <1>4 DEF ListEvents
<1>6. IsPage(q) /\ q.listed = db /\ q.phase = ph
  BY <1>1, <1>4 DEF Typed, IsPage
<1>7. /\ DOMAIN page' = Clients /\ \A o \in Clients : IsPage(page'[o])
      /\ page'[c] = q /\ \A o \in Clients \ {c} : page'[o] = page[o]
  BY <1>1, <1>5, <1>6, PageSet
<1>8. SpoolKept' /\ Typed' /\ Untold' = Untold
  BY <1>1, <1>2, <1>7, PageFrame DEF Typed
<1>9. AllKnown'
  BY <1>1, <1>2, <1>3, <1>6, <1>7, <1>8 DEF AllKnown, Known, OnTheWay
<1> QED
  BY <1>8, <1>9 DEF IInv

LEMMA LoadEventsStep ==
    ASSUME IInv, NEW c \in Clients, LoadEvents(c)
    PROVE  IInv'
<1>1. Typed /\ AllKnown
  BY DEF IInv
<1>2. /\ page[c].phase = "listed"
      /\ unheard' = [unheard EXCEPT ![c] = @ \cup (page[c].fresh \ page[c].listed)]
      /\ UNCHANGED <<log, firing, spool, torn, cursor, cursorFile, db, call, misplaced, lost, wire>>
  BY DEF LoadEvents, file, store
<1>3. PICK ph, new, no : ph = "polling" /\ new = Unhandled(c, page[c].listed) /\ no = {}
  OBVIOUS
<1>4. PICK q : q = [page[c] EXCEPT !.phase = ph, !.listed = no, !.fresh = new]
  OBVIOUS
<1>5. page' = [page EXCEPT ![c] = q]
  BY <1>3, <1>4 DEF LoadEvents
<1>6. IsPage(q) /\ q.fresh = new /\ q.handled = page[c].handled
  BY <1>1, <1>4 DEF Typed, IsPage
<1>7. /\ DOMAIN page' = Clients /\ \A o \in Clients : IsPage(page'[o])
      /\ page'[c] = q /\ \A o \in Clients \ {c} : page'[o] = page[o]
  BY <1>1, <1>5, <1>6, PageSet
<1>8. /\ DOMAIN unheard' = Clients
      /\ unheard'[c] = unheard[c] \cup (page[c].fresh \ page[c].listed)
      /\ \A o \in Clients \ {c} : unheard'[o] = unheard[o]
  BY <1>1, <1>2 DEF Typed
<1>9. SpoolKept' /\ Typed' /\ Untold' = Untold
  BY <1>1, <1>2, <1>7, <1>8, PageFrame DEF Typed
<1>10. AllKnown'
  <2> SUFFICES ASSUME NEW o \in Clients, page'[o].phase \in {"listed", "polling"}
               PROVE  db' \subseteq Known(o)'
    BY DEF AllKnown
  <2>1. OnTheWay(o)' = OnTheWay(o)
    BY <1>2 DEF OnTheWay
  <2>2. CASE o # c
    BY <1>1, <1>2, <1>7, <1>8, <1>9, <2>1, <2>2 DEF AllKnown, Known
  <2>3. CASE o = c
    <3>1. db \subseteq Known(c)
      BY <1>1, <1>2 DEF AllKnown
    <3>2. page[c].listed \subseteq new \cup page[c].handled
      BY <1>3 DEF Unhandled
    <3>3. Known(c) \subseteq Known(c)'
      BY <1>6, <1>7, <1>8, <1>9, <2>1, <2>3, <3>2 DEF Known
    <3> QED
      BY <1>2, <2>3, <3>1, <3>3
  <2> QED
    BY <2>2, <2>3
<1> QED
  BY <1>9, <1>10 DEF IInv

-----------------------------------------------------------------------------
(* Pages loaded again, connections that break or lag, and a restart.        *)

(* The wire of a client is cut.                                             *)
LEMMA WireCut ==
    ASSUME Typed, NEW c \in Clients, wire' = [wire EXCEPT ![c] = <<>>]
    PROVE  /\ DOMAIN wire' = Clients /\ \A o \in Clients : wire'[o] \in Seq(Range(wire'[o]))
           /\ \A o \in Clients \ {c} : OnTheWay(o)' = OnTheWay(o)
<1>1. wire'[c] = <<>> /\ \A o \in Clients \ {c} : wire'[o] = wire[o]
  BY DEF Typed
<1>2. wire'[c] \in Seq(Range(wire'[c]))
  <2>1. \A S : <<>> \in Seq(S)
    OBVIOUS
  <2> QED
    BY <1>1, <2>1
<1> QED
  BY <1>1, <1>2 DEF Typed, OnTheWay

(* A page starts again, or calls of it are rejected.                        *)
LEMMA CallsDropped ==
    ASSUME IInv, NEW c \in Clients, call' = Abandoned(c),
           UNCHANGED <<log, firing, spool, torn, cursor, cursorFile, db, misplaced, lost>>
    PROVE  SpoolKept' /\ Untold' = Untold /\ call' \in [Calls -> CallRecords]
<1>1. Typed /\ SpoolKept
  BY DEF IInv
<1>2. call' \in [Calls -> CallRecords] /\ Unsaved' = Unsaved /\ Untold' = Untold /\ (Locked' => Locked)
  BY <1>1, CallsAbandoned DEF Typed
<1>3. Accounted' = Accounted
  BY <1>2 DEF Accounted
<1> QED
  BY <1>1, <1>2, <1>3, SpoolFrame

LEMMA ReloadStep ==
    ASSUME IInv, NEW c \in Clients, Reload(c)
    PROVE  IInv'
<1>1. Typed /\ AllKnown
  BY DEF IInv
<1>2. /\ wire' = [wire EXCEPT ![c] = <<>>] /\ call' = Abandoned(c)
      /\ unheard' = [unheard EXCEPT ![c] = {}]
      /\ UNCHANGED <<log, firing, spool, torn, cursor, cursorFile, db, misplaced, lost>>
  BY DEF Reload, file, store
<1>3. PICK q : q = Page("IDLE", IF Now > Grace THEN Now - Grace ELSE 0)
  OBVIOUS
<1>4. page' = [page EXCEPT ![c] = q]
  BY <1>3 DEF Reload
<1>5. IsPage(q) /\ q.phase = "loading"
  BY <1>3 DEF Page, IsPage
<1>6. /\ DOMAIN page' = Clients /\ \A o \in Clients : IsPage(page'[o])
      /\ page'[c] = q /\ \A o \in Clients \ {c} : page'[o] = page[o]
  BY <1>1, <1>4, <1>5, PageSet
<1>7. SpoolKept' /\ Untold' = Untold /\ call' \in [Calls -> CallRecords]
  BY <1>2, CallsDropped
<1>8. /\ DOMAIN wire' = Clients /\ \A o \in Clients : wire'[o] \in Seq(Range(wire'[o]))
      /\ \A o \in Clients \ {c} : OnTheWay(o)' = OnTheWay(o)
  BY <1>1, <1>2, WireCut
<1>9. DOMAIN unheard' = Clients /\ \A o \in Clients \ {c} : unheard'[o] = unheard[o]
  BY <1>1, <1>2 DEF Typed
<1>10. Typed'
  BY <1>1, <1>2, <1>6, <1>7, <1>8, <1>9 DEF Typed, Fired
<1>11. AllKnown'
  <2> SUFFICES ASSUME NEW o \in Clients, page'[o].phase \in {"listed", "polling"}
               PROVE  db' \subseteq Known(o)'
    BY DEF AllKnown
  <2>1. o # c
    BY <1>5, <1>6
  <2> QED
    BY <1>1, <1>2, <1>6, <1>7, <1>8, <1>9, <2>1 DEF AllKnown, Known
<1> QED
  BY <1>7, <1>10, <1>11 DEF IInv

LEMMA DisconnectStep ==
    ASSUME IInv, NEW c \in Clients, Disconnect(c)
    PROVE  IInv'
<1>1. Typed /\ AllKnown
  BY DEF IInv
<1>2. /\ wire' = [wire EXCEPT ![c] = <<>>] /\ call' = Abandoned(c)
      /\ unheard' = [unheard EXCEPT ![c] =
                        @ \cup OnTheWay(c) \cup (IF page'[c] # page[c] THEN db ELSE {})]
      /\ UNCHANGED <<log, firing, spool, torn, cursor, cursorFile, db, misplaced, lost>>
  BY DEF Disconnect, file, store
<1>3. /\ DOMAIN page' = Clients /\ \A o \in Clients : IsPage(page'[o])
      /\ \A o \in Clients \ {c} : page'[o] = page[o]
  <2>1. CASE page[c].phase \in {"syncing", "listing", "listed"}
    <3>1. PICK ph, no : ph = "polling" /\ no = {}
      OBVIOUS
    <3>2. PICK q : q = [page[c] EXCEPT !.phase = ph, !.listed = no]
      OBVIOUS
    <3>3. page' = [page EXCEPT ![c] = q]
      BY <2>1, <3>1, <3>2 DEF Disconnect
    <3>4. IsPage(q)
      BY <1>1, <3>2 DEF Typed, IsPage
    <3> QED
      BY <1>1, <3>3, <3>4, PageSet
  <2>2. CASE page[c].phase \notin {"syncing", "listing", "listed"}
    BY <1>1, <2>2 DEF Disconnect, Typed
  <2> QED
    BY <2>1, <2>2
<1>4. SpoolKept' /\ Untold' = Untold /\ call' \in [Calls -> CallRecords]
  BY <1>2, CallsDropped
<1>5. /\ DOMAIN wire' = Clients /\ \A o \in Clients : wire'[o] \in Seq(Range(wire'[o]))
      /\ \A o \in Clients \ {c} : OnTheWay(o)' = OnTheWay(o)
  BY <1>1, <1>2, WireCut
<1>6. /\ DOMAIN unheard' = Clients
      /\ unheard[c] \cup OnTheWay(c) \subseteq unheard'[c]
      /\ page'[c] # page[c] => db \subseteq unheard'[c]
      /\ \A o \in Clients \ {c} : unheard'[o] = unheard[o]
  BY <1>1, <1>2 DEF Typed
<1>7. Typed'
  BY <1>1, <1>2, <1>3, <1>4, <1>5, <1>6 DEF Typed, Fired
<1>8. AllKnown'
  <2> SUFFICES ASSUME NEW o \in Clients, page'[o].phase \in {"listed", "polling"}
               PROVE  db' \subseteq Known(o)'
    BY DEF AllKnown
  <2>1. CASE o # c
    BY <1>1, <1>2, <1>3, <1>4, <1>5, <1>6, <2>1 DEF AllKnown, Known
  <2>2. CASE o = c /\ page'[c] # page[c]
    BY <1>2, <1>6, <2>2 DEF Known
  <2>3. CASE o = c /\ page'[c] = page[c]
    BY <1>1, <1>2, <1>4, <1>6, <2>3 DEF AllKnown, Known
  <2> QED
    BY <2>1, <2>2, <2>3
<1> QED
  BY <1>4, <1>7, <1>8 DEF IInv

LEMMA LagStep ==
    ASSUME IInv, NEW c \in Clients, Lag(c)
    PROVE  IInv'
<1>1. Typed /\ AllKnown
  BY DEF IInv
<1>2. /\ wire[c] # <<>> /\ wire' = [wire EXCEPT ![c] = Tail(@)]
      /\ unheard' = [unheard EXCEPT ![c] = @ \cup EventsIn(Head(wire[c]))]
      /\ UNCHANGED <<log, firing, spool, torn, cursor, cursorFile, db, call, page, misplaced, lost>>
  BY DEF Lag, file, store
<1>3. /\ DOMAIN wire' = Clients /\ \A o \in Clients : wire'[o] \in Seq(Range(wire'[o]))
      /\ OnTheWay(c) = OnTheWay(c)' \cup EventsIn(Head(wire[c]))
      /\ \A o \in Clients \ {c} : OnTheWay(o)' = OnTheWay(o)
  BY <1>1, <1>2, WireTaken
<1>4. /\ DOMAIN unheard' = Clients
      /\ unheard'[c] = unheard[c] \cup EventsIn(Head(wire[c]))
      /\ \A o \in Clients \ {c} : unheard'[o] = unheard[o]
  BY <1>1, <1>2 DEF Typed
<1>5. SpoolKept' /\ Typed' /\ Untold' = Untold
  BY <1>1, <1>2, <1>3, <1>4, PageFrame DEF Typed
<1>6. AllKnown'
  <2> SUFFICES ASSUME NEW o \in Clients, page'[o].phase \in {"listed", "polling"}
               PROVE  db' \subseteq Known(o)'
    BY DEF AllKnown
  <2>1. db \subseteq Known(o)
    BY <1>1, <1>2 DEF AllKnown
  <2>2. OnTheWay(o) \cup unheard[o] \subseteq OnTheWay(o)' \cup unheard'[o]
    BY <1>3, <1>4
  <2> QED
    BY <1>2, <1>5, <2>1, <2>2 DEF Known
<1> QED
  BY <1>5, <1>6 DEF IInv

LEMMA RestartStep ==
    ASSUME IInv, Restart
    PROVE  IInv'
<1>1. Typed /\ SpoolKept
  BY DEF IInv
<1>2. /\ cursor' = cursorFile /\ misplaced' = (cursorFile > Len(spool'))
      /\ lost' = lost \cup Unsaved \cup (IF cursorFile > cursor THEN Range(spool') ELSE {})
      /\ call' = [k \in Calls |-> Idle]
      /\ unheard' = [c \in Clients |-> IF c = Owner THEN {} ELSE unheard[c] \cup db]
      /\ wire' = [c \in Clients |-> <<>>]
      /\ UNCHANGED <<log, firing, cursorFile, db>>
  BY DEF Restart
<1>3. call' \in [Calls -> CallRecords] /\ ~Locked'
  BY <1>2 DEF Idle, CallRecords, CallSteps, Locked
<1>4. Accounted \cup lost' \subseteq Accounted'
  BY <1>2 DEF Accounted
<1>5. SpoolKept' /\ spool' \in Seq(Nat) /\ torn' \in BOOLEAN
  <2>1. CASE UNCHANGED file
    <3>1. UNCHANGED <<spool, torn>>
      BY <2>1 DEF file
    <3>2. Stored' /\ TornLine' /\ Emptyable'
      BY <1>1, <1>2, <1>3, <1>4, <3>1 DEF SpoolKept, Stored, TornLine, Emptyable, Fired
    <3>3. Ahead'
      BY <1>2 DEF Ahead
    <3>4. ReadKept'
      <4>1. CASE cursorFile > cursor
        BY <1>2, <1>4, <4>1 DEF ReadKept, Range
      <4>2. CASE cursorFile <= cursor
        BY <1>1, <1>2, <1>4, <3>1, <4>2 DEF SpoolKept, ReadKept, Typed
      <4> QED
        BY <1>1, <4>1, <4>2 DEF Typed
    <3> QED
      BY <1>1, <3>1, <3>2, <3>3, <3>4 DEF SpoolKept, Typed
  <2>2. CASE Locked /\ Emptied
    <3>1. Len(spool') = 0
      BY <2>2 DEF Emptied
    <3> QED
      BY <1>1, <1>2, <1>4, <2>2, <3>1, SpoolEmptied DEF Typed
  <2> QED
    BY <2>1, <2>2 DEF Restart
<1>6. ASSUME NEW c \in Clients
      PROVE  IsPage(page'[c]) /\ (c = Owner => page'[c].phase = "loading")
  <2>1. page'[c] = IF c = Owner THEN Page("STARTING", Now)
                   ELSE IF page[c].phase \in {"syncing", "listing", "listed"}
                        THEN [page[c] EXCEPT !.phase = "polling", !.listed = {}] ELSE page[c]
    BY DEF Restart
  <2>2. CASE c = Owner
    BY <2>1, <2>2 DEF Page, IsPage
  <2>3. CASE c # Owner /\ page[c].phase \in {"syncing", "listing", "listed"}
    <3>1. page'[c] = [page[c] EXCEPT !.phase = "polling", !.listed = {}]
      BY <2>1, <2>3
    <3> QED
      BY <1>1, <2>3, <3>1 DEF Typed, IsPage
  <2>4. CASE c # Owner /\ page[c].phase \notin {"syncing", "listing", "listed"}
    BY <1>1, <2>1, <2>4 DEF Typed
  <2> QED
    BY <2>2, <2>3, <2>4
<1>7. DOMAIN page' = Clients /\ DOMAIN unheard' = Clients /\ DOMAIN wire' = Clients
  BY DEF Restart
<1>8. \A c \in Clients : wire'[c] \in Seq(Range(wire'[c]))
  <2>1. \A S : <<>> \in Seq(S)
    OBVIOUS
  <2> QED
    BY <1>2, <2>1
<1>9. Typed'
  BY <1>1, <1>2, <1>3, <1>5, <1>6, <1>7, <1>8 DEF Typed, Fired
<1>10. AllKnown'
  <2> SUFFICES ASSUME NEW o \in Clients, page'[o].phase \in {"listed", "polling"}
               PROVE  db' \subseteq Known(o)'
    BY DEF AllKnown
  <2>1. o # Owner
    BY <1>6
  <2> QED
    BY <1>2, <2>1 DEF Known
<1> QED
  BY <1>5, <1>9, <1>10 DEF IInv

-----------------------------------------------------------------------------
(* Together.                                                                *)

LEMMA InitStep ==
    ASSUME Init
    PROVE  IInv
<1>1. /\ log = <<>> /\ firing = {} /\ spool = <<>> /\ torn = FALSE
      /\ cursor = 0 /\ cursorFile = 0
      /\ db = {} /\ call = [k \in Calls |-> Idle]
      /\ page = [c \in Clients |-> [Page("STARTING", 0) EXCEPT !.phase = "polling"]]
      /\ wire = [c \in Clients |-> <<>>]
      /\ unheard = [c \in Clients |-> {}]
  BY DEF Init
<1>2. /\ \A S : <<>> \in Seq(S)
      /\ Len(<<>>) = 0 /\ DOMAIN <<>> = {}
  OBVIOUS
<1>3. call \in [Calls -> CallRecords] /\ ~Locked
  BY <1>1 DEF Idle, CallRecords, CallSteps, Locked
<1>4. ASSUME NEW c \in Clients
      PROVE  IsPage(page[c])
  <2>1. page[c] = [Page("STARTING", 0) EXCEPT !.phase = "polling"]
    BY <1>1
  <2> QED
    BY <2>1 DEF Page, IsPage
<1>5. Typed
  BY <1>1, <1>2, <1>3, <1>4 DEF Typed, Fired
<1>6. SpoolKept
  BY <1>1, <1>2, <1>3 DEF SpoolKept, Stored, ReadKept, Ahead, TornLine, Emptyable, Fired
<1>7. AllKnown
  BY <1>1 DEF AllKnown
<1> QED
  BY <1>5, <1>6, <1>7 DEF IInv

LEMMA IdleStep ==
    ASSUME IInv, UNCHANGED vars
    PROVE  IInv'
<1>1. Typed /\ SpoolKept /\ AllKnown
  BY DEF IInv
<1>2. UNCHANGED <<log, firing, spool, torn, cursor, cursorFile, db, call, page, misplaced, lost,
                  wire, unheard>>
  BY DEF vars, file, store, client, ghosts
<1>3. SpoolKept' /\ Typed'
  BY <1>1, <1>2, PageFrame DEF Typed
<1>4. AllKnown'
  BY <1>1, <1>2, KnownFrame
<1> QED
  BY <1>3, <1>4 DEF IInv

LEMMA NextStep ==
    ASSUME IInv, [Next]_vars
    PROVE  IInv'
<1>1. CASE Hooks
  BY <1>1, FireStep, AppendLineStep, CompleteLineStep DEF Hooks
<1>2. CASE Backend
  BY <1>2, SaveEventsStep, CompactStep, TruncateStep, SaveFailsStep, TruncateFailsStep DEF Backend
<1>3. CASE Restart
  BY <1>3, RestartStep
<1>4. ASSUME NEW c \in Clients, Window(c)
      PROVE  IInv'
  BY <1>4, PollStep, PersistFailsStep, WatchStep, ApplyStep, ReceiveStep, SaveRowStep, InputStep,
     ShowRowsStep, ListEventsStep, LoadEventsStep, ReloadStep, DisconnectStep, ReconnectStep, LagStep
     DEF Window
<1>5. CASE UNCHANGED vars
  BY <1>5, IdleStep
<1> QED
  BY <1>1, <1>2, <1>3, <1>4, <1>5 DEF Next

THEOREM Invariant == Spec => []IInv
  BY InitStep, NextStep, PTL DEF Spec

LEMMA ArriveFromInvariant ==
    ASSUME IInv
    PROVE  EventsArrive
<1>1. Typed /\ SpoolKept /\ AllKnown
  BY DEF IInv
<1>2. ASSUME NEW e \in Fired \ firing
      PROVE  e \in Unread \cup Unsaved \cup db \cup lost
  <2>1. CASE e \in Accounted
    BY <2>1 DEF Accounted
  <2>2. CASE e \in Range(spool) /\ e \notin Accounted
    <3>1. PICK i \in DOMAIN spool : spool[i] = e
      BY <2>2 DEF Range
    <3>2. ~(i <= cursor)
      BY <1>1, <2>2, <3>1 DEF SpoolKept, ReadKept
    <3>3. i \in StartedAt + 1 .. Len(spool)
      BY <1>1, <3>1, <3>2, WhereReading DEF Typed
    <3> QED
      BY <3>1, <3>3 DEF Unread, Lines
  <2> QED
    BY <1>1, <2>1, <2>2 DEF SpoolKept, Stored
<1>3. ASSUME AtRest, NEW c \in Clients
      PROVE  db \subseteq page[c].handled \cup unheard[c]
  <2>1. /\ wire[c] = <<>> /\ page[c].fresh = {} /\ page[c].phase = "polling"
        /\ \A k \in Calls : call[k] = Idle
    BY <1>3 DEF AtRest
  <2>2. Untold = {}
    BY <2>1 DEF Untold, Idle
  <2>3. OnTheWay(c) = {}
    <3>1. DOMAIN <<>> = {}
      OBVIOUS
    <3> QED
      BY <2>1, <3>1 DEF OnTheWay, Range
  <2>4. db \subseteq Known(c)
    BY <1>1, <2>1 DEF AllKnown
  <2> QED
    BY <2>1, <2>2, <2>3, <2>4 DEF Known
<1> QED
  BY <1>2, <1>3 DEF EventsArrive

(* What a hook has written is still to be read, in the hands of one call,   *)
(* saved, or known to be lost; and when nothing is under way, every client  *)
(* has applied what is saved, or missed it in one of the named ways         *)
(* (sync_agent_events and watchEvents), however many clients poll, calls    *)
(* run side by side and events fire.                                        *)
THEOREM EventsAreKept == Spec => []EventsArrive
  BY Invariant, ArriveFromInvariant, PTL
=============================================================================
