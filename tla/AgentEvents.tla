---------------------------- MODULE AgentEvents -----------------------------
(***************************************************************************)
(* How what the hooks of an agent report becomes the status that every     *)
(* client shows for its terminal.  Hooks are processes of their own, which *)
(* append lines to a spool; any client's poll moves new lines to the       *)
(* database and announces them to all clients; each client derives the     *)
(* status from them, beside what its user does, and the desktop saves it   *)
(* in the workspace's row, which is announced as well.  Calls fail, lines  *)
(* are appended meanwhile, the application ends, pages are loaded again,   *)
(* connections break or lag.                                               *)
(*                                                                         *)
(* One terminal, whose launch lasts; events are numbered in the order in   *)
(* which their hooks fired.  Not part of it: the 250 events that lists and *)
(* announcements are cut to, rollout files of Codex, the order of Grok's   *)
(* prompts, the row's other contents (WorkspaceRows has its merging), and  *)
(* what a user does while disconnected.                                    *)
(***************************************************************************)
EXTENDS Naturals, Sequences, FiniteSets, SequencesExt, Functions

CONSTANTS
    Clients,
    Owner,       (* the desktop window; the others are attached to it        *)
    EventTypes,  (* the events the agent reports                             *)
    Inputs,      (* the statuses that users set                              *)
    Threshold,   (* SPOOL_COMPACT_THRESHOLD_BYTES, in lines                  *)
    Grace,       (* ADOPTED_TERMINAL_EVENT_GRACE_MS                          *)
    Calls,       (* calls of sync_agent_events that run side by side         *)
    None,
    MaxEvents,   (* bound on the events that fire                            *)
    MaxMoves     (* bound on inputs and upsets together                      *)

ASSUME AgentEventsAssumption ==
    /\ Owner \in Clients /\ None \notin Clients
    /\ Threshold \in Nat \ {0} /\ Grace \in Nat
    /\ MaxEvents \in Nat /\ MaxMoves \in Nat

VARIABLES
    log,         (* the types of the events fired so far                     *)
    firing,      (* events whose hook has not yet appended its line          *)
    spool,       (* the lines of the file                                    *)
    torn,        (* the last line is not yet complete                        *)
    cursor,      (* how many lines are read                                  *)
    cursorFile,  (* the same, as it was last persisted                       *)
    compacted,   (* this process has had its chance to truncate the spool    *)
    db,          (* agent_events                                             *)
    call,        (* the calls of sync_agent_events                           *)
    row,         (* the status saved with the workspace                      *)
    page,        (* per client: what its page holds                          *)
    queue,       (* per client: statuses still to be saved                   *)
    wire,        (* per client: announcements on their way                   *)
    link,        (* per client: the connection is up                         *)
    misplaced,   (* ghost: the cursor is that of a file since truncated      *)
    lost,        (* ghost: events read or truncated and never saved          *)
    unheard,     (* ghost, per client: saved events it was not told of       *)
    apart,       (* ghost: what may have left the clients' statuses apart    *)
    inputs, upsets

file == <<spool, torn>>
store == <<cursor, cursorFile, compacted>>
client == <<page, queue, wire, link>>
ghosts == <<misplaced, lost, unheard, apart>>
bounds == <<inputs, upsets>>
vars == <<log, firing, file, store, db, call, row, client, ghosts, bounds>>

(* An event fires at an even moment; users, page loads and arrivals fall    *)
(* between two events.                                                      *)
Fired == 1 .. Len(log)
CreatedAt(e) == 2 * e
Now == 2 * Len(log) + 1

(* EVENT_STATUS                                                             *)
StatusOf ==
    [session_ready |-> "IDLE", agent_thinking |-> "THINKING", tool_started |-> "RUNNING",
     approval_required |-> "WAITING_APPROVAL", task_completed |-> "COMPLETED", agent_idle |-> "IDLE"]
Statuses == {"STARTING", "IDLE", "THINKING", "RUNNING", "WAITING_APPROVAL", "COMPLETED"}

Idle == [step |-> "idle", batch |-> {}, by |-> None]
Page(status, cut) ==
    [phase |-> "loading", status |-> status, at |-> 0, cut |-> cut,
     fresh |-> {}, handled |-> {}, listed |-> {}]
Phases == {"loading", "loaded", "syncing", "listing", "listed", "polling"}
Listens(c) == page[c].phase \in {"syncing", "listing", "listed", "polling"}

TypeOK ==
    /\ log \in Seq(EventTypes) /\ firing \subseteq Fired
    /\ \A i \in DOMAIN spool : spool[i] \in Fired \ firing
    /\ torn \in BOOLEAN /\ compacted \in BOOLEAN
    /\ cursor \in Nat /\ cursorFile \in Nat
    /\ db \cup lost \subseteq Fired \ firing
    /\ \A k \in Calls :
         /\ call[k].step \in {"idle", "read", "saved", "truncating"}
         /\ call[k].batch \subseteq Fired \ firing
         /\ call[k].by \in Clients \cup {None}
    /\ \A k, l \in Calls : call[k].step = "truncating" /\ call[l].step = "truncating" => k = l
    /\ row \in Statuses
    /\ \A c \in Clients :
         /\ page[c].phase \in Phases /\ page[c].status \in Statuses
         /\ page[c].fresh \cup page[c].handled \cup page[c].listed \cup unheard[c] \subseteq Fired \ firing
         /\ page[c].fresh \cap page[c].handled = {}
         /\ page[c].at <= Now /\ page[c].cut <= Now
         /\ queue[c] \in Seq(Statuses) /\ link[c] \in BOOLEAN
    /\ link[Owner]

Init ==
    /\ log = <<>> /\ firing = {}
    /\ spool = <<>> /\ torn = FALSE
    /\ cursor = 0 /\ cursorFile = 0 /\ compacted = FALSE
    /\ db = {} /\ call = [k \in Calls |-> Idle]
    /\ row = "STARTING"
    /\ page = [c \in Clients |-> [Page("STARTING", 0) EXCEPT !.phase = "polling"]]
    /\ queue = [c \in Clients |-> <<>>] /\ wire = [c \in Clients |-> <<>>]
    /\ link = [c \in Clients |-> TRUE]
    /\ misplaced = FALSE /\ lost = {} /\ unheard = [c \in Clients |-> {}] /\ apart = {}
    /\ inputs = 0 /\ upsets = 0

RowsUnderWay ==
    \E c \in Clients : queue[c] # <<>> \/ \E i \in DOMAIN wire[c] : wire[c][i].kind = "row"
EventsUnderWay == \E c \in Clients : Fired # page[c].handled

Moves == inputs + upsets < MaxMoves
Upset == Moves /\ upsets' = upsets + 1 /\ inputs' = inputs

-----------------------------------------------------------------------------
(* The hooks.                                                               *)

Fire(type) ==
    /\ Len(log) < MaxEvents
    /\ log' = Append(log, type) /\ firing' = firing \cup {Len(log) + 1}
    /\ apart' = IF inputs > 0 /\ RowsUnderWay THEN apart \cup {"crossed"} ELSE apart
    /\ UNCHANGED <<file, store, db, call, row, client, misplaced, lost, unheard, bounds>>

Locked == \E k \in Calls : call[k].step = "truncating"

(* append_stored_event; a reader may see part of the line.  It may go with   *)
(* a truncation that has been decided on, or come to stand before a cursor  *)
(* that belongs to a file since truncated.                                  *)
AppendLine(e) ==
    /\ ~torn
    /\ spool' = Append(spool, e) /\ torn' \in BOOLEAN
    /\ firing' = firing \ {e}
    /\ lost' = IF Locked \/ (misplaced /\ Len(spool') <= cursor) THEN lost \cup {e} ELSE lost
    /\ UNCHANGED <<log, store, db, call, row, client, misplaced, unheard, apart, bounds>>

CompleteLine ==
    /\ torn /\ torn' = FALSE
    /\ UNCHANGED <<log, firing, spool, store, db, call, row, client, ghosts, bounds>>

-----------------------------------------------------------------------------
(* sync_agent_events.                                                       *)

Complete == IF torn THEN Len(spool) - 1 ELSE Len(spool)
StartedAt == IF cursor > Complete THEN 0 ELSE cursor
Lines(from, to) == {spool[i] : i \in from + 1 .. to}

(* read_spooled_events, but for the persisting of the cursor.               *)
ReadLines ==
    /\ ~Locked
    /\ cursor' = Complete
    /\ misplaced' = FALSE

Ends(c) == IF c \in Clients THEN [page EXCEPT ![c].phase = "listing"] ELSE page

Sync(c, k, by) ==
    /\ call[k] = Idle /\ link[c]
    /\ ReadLines
    /\ cursorFile' = IF cursor' # StartedAt THEN cursor' ELSE cursorFile
    /\ LET batch == Lines(StartedAt, Complete)
       IN  call' = [call EXCEPT ![k] = [step |-> IF batch = {} THEN "saved" ELSE "read",
                                        batch |-> batch, by |-> by]]
    /\ UNCHANGED <<log, firing, file, compacted, db, row, queue, wire, link, lost, unheard, apart>>

(* Polls that find nothing and have nothing to truncate change nothing.     *)
Poll(c, k) ==
    /\ page[c].phase = "polling" /\ (StartedAt < Complete \/ ~compacted)
    /\ Sync(c, k, None)
    /\ UNCHANGED <<page, bounds>>

SaveEvents(k) ==
    /\ call[k].step = "read"
    /\ db' = db \cup call[k].batch
    /\ call' = [call EXCEPT ![k].step = "saved"]
    /\ UNCHANGED <<log, firing, file, store, row, client, ghosts, bounds>>

(* Mutant of Told: only the desktop is told.                                *)
ToldOwner(batch) == IF batch = {} THEN {} ELSE {Owner}

Told(batch) == IF batch = {} THEN {} ELSE {c \in Clients : link[c]}

(* The batch is announced to every client, and the call ends.               *)
Announce(k) ==
    LET batch == call[k].batch
    IN  /\ wire' = [c \in Clients |-> IF c \in Told(batch)
                                      THEN Append(wire[c], [kind |-> "events", batch |-> batch]) ELSE wire[c]]
        /\ unheard' = [c \in Clients |-> IF link[c] THEN unheard[c] ELSE unheard[c] \cup batch]
        /\ call' = [call EXCEPT ![k] = Idle]
        /\ page' = Ends(call[k].by)

Drained == cursor = Len(spool) /\ Len(spool) >= Threshold

(* Mutant of MayTruncate: a spool with unread lines is truncated as well.   *)
MayTruncateUnread == ~compacted /\ Len(spool) >= Threshold

MayTruncate == ~compacted /\ Drained

(* compact_spool_once: the chance is spent whether it is taken or not.  The *)
(* length is looked at before the file is truncated.                        *)
Compact(k) ==
    /\ call[k].step = "saved"
    /\ compacted' = TRUE
    /\ IF MayTruncate
       THEN /\ call' = [call EXCEPT ![k].step = "truncating"]
            /\ UNCHANGED <<wire, unheard, page>>
       ELSE Announce(k)
    /\ UNCHANGED <<log, firing, file, cursor, cursorFile, db, row, queue, link>>
    /\ UNCHANGED <<misplaced, lost, apart, bounds>>

(* Mutant of Restarted: the cursor stays where the old file ended.          *)
RestartedLater == cursor' = cursor /\ cursorFile' = cursorFile

Restarted == cursor' = 0 /\ cursorFile' = 0

Emptied == spool' = <<>> /\ torn' = FALSE

Truncate(k) ==
    /\ call[k].step = "truncating"
    /\ Emptied /\ Restarted
    /\ Announce(k)
    /\ UNCHANGED <<log, firing, compacted, db, row, queue, link, misplaced, lost, apart, bounds>>

(* A failing call announces nothing: what it had read stays unsaved, what   *)
(* it had saved untold.                                                     *)
Fails(k) ==
    /\ call' = [call EXCEPT ![k] = Idle]
    /\ page' = Ends(call[k].by)
    /\ UNCHANGED <<log, firing, db, row, queue, wire, link>>

PersistFails(c, k) ==
    /\ Upset /\ call[k] = Idle /\ link[c] /\ page[c].phase \in {"loaded", "polling"}
    /\ ReadLines /\ cursor' # StartedAt
    /\ lost' = lost \cup Lines(StartedAt, Complete)
    /\ page' = IF page[c].phase = "loaded" THEN Ends(c) ELSE page
    /\ UNCHANGED <<log, firing, file, cursorFile, compacted, db, call, row>>
    /\ UNCHANGED <<queue, wire, link, unheard, apart>>

SaveFails(k) ==
    /\ Upset /\ call[k].step = "read"
    /\ lost' = lost \cup call[k].batch
    /\ Fails(k)
    /\ UNCHANGED <<file, store, misplaced, unheard, apart>>

TruncateFails(k) ==
    /\ Upset /\ call[k].step = "truncating"
    /\ \/ UNCHANGED <<file, cursor>>
       \/ Emptied /\ cursor' = 0
    /\ unheard' = [c \in Clients |-> unheard[c] \cup call[k].batch]
    /\ Fails(k)
    /\ UNCHANGED <<cursorFile, compacted, misplaced, lost, apart>>

-----------------------------------------------------------------------------
(* The status a client shows.                                               *)

Later(a, b) == IF a > b THEN a ELSE b

(* When the status last changed, or from when on events count.              *)
LastChange(c, s) == IF s.at = 0 THEN page[c].cut ELSE s.at

Superseded(c, s, e) ==
    \/ CreatedAt(e) < LastChange(c, s)
    \/ log[e] = "agent_idle" /\ s.status = "COMPLETED"
    \/ log[e] = "tool_started" /\ s.status = "WAITING_APPROVAL"

(* applyAgentEvent; saves are the statuses it has the desktop save.         *)
Applied(c, s, e) ==
    IF Superseded(c, s, e) THEN s
    ELSE [status |-> StatusOf[log[e]], at |-> Later(CreatedAt(e), s.at),
          saves |-> IF StatusOf[log[e]] = s.status THEN s.saves ELSE Append(s.saves, StatusOf[log[e]])]

(* Mutant of InOrder: events are applied as they were received.             *)
InOrderReversed(es) == SetToSortSeq(es, >)

InOrder(es) == SetToSortSeq(es, <)

Apply(c) ==
    /\ page[c].fresh # {}
    /\ LET s == FoldLeft(LAMBDA t, e : Applied(c, t, e),
                         [status |-> page[c].status, at |-> page[c].at, saves |-> <<>>],
                         InOrder(page[c].fresh))
       IN  /\ page' = [page EXCEPT ![c].status = s.status, ![c].at = s.at, ![c].fresh = {},
                                   ![c].handled = @ \cup page[c].fresh]
           /\ queue' = IF c = Owner THEN [queue EXCEPT ![c] = @ \o s.saves] ELSE queue
    /\ apart' = IF \E e \in page[c].fresh, f \in page[c].handled : e < f
                THEN apart \cup {"late"} ELSE apart
    /\ UNCHANGED <<log, firing, file, store, db, call, row, wire, link, misplaced, lost, unheard, bounds>>

(* updateTerminalStatus                                                     *)
Input(c, status) ==
    /\ Moves /\ inputs' = inputs + 1 /\ upsets' = upsets
    /\ page[c].phase # "loading" /\ link[c]
    /\ page' = [page EXCEPT ![c].status = status, ![c].at = Later(@, Now)]
    /\ queue' = [queue EXCEPT ![c] = Append(@, status)]
    /\ apart' = IF EventsUnderWay \/ RowsUnderWay THEN apart \cup {"crossed"} ELSE apart
    /\ UNCHANGED <<log, firing, file, store, db, call, row, wire, link, misplaced, lost, unheard>>

SaveRow(c) ==
    /\ queue[c] # <<>> /\ link[c] /\ page[c].phase # "loading"
    /\ row' = Head(queue[c]) /\ queue' = [queue EXCEPT ![c] = Tail(@)]
    /\ wire' = [o \in Clients |-> IF o # c /\ link[o] THEN Append(wire[o], [kind |-> "row", status |-> row'])
                                  ELSE wire[o]]
    /\ UNCHANGED <<log, firing, file, store, db, call, page, link, ghosts, bounds>>

(* applyExternalWorkspace                                                   *)
External(c, status) ==
    [page EXCEPT ![c].status = status,
                 ![c].at = IF status # page[c].status THEN Later(@, Now) ELSE @]

(* Mutant of Unhandled: what has been applied is applied again.             *)
UnhandledAll(c, batch) == batch

(* handledEventKeys                                                         *)
Unhandled(c, batch) == batch \ page[c].handled

Receive(c) ==
    /\ wire[c] # <<>> /\ link[c]
    /\ LET m == Head(wire[c])
       IN  page' = CASE m.kind = "row" /\ page[c].phase # "loading" -> External(c, m.status)
                     [] m.kind = "events" /\ Listens(c) ->
                          [page EXCEPT ![c].fresh = @ \cup Unhandled(c, m.batch)]
                     [] OTHER -> page
    /\ wire' = [wire EXCEPT ![c] = Tail(@)]
    /\ UNCHANGED <<log, firing, file, store, db, call, row, queue, link, ghosts, bounds>>

-----------------------------------------------------------------------------
(* A page that loads.                                                       *)

(* Rows are read and listened to; the desktop saves them again.             *)
ShowRows(c) ==
    /\ page[c].phase = "loading" /\ link[c]
    /\ page' = [page EXCEPT ![c].phase = "loaded", ![c].status = IF @ = "STARTING" THEN @ ELSE row]
    /\ queue' = IF c = Owner THEN [queue EXCEPT ![c] = Append(@, page'[c].status)] ELSE queue
    /\ apart' = IF c = Owner /\ RowsUnderWay THEN apart \cup {"crossed"} ELSE apart
    /\ UNCHANGED <<log, firing, file, store, db, call, row, wire, link, misplaced, lost, unheard, bounds>>

(* initialize: watchEvents, syncEvents, loadEvents                          *)
Watch(c, k) ==
    /\ page[c].phase = "loaded"
    /\ page' = [page EXCEPT ![c].phase = "syncing"]
    /\ Sync(c, k, c)
    /\ UNCHANGED bounds

ListEvents(c) ==
    /\ page[c].phase = "listing" /\ link[c]
    /\ page' = [page EXCEPT ![c].phase = "listed", ![c].listed = db]
    /\ UNCHANGED <<log, firing, file, store, db, call, row, queue, wire, link, ghosts, bounds>>

(* The list replaces what has been announced meanwhile.                     *)
LoadEvents(c) ==
    LET p == page[c]
    IN  /\ p.phase = "listed" /\ link[c]
        /\ page' = [page EXCEPT ![c].phase = "polling", ![c].listed = {},
                                ![c].fresh = Unhandled(c, p.listed)]
        /\ unheard' = [unheard EXCEPT ![c] = @ \cup (p.fresh \ p.listed)]
        /\ UNCHANGED <<log, firing, file, store, db, call, row, queue, wire, link>>
        /\ UNCHANGED <<misplaced, lost, apart, bounds>>

-----------------------------------------------------------------------------
(* Pages loaded again, connections that break or lag, and a restart.        *)

Abandoned(c) == [k \in Calls |-> IF call[k].by = c THEN [call[k] EXCEPT !.by = None] ELSE call[k]]

Reload(c) ==
    /\ Upset /\ link[c]
    /\ page' = [page EXCEPT ![c] = Page("IDLE", IF Now > Grace THEN Now - Grace ELSE 0)]
    /\ queue' = [queue EXCEPT ![c] = <<>>] /\ wire' = [wire EXCEPT ![c] = <<>>]
    /\ call' = Abandoned(c)
    /\ unheard' = [unheard EXCEPT ![c] = {}]
    /\ apart' = IF inputs > 0 THEN apart \cup {"adopted"} ELSE apart
    /\ UNCHANGED <<log, firing, file, store, db, row, link, misplaced, lost>>

EventsIn(m) == IF m.kind = "events" THEN m.batch ELSE {}
OnTheWay(c) == UNION {EventsIn(m) : m \in Range(wire[c])}

(* Calls that wait are rejected; a page goes on without them.               *)
Disconnect(c) ==
    /\ Upset /\ c # Owner /\ link[c]
    /\ link' = [link EXCEPT ![c] = FALSE]
    /\ wire' = [wire EXCEPT ![c] = <<>>] /\ queue' = [queue EXCEPT ![c] = <<>>]
    /\ page' = IF page[c].phase \in {"syncing", "listing", "listed"}
               THEN [page EXCEPT ![c].phase = "polling", ![c].listed = {}] ELSE page
    /\ unheard' = [unheard EXCEPT ![c] =
                      @ \cup OnTheWay(c) \cup (IF page'[c] # page[c] THEN db ELSE {})]
    /\ call' = Abandoned(c)
    /\ UNCHANGED <<log, firing, file, store, db, row, misplaced, lost, apart>>

(* reloadFromRepository; by then the page has applied what it had received. *)
Reconnect(c) ==
    /\ ~link[c] /\ page[c].fresh = {} /\ link' = [link EXCEPT ![c] = TRUE]
    /\ page' = IF page[c].phase = "loading" THEN page ELSE [page EXCEPT ![c].status = row]
    /\ UNCHANGED <<log, firing, file, store, db, call, row, queue, wire, ghosts, bounds>>

(* What a browser is too slow for is left out; only screens are read again. *)
Lag(c) ==
    /\ Upset /\ c # Owner /\ wire[c] # <<>>
    /\ wire' = [wire EXCEPT ![c] = Tail(@)]
    /\ unheard' = [unheard EXCEPT ![c] = @ \cup EventsIn(Head(wire[c]))]
    /\ apart' = IF Head(wire[c]).kind = "row" THEN apart \cup {"lagged"} ELSE apart
    /\ UNCHANGED <<log, firing, file, store, db, call, row, page, queue, link, misplaced, lost>>

(* The application ends and is started again, with the terminal.            *)
Unsaved == UNION {call[k].batch : k \in {l \in Calls : call[l].step = "read"}}

Restart ==
    /\ Upset
    /\ cursor' = cursorFile /\ compacted' = FALSE
    /\ \/ UNCHANGED file
       \/ Locked /\ Emptied
    /\ misplaced' = (cursorFile > Len(spool'))
    /\ lost' = lost \cup Unsaved \cup (IF cursorFile > cursor THEN Range(spool') ELSE {})
    /\ call' = [k \in Calls |-> Idle]
    /\ page' = [c \in Clients |->
                  IF c = Owner THEN Page("STARTING", Now)
                  ELSE IF page[c].phase \in {"syncing", "listing", "listed"}
                       THEN [page[c] EXCEPT !.phase = "polling", !.listed = {}] ELSE page[c]]
    /\ link' = [c \in Clients |-> c = Owner]
    /\ queue' = [c \in Clients |-> <<>>] /\ wire' = [c \in Clients |-> <<>>]
    /\ unheard' = [c \in Clients |-> IF c = Owner THEN {} ELSE unheard[c] \cup db]
    /\ apart' = apart \cup {"restarted"}
    /\ UNCHANGED <<log, firing, cursorFile, db, row>>

-----------------------------------------------------------------------------
Hooks == (\E type \in EventTypes : Fire(type)) \/ (\E e \in firing : AppendLine(e)) \/ CompleteLine
Backend ==
    \E k \in Calls : SaveEvents(k) \/ Compact(k) \/ Truncate(k) \/ SaveFails(k) \/ TruncateFails(k)
Window(c) ==
    \/ \E k \in Calls : Poll(c, k) \/ PersistFails(c, k) \/ Watch(c, k)
    \/ Apply(c) \/ Receive(c) \/ SaveRow(c)
    \/ \E status \in Inputs : Input(c, status)
    \/ ShowRows(c) \/ ListEvents(c) \/ LoadEvents(c)
    \/ Reload(c) \/ Disconnect(c) \/ Reconnect(c) \/ Lag(c)

Next == Hooks \/ Backend \/ Restart \/ \E c \in Clients : Window(c)
Spec == Init /\ [][Next]_vars

-----------------------------------------------------------------------------
Unread == Lines(StartedAt, Len(spool))

AtRest ==
    /\ firing = {} /\ Unread = {} /\ \A k \in Calls : call[k] = Idle
    /\ \A c \in Clients :
         link[c] /\ wire[c] = <<>> /\ queue[c] = <<>> /\ page[c].fresh = {} /\ page[c].phase = "polling"

(* What a hook has written is still to be read, in the hands of one call or *)
(* saved, unless it was lost with a failing call, with the application's    *)
(* end or to a truncation; and what is saved has reached every client that  *)
(* was there to hear of it.                                                 *)
EventsArrive ==
    /\ \A e \in Fired \ firing : e \in Unread \cup Unsaved \cup db \cup lost
    /\ AtRest => \A c \in Clients : db \subseteq page[c].handled \cup unheard[c]

(* Clients that heard of the same events come to show the same status,      *)
(* which is the one that is saved, in whatever order and however often they *)
(* were told (agent.service.ts, watchEvents), unless a user's change        *)
(* crossed an event or a saved row on its way, a client applied an event    *)
(* after a later one, a page was loaded again after a user's change, a      *)
(* lagging browser was not sent a row, or the application restarted, behind *)
(* which a browser still applies what the desktop leaves out.               *)
StatusesAgree ==
    AtRest /\ apart = {} /\ (\A c \in Clients : db \subseteq page[c].handled)
        => \A c \in Clients : page[c].status = row
=============================================================================
