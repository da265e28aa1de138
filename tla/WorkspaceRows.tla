--------------------------- MODULE WorkspaceRows ----------------------------
(***************************************************************************)
(* The workspaces as every client shows them and as the database has them. *)
(* A client changes what it shows at once and saves whole rows, one call   *)
(* after the other; creating, deleting and merging workspaces wait for     *)
(* their calls and show their outcome afterwards.  Rows that other clients *)
(* save replace what is shown, and an attached client whose connection     *)
(* broke reads all of them again.                                          *)
(*                                                                         *)
(* Every operation of a client's queue makes one call per row, which the   *)
(* backend runs as tasks of their own; a call whose connection broke is    *)
(* rejected at once, whether it was carried out, still will be, or is lost.*)
(*                                                                         *)
(* A row is the set of what it holds: terminals and common actions.  A row *)
(* is written and announced in one step.  Not part of it: statuses, names, *)
(* and the order of tabs and workspaces, which are kept in the row or      *)
(* beside it but decide nothing here.                                      *)
(***************************************************************************)
EXTENDS Naturals, Sequences, FiniteSets

CONSTANTS
    Clients,
    Owner,       (* the desktop window; the others are attached to it        *)
    Workspaces,  (* numbered in the order in which they are shown            *)
    Held,        (* terminals and common actions                             *)
    FirstRows,   (* the rows at the start                                    *)
    None,
    MaxChanges,  (* bound: what users do                                     *)
    MaxUpsets    (* bound: failing calls, broken connections, page loads     *)

ASSUME WorkspaceRowsAssumption ==
    /\ Owner \in Clients /\ Workspaces \subseteq Nat
    /\ FirstRows \in [Workspaces -> (SUBSET Held) \cup {None}]
    /\ MaxChanges \in Nat /\ MaxUpsets \in Nat

VARIABLES
    rows,       (* the table of the database                                 *)
    items,      (* per client: workspaceItems                                *)
    active,     (* per client: activeWorkspaceId                             *)
    queue,      (* per client: mutationQueue; its head has begun             *)
    calls,      (* save_workspace and delete_workspace, made by the heads of *)
                (* the queues, or given up by them and still under way       *)
    deleted,    (* per client: deletedWorkspaceIds                           *)
    dialog,     (* per client: the workspace being created, deleted, merged  *)
    confirming, (* per client: the common action being saved                 *)
    link,       (* per client: up, down; stale, until the rows are read      *)
                (* again; loading, before the page shows anything            *)
    reading,    (* per client: rows that were read and are not yet shown     *)
    events,     (* per client: workspace-changed, workspace-deleted          *)
    ids,        (* ghost: what was ever created                              *)
    removed,    (* ghost: what users removed, actions that were taken back   *)
    gone,       (* ghost: workspaces whose deletion succeeded                *)
    crossed,    (* ghost: rows of which a client may show what another does  *)
                (* not have                                                  *)
    clashes,    (* ghost: how changes came to overlap, if they did: with     *)
                (* those of other clients, of a dialog of one's own, with a  *)
                (* call that was given up and is carried out after all       *)
    changes, upsets

client == <<items, active, queue, calls, deleted, dialog, confirming, link, reading>>
ghosts == <<ids, removed, gone, crossed, clashes>>
bounds == <<changes, upsets>>
vars == <<rows, client, events, ghosts, bounds>>

Rows == [Workspaces -> (SUBSET Held) \cup {None}]
NoDialog == [kind |-> "none"]

(* A call waits in RemoteBridgeClient.queue, is on its way or run by a task, *)
(* or has an answer.  from is None when the page that made it is gone.       *)
Calls == [from : Clients \cup {None}, w : Workspaces, row : (SUBSET Held) \cup {None},
          stage : {"waiting", "sent", "done", "failed"}, awaited : BOOLEAN]
Shown(rs) == {w \in Workspaces : rs[w] # None}

TypeOK ==
    /\ rows \in Rows /\ calls \subseteq Calls
    /\ \A c \in Clients :
         /\ items[c] \in Rows
         /\ active[c] \in Workspaces \cup {None}
         /\ deleted[c] \subseteq Workspaces
         /\ dialog[c].kind \in {"none", "create", "delete", "merge"}
         /\ link[c] \in {"up", "down", "stale", "loading"}
         /\ reading[c] \in Rows \cup {None}
         /\ \A i \in DOMAIN queue[c] : queue[c][i].kind \in {"save", "all", "delete"}
         /\ \A i, j \in DOMAIN queue[c] :
              queue[c][i].by # "nobody" /\ queue[c][i].by = queue[c][j].by => i = j
    /\ gone \cup crossed \subseteq Workspaces
    /\ clashes \subseteq {"clients", "own", "late"}

Init ==
    /\ rows = FirstRows
    /\ items = [c \in Clients |-> FirstRows]
    /\ active \in [Clients -> Shown(FirstRows)]
    /\ queue = [c \in Clients |-> <<>>] /\ calls = {}
    /\ deleted = [c \in Clients |-> {}]
    /\ dialog = [c \in Clients |-> NoDialog]
    /\ confirming = [c \in Clients |-> None]
    /\ link = [c \in Clients |-> "up"]
    /\ reading = [c \in Clients |-> None]
    /\ events = [c \in Clients |-> <<>>]
    /\ ids = UNION {FirstRows[w] : w \in Shown(FirstRows)}
    /\ removed = {} /\ gone = {} /\ crossed = {} /\ clashes = {}
    /\ changes = 0 /\ upsets = 0

-----------------------------------------------------------------------------
(* Overlaps.                                                                *)

(* The calls the head of the queue waits for, and those it gave up.         *)
Mine(c) == {k \in calls : k.from = c /\ k.awaited}
GivenUp(c) == {k \in calls : k.from = c /\ ~k.awaited}
Of(ks) == {k.w : k \in ks}
Pending(ks) == {k \in ks : k.stage \in {"waiting", "sent"}}

Touches(op) == IF op.kind = "all" THEN Shown(op.rows) ELSE {op.w}
TouchedBy(ops) == UNION {Touches(ops[i]) : i \in DOMAIN ops}
Queued(c) ==
    IF queue[c] = <<>> THEN {} ELSE TouchedBy(Tail(queue[c])) \cup Of(Pending(Mine(c)))
Reverts(c) == CASE dialog[c].kind = "none" -> {}
                [] dialog[c].kind = "create" -> {dialog[c].w}
                [] OTHER -> Workspaces
Announced(c) == {events[c][i].w : i \in DOMAIN events[c]}

(* What others are about to write, and what c does not know yet.            *)
OnTheWay(c) ==
    Of({k \in calls : k.from # c /\ ~k.awaited})
      \cup UNION {Queued(o) \cup Reverts(o) : o \in Clients \ {c}}
Unheard(c) ==
    OnTheWay(c) \cup Announced(c)
      \cup (IF link[c] # "up" \/ reading[c] # None THEN Workspaces ELSE {})

(* Changes of rows that others change as well, that a dialog of one's own   *)
(* will show again as they were, or that a call given up may still change.  *)
Overlap(others, own, late) ==
    /\ crossed' = crossed \cup others \cup own \cup late
    /\ clashes' = clashes \cup (IF others # {} THEN {"clients"} ELSE {})
                          \cup (IF own # {} THEN {"own"} ELSE {})
                          \cup (IF late # {} THEN {"late"} ELSE {})
Overlaps(c, ws) == Overlap(ws \cap Unheard(c), ws \cap Reverts(c), ws \cap Of(GivenUp(c)))

-----------------------------------------------------------------------------
(* The repository.                                                          *)

(* Mutant of Kept: a save is sent whatever was deleted.                     *)
KeptAll(ws, dels) == ws

(* Remembering the id before the deletion is sent keeps a delayed save from *)
(* creating the row again.                                                  *)
Kept(ws, dels) == ws \ dels

(* The calls an operation makes when it begins, one for each row.           *)
CallsOf(c, op, dels, state) ==
    {[from |-> c, w |-> w, stage |-> IF state = "down" THEN "waiting" ELSE "sent",
      awaited |-> TRUE,
      row |-> CASE op.kind = "save" -> op.row
                [] op.kind = "all" -> op.rows[w]
                [] op.kind = "delete" -> None] :
       w \in IF op.kind = "delete" THEN {op.w} ELSE Kept(Touches(op), dels)}

SaveOf(w, row, by) == [kind |-> "save", w |-> w, row |-> row, by |-> by]
SaveAllOf(rs, by) == [kind |-> "all", rows |-> rs, by |-> by]
DeleteOf(w) == [kind |-> "delete", w |-> w, by |-> "dialog"]

(* enqueueMutation: an operation begins when the one before it is settled.  *)
Enqueue(c, op) ==
    /\ queue' = [queue EXCEPT ![c] = Append(@, op)]
    /\ calls' = IF queue[c] = <<>> THEN calls \cup CallsOf(c, op, deleted[c], link[c]) ELSE calls
Save(c, w, row, by) ==
    IF w \in Kept({w}, deleted[c]) THEN Enqueue(c, SaveOf(w, row, by))
    ELSE UNCHANGED <<queue, calls>>
SaveAll(c, rs, by) == Enqueue(c, SaveAllOf(rs, by))
Delete(c, w) == Enqueue(c, DeleteOf(w))

-----------------------------------------------------------------------------
(* What is changed at once and saved in the background.                     *)

Change(c) ==
    /\ link[c] \in {"up", "down", "stale"} /\ changes < MaxChanges
    /\ changes' = changes + 1 /\ upsets' = upsets

Show(c, w, row) == items' = [items EXCEPT ![c][w] = row]

(* replaceWorkspace and save.                                               *)
Replace(c, w, row) ==
    /\ Show(c, w, row) /\ Save(c, w, row, "nobody") /\ Overlaps(c, {w})

CreateTerminal(c, w, t) ==
    /\ Change(c) /\ w \in Shown(items[c]) /\ t \notin ids
    /\ Replace(c, w, items[c][w] \cup {t})
    /\ ids' = ids \cup {t}
    /\ UNCHANGED <<rows, active, deleted, dialog, confirming, link, reading, events, removed, gone>>

RemoveTerminal(c, w, t) ==
    /\ Change(c) /\ w \in Shown(items[c]) /\ t \in items[c][w]
    /\ Replace(c, w, items[c][w] \ {t})
    /\ removed' = removed \cup {t}
    /\ UNCHANGED <<rows, active, deleted, dialog, confirming, link, reading, events, ids, gone>>

(* What a status changes is saved by the desktop, with the whole row.       *)
StatusChanged(w) ==
    /\ Change(Owner) /\ w \in Shown(items[Owner]) /\ items[Owner][w] # {}
    /\ Replace(Owner, w, items[Owner][w])
    /\ UNCHANGED <<rows, active, deleted, dialog, confirming, link, reading, events, ids, removed, gone>>

SelectWorkspace(c, w) ==
    /\ Change(c) /\ w \in Shown(items[c]) /\ w # active[c]
    /\ active' = [active EXCEPT ![c] = w]
    /\ IF c = Owner THEN Replace(c, w, items[c][w])
       ELSE UNCHANGED <<items, queue, calls, crossed, clashes>>
    /\ UNCHANGED <<rows, deleted, dialog, confirming, link, reading, events, ids, removed, gone>>

(* saveCommonActions shows the action before it is saved, and takes it back *)
(* if that fails.                                                           *)
ConfirmAction(c, w, a) ==
    /\ Change(c) /\ w \in Shown(items[c]) /\ a \notin ids /\ confirming[c] = None
    /\ Show(c, w, items[c][w] \cup {a}) /\ Save(c, w, items[c][w] \cup {a}, "confirm")
    /\ Overlaps(c, {w})
    /\ confirming' = [confirming EXCEPT ![c] = IF w \in Kept({w}, deleted[c]) THEN [w |-> w, a |-> a] ELSE @]
    /\ ids' = ids \cup {a}
    /\ UNCHANGED <<rows, active, deleted, dialog, link, reading, events, removed, gone>>

-----------------------------------------------------------------------------
(* Dialogs: they show their outcome when their calls are done, from what    *)
(* was shown when they began.                                               *)

Opened(c, d) == dialog' = [dialog EXCEPT ![c] = d]

(* Mutant of CreateWorkspace: the dialog does not wait for its answer.      *)
CreateWorkspaceAgain(c, w) ==
    /\ Change(c) /\ w \notin gone /\ rows[w] = None
    /\ \A o \in Clients : w \notin Shown(items[o])
    /\ Opened(c, [kind |-> "create", w |-> w])
    /\ Save(c, w, {}, "dialog")
    /\ Overlaps(c, {w})
    /\ UNCHANGED <<rows, items, active, deleted, confirming, link, reading, events, ids, removed, gone>>

CreateWorkspace(c, w) ==
    /\ Change(c) /\ dialog[c] = NoDialog
    /\ w \notin gone /\ rows[w] = None
    /\ \A o \in Clients : w \notin Shown(items[o]) /\ dialog[o].kind # "create" /\ w \notin Queued(o)
    /\ \A k \in calls : k.w # w
    /\ Opened(c, [kind |-> "create", w |-> w])
    /\ Save(c, w, {}, "dialog")
    /\ Overlaps(c, {w})
    /\ UNCHANGED <<rows, items, active, deleted, confirming, link, reading, events, ids, removed, gone>>

DeleteWorkspace(c, w) ==
    /\ Change(c) /\ dialog[c] = NoDialog /\ w \in Shown(items[c])
    /\ deleted' = [deleted EXCEPT ![c] = @ \cup {w}]
    /\ Opened(c, [kind |-> "delete", step |-> "deleting", w |-> w,
                  after |-> [items[c] EXCEPT ![w] = None]])
    /\ Delete(c, w) /\ Overlaps(c, Workspaces)
    /\ removed' = removed \cup items[c][w]
    /\ UNCHANGED <<rows, items, active, confirming, link, reading, events, ids, gone>>

MergeWorkspaces(c, source, target) ==
    /\ Change(c) /\ dialog[c] = NoDialog
    /\ source # target /\ {source, target} \subseteq Shown(items[c])
    /\ LET merged == [items[c] EXCEPT ![target] = @ \cup items[c][source], ![source] = None]
       IN  /\ Opened(c, [kind |-> "merge", step |-> "saving", w |-> source, target |-> target,
                         after |-> merged, before |-> items[c]])
           /\ SaveAll(c, merged, "dialog")
    /\ Overlaps(c, Workspaces)
    /\ UNCHANGED <<rows, items, active, deleted, confirming, link, reading, events, ids, removed, gone>>

-----------------------------------------------------------------------------
(* The backend: every call is a task of its own.                            *)

Event(w, row) == [w |-> w, row |-> row]

(* Everyone hears of the row and nobody has another change of it: whatever  *)
(* they showed, they will show the same.                                    *)
Meets(k) ==
    LET c == k.from
    IN  /\ k.awaited /\ k.row = items[c][k.w] /\ k.w \notin Reverts(c)
        /\ k.w \notin TouchedBy(Tail(queue[c])) \cup Of(Pending(calls \ {k}))
        /\ \A o \in Clients :
             /\ reading[o] = None /\ k.w \notin Announced(o) \cup deleted[o]
             /\ o # c => link[o] = "up" /\ k.w \notin Queued(o) \cup Reverts(o)

(* Who read the rows and has not yet shown them will show what they were,   *)
(* and who gave the call up is not told that it was carried out after all,  *)
(* since its own writes are not announced to it.                            *)
Outdated(k) ==
    IF \E o \in Clients : reading[o] # None THEN {k.w} ELSE {}
Untold(k) ==
    IF ~k.awaited /\ k.from # None /\ link[k.from] = "up" THEN {k.w} ELSE {}

(* save_workspace, delete_workspace: the row is written, and announced to   *)
(* every page but the one that called.                                      *)
Run(k) ==
    /\ k.stage = "sent"
    /\ rows' = [rows EXCEPT ![k.w] = k.row]
    /\ events' = [o \in Clients |->
                    IF o # k.from /\ link[o] \in {"up", "stale"}
                    THEN Append(events[o], Event(k.w, k.row)) ELSE events[o]]
    /\ calls' = (calls \ {k}) \cup (IF k.awaited THEN {[k EXCEPT !.stage = "done"]} ELSE {})
    /\ crossed' = (IF Meets(k) THEN crossed \ {k.w} ELSE crossed) \cup Outdated(k) \cup Untold(k)
    /\ clashes' = clashes \cup (IF Outdated(k) # {} THEN {"clients"} ELSE {})
                          \cup (IF Untold(k) # {} THEN {"late"} ELSE {})
    /\ UNCHANGED <<items, active, queue, deleted, dialog, confirming, link, reading,
                   ids, removed, gone, bounds>>

Upset == upsets < MaxUpsets /\ upsets' = upsets + 1 /\ changes' = changes

(* The database refuses.                                                    *)
Fail(k) ==
    /\ k.stage = "sent" /\ Upset
    /\ calls' = (calls \ {k}) \cup (IF k.awaited THEN {[k EXCEPT !.stage = "failed"]} ELSE {})
    /\ UNCHANGED <<rows, items, active, queue, deleted, dialog, confirming, link, reading,
                   events, ghosts>>

-----------------------------------------------------------------------------
(* How the dialogs go on.                                                   *)

LeastOf(ws) == CHOOSE w \in ws : \A v \in ws : w <= v
LastOf(ws) == CHOOSE w \in ws : \A v \in ws : w >= v

(* The workspace that took the place of w, or the last one.                 *)
Neighbour(ws, w) ==
    IF ws = {} THEN None
    ELSE IF \E v \in ws : v > w THEN LeastOf({v \in ws : v > w}) ELSE LastOf(ws)

ShowAll(c, rs, act) ==
    /\ items' = [items EXCEPT ![c] = rs]
    /\ active' = [active EXCEPT ![c] = act]

(* The operation is settled; ops are what its caller queues then.           *)
Then(c, ops) == queue' = [queue EXCEPT ![c] = Tail(@) \o ops]
Close(c) == Opened(c, NoDialog) /\ Then(c, <<>>)

Created(c, ok) ==
    LET d == dialog[c]
    IN  /\ d.kind = "create"
        /\ IF ok THEN ShowAll(c, [items[c] EXCEPT ![d.w] = {}], d.w) ELSE UNCHANGED <<items, active>>
        /\ Close(c) /\ UNCHANGED deleted

Deleted(c, ok) ==
    LET d == dialog[c]
    IN  /\ d.kind = "delete"
        /\ \/ /\ d.step = "deleting" /\ ok
              /\ Opened(c, [d EXCEPT !.step = "saving"]) /\ Then(c, <<SaveAllOf(d.after, "dialog")>>)
              /\ UNCHANGED <<items, active, deleted>>
           \/ /\ d.step = "deleting" /\ ~ok
              /\ deleted' = [deleted EXCEPT ![c] = @ \ {d.w}]
              /\ Close(c) /\ UNCHANGED <<items, active>>
           \/ /\ d.step = "saving" /\ ok
              /\ ShowAll(c, d.after, IF active[c] = d.w THEN Neighbour(Shown(d.after), d.w) ELSE active[c])
              /\ Close(c) /\ UNCHANGED deleted
           \/ /\ d.step = "saving" /\ ~ok
              /\ Close(c) /\ UNCHANGED <<items, active, deleted>>

(* Mutant of MergeSaved: the source is deleted whether the target was saved *)
(* or not.                                                                  *)
MergeSavedOrNot(c, ok) ==
    /\ deleted' = [deleted EXCEPT ![c] = @ \cup {dialog[c].w}]
    /\ Opened(c, [dialog[c] EXCEPT !.step = "deleting"]) /\ Then(c, <<DeleteOf(dialog[c].w)>>)

(* The source is deleted once the target is saved with what it held, and    *)
(* both are saved again as they were if its deletion is rejected.           *)
MergeSaved(c, ok) ==
    LET d == dialog[c]
    IN  IF ok
        THEN /\ deleted' = [deleted EXCEPT ![c] = @ \cup {d.w}]
             /\ Opened(c, [d EXCEPT !.step = "deleting"]) /\ Then(c, <<DeleteOf(d.w)>>)
        ELSE Close(c) /\ UNCHANGED deleted

(* Mutant of MergeRefused: the rows stay as they were merged.               *)
MergeLeft(c) == deleted' = [deleted EXCEPT ![c] = @ \ {dialog[c].w}] /\ Close(c)

MergeRefused(c) ==
    LET d == dialog[c]
    IN  /\ deleted' = [deleted EXCEPT ![c] = @ \ {d.w}]
        /\ Opened(c, [d EXCEPT !.step = "undoing"]) /\ Then(c, <<SaveAllOf(d.before, "dialog")>>)

Merged(c, ok) ==
    LET d == dialog[c]
    IN  /\ d.kind = "merge"
        /\ \/ d.step = "saving" /\ MergeSaved(c, ok) /\ UNCHANGED <<items, active>>
           \/ d.step = "deleting" /\ ~ok /\ MergeRefused(c) /\ UNCHANGED <<items, active>>
           \/ /\ d.step = "deleting" /\ ok
              /\ ShowAll(c, d.after, d.target) /\ Close(c) /\ UNCHANGED deleted
           \/ /\ d.step = "undoing" /\ Close(c)
              /\ UNCHANGED <<items, active, deleted>>

(* A confirmed action that could not be saved is taken back.                *)
Confirmed(c, ok) ==
    LET w == confirming[c].w
        back == ~ok /\ items[c][w] # None
    IN  /\ confirming' = [confirming EXCEPT ![c] = None]
        /\ items' = IF back THEN [items EXCEPT ![c][w] = @ \ {confirming[c].a}] ELSE items
        /\ removed' = IF ok THEN removed ELSE removed \cup {confirming[c].a}
        /\ Then(c, <<>>) /\ UNCHANGED <<active, deleted, dialog>>

(* Who called for the operation goes on.                                    *)
GoOn(c, ok) ==
    LET by == Head(queue[c]).by
    IN  \/ /\ by = "nobody" /\ Then(c, <<>>)
           /\ UNCHANGED <<items, active, deleted, dialog, confirming, removed>>
        \/ by = "confirm" /\ Confirmed(c, ok)
        \/ /\ by = "dialog" /\ (Created(c, ok) \/ Deleted(c, ok) \/ Merged(c, ok))
           /\ UNCHANGED <<confirming, removed>>

(* A workspace whose row is deleted and the others not saved stays shown.   *)
LeftBehind(c, ok) ==
    IF ~ok /\ Head(queue[c]).by = "dialog" /\ dialog[c].kind = "delete" /\ dialog[c].step = "saving"
    THEN {dialog[c].w} ELSE {}

(* Rows that are called for again although a call that was given up may     *)
(* still change them, or was a deletion that had been carried out.          *)
Again(c, given, ok) ==
    TouchedBy(queue'[c]) \cap
        (Of(given) \cup {k.w : k \in {m \in Mine(c) : ~ok /\ m.stage = "done" /\ m.row = None}})

(* The operation is settled with given, what its client gave up, still      *)
(* under way, and the next one begins.                                      *)
Settled(c, ok, given, unseen, state) ==
    /\ GoOn(c, ok)
    /\ calls' = {k \in calls : k.from # c} \cup given \cup
                 (IF queue'[c] = <<>> THEN {} ELSE CallsOf(c, Head(queue'[c]), deleted'[c], state))
    /\ crossed' = crossed \cup unseen \cup LeftBehind(c, ok) \cup Again(c, given, ok)
    /\ clashes' = clashes \cup (IF LeftBehind(c, ok) # {} THEN {"own"} ELSE {})
                          \cup (IF Again(c, given, ok) # {} THEN {"late"} ELSE {})

Rejected(ks) == {[k EXCEPT !.awaited = FALSE] : k \in ks}

(* All answers came, or one that rejects: Promise.all waits no longer for   *)
(* the others.                                                              *)
Settle(c) ==
    LET op == Head(queue[c])
        ok == \A k \in Mine(c) : k.stage # "failed"
        unsaved == IF op.kind = "delete" THEN {}
                   ELSE IF ok THEN Touches(op) \ Of(Mine(c)) ELSE Touches(op)
    IN  /\ queue[c] # <<>>
        /\ ok => \A k \in Mine(c) : k.stage = "done"
        /\ link[c] # "down" \/ Mine(c) = {}
        /\ Settled(c, ok, GivenUp(c) \cup Rejected(Pending(Mine(c))), unsaved, link[c])
        /\ gone' = IF ok /\ op.kind = "delete" THEN gone \cup {op.w} ELSE gone
        /\ UNCHANGED <<rows, link, reading, events, ids, bounds>>

-----------------------------------------------------------------------------
(* What other clients saved; broken connections; page loads.                *)

HearSaved(c, e) ==
    ShowAll(c, [items[c] EXCEPT ![e.w] = e.row],
            IF active[c] = None THEN LeastOf(Shown([items[c] EXCEPT ![e.w] = e.row])) ELSE active[c])

(* Mutant of HearDeleted: the deleted workspace stays selected.             *)
HearDeletedStays(c, e) ==
    ShowAll(c, [items[c] EXCEPT ![e.w] = None], active[c])

HearDeleted(c, e) ==
    LET left == [items[c] EXCEPT ![e.w] = None]
    IN  ShowAll(c, left, IF active[c] = e.w THEN Neighbour(Shown(left), e.w) ELSE active[c])

Hear(c) ==
    /\ events[c] # <<>>
    /\ LET e == Head(events[c])
       IN  /\ \/ e.row # None /\ HearSaved(c, e)
              \/ e.row = None /\ e.w \in Shown(items[c]) /\ HearDeleted(c, e)
              \/ e.row = None /\ e.w \notin Shown(items[c]) /\ UNCHANGED <<items, active>>
           /\ Overlap({}, {e.w} \cap Reverts(c), {})
    /\ events' = [events EXCEPT ![c] = Tail(@)]
    /\ UNCHANGED <<rows, queue, calls, deleted, dialog, confirming, link, reading, ids, removed, gone, bounds>>

(* The connection breaks, and all pending calls are rejected: they were     *)
(* carried out, still are under way, or lost.  Calls made now wait for the  *)
(* next connection.                                                         *)
Drop(c) ==
    /\ c # Owner /\ link[c] = "up" /\ Upset
    /\ link' = [link EXCEPT ![c] = "down"]
    /\ reading' = [reading EXCEPT ![c] = None]
    /\ events' = [events EXCEPT ![c] = <<>>]
    /\ \E given \in SUBSET Pending(GivenUp(c) \cup Mine(c)) :
         IF Mine(c) = {}
         THEN /\ calls' = {k \in calls : k.from # c} \cup given
              /\ UNCHANGED <<items, active, queue, deleted, dialog, confirming, removed, crossed, clashes>>
         ELSE Settled(c, FALSE, Rejected(given), {}, "down")
    /\ UNCHANGED <<rows, ids, gone>>

(* The queue of RemoteBridgeClient is flushed.                              *)
Reconnect(c) ==
    /\ link[c] = "down" /\ link' = [link EXCEPT ![c] = "stale"]
    /\ calls' = {IF k.from = c /\ k.stage = "waiting" THEN [k EXCEPT !.stage = "sent"] ELSE k : k \in calls}
    /\ UNCHANGED <<rows, items, active, queue, deleted, dialog, confirming, reading, events, ghosts, bounds>>

(* The page is loaded again, and with it everything but the database and    *)
(* the calls that reached the backend.                                      *)
LoadPage(c) ==
    LET sent == {k \in calls : k.from = c /\ k.stage = "sent"}
    IN
    /\ Upset
    /\ link' = [link EXCEPT ![c] = "loading"]
    /\ items' = [items EXCEPT ![c] = [w \in Workspaces |-> None]]
    /\ active' = [active EXCEPT ![c] = None]
    /\ queue' = [queue EXCEPT ![c] = <<>>]
    /\ deleted' = [deleted EXCEPT ![c] = {}]
    /\ \E kept \in SUBSET sent :
         /\ c = Owner => kept = sent
         /\ calls' = {k \in calls : k.from # c} \cup {[k EXCEPT !.from = None, !.awaited = FALSE] : k \in kept}
    /\ Opened(c, NoDialog)
    /\ confirming' = [confirming EXCEPT ![c] = None]
    /\ reading' = [reading EXCEPT ![c] = None]
    /\ events' = [events EXCEPT ![c] = <<>>]
    /\ UNCHANGED <<rows, ghosts>>

(* list                                                                     *)
Read(c) ==
    /\ link[c] \in {"stale", "loading"} /\ reading[c] = None
    /\ reading' = [reading EXCEPT ![c] = rows]
    /\ link' = [link EXCEPT ![c] = IF @ = "stale" THEN "up" ELSE @]
    /\ UNCHANGED <<rows, items, active, queue, calls, deleted, dialog, confirming, events, ghosts, bounds>>

Selected(c, ws) == IF active[c] \in ws THEN active[c] ELSE IF ws = {} THEN None ELSE LeastOf(ws)

(* reloadFromRepository                                                     *)
Reload(c) ==
    /\ reading[c] # None /\ link[c] # "loading"
    /\ ShowAll(c, reading[c], Selected(c, Shown(reading[c])))
    /\ reading' = [reading EXCEPT ![c] = None]
    /\ Overlap({}, Reverts(c) \cup Queued(c), {})
    /\ UNCHANGED <<rows, queue, calls, deleted, dialog, confirming, link, events, ids, removed, gone, bounds>>

(* initialize: the desktop saves all it shows.                              *)
Initialize(c) ==
    /\ reading[c] # None /\ link[c] = "loading"
    /\ ShowAll(c, reading[c], Selected(c, Shown(reading[c])))
    /\ link' = [link EXCEPT ![c] = "up"]
    /\ reading' = [reading EXCEPT ![c] = None]
    /\ IF c = Owner
       THEN SaveAll(c, reading[c], "nobody") /\ Overlap(Shown(reading[c]) \cap OnTheWay(c), {}, {})
       ELSE UNCHANGED <<queue, calls, crossed, clashes>>
    /\ UNCHANGED <<rows, deleted, dialog, confirming, events, ids, removed, gone, bounds>>

Next ==
    \/ \E c \in Clients, w \in Workspaces :
         \/ \E h \in Held : CreateTerminal(c, w, h) \/ RemoveTerminal(c, w, h) \/ ConfirmAction(c, w, h)
         \/ SelectWorkspace(c, w) \/ CreateWorkspace(c, w) \/ DeleteWorkspace(c, w)
         \/ \E v \in Workspaces : MergeWorkspaces(c, w, v)
    \/ \E w \in Workspaces : StatusChanged(w)
    \/ \E k \in calls : Run(k) \/ Fail(k)
    \/ \E c \in Clients :
         \/ Settle(c) \/ Hear(c)
         \/ Drop(c) \/ Reconnect(c) \/ LoadPage(c) \/ Read(c) \/ Reload(c) \/ Initialize(c)

Spec == Init /\ [][Next]_vars

-----------------------------------------------------------------------------
Quiet(c) == queue[c] = <<>> /\ events[c] = <<>> /\ dialog[c] = NoDialog /\ link[c] = "up" /\ reading[c] = None

(* When all calls are answered and all events heard, every client shows     *)
(* what the database has: after failed dialogs that were undone, after      *)
(* broken connections and page loads, and again as soon as a row that was   *)
(* out of step is saved.                                                    *)
ShowsTheRows ==
    (calls = {} /\ \A c \in Clients : Quiet(c)) =>
        \A c \in Clients, w \in Workspaces \ crossed : items[c][w] = rows[w]

(* A workspace is selected whenever there is one to select, whoever deletes *)
(* or creates them.                                                         *)
SomethingSelected ==
    "own" \notin clashes =>
        \A c \in Clients : Quiet(c) =>
            IF Shown(items[c]) = {} THEN active[c] = None ELSE active[c] \in Shown(items[c])

(* What a client at rest shows.                                             *)
ViewsSettle == ShowsTheRows /\ SomethingSelected

(* A deleted workspace is not brought back by what its client saves late:   *)
(* a terminal that exits while it is being deleted, a list of all rows, a   *)
(* save that was rejected with its connection, unless that one is still     *)
(* under way (clashes: late) (WorkspaceRepository.delete).                  *)
StaysDeleted ==
    [][clashes' \cap {"clients", "late"} = {} => \A w \in gone : rows'[w] = None]_vars

(* Neither a merge nor a failing or rejected call in the middle of one takes*)
(* a terminal out of the database that nobody removed.  It does (clashes:   *)
(* late) when the deletion of the source was rejected with its connection   *)
(* and carried out nevertheless: the rows of before are then saved by calls *)
(* of their own, and the target's may be the first or the only one that     *)
(* succeeds (mergeWorkspaces, saveAll).                                     *)
NothingLost ==
    [][clashes' = {} =>
         UNION {rows[w] : w \in Shown(rows)} \ UNION {rows'[w] : w \in Shown(rows')}
           \subseteq removed]_vars

=============================================================================
