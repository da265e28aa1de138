----------------------------- MODULE BoardStore -----------------------------
(***************************************************************************)
(* The task boards of the workspaces, kept by every client in memory and   *)
(* saved whole, one snapshot per workspace, over what the database holds.  *)
(* A client saves what differs from the snapshot it last queued, batch     *)
(* after batch, and takes over what other clients saved unless it has      *)
(* something of its own on the way.  Calls fail, connections break, pages  *)
(* are reloaded; a call nobody waits for any more still runs.              *)
(*                                                                         *)
(* A snapshot is the set of its tasks.  Not part of it: output tails,      *)
(* which are kept unsaved, the migration of boards of old versions, and    *)
(* the order of tasks.                                                     *)
(***************************************************************************)
EXTENDS Naturals, Sequences, FiniteSets, SequencesExt

CONSTANTS
    Clients,
    Remote,      (* clients behind a connection that may break               *)
    Workspaces, Tasks,
    None,        (* no board                                                 *)
    MaxChanges,  (* bound: changes of boards                                 *)
    MaxUpsets    (* bound: failing calls, broken connections, reloads        *)

ASSUME BoardStoreAssumption ==
    /\ Remote \subseteq Clients /\ None \notin Clients
    /\ IsFiniteSet(Workspaces)
    /\ MaxChanges \in Nat /\ MaxUpsets \in Nat

VARIABLES
    db,         (* the rows of the database                                  *)
    board,      (* per client: snapshotItems                                 *)
    queued,     (* per client: queuedSnapshots                               *)
    pending,    (* per client: pendingWorkspaceIds                           *)
    queue,      (* per client: mutationQueue, the batches it still has       *)
    importing,  (* per client: importWorkspace under way                     *)
    watching,   (* per client: the board events are listened to              *)
    calls,      (* saves and deletes in the backend                          *)
    events,     (* per client: todo-snapshot-changed on its way              *)
    known,      (* ghost: what the client was last told a row is             *)
    created,    (* ghost: tasks that exist or existed                        *)
    removed,    (* ghost: tasks a user removed                               *)
    crossed,    (* ghost: boards on which changes of two clients have met,    *)
                (* that a client could not hear of, or whose deletion failed *)
    clashed,    (* ghost: there was such a board                             *)
    changes, upsets

client == <<board, queued, pending, queue, importing, watching>>
ghosts == <<known, created, removed, crossed, clashed>>
bounds == <<changes, upsets>>
vars == <<db, client, calls, events, ghosts, bounds>>

Snapshots == (SUBSET Tasks) \cup {None}
Ops == [w : Workspaces, snap : Snapshots]
(* by: what in the client waits for the answer.                             *)
Calls == [from : Clients \cup {None}, by : {"queue", "import", "nobody"},
          w : Workspaces, snap : Snapshots, step : {"sent", "written", "done"}]
NoImport == [step |-> "none"]

TypeOK ==
    /\ db \in [Workspaces -> Snapshots]
    /\ {board, queued, known} \subseteq [Clients -> [Workspaces -> Snapshots]]
    /\ pending \in [Clients -> [Workspaces -> Nat]]
    /\ queue \in [Clients -> Seq(Seq(Ops))]
    /\ \A c \in Clients : importing[c].step \in {"none", "waiting", "saving"}
    /\ watching \in [Clients -> BOOLEAN]
    /\ calls \subseteq Calls
    /\ events \in [Clients -> Seq(Ops)]
    /\ {created, removed} \subseteq SUBSET Tasks
    /\ crossed \subseteq Workspaces /\ clashed \in BOOLEAN

Init ==
    /\ db = [w \in Workspaces |-> {}]
    /\ board = [c \in Clients |-> db] /\ queued = board /\ known = board
    /\ pending = [c \in Clients |-> [w \in Workspaces |-> 0]]
    /\ queue = [c \in Clients |-> <<>>]
    /\ importing = [c \in Clients |-> NoImport]
    /\ watching = [c \in Clients |-> TRUE]
    /\ calls = {}
    /\ events = [c \in Clients |-> <<>>]
    /\ created = {} /\ removed = {} /\ crossed = {} /\ clashed = FALSE
    /\ changes = 0 /\ upsets = 0

-----------------------------------------------------------------------------
InQueue(c, w) == \E i \in DOMAIN queue[c] : \E j \in DOMAIN queue[c][i] : queue[c][i][j].w = w
InEvents(c, w) == \E i \in DOMAIN events[c] : events[c][i].w = w
Imports(c, w) == importing[c].step = "saving" /\ importing[c].w = w
InCalls(w) == \E k \in calls : k.w = w

(* Everyone has heard of every change of w.                                 *)
Settled(w) ==
    /\ ~InCalls(w)
    /\ \A c \in Clients : ~InQueue(c, w) /\ ~InEvents(c, w) /\ ~Imports(c, w)

(* A change of w that c has not heard of, or an import of its own.          *)
Unheard(c, w) ==
    \/ \E k \in calls : k.w = w /\ (k.from # c \/ k.by # "queue")
    \/ InEvents(c, w) \/ Imports(c, w)
    \/ \E o \in Clients \ {c} : InQueue(o, w) \/ Imports(o, w)

Crossing(ws) == crossed' = crossed \cup ws /\ clashed' = (clashed \/ ws # {})

(* A change relies on the boards it reads, and saves every board that       *)
(* differs from what was queued.  The row of a board whose last save failed *)
(* is not deleted with it.                                                  *)
Cross(c, read, items) ==
    LET met == {w \in Workspaces : (w \in read \/ items[w] # queued[c][w]) /\ Unheard(c, w)}
        left == {w \in Workspaces : items[w] = None /\ board[c][w] # None /\ queued[c][w] = None}
    IN  Crossing(met \cup left)

(* Mutant of Batch: deletions are sent first.                               *)
BatchDeletesFirst(c, items) ==
    LET saves == {w \in Workspaces : items[w] # None /\ queued[c][w] # items[w]}
        gone == {w \in Workspaces : items[w] = None /\ queued[c][w] # None}
    IN  [i \in 1 .. Cardinality(saves \cup gone) |->
            LET w == (SetToSeq(gone) \o SetToSeq(saves))[i]
            IN  [w |-> w, snap |-> items[w]]]

(* persist: a batch of what differs from what was queued; saves before      *)
(* deletions.  A batch stands for its operations that are not done.         *)
Batch(c, items) ==
    LET saves == {w \in Workspaces : items[w] # None /\ queued[c][w] # items[w]}
        gone == {w \in Workspaces : items[w] = None /\ queued[c][w] # None}
    IN  [i \in 1 .. Cardinality(saves \cup gone) |->
            LET w == (SetToSeq(saves) \o SetToSeq(gone))[i]
            IN  [w |-> w, snap |-> items[w]]]

(* Mutant of Persist: only saves are counted.                               *)
PersistSavesCounted(c, items) ==
    LET batch == Batch(c, items)
    IN  /\ board' = [board EXCEPT ![c] = items]
        /\ queued' = [queued EXCEPT ![c] = items]
        /\ pending' = [pending EXCEPT ![c] = [w \in Workspaces |->
                          @[w] + Cardinality({i \in DOMAIN batch : batch[i].w = w /\ batch[i].snap # None})]]
        /\ queue' = IF batch = <<>> THEN queue ELSE [queue EXCEPT ![c] = Append(@, batch)]

Persist(c, items) ==
    LET batch == Batch(c, items)
    IN  /\ board' = [board EXCEPT ![c] = items]
        /\ queued' = [queued EXCEPT ![c] = items]
        /\ pending' = [pending EXCEPT ![c] = [w \in Workspaces |->
                          @[w] + Cardinality({i \in DOMAIN batch : batch[i].w = w})]]
        /\ queue' = IF batch = <<>> THEN queue ELSE [queue EXCEPT ![c] = Append(@, batch)]

Change(c, read, items) ==
    /\ watching[c] /\ changes < MaxChanges /\ changes' = changes + 1
    /\ Persist(c, items) /\ Cross(c, read, items)
    /\ UNCHANGED <<db, importing, watching, calls, events, known, upsets>>

(* createTask; every task has an id of its own.                             *)
CreateTask(c, w, k) ==
    /\ board[c][w] # None /\ k \notin created
    /\ created' = created \cup {k} /\ removed' = removed
    /\ Change(c, {w}, [board[c] EXCEPT ![w] = @ \cup {k}])

DeleteTask(c, w, k) ==
    /\ board[c][w] # None /\ k \in board[c][w]
    /\ removed' = removed \cup {k} /\ created' = created
    /\ Change(c, {w}, [board[c] EXCEPT ![w] = @ \ {k}])

DeleteWorkspace(c, w) ==
    /\ board[c][w] # None
    /\ removed' = removed \cup board[c][w] /\ created' = created
    /\ Change(c, {w}, [board[c] EXCEPT ![w] = None])

(* mergeWorkspaces: tasks keep their ids.                                   *)
Merge(c, source, target) ==
    /\ source # target /\ board[c][source] # None /\ board[c][target] # None
    /\ UNCHANGED <<created, removed>>
    /\ Change(c, {source, target}, [board[c] EXCEPT ![target] = @ \cup board[c][source],
                                                    ![source] = None])

-----------------------------------------------------------------------------
(* Calls into the backend.                                                  *)

Asked(c, by) == {k \in calls : k.from = c /\ k.by = by}

Written(op) == db' = [db EXCEPT ![op.w] = op.snap]

(* The next operation of the queue reaches the database.                    *)
Write(c) ==
    /\ queue[c] # <<>> /\ Asked(c, "queue") = {}
    /\ LET op == queue[c][1][1]
       IN  /\ Written(op)
           /\ calls' = calls \cup {[from |-> c, by |-> "queue", w |-> op.w,
                                    snap |-> op.snap, step |-> "written"]}
    /\ UNCHANGED <<client, events, ghosts, bounds>>

(* A call whose client is gone runs all the same.                           *)
LateWrite(k) ==
    /\ k.step = "sent" /\ Written(k)
    /\ calls' = (calls \ {k}) \cup {[k EXCEPT !.step = "written"]}
    /\ UNCHANGED <<client, events, ghosts, bounds>>

(* Once everyone is told of a change, and nobody has another one to save,   *)
(* the boards meet again, however far they were apart.                      *)
Meet(k) ==
    /\ k.by # "nobody" /\ db[k.w] = k.snap
    /\ (k.by = "queue" => queued[k.from][k.w] = k.snap)
    /\ \A j \in calls \ {k} : j.w # k.w
    /\ \A c \in Clients :
         /\ ~InEvents(c, k.w)
         /\ pending[c][k.w] = IF c = k.from /\ k.by = "queue" THEN 1 ELSE 0
         /\ c # k.from => ~Imports(c, k.w)

(* The row is written before it is announced; a page does not hear its own. *)
Broadcast(k) ==
    LET hearing == {c \in Clients : c # k.from /\ watching[c]}
    IN  /\ k.step = "written"
        /\ events' = [c \in Clients |-> IF c \in hearing
                                        THEN Append(events[c], [w |-> k.w, snap |-> k.snap])
                                        ELSE events[c]]
        /\ calls' = (calls \ {k}) \cup
                      (IF k.by = "nobody" THEN {} ELSE {[k EXCEPT !.step = "done"]})
        /\ IF \E c \in Clients : ~watching[c] THEN Crossing({k.w})
           ELSE crossed' = (IF Meet(k) THEN crossed \ {k.w} ELSE crossed) /\ clashed' = clashed
        /\ UNCHANGED <<db, client, known, created, removed, bounds>>

(* An import waits for the batches that were queued when it started.        *)
Nearer(c) ==
    LET i == importing[c]
    IN  IF i.step = "waiting" /\ i.behind > 0 THEN [i EXCEPT !.behind = @ - 1] ELSE i

(* One operation of the batch is done, and with the last one the batch.     *)
Answer(c, k) ==
    /\ k \in Asked(c, "queue") /\ k.step = "done"
    /\ calls' = calls \ {k}
    /\ queue' = [queue EXCEPT ![c] = IF Len(Head(@)) = 1 THEN Tail(@)
                                     ELSE <<Tail(Head(@))>> \o Tail(@)]
    /\ pending' = [pending EXCEPT ![c][k.w] = @ - 1]
    /\ known' = [known EXCEPT ![c][k.w] = k.snap]
    /\ importing' = [importing EXCEPT ![c] = IF Len(Head(queue[c])) = 1 THEN Nearer(c) ELSE @]
    /\ UNCHANGED <<db, board, queued, watching, events, created, removed, crossed, clashed, bounds>>

(* Mutant of GiveUp: what was queued counts as saved.                       *)
GiveUpAsSaved(c) ==
    LET rest == queue[c][1]
    IN  /\ pending' = [pending EXCEPT ![c] = [w \in Workspaces |->
                          @[w] - Cardinality({i \in DOMAIN rest : rest[i].w = w})]]
        /\ queue' = [queue EXCEPT ![c] = Tail(@)]
        /\ UNCHANGED <<board, watching, queued>>

(* Mutant of GiveUp: only the operation that failed is counted off.         *)
GiveUpOne(c) ==
    LET rest == queue[c][1]
    IN  /\ queued' = [queued EXCEPT ![c][rest[1].w] = None]
        /\ pending' = [pending EXCEPT ![c][rest[1].w] = @ - 1]
        /\ queue' = [queue EXCEPT ![c] = Tail(@)]
        /\ UNCHANGED <<board, watching>>

(* The first batch of the queue is given up with all that is left of it.    *)
(* What it was to save will be saved by the next change; what it was to     *)
(* delete will not.                                                         *)
GiveUp(c) ==
    LET rest == queue[c][1]
        lost(w) == \E i \in DOMAIN rest : rest[i].w = w /\ rest[i].snap = queued[c][w]
    IN  /\ queued' = [queued EXCEPT ![c] = [w \in Workspaces |-> IF lost(w) THEN None ELSE @[w]]]
        /\ pending' = [pending EXCEPT ![c] = [w \in Workspaces |->
                          @[w] - Cardinality({i \in DOMAIN rest : rest[i].w = w})]]
        /\ queue' = [queue EXCEPT ![c] = Tail(@)]
        /\ UNCHANGED <<board, watching>>

Undeleted(c) == {w \in Workspaces : \E i \in DOMAIN queue[c][1] :
                    queue[c][1][i].w = w /\ queue[c][1][i].snap = None}

Upset == upsets < MaxUpsets /\ upsets' = upsets + 1 /\ UNCHANGED changes

(* The backend refuses the next operation.                                  *)
Refuse(c) ==
    /\ queue[c] # <<>> /\ Asked(c, "queue") = {} /\ Upset
    /\ GiveUp(c) /\ Crossing(Undeleted(c))
    /\ importing' = [importing EXCEPT ![c] = Nearer(c)]
    /\ UNCHANGED <<db, calls, events, known, created, removed>>

-----------------------------------------------------------------------------
(* Imports: they wait for the queue as it is, and save past it.             *)

StartImport(c, w) ==
    /\ watching[c] /\ importing[c] = NoImport /\ board[c][w] # None
    /\ changes < MaxChanges /\ changes' = changes + 1
    /\ importing' = [importing EXCEPT ![c] =
                       [step |-> "waiting", w |-> w, behind |-> Len(queue[c])]]
    /\ UNCHANGED <<db, board, queued, pending, queue, watching, calls, events, ghosts, upsets>>

(* mergeTodoImport: every task of the file gets an id of its own.           *)
Merged(c, k) == [w |-> importing[c].w, snap |-> board[c][importing[c].w] \cup {k}]

WriteImport(c) ==
    /\ importing[c].step = "waiting" /\ importing[c].behind = 0
    /\ LET w == importing[c].w
       IN  /\ board[c][w] # None
           /\ \E k \in Tasks \ created :
                /\ Written(Merged(c, k))
                /\ importing' = [importing EXCEPT ![c] = [step |-> "saving", w |-> w]]
                /\ calls' = calls \cup {[from |-> c, by |-> "import", w |-> w,
                                         snap |-> Merged(c, k).snap, step |-> "written"]}
                /\ created' = created \cup {k}
           /\ Crossing({v \in {w} : Unheard(c, v) \/ InQueue(c, v)})
    /\ UNCHANGED <<board, queued, pending, queue, watching, events, known, removed, bounds>>

FinishImport(c, k) ==
    /\ k \in Asked(c, "import") /\ k.step = "done"
    /\ calls' = calls \ {k}
    /\ importing' = [importing EXCEPT ![c] = NoImport]
    /\ board' = [board EXCEPT ![c][k.w] = k.snap]
    /\ queued' = [queued EXCEPT ![c][k.w] = k.snap]
    /\ known' = [known EXCEPT ![c][k.w] = k.snap]
    /\ UNCHANGED <<db, pending, queue, watching, events, created, removed, crossed, clashed, bounds>>

(* Nothing is kept of an import that fails; here, before it is saved.       *)
FailImport(c) ==
    /\ importing[c].step = "waiting" /\ importing[c].behind = 0
    /\ importing' = [importing EXCEPT ![c] = NoImport]
    /\ UNCHANGED <<db, board, queued, pending, queue, watching, calls, events, ghosts, bounds>>

-----------------------------------------------------------------------------
(* What other clients saved, broken connections, reloaded pages.            *)

(* Mutant of Hear: the change is shown, and not taken for saved.            *)
HearOnly(c) ==
    /\ events[c] # <<>>
    /\ events' = [events EXCEPT ![c] = Tail(@)]
    /\ UNCHANGED <<db, board, queued, pending, queue, importing, watching, calls, ghosts, bounds>>

Hear(c) ==
    /\ events[c] # <<>>
    /\ events' = [events EXCEPT ![c] = Tail(@)]
    /\ LET e == Head(events[c])
       IN  IF pending[c][e.w] > 0
           THEN UNCHANGED <<board, queued, known>>
           ELSE /\ board' = [board EXCEPT ![c][e.w] = e.snap]
                /\ queued' = [queued EXCEPT ![c][e.w] = e.snap]
                /\ known' = [known EXCEPT ![c][e.w] = e.snap]
    /\ UNCHANGED <<db, pending, queue, importing, watching, calls, created, removed, crossed, clashed, bounds>>

(* The calls of c lose who waits for them; the next operation may have been *)
(* sent as well, and then still runs.                                       *)
Abandoned(c, from) ==
    LET left == {[k EXCEPT !.from = from, !.by = "nobody"] :
                    k \in {j \in calls : j.from = c /\ j.step # "done"}}
        sent == IF queue[c] # <<>> /\ Asked(c, "queue") = {}
                THEN {{}, {[from |-> from, by |-> "nobody", w |-> queue[c][1][1].w,
                            snap |-> queue[c][1][1].snap, step |-> "sent"]}}
                ELSE {{}}
    IN  \E s \in sent : calls' = {j \in calls : j.from # c} \cup left \cup s

Missed(c) == {w \in Workspaces : InEvents(c, w) \/ \E k \in calls : k.from = c /\ k.w = w}

(* The connection of a remote client breaks and comes back.  Workspaces are *)
(* read again then, boards are not.                                         *)
Drop(c) ==
    /\ c \in Remote /\ Upset
    /\ events' = [events EXCEPT ![c] = <<>>]
    /\ Abandoned(c, c)
    /\ IF queue[c] = <<>> THEN UNCHANGED <<board, queued, pending, queue, watching>>
       ELSE GiveUp(c)
    /\ importing' = [importing EXCEPT ![c] = IF @.step = "saving" THEN NoImport ELSE Nearer(c)]
    /\ Crossing(Missed(c) \cup
                  IF queue[c] = <<>> THEN {} ELSE {queue[c][1][1].w} \cup Undeleted(c))
    /\ UNCHANGED <<db, known, created, removed>>

(* initialize, up to watch: what is announced before that is not heard of.  *)
Reload(c) ==
    /\ Upset
    /\ board' = [board EXCEPT ![c] = db] /\ queued' = [queued EXCEPT ![c] = db]
    /\ known' = [known EXCEPT ![c] = db]
    /\ pending' = [pending EXCEPT ![c] = [w \in Workspaces |-> 0]]
    /\ queue' = [queue EXCEPT ![c] = <<>>]
    /\ importing' = [importing EXCEPT ![c] = NoImport]
    /\ watching' = [watching EXCEPT ![c] = FALSE]
    /\ events' = [events EXCEPT ![c] = <<>>]
    /\ Abandoned(c, None)
    /\ UNCHANGED <<db, created, removed, crossed, clashed>>

Watch(c) ==
    /\ ~watching[c] /\ watching' = [watching EXCEPT ![c] = TRUE]
    /\ UNCHANGED <<db, board, queued, pending, queue, importing, calls, events, ghosts, bounds>>

Next ==
    \/ \E c \in Clients :
         \/ \E w \in Workspaces :
              \/ \E k \in Tasks : CreateTask(c, w, k) \/ DeleteTask(c, w, k)
              \/ DeleteWorkspace(c, w) \/ StartImport(c, w)
              \/ \E v \in Workspaces : Merge(c, w, v)
         \/ Write(c) \/ Refuse(c) \/ WriteImport(c) \/ FailImport(c)
         \/ Hear(c) \/ Drop(c) \/ Reload(c) \/ Watch(c)
         \/ \E k \in calls : Answer(c, k) \/ FinishImport(c, k)
    \/ \E k \in calls : LateWrite(k) \/ Broadcast(k)

Spec == Init /\ [][Next]_vars

-----------------------------------------------------------------------------
(* A workspace counts as pending for as long as something of it is queued,  *)
(* whatever fails in between: forgotten, others' changes would be lost;     *)
(* left behind, they would never be shown again.                            *)
PendingMatchesQueue ==
    \A c \in Clients, w \in Workspaces :
        pending[c][w] = Cardinality({p \in (1 .. MaxChanges) \X (1 .. Cardinality(Workspaces)) :
                            /\ p[1] \in DOMAIN queue[c] /\ p[2] \in DOMAIN queue[c][p[1]]
                            /\ queue[c][p[1]][p[2]].w = w})

(* A board that is not being saved and counts as saved is the one the       *)
(* client was last told the database has: a failed save is made up for by   *)
(* the next change.                                                         *)
SavedIsKnown ==
    \A c \in Clients, w \in Workspaces \ crossed :
        pending[c][w] = 0 /\ ~InEvents(c, w) /\ ~Imports(c, w) /\ queued[c][w] # None =>
            queued[c][w] = known[c][w]

(* The bookkeeping that decides whether a change of another client is shown *)
(* and what the next save has to write.                                     *)
SavesAccounted == PendingMatchesQueue /\ SavedIsKnown

(* When a change has been heard of everywhere and none of another client    *)
(* met it on the way, every board that counts as saved shows what the       *)
(* database has - also when the boards had drifted apart before.            *)
ChangesConverge ==
    \A w \in Workspaces \ crossed :
        Settled(w) => \A c \in Clients :
            board[c][w] = queued[c][w] => board[c][w] = db[w]

(* As long as changes do not meet, no save, merge or failure takes a task   *)
(* out of the database that nobody removed.                                 *)
NothingLost ==
    [][~clashed' =>
         UNION ({db[w] : w \in Workspaces} \ {None}) \
         UNION ({db'[w] : w \in Workspaces} \ {None}) \subseteq removed]_vars

=============================================================================
