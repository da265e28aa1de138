--------------------------- MODULE TaskRunProofs ----------------------------
(***************************************************************************)
(* What is proved about TaskRun: the variables keep their types, what the  *)
(* board says of the delivery of a prompt is so, no two tasks run in one   *)
(* terminal but the excused ones, a run does not outlive its terminal, and *)
(* nothing undoes a stop.                                                  *)
(***************************************************************************)
EXTENDS TaskRun, TLAPS

Runs(k) == task[k].stage = "executing"
Waits(k) == Runs(k) /\ task[k].delivery \in {"pending", "sending"} /\ "declined" \notin astray[k]
Sender(k) ==
    \/ launch = k
    \/ \E t \in Terminals : armed[t].task = k /\ task[k].term = t
    \/ \E s \in sending : s.task = k /\ s.term = task[k].term

(* j runs in the terminal where k runs, or ran when its new launch began.   *)
Mates(j, k) ==
    /\ j # k /\ task[j].term = task[k].term /\ task[j].term # None
    /\ Runs(j) /\ (Runs(k) \/ launch = k)
BothJoined(j, k) == "joined" \in astray[j] \cap astray[k]

(* Prompts are armed in terminals that were launched for their task, and    *)
(* that no other task has come to.                                          *)
Prepared ==
    \A t \in Terminals :
        /\ armed[t].started => armed[t].task # None
        /\ armed[t].task # None => t \notin Open /\ Bound(t) \subseteq {armed[t].task}

Placed ==
    /\ \A t \in Terminals \ Open : \A j, k \in Bound(t) : j = k
    /\ \A k \in Tasks : task[k].stage \in {"todo", "deleted"} => task[k].term = None

(* While a launch is awaited nothing is written but armed prompts.          *)
Writing ==
    \A s \in sending :
        IF s.direct THEN launch = None
        ELSE s.term \notin Open /\ armed[s.term].task \in {None, s.task}

Shared == \A j, k \in Tasks : Mates(j, k) => BothJoined(j, k)

(* The Enter of the newest instructions settles what is owed, and a prompt  *)
(* that is not the newest and goes to the task's terminal is known to       *)
(* overlap with the newest.                                                 *)
Excused(k) == astray[k] \cap {"overlapped", "preempted"} # {}
Newest ==
    /\ \A s \in sending :
         /\ s.newest /\ s.step = "confirm" => s.task \notin owed
         /\ ~s.newest /\ s.term = task[s.task].term => "overlapped" \in astray[s.task]
    /\ \A k \in Tasks : task[k].delivery = "delivered" /\ k \in owed => Excused(k)

IInv ==
    /\ TypeOK
    /\ Prepared /\ Placed /\ Writing
    /\ Shared /\ GoneEndsRun
    /\ PromptHasSender /\ Newest

(* What StopStays asks of a step that loads no window.                      *)
StopKept ==
    \A k \in Tasks :
        /\ Runs(k) /\ task[k].exec = "stopped"
        /\ Runs(k)' /\ task'[k].attempts = task[k].attempts
        => task'[k].exec \in {"stopped", "failed"}

-----------------------------------------------------------------------------
(* What a status, an error and a beginning do to a task.                    *)

LEMMA StatusOfTask ==
    ASSUME NEW r \in TodoTasks, NEW status \in Statuses, NEW q, q = WithStatus(r, status)
    PROVE  /\ q \in TodoTasks /\ q.term = r.term /\ q.attempts = r.attempts
           /\ q.stage = r.stage \/ q.stage = "completed"
           /\ status # "COMPLETED" => q.stage = r.stage
           /\ q.delivery \in {r.delivery, "delivered", "failed"}
           /\ q.delivery = "delivered" => r.delivery = "delivered" \/ q.stage = "completed"
           /\ status \in Gone => q.exec = "failed" /\ q.delivery \in {"delivered", "failed"}
           /\ q.exec = "failed" => status \in Gone
<1>1. ExecutionState(status, r.delivery) \in Executions
  BY DEF ExecutionState, Executions, Statuses, Gone, Reusable, Interruptible
<1>2. status \in Gone <=> ExecutionState(status, r.delivery) = "failed"
  BY DEF ExecutionState, Statuses, Gone, Reusable, Interruptible
<1>3. PICK e, d, g : /\ e = ExecutionState(status, r.delivery)
                     /\ d = IF status = "COMPLETED" THEN "delivered"
                            ELSE IF status \in Gone /\ r.delivery # "delivered"
                                 THEN "failed" ELSE r.delivery
                     /\ g = IF status = "COMPLETED" THEN "completed" ELSE r.stage
  OBVIOUS
<1>4. q = [r EXCEPT !.stage = g, !.exec = e, !.delivery = d,
                     !.dated = @ \/ status = "COMPLETED"]
  BY <1>3 DEF WithStatus
<1>5. d \in Deliveries /\ g \in Stages
  BY <1>3 DEF TodoTasks, Deliveries, Stages
<1>6. q \in TodoTasks /\ q.term = r.term /\ q.attempts = r.attempts
      /\ q.stage = g /\ q.exec = e /\ q.delivery = d
  BY <1>1, <1>3, <1>4, <1>5 DEF TodoTasks
<1> QED
  BY <1>2, <1>3, <1>6 DEF Gone

(* What a status may do to a task that hears of it.                         *)
Follows(r, q) ==
    /\ q.term = r.term /\ q.attempts = r.attempts
    /\ q.stage = r.stage \/ (r.stage \notin {"completed", "verified"} /\ q.stage = "completed")
    /\ q.delivery \in {r.delivery, "delivered", "failed"}
    /\ q.delivery = "delivered" => r.delivery = "delivered" \/ q.stage = "completed"

LEMMA HeardOfTask ==
    ASSUME NEW board \in [Tasks -> TodoTasks], NEW w \in Tasks \cup {None},
           NEW status \in Statuses, NEW b, b = Heard(board, w, status)
    PROVE  /\ b \in [Tasks -> TodoTasks]
           /\ \A k \in Tasks : Follows(board[k], b[k]) /\ (k # w => b[k] = board[k])
           /\ \A k \in Tasks : board[k].exec = "stopped" => b[k].exec \in {"stopped", "failed"}
           /\ status # "COMPLETED" => \A k \in Tasks : b[k].stage = board[k].stage
           /\ status \in Gone /\ w \in Tasks /\ board[w].stage = "executing"
                => b[w].exec = "failed" /\ b[w].delivery \in {"delivered", "failed"}
<1> DEFINE deaf == \/ w = None \/ board[w].stage \in {"completed", "verified"}
                   \/ board[w].exec = "stopped" /\ status \notin Gone
<1>1. CASE deaf
  <2>1. b = board
    BY <1>1 DEF Heard
  <2>2. \A k \in Tasks : Follows(board[k], board[k])
    BY DEF Follows, TodoTasks
  <2> QED
    BY <1>1, <2>1, <2>2, TaskRunAssumption
<1>2. CASE ~deaf
  <2>1. /\ w \in Tasks /\ b = [board EXCEPT ![w] = WithStatus(board[w], status)]
        /\ board[w].stage \notin {"completed", "verified"}
        /\ board[w].exec = "stopped" => status \in Gone
    BY <1>2 DEF Heard
  <2>2. PICK q : q = WithStatus(board[w], status)
    OBVIOUS
  <2>3. b = [board EXCEPT ![w] = q] /\ board[w] \in TodoTasks
    BY <2>1, <2>2
  <2>4. /\ q \in TodoTasks /\ q.term = board[w].term /\ q.attempts = board[w].attempts
        /\ q.stage = board[w].stage \/ q.stage = "completed"
        /\ status # "COMPLETED" => q.stage = board[w].stage
        /\ q.delivery \in {board[w].delivery, "delivered", "failed"}
        /\ q.delivery = "delivered" => board[w].delivery = "delivered" \/ q.stage = "completed"
        /\ status \in Gone => q.exec = "failed" /\ q.delivery \in {"delivered", "failed"}
    BY <2>2, <2>3, StatusOfTask
  <2>5. Follows(board[w], q)
    BY <2>1, <2>4 DEF Follows
  <2>6. b[w] = q /\ b \in [Tasks -> TodoTasks] /\ \A k \in Tasks : k # w => b[k] = board[k]
    BY <2>1, <2>3, <2>4
  <2>7. \A k \in Tasks : Follows(board[k], board[k])
    BY DEF Follows, TodoTasks
  <2> QED
    BY <2>1, <2>4, <2>5, <2>6, <2>7
<1> QED
  BY <1>1, <1>2

(* setExecutionError has an addressee.                                      *)
Named(b, k, t) == b[k].stage # "deleted" /\ (t = None \/ b[k].term = t)

LEMMA ErrorOfTask ==
    ASSUME NEW board \in [Tasks -> TodoTasks], NEW k \in Tasks, NEW t,
           NEW b, b = WithError(board, k, t)
    PROVE  /\ b \in [Tasks -> TodoTasks]
           /\ \A j \in Tasks \ {k} : b[j] = board[j]
           /\ b[k].term = board[k].term /\ b[k].attempts = board[k].attempts
           /\ ~Named(board, k, t) => b = board
           /\ Named(board, k, t) => /\ b[k].stage = "executing" /\ b[k].exec = "failed"
                                    /\ b[k].delivery \in {"delivered", "failed"}
                                    /\ b[k].delivery = "delivered" => board[k].delivery = "delivered"
<1> DEFINE r == board[k]
           d == IF r.delivery = "delivered" THEN r.delivery ELSE "failed"
<1>1. PICK q : q = [r EXCEPT !.stage = "executing", !.exec = "failed", !.delivery = d]
  OBVIOUS
<1>2. r \in TodoTasks /\ d \in {"delivered", "failed"} /\ (d = "delivered" => r.delivery = d)
  OBVIOUS
<1>3. b = IF Named(board, k, t) THEN [board EXCEPT ![k] = q] ELSE board
  BY <1>1 DEF WithError, Named
<1> HIDE DEF r, d
<1>4. /\ q \in TodoTasks /\ q.stage = "executing" /\ q.exec = "failed" /\ q.delivery = d
      /\ q.term = r.term /\ q.attempts = r.attempts
  BY <1>1, <1>2 DEF TodoTasks, Stages, Executions, Deliveries
<1> QED
  BY <1>2, <1>3, <1>4 DEF r

LEMMA BegunTask ==
    ASSUME NEW board \in [Tasks -> TodoTasks], NEW k \in Tasks, NEW t \in Terminals,
           NEW d \in Deliveries, NEW b, b = Begun(board, k, t, d)
    PROVE  /\ b \in [Tasks -> TodoTasks]
           /\ \A j \in Tasks \ {k} : b[j] = board[j]
           /\ b[k].stage = "executing" /\ b[k].exec = "starting" /\ b[k].delivery = d
           /\ b[k].term = t /\ b[k].attempts = board[k].attempts + 1
<1> DEFINE r == board[k]
<1>1. PICK n : n = r.attempts + 1
  OBVIOUS
<1>2. PICK q : q = [r EXCEPT !.stage = "executing", !.exec = "starting", !.delivery = d,
                             !.dated = FALSE, !.term = t, !.attempts = n]
  OBVIOUS
<1>3. r \in TodoTasks /\ n \in Nat
  BY <1>1 DEF TodoTasks
<1> HIDE DEF r
<1>4. q \in TodoTasks
  BY <1>2, <1>3 DEF TodoTasks, Stages, Executions
<1>5. /\ q.stage = "executing" /\ q.exec = "starting" /\ q.delivery = d
      /\ q.term = t /\ q.attempts = n
  BY <1>2, <1>3 DEF TodoTasks
<1>6. b = [board EXCEPT ![k] = q]
  BY <1>1, <1>2 DEF Begun, r
<1> QED
  BY <1>1, <1>4, <1>5, <1>6 DEF r

(* Steps after which less is under way: no new prompts, no new launch.      *)
LEMMA Calm ==
    ASSUME IInv, TypeOK',
           launch' \in {launch, None}, sending' \subseteq sending, owed' = owed,
           \A k \in Tasks :
              /\ astray[k] \subseteq astray'[k]
              /\ task'[k].term \in {task[k].term, None}
              /\ task'[k].stage \in {"todo", "deleted"} => task'[k].term = None
              /\ Waits(k)' => Waits(k) /\ (Sender(k) => Sender(k)')
              /\ task'[k].delivery = "delivered" /\ k \in owed
                   => task[k].delivery = "delivered" \/ Excused(k)',
           \A j, k \in Tasks : Mates(j, k)' => Mates(j, k) \/ Mates(k, j) \/ BothJoined(j, k)',
           \A t \in Terminals : /\ armed'[t].task \in {armed[t].task, None}
                                /\ armed'[t].started => armed'[t].task # None
    PROVE  Prepared' /\ Placed' /\ Writing' /\ Shared' /\ PromptHasSender' /\ Newest'
<1> USE TaskRunAssumption DEF IInv
<1>1. \A t \in Terminals : Bound(t)' \subseteq Bound(t)
  BY DEF Bound
<1>2. Prepared'
  BY <1>1 DEF Prepared
<1>3. Placed'
  BY <1>1 DEF Placed
<1>4. \A s \in sending : s.task \in Tasks /\ s.term \in Terminals
  BY DEF TypeOK, Sendings
<1>5. Writing'
  <2> SUFFICES ASSUME NEW s \in sending'
               PROVE  IF s.direct THEN launch' = None
                      ELSE s.term \notin Open /\ armed'[s.term].task \in {None, s.task}
    BY DEF Writing
  <2> QED
    BY <1>4 DEF Writing
<1>6. Shared'
  <2> SUFFICES ASSUME NEW j \in Tasks, NEW k \in Tasks, Mates(j, k)'
               PROVE  BothJoined(j, k)'
    BY DEF Shared
  <2>1. CASE BothJoined(j, k)'
    BY <2>1
  <2>2. CASE Mates(j, k) \/ Mates(k, j)
    BY <2>2 DEF Shared, BothJoined
  <2> QED
    BY <2>1, <2>2
<1>7. PromptHasSender'
  <2> SUFFICES ASSUME NEW k \in Tasks, Waits(k)'
               PROVE  Sender(k)'
    BY DEF PromptHasSender, Waits, Runs, Sender
  <2>1. Waits(k)
    OBVIOUS
  <2>2. Sender(k)
    BY <2>1 DEF PromptHasSender, Waits, Runs, Sender
  <2> QED
    BY <2>2
<1>8. ASSUME NEW s \in sending'
      PROVE  /\ s.newest /\ s.step = "confirm" => s.task \notin owed'
             /\ ~s.newest /\ s.term = task'[s.task].term => "overlapped" \in astray'[s.task]
  BY <1>4, <1>8 DEF Newest
<1>9. ASSUME NEW k \in Tasks, task'[k].delivery = "delivered", k \in owed'
      PROVE  Excused(k)'
  BY <1>9 DEF Newest, Excused
<1>10. Newest'
  BY <1>8, <1>9 DEF Newest
<1> QED
  BY <1>2, <1>3, <1>5, <1>6, <1>7, <1>10

-----------------------------------------------------------------------------
(* A terminal's status changes, and its tasks hear of it.                   *)

LEMMA HearersBound ==
    ASSUME IInv, NEW t \in Terminals, NEW w \in Hearers(t)
    PROVE  /\ w \in Tasks \cup {None} /\ (w # None => task[w].term = t)
           /\ \A k \in Tasks : Runs(k) /\ task[k].term = t => w # None /\ Runs(w)
  BY TaskRunAssumption DEF Hearers, Bound, Runs

(* What hears of the end of its terminal waits for nothing any more; another *)
(* task that runs there is excused.                                          *)
LEMMA EndHeard ==
    ASSUME IInv, NEW t \in Terminals, NEW w \in Hearers(t), NEW status \in Gone,
           task' = Heard(task, w, status), NEW k \in Tasks, Runs(k)', task[k].term = t
    PROVE  \/ task'[k].exec = "failed" /\ task'[k].delivery \in {"delivered", "failed"}
           \/ "joined" \in astray[k] /\ armed[t].task = None
<1> USE TaskRunAssumption
<1>1. task \in [Tasks -> TodoTasks] /\ status \in Statuses /\ status # "COMPLETED"
  BY DEF IInv, TypeOK, Statuses, Gone
<1>2. w \in Tasks \cup {None}
  BY HearersBound
<1>3. PICK b : b = Heard(task, w, status)
  OBVIOUS
<1>4. /\ \A j \in Tasks : b[j].stage = task[j].stage
      /\ w \in Tasks /\ task[w].stage = "executing"
           => b[w].exec = "failed" /\ b[w].delivery \in {"delivered", "failed"}
  BY <1>1, <1>2, <1>3, HeardOfTask
<1>5. task' = b /\ Runs(k)
  BY <1>3, <1>4 DEF Runs
<1>6. w \in Tasks /\ Runs(w) /\ task[w].term = t
  BY <1>2, <1>5, HearersBound
<1>7. CASE w = k
  BY <1>4, <1>5, <1>6, <1>7 DEF Runs
<1>8. CASE w # k
  <2>1. Mates(w, k)
    BY <1>5, <1>6, <1>8 DEF Mates
  <2>2. "joined" \in astray[k]
    BY <1>6, <2>1 DEF IInv, Shared, BothJoined
  <2>3. armed[t].task = None
    BY <1>6, <1>8 DEF IInv, Prepared, Bound
  <2> QED
    BY <2>2, <2>3
<1> QED
  BY <1>7, <1>8

LEMMA TerminalEnds ==
    ASSUME IInv, TypeOK', NEW t \in Terminals, NEW w \in Hearers(t), NEW status \in Gone,
           task' = Heard(task, w, status), armed' \in {armed, [armed EXCEPT ![t] = Unarmed]},
           \A u \in Terminals \ {t} : terminal'[u] = terminal[u],
           \A k \in Tasks : astray[k] \subseteq astray'[k],
           UNCHANGED <<launch, sending, owed>>
    PROVE  IInv' /\ StopKept
<1> USE TaskRunAssumption
<1>1. task \in [Tasks -> TodoTasks] /\ status \in Statuses /\ status # "COMPLETED"
  BY DEF IInv, TypeOK, Statuses, Gone
<1>2. w \in Tasks \cup {None}
  BY HearersBound
<1>3. PICK b : b = Heard(task, w, status)
  OBVIOUS
<1>4. task' = b
  BY <1>3
<1>5. /\ \A k \in Tasks : Follows(task[k], b[k]) /\ b[k].stage = task[k].stage
      /\ \A k \in Tasks : task[k].exec = "stopped" => b[k].exec \in {"stopped", "failed"}
      /\ \A k \in Tasks : k # w => b[k] = task[k]
  BY <1>1, <1>2, <1>3, HeardOfTask
<1>6. \A u \in Terminals : /\ armed'[u].task \in {armed[u].task, None}
                           /\ u # t => armed'[u] = armed[u]
                           /\ armed'[u].started => armed'[u].task # None
  BY DEF IInv, TypeOK, Prepared, Unarmed
<1>7. ASSUME NEW k \in Tasks, Waits(k)', Sender(k)
      PROVE  Waits(k) /\ Sender(k)'
  <2>1. task[k].term = b[k].term /\ Waits(k)
    BY <1>4, <1>5, <1>7 DEF Waits, Runs, Follows
  <2>2. ASSUME NEW u \in Terminals, armed[u].task = k, task[k].term = u
        PROVE  armed'[u].task = k
    <3>1. CASE u = t
      BY <1>7, <2>2, <3>1, EndHeard DEF Waits, Runs
    <3> QED
      BY <1>6, <2>2, <3>1
  <2> QED
    BY <1>4, <1>7, <2>1, <2>2 DEF Sender
<1>8. \A k \in Tasks : /\ task'[k].term = task[k].term /\ task'[k].stage = task[k].stage
                       /\ Waits(k)' => Waits(k)
                       /\ task'[k].delivery = "delivered"
                            => task[k].delivery = "delivered" \/ task[k].stage = "completed"
  <2>1. \A k \in Tasks : "declined" \in astray[k] => "declined" \in astray'[k]
    OBVIOUS
  <2> QED
    BY <1>4, <1>5, <2>1 DEF Waits, Runs, Follows
<1>9. \A k \in Tasks : task'[k].delivery = "delivered" => task[k].delivery = "delivered"
  <2>1. b = task \/ (w \in Tasks /\ task[w].stage # "completed")
    BY <1>2, <1>3 DEF Heard
  <2> QED
    BY <1>4, <1>5, <1>8, <2>1
<1>10. \A j, k \in Tasks : Mates(j, k)' => Mates(j, k)
  BY <1>8 DEF Mates, Runs
<1>11. \A k \in Tasks : /\ astray[k] \subseteq astray'[k]
                        /\ task'[k].term \in {task[k].term, None}
                        /\ task'[k].stage \in {"todo", "deleted"} => task'[k].term = None
                        /\ Waits(k)' => Waits(k) /\ (Sender(k) => Sender(k)')
  BY <1>7, <1>8 DEF IInv, Placed
<1>12. Prepared' /\ Placed' /\ Writing' /\ Shared' /\ PromptHasSender' /\ Newest'
  BY <1>6, <1>9, <1>10, <1>11, Calm
<1>13. GoneEndsRun'
  <2> SUFFICES ASSUME NEW k \in Tasks, Runs(k)', task'[k].term # None, ~Alive(task[k].term)',
                      astray'[k] \cap {"joined", "declined", "late"} = {}
               PROVE  task'[k].exec \in {"failed", "stopped"} \/ launch' = k
    BY DEF GoneEndsRun, Runs
  <2>1. CASE task[k].term = t
    BY <2>1, EndHeard
  <2>2. CASE task[k].term # t
    <3>1. task'[k] = task[k] /\ task[k].term \in Terminals \ {t} /\ Runs(k)
      <4>1. k # w
        BY <2>2, HearersBound
      <4> QED
        BY <1>4, <1>5, <1>8, <2>2, <4>1 DEF IInv, TypeOK, TodoTasks, Runs
    <3>2. ~Alive(task[k].term)
      BY <3>1 DEF Alive, Exists
    <3> QED
      BY <3>1, <3>2 DEF IInv, GoneEndsRun, Runs
  <2> QED
    BY <2>1, <2>2
<1>14. StopKept
  BY <1>4, <1>5 DEF StopKept, Runs
<1> QED
  BY <1>12, <1>13, <1>14 DEF IInv

LEMMA TerminalGoesOn ==
    ASSUME IInv, TypeOK', NEW t \in Terminals, NEW w \in Hearers(t), NEW status \in Statuses \ Gone,
           task' \in {task, Heard(task, w, status)},
           \A u \in Terminals : /\ armed'[u].task = armed[u].task
                                /\ armed'[u].started => armed'[u].task # None,
           \A u \in Terminals \ {t} : terminal'[u] = terminal[u],
           Exists(t) => Alive(t)',
           ~Exists(t) => terminal' = terminal /\ (w # None => "late" \in astray'[w]),
           \A k \in Tasks : /\ astray[k] \subseteq astray'[k]
                            /\ task'[k].stage = "completed" /\ task[k].stage # "completed"
                               /\ k \in owed => "preempted" \in astray'[k],
           UNCHANGED <<launch, sending, owed>>
    PROVE  IInv' /\ StopKept
<1> USE TaskRunAssumption
<1>1. task \in [Tasks -> TodoTasks] /\ status \in Statuses
  BY DEF IInv, TypeOK
<1>2. w \in Tasks \cup {None}
  BY HearersBound
<1>3. PICK b : b \in {task, Heard(task, w, status)} /\ task' = b
  OBVIOUS
<1>4. /\ \A k \in Tasks : Follows(task[k], b[k])
      /\ \A k \in Tasks : task[k].exec = "stopped" => b[k].exec \in {"stopped", "failed"}
      /\ \A k \in Tasks : k # w => b[k] = task[k]
  <2>1. CASE b = task
    BY <1>1, <2>1 DEF Follows, TodoTasks
  <2>2. CASE b = Heard(task, w, status)
    BY <1>1, <1>2, <2>2, HeardOfTask
  <2> QED
    BY <1>3, <2>1, <2>2
<1>5. \A k \in Tasks : /\ task'[k].term = task[k].term
                       /\ Runs(k)' => Runs(k)
                       /\ Waits(k)' => Waits(k)
                       /\ task'[k].stage \in {"todo", "deleted"} => task'[k].stage = task[k].stage
  <2>1. \A k \in Tasks : "declined" \in astray[k] => "declined" \in astray'[k]
    OBVIOUS
  <2> QED
    BY <1>3, <1>4, <2>1 DEF Waits, Runs, Follows
<1>6. ASSUME NEW k \in Tasks, task'[k].delivery = "delivered", k \in owed
      PROVE  task[k].delivery = "delivered" \/ Excused(k)'
  <2>1. CASE task'[k] = task[k]
    BY <1>6, <2>1
  <2>2. CASE task'[k] # task[k]
    <3>1. b = Heard(task, w, status) /\ k = w /\ b # task
      BY <1>3, <1>4, <2>2
    <3>2. task[k].stage # "completed"
      BY <3>1 DEF Heard
    <3>3. task[k].delivery = "delivered" \/ task'[k].stage = "completed"
      BY <1>3, <1>4, <1>6 DEF Follows
    <3> QED
      BY <1>6, <3>2, <3>3 DEF Excused
  <2> QED
    BY <2>1, <2>2
<1>7. \A j, k \in Tasks : Mates(j, k)' => Mates(j, k)
  BY <1>5 DEF Mates
<1>8. ASSUME NEW k \in Tasks, Sender(k)
      PROVE  Sender(k)'
  BY <1>5, <1>8 DEF Sender
<1>9. \A k \in Tasks : /\ astray[k] \subseteq astray'[k]
                       /\ task'[k].term \in {task[k].term, None}
                       /\ task'[k].stage \in {"todo", "deleted"} => task'[k].term = None
                       /\ Waits(k)' => Waits(k) /\ (Sender(k) => Sender(k)')
                       /\ task'[k].delivery = "delivered" /\ k \in owed
                            => task[k].delivery = "delivered" \/ Excused(k)'
  BY <1>5, <1>6, <1>8 DEF IInv, Placed
<1>10. Prepared' /\ Placed' /\ Writing' /\ Shared' /\ PromptHasSender' /\ Newest'
  BY <1>7, <1>9, Calm
<1>11. GoneEndsRun'
  <2> SUFFICES ASSUME NEW k \in Tasks, Runs(k)', task'[k].term # None, ~Alive(task[k].term)',
                      astray'[k] \cap {"joined", "declined", "late"} = {}
               PROVE  task'[k].exec \in {"failed", "stopped"} \/ launch' = k
    BY <1>5 DEF GoneEndsRun, Runs
  <2> PICK u : u = task[k].term
    OBVIOUS
  <2>1. Runs(k) /\ u \in Terminals /\ task'[k].term = u /\ ~Alive(u)'
    BY <1>5 DEF IInv, TypeOK, TodoTasks
  <2>2. astray[k] \cap {"joined", "declined", "late"} = {}
    OBVIOUS
  <2>3. ~Alive(u)
    <3>1. CASE terminal' = terminal
      BY <2>1, <3>1 DEF Alive, Exists
    <3>2. CASE u # t
      BY <2>1, <3>2 DEF Alive, Exists
    <3> QED
      BY <2>1, <3>1, <3>2 DEF Alive
  <2>4. task'[k] = task[k]
    <3>1. CASE k = w
      <4>1. ~Exists(t)
        BY <2>1, <2>3, <3>1, HearersBound
      <4> QED
        BY <3>1, <4>1
    <3> QED
      BY <1>3, <1>4, <3>1
  <2> QED
    BY <2>1, <2>2, <2>3, <2>4 DEF IInv, GoneEndsRun, Runs
<1>12. StopKept
  BY <1>3, <1>4 DEF StopKept
<1> QED
  BY <1>10, <1>11, <1>12 DEF IInv

LEMMA SupersededHooks ==
    ASSUME NEW h \in Seq(Hooks)
    PROVE  [i \in DOMAIN h |-> Superseded(h[i])] \in Seq(Hooks)
<1>1. \A i \in DOMAIN h : Superseded(h[i]) \in Hooks
  <2> SUFFICES ASSUME NEW i \in DOMAIN h
               PROVE  Superseded(h[i]) \in Hooks
    OBVIOUS
  <2>1. h[i] \in Hooks
    OBVIOUS
  <2> QED
    BY <2>1 DEF Superseded, Hooks
<1>2. [i \in 1 .. Len(h) |-> Superseded(h[i])] \in Seq(Hooks)
  BY <1>1
<1> QED
  BY <1>2

LEMMA OvertakenHooks ==
    ASSUME hooks \in [Terminals -> Seq(Hooks)], NEW t \in Terminals
    PROVE  Overtaken(t) \in [Terminals -> Seq(Hooks)]
<1>1. PICK h : h = [i \in DOMAIN hooks[t] |-> Superseded(hooks[t][i])]
  OBVIOUS
<1>2. h \in Seq(Hooks)
  BY <1>1, SupersededHooks
<1>3. Overtaken(t) = [hooks EXCEPT ![t] = h]
  BY <1>1 DEF Overtaken
<1> QED
  BY <1>2, <1>3

LEMMA StatusShown ==
    ASSUME NEW shown \in [Terminals -> [status : Statuses \cup {"ABSENT"}, ended : BOOLEAN, starting : BOOLEAN]],
           NEW t \in Terminals, NEW status \in Statuses \cup {"ABSENT"},
           NEW z, z = [shown EXCEPT ![t].status = status]
    PROVE  /\ z \in [Terminals -> [status : Statuses \cup {"ABSENT"}, ended : BOOLEAN, starting : BOOLEAN]]
           /\ z[t].status = status /\ \A u \in Terminals \ {t} : z[u] = shown[u]
  OBVIOUS

LEMMA HeardTyped ==
    ASSUME TypeOK, NEW t \in Terminals, NEW w \in Hearers(t), NEW status \in Statuses
    PROVE  w \in Tasks \cup {None} /\ Heard(task, w, status) \in [Tasks -> TodoTasks]
<1>1. w \in Tasks \cup {None}
  BY DEF Hearers, Bound
<1> QED
  BY <1>1, HeardOfTask DEF TypeOK

LEMMA UnarmedTyped ==
    ASSUME armed \in [Terminals -> Startups], NEW t
    PROVE  [armed EXCEPT ![t] = Unarmed] \in [Terminals -> Startups]
  BY DEF Startups, Unarmed

(* RuntimeStarts and EscapeWritten.                                         *)
LEMMA StatusGiven ==
    ASSUME IInv, NEW t \in Terminals, NEW status \in {"RUNNING", "IDLE", "FAILED"},
           NEW shown \in [Terminals -> [status : Statuses \cup {"ABSENT"}, ended : BOOLEAN, starting : BOOLEAN]],
           \A u \in Terminals \ {t} : shown[u] = terminal[u],
           Exists(t), Announced(shown, t, status), escapes' \subseteq Terminals,
           UNCHANGED <<launch, sending, owed, astray, bounds>>
    PROVE  IInv' /\ StopKept
<1> USE TaskRunAssumption
<1>1. TypeOK /\ status \in Statuses
  BY DEF IInv, Statuses, Gone, Reusable
<1>2. PICK w \in Hearers(t) : task' = Heard(task, w, status)
  BY DEF Announced
<1>3. task' \in [Tasks -> TodoTasks]
  BY <1>1, <1>2, HeardTyped
<1>4. hooks' \in [Terminals -> Seq(Hooks)]
  BY <1>1, OvertakenHooks DEF Announced, TypeOK
<1>5. PICK z : z = [shown EXCEPT ![t].status = status]
  OBVIOUS
<1>6. /\ z \in [Terminals -> [status : Statuses \cup {"ABSENT"}, ended : BOOLEAN, starting : BOOLEAN]]
      /\ z[t].status = status /\ \A u \in Terminals \ {t} : z[u] = terminal[u]
  <2>1. status \in Statuses \cup {"ABSENT"}
    BY <1>1
  <2> QED
    BY <1>5, <2>1, StatusShown
<1>7. terminal' = z
  <2>1. terminal' = IF Exists(t) THEN [shown EXCEPT ![t].status = status] ELSE shown
    BY DEF Announced
  <2> QED
    BY <1>5, <2>1
<1>8. CASE status = "FAILED"
  <2>1. status \in Gone /\ armed' = [armed EXCEPT ![t] = Unarmed]
    BY <1>8 DEF Announced, Gone
  <2>2. armed' \in [Terminals -> Startups]
    BY <1>1, <2>1, UnarmedTyped DEF TypeOK
  <2>3. TypeOK'
    BY <1>1, <1>3, <1>4, <1>6, <1>7, <2>2 DEF TypeOK, bounds
  <2> QED
    BY <1>2, <1>6, <1>7, <2>1, <2>3, TerminalEnds
<1>9. CASE status # "FAILED"
  <2>1. status \notin Gone /\ status \in Statuses \ Gone /\ status # "COMPLETED" /\ status # "ABSENT"
    BY <1>1, <1>9 DEF Gone
  <2>2. armed' = IF armed[t].task # None THEN [armed EXCEPT ![t].started = TRUE] ELSE armed
    BY <1>9, <2>1 DEF Announced
  <2>3. /\ armed' \in [Terminals -> Startups]
        /\ \A u \in Terminals : /\ armed'[u].task = armed[u].task
                                /\ armed'[u].started => armed'[u].task # None
    <3>1. armed \in [Terminals -> Startups]
               /\ \A u \in Terminals : armed[u].started => armed[u].task # None
      BY DEF IInv, TypeOK, Prepared
    <3> QED
      BY <2>2, <3>1 DEF Startups
  <2>4. TypeOK'
    BY <1>1, <1>3, <1>4, <1>6, <1>7, <2>3 DEF TypeOK, bounds
  <2>5. Alive(t)'
    BY <1>6, <1>7, <2>1 DEF Alive, Exists
  <2>6. \A k \in Tasks : task'[k].stage = task[k].stage
    <3>1. PICK b : b = Heard(task, w, status)
      OBVIOUS
    <3>2. w \in Tasks \cup {None} /\ task \in [Tasks -> TodoTasks]
      BY <1>1, HeardTyped DEF TypeOK
    <3>3. \A k \in Tasks : b[k].stage = task[k].stage
      BY <1>1, <2>1, <3>1, <3>2, HeardOfTask
    <3> QED
      BY <1>2, <3>1, <3>3
  <2> QED
    BY <1>2, <1>6, <1>7, <2>1, <2>3, <2>4, <2>5, <2>6, TerminalGoesOn
<1> QED
  BY <1>8, <1>9

LEMMA PanelStep ==
    ASSUME IInv, UNCHANGED <<task, armed, launch, sending, owed, astray>>,
           terminal' \in [Terminals -> [status : Statuses \cup {"ABSENT"}, ended : BOOLEAN, starting : BOOLEAN]],
           \A u \in Terminals : terminal'[u].status = terminal[u].status,
           escapes' \subseteq Terminals, hooks' \in [Terminals -> Seq(Hooks)],
           bounds' \in Nat \X Nat \X Nat
    PROVE  IInv' /\ StopKept
<1>1. TypeOK'
  BY DEF IInv, TypeOK
<1>2. Prepared' /\ Placed' /\ Writing' /\ Newest'
  BY DEF IInv, Prepared, Placed, Writing, Newest, Bound, Excused
<1>3. Shared'
  BY DEF IInv, Shared, Mates, BothJoined, Runs
<1>4. GoneEndsRun'
  <2> SUFFICES ASSUME NEW k \in Tasks,
                      task[k].stage = "executing" /\ task[k].term # None,
                      ~Alive(task[k].term)',
                      astray[k] \cap {"joined", "declined", "late"} = {}
               PROVE  task[k].exec \in {"failed", "stopped"} \/ launch = k
    BY DEF GoneEndsRun
  <2>1. task[k].term \in Terminals
    BY DEF IInv, TypeOK, TodoTasks
  <2>2. ~Alive(task[k].term)
    BY <2>1 DEF Alive, Exists
  <2> QED
    BY <2>2 DEF IInv, GoneEndsRun
<1>5. PromptHasSender'
  BY DEF IInv, PromptHasSender
<1>6. StopKept
  BY DEF StopKept
<1> QED
  BY <1>1, <1>2, <1>3, <1>4, <1>5, <1>6 DEF IInv

LEMMA FrameStep ==
    ASSUME IInv, UNCHANGED <<task, terminal, armed, launch, sending, owed, astray>>,
           escapes' \subseteq Terminals, hooks' \in [Terminals -> Seq(Hooks)],
           bounds' \in Nat \X Nat \X Nat
    PROVE  IInv' /\ StopKept
<1>1. terminal \in [Terminals -> [status : Statuses \cup {"ABSENT"}, ended : BOOLEAN, starting : BOOLEAN]]
  BY DEF IInv, TypeOK
<1> QED
  BY <1>1, PanelStep

LEMMA RuntimeStartsStep ==
    ASSUME IInv, NEW t \in Terminals, RuntimeStarts(t)
    PROVE  IInv' /\ StopKept
<1>1. PICK shown : shown = [terminal EXCEPT ![t].starting = FALSE]
  OBVIOUS
<1>2. /\ UNCHANGED <<launch, sending, owed, astray, bounds>> /\ escapes' \subseteq Terminals
      /\ bounds' \in Nat \X Nat \X Nat
  BY DEF RuntimeStarts, Unsent, IInv, TypeOK
<1>3. /\ shown \in [Terminals -> [status : Statuses \cup {"ABSENT"}, ended : BOOLEAN, starting : BOOLEAN]]
      /\ \A u \in Terminals \ {t} : shown[u] = terminal[u]
      /\ \A u \in Terminals : shown[u].status = terminal[u].status
  BY <1>1 DEF IInv, TypeOK
<1>4. Exists(t)
  BY DEF RuntimeStarts
<1>5. CASE \E status \in {"RUNNING", "IDLE", "FAILED"} : Announced(shown, t, status)
  BY <1>2, <1>3, <1>4, <1>5, StatusGiven
<1>6. CASE terminal' = shown /\ UNCHANGED <<task, armed, hooks>>
  BY <1>2, <1>3, <1>6, PanelStep DEF IInv, TypeOK
<1> QED
  BY <1>1, <1>5, <1>6 DEF RuntimeStarts

LEMMA EscapeWrittenStep ==
    ASSUME IInv, NEW t \in Terminals, EscapeWritten(t)
    PROVE  IInv' /\ StopKept
<1>1. /\ UNCHANGED <<launch, sending, owed, astray, bounds>> /\ escapes' \subseteq Terminals
      /\ bounds' \in Nat \X Nat \X Nat
  BY DEF EscapeWritten, Unsent, IInv, TypeOK
<1>2. CASE UNCHANGED <<task, terminal, armed, hooks>>
  BY <1>1, <1>2, FrameStep DEF IInv, TypeOK
<1>3. CASE terminal[t].status \in Interruptible /\ TerminalStatus(t, "IDLE")
  <2>1. Exists(t)
    BY <1>3, TaskRunAssumption DEF Exists, Interruptible
  <2>2. PICK shown : shown = terminal
    OBVIOUS
  <2>3. /\ shown \in [Terminals -> [status : Statuses \cup {"ABSENT"}, ended : BOOLEAN, starting : BOOLEAN]]
        /\ \A u \in Terminals \ {t} : shown[u] = terminal[u]
        /\ Announced(shown, t, "IDLE")
    BY <1>3, <2>2 DEF IInv, TypeOK, TerminalStatus
  <2> QED
    BY <1>1, <2>1, <2>3, StatusGiven
<1> QED
  BY <1>2, <1>3 DEF EscapeWritten

LEMMA FireStep ==
    ASSUME IInv, NEW t \in Terminals, Fire(t)
    PROVE  IInv' /\ StopKept
<1>1. PICK event \in HookEvents : \E h : /\ h = [event |-> event, old |-> FALSE, early |-> {}]
                                        /\ hooks' = [hooks EXCEPT ![t] = Append(@, h)]
  BY DEF Fire
<1>2. PICK h : /\ h = [event |-> event, old |-> FALSE, early |-> {}]
               /\ hooks' = [hooks EXCEPT ![t] = Append(@, h)]
  BY <1>1
<1>3. h \in Hooks /\ hooks \in [Terminals -> Seq(Hooks)]
  BY <1>2, TaskRunAssumption DEF Hooks, IInv, TypeOK
<1>4. Append(hooks[t], h) \in Seq(Hooks)
  BY <1>3
<1>5. hooks' \in [Terminals -> Seq(Hooks)]
  BY <1>2, <1>3, <1>4
<1>6. /\ UNCHANGED <<task, terminal, armed, launch, sending, owed, astray>>
      /\ escapes' \subseteq Terminals /\ bounds' \in Nat \X Nat \X Nat
  BY DEF Fire, Unsent, IInv, TypeOK, bounds
<1> QED
  BY <1>5, <1>6, FrameStep

LEMMA CloseStep ==
    ASSUME IInv, NEW t \in Terminals, Close(t)
    PROVE  IInv' /\ StopKept
<1>1. PICK w \in Hearers(t) : task' = Heard(task, w, "STOPPED")
  BY DEF Close
<1>2. "STOPPED" \in Gone /\ "STOPPED" \in Statuses
  BY DEF Gone, Statuses
<1>3. TypeOK /\ armed' = [armed EXCEPT ![t] = Unarmed] /\ UNCHANGED <<launch, sending, owed, astray>>
  BY DEF Close, Unsent, IInv
<1>4. task' \in [Tasks -> TodoTasks]
  BY <1>1, <1>2, <1>3, HeardTyped
<1>5. /\ terminal' \in [Terminals -> [status : Statuses \cup {"ABSENT"}, ended : BOOLEAN, starting : BOOLEAN]]
      /\ \A u \in Terminals \ {t} : terminal'[u] = terminal[u]
  <2>1. PICK z : z = [terminal EXCEPT ![t].status = "ABSENT"]
    OBVIOUS
  <2>2. terminal \in [Terminals -> [status : Statuses \cup {"ABSENT"}, ended : BOOLEAN, starting : BOOLEAN]]
    BY <1>3 DEF TypeOK
  <2>3. terminal' = z
    BY <2>1 DEF Close
  <2>4. DEFINE absent == "ABSENT"
  <2> HIDE DEF absent
  <2>5. absent \in Statuses \cup {"ABSENT"} /\ z = [terminal EXCEPT ![t].status = absent]
    BY <2>1 DEF absent
  <2> QED
    BY <2>2, <2>3, <2>5, StatusShown
<1>6. armed' \in [Terminals -> Startups]
  BY <1>3, UnarmedTyped DEF TypeOK
<1>7. TypeOK'
  BY <1>3, <1>4, <1>5, <1>6 DEF TypeOK, bounds, Close, Upset
<1> QED
  BY <1>1, <1>2, <1>3, <1>5, <1>7, TerminalEnds

LEMMA ExitStep ==
    ASSUME IInv, NEW t \in Terminals, Exit(t)
    PROVE  IInv' /\ StopKept
<1>1. PICK status \in {"STOPPED", "FAILED"} :
        /\ terminal' = [terminal EXCEPT ![t].status = status, ![t].ended = TRUE]
        /\ \E w \in Hearers(t) : task' = Heard(task, w, status)
  BY DEF Exit
<1>2. PICK w \in Hearers(t) : task' = Heard(task, w, status)
  BY <1>1
<1>3. status \in Gone /\ status \in Statuses
  BY DEF Gone, Statuses
<1>4. TypeOK /\ armed' = [armed EXCEPT ![t] = Unarmed] /\ UNCHANGED <<launch, sending, owed, astray>>
  BY DEF Exit, Unsent, IInv
<1>5. task' \in [Tasks -> TodoTasks]
  BY <1>2, <1>3, <1>4, HeardTyped
<1>6. /\ terminal' \in [Terminals -> [status : Statuses \cup {"ABSENT"}, ended : BOOLEAN, starting : BOOLEAN]]
      /\ \A u \in Terminals \ {t} : terminal'[u] = terminal[u]
  BY <1>1, <1>3, <1>4 DEF TypeOK
<1>7. armed' \in [Terminals -> Startups]
  BY <1>4, UnarmedTyped DEF TypeOK
<1>8. hooks' \in [Terminals -> Seq(Hooks)]
  BY <1>4, OvertakenHooks DEF Exit, TypeOK
<1>9. bounds' \in Nat \X Nat \X Nat /\ escapes' = escapes
  BY <1>4 DEF TypeOK, bounds, Exit, Upset
<1>10. TypeOK'
  BY <1>4, <1>5, <1>6, <1>7, <1>8, <1>9 DEF TypeOK
<1> QED
  BY <1>2, <1>3, <1>4, <1>6, <1>10, TerminalEnds

(* What a taken event leaves in the spool's batch.                          *)
LEMMA RestOfHooks ==
    ASSUME NEW h \in Seq(Hooks), NEW i \in DOMAIN h
    PROVE  /\ RemoveAt(h, i) \in Seq(Hooks)
           /\ [j \in 1 .. Len(h) - 1 |-> IF j < i THEN Superseded(h[j]) ELSE h[j + 1]]
                \in Seq(Hooks)
<1>1. Len(h) \in Nat /\ i \in 1 .. Len(h) /\ \A j \in 1 .. Len(h) : h[j] \in Hooks
  OBVIOUS
<1>2. \A j \in 1 .. Len(h) : Superseded(h[j]) \in Hooks
  <2> SUFFICES ASSUME NEW j \in 1 .. Len(h)
               PROVE  Superseded(h[j]) \in Hooks
    OBVIOUS
  <2>1. h[j] \in Hooks
    BY <1>1
  <2> QED
    BY <2>1 DEF Superseded, Hooks
<1>3. RemoveAt(h, i) \in Seq(Hooks)
  BY <1>1 DEF RemoveAt
<1>4. PICK n : n = Len(h) - 1 /\ n \in Nat
  BY <1>1
<1>5. \A j \in 1 .. n : (IF j < i THEN Superseded(h[j]) ELSE h[j + 1]) \in Hooks
  <2> SUFFICES ASSUME NEW j \in 1 .. n
               PROVE  (IF j < i THEN Superseded(h[j]) ELSE h[j + 1]) \in Hooks
    OBVIOUS
  <2>1. j \in 1 .. Len(h) /\ j + 1 \in 1 .. Len(h)
    BY <1>1, <1>4
  <2> QED
    BY <1>1, <1>2, <2>1
<1>6. [j \in 1 .. n |-> IF j < i THEN Superseded(h[j]) ELSE h[j + 1]] \in Seq(Hooks)
  BY <1>4, <1>5
<1> QED
  BY <1>3, <1>4, <1>6

LEMMA StatusOfEvent ==
    ASSUME NEW e \in DOMAIN EventStatus
    PROVE  EventStatus[e] \in Statuses /\ EventStatus[e] # "ABSENT"
  BY DEF EventStatus, Statuses, Gone, Reusable, Interruptible

LEMMA ApplyStep ==
    ASSUME IInv, NEW t \in Terminals, NEW i \in DOMAIN hooks[t], Apply(t, i)
    PROVE  IInv' /\ StopKept
<1> USE TaskRunAssumption
<1>1. /\ TypeOK /\ hooks \in [Terminals -> Seq(Hooks)] /\ hooks[t] \in Seq(Hooks)
      /\ hooks[t][i] \in Hooks
  BY DEF IInv, TypeOK
<1>2. PICK h, r, o : /\ h = hooks[t][i] /\ r = RemoveAt(hooks[t], i)
                     /\ o = [j \in 1 .. Len(hooks[t]) - 1 |->
                               IF j < i THEN Superseded(hooks[t][j]) ELSE hooks[t][j + 1]]
  OBVIOUS
<1>3. r \in Seq(Hooks) /\ o \in Seq(Hooks)
  BY <1>1, <1>2, RestOfHooks
<1>4. hooks' \in {[hooks EXCEPT ![t] = r], [hooks EXCEPT ![t] = o]}
  BY <1>2 DEF Apply
<1>5. hooks' \in [Terminals -> Seq(Hooks)]
  BY <1>1, <1>3, <1>4
<1>6. /\ UNCHANGED <<armed, launch, sending, escapes, owed, bounds>>
      /\ bounds' \in Nat \X Nat \X Nat /\ escapes' \subseteq Terminals
  BY <1>1 DEF Apply, TypeOK
<1>7. CASE Ignored(t, h)
  BY <1>2, <1>5, <1>6, <1>7, FrameStep DEF Apply
<1>8. CASE ~Ignored(t, h)
  <2>1. PICK w \in Hearers(t) :
          /\ task' = IF w # None /\ ~FiredBeforeDelivery(w, h) THEN Heard(task, w, EventStatus[h.event])
                     ELSE task
          /\ astray' = [k \in Tasks |-> astray[k] \cup Preempted(k) \cup
                          {m \in {"late"} : k = w /\ ~Exists(t)}]
    BY <1>2, <1>8 DEF Apply
  <2>2. PICK status : status = EventStatus[h.event]
    OBVIOUS
  <2>3. status \in Statuses /\ status # "ABSENT"
    <3>1. h.event \in DOMAIN EventStatus
      BY <1>1, <1>2 DEF Hooks
    <3> QED
      BY <2>2, <3>1, StatusOfEvent
  <2>4. task' \in {task, Heard(task, w, status)} /\ task' \in [Tasks -> TodoTasks]
    BY <1>1, <2>1, <2>2, <2>3, HeardTyped DEF TypeOK
  <2>5. PICK z : z = [terminal EXCEPT ![t].status = status]
    OBVIOUS
  <2>6. /\ terminal \in [Terminals -> [status : Statuses \cup {"ABSENT"}, ended : BOOLEAN, starting : BOOLEAN]]
        /\ status \in Statuses \cup {"ABSENT"}
    BY <1>1, <2>3 DEF TypeOK
  <2>7. /\ z \in [Terminals -> [status : Statuses \cup {"ABSENT"}, ended : BOOLEAN, starting : BOOLEAN]]
        /\ z[t].status = status /\ \A u \in Terminals \ {t} : z[u] = terminal[u]
    BY <2>5, <2>6, StatusShown
  <2>8. terminal' = IF Exists(t) THEN z ELSE terminal
    BY <1>2, <1>8, <2>2, <2>5 DEF Apply
  <2>9. \A k \in Tasks : /\ astray[k] \subseteq astray'[k] /\ astray'[k] \subseteq Mishaps
                         /\ k = w /\ ~Exists(t) => "late" \in astray'[k]
                         /\ Preempted(k) \subseteq astray'[k]
    BY <1>1, <2>1 DEF TypeOK, Mishaps, Preempted
  <2>10. astray' \in [Tasks -> SUBSET Mishaps]
    <3>1. astray' = [k \in Tasks |-> astray'[k]]
      BY <2>1
    <3> QED
      BY <2>9, <3>1
  <2>11. TypeOK'
    BY <1>1, <1>5, <1>6, <2>4, <2>6, <2>7, <2>8, <2>10 DEF TypeOK
  <2>12. \A u \in Terminals : u # t => terminal'[u] = terminal[u]
    BY <2>7, <2>8
  <2>13. CASE status \in Gone
    <3>1. \A k \in Tasks : ~FiredBeforeDelivery(k, h)
      BY <2>2, <2>13 DEF FiredBeforeDelivery
    <3>2. task' = Heard(task, w, status)
      <4>1. CASE w = None
        BY <2>1, <4>1 DEF Heard
      <4> QED
        BY <1>1, <2>1, <2>2, <2>3, <3>1, <4>1, HeardTyped
    <3> QED
      BY <1>6, <2>9, <2>11, <2>12, <2>13, <3>2, TerminalEnds
  <2>14. CASE status \notin Gone
    <3>1. Exists(t) => Alive(t)'
      BY <2>3, <2>7, <2>8, <2>14 DEF Alive, Exists
    <3>2. ~Exists(t) => terminal' = terminal /\ (w # None => "late" \in astray'[w])
      BY <1>1, <2>3, <2>8, <2>9, HeardTyped
    <3>3. \A u \in Terminals : /\ armed'[u].task = armed[u].task
                               /\ armed'[u].started => armed'[u].task # None
      BY <1>6 DEF IInv, Prepared
    <3>4. \A k \in Tasks : /\ astray[k] \subseteq astray'[k]
                           /\ task'[k].stage = "completed" /\ task[k].stage # "completed"
                                /\ k \in owed => "preempted" \in astray'[k]
      BY <2>9 DEF Preempted
    <3> QED
      BY <1>6, <2>3, <2>4, <2>11, <2>12, <2>14, <3>1, <3>2, <3>3, <3>4, TerminalGoesOn
  <2> QED
    BY <2>13, <2>14
<1> QED
  BY <1>7, <1>8

-----------------------------------------------------------------------------
(* Windows that load.                                                       *)

LEMMA ReconciledTask ==
    ASSUME TypeOK, NEW shown \in [Terminals -> [status : Statuses \cup {"ABSENT"}, ended : BOOLEAN, starting : BOOLEAN]],
           NEW b, b = Reconciled(shown)
    PROVE  /\ b \in [Tasks -> TodoTasks]
           /\ \A k \in Tasks :
                /\ b[k].term = task[k].term
                /\ task[k].stage # "executing" => b[k] = task[k]
                /\ b[k].stage = task[k].stage
                     \/ (b[k].stage = "completed" /\ task[k].stage = "executing")
                /\ b[k].stage = "executing" => b[k].delivery \notin {"pending", "sending"}
                /\ b[k].delivery = "delivered" => task[k].delivery = "delivered"
                     \/ (b[k].stage = "completed" /\ task[k].stage = "executing")
                /\ b[k].stage = "executing" /\ b[k].term # None
                     /\ shown[b[k].term].status \in Gone \cup {"ABSENT"} => b[k].exec = "failed"
<1> USE TaskRunAssumption
<1>1. \A k \in Tasks : task[k] \in TodoTasks /\ task[k].term \in Terminals \cup {None}
  BY DEF TypeOK, TodoTasks
<1>2. b = [k \in Tasks |-> b[k]]
  BY DEF Reconciled
<1>3. ASSUME NEW k \in Tasks
      PROVE  /\ b[k] \in TodoTasks /\ b[k].term = task[k].term
             /\ task[k].stage # "executing" => b[k] = task[k]
             /\ b[k].stage = task[k].stage
                  \/ (b[k].stage = "completed" /\ task[k].stage = "executing")
             /\ b[k].stage = "executing" => b[k].delivery \notin {"pending", "sending"}
             /\ b[k].delivery = "delivered" => task[k].delivery = "delivered"
                  \/ (b[k].stage = "completed" /\ task[k].stage = "executing")
             /\ b[k].stage = "executing" /\ b[k].term # None
                  /\ shown[b[k].term].status \in Gone \cup {"ABSENT"} => b[k].exec = "failed"
  <2> DEFINE t == task[k].term
  <2>1. PICK status : status = IF t # None /\ shown[t].status # "ABSENT"
                               THEN shown[t].status ELSE "DISCONNECTED"
    OBVIOUS
  <2>2. status \in Statuses /\ (t # None /\ shown[t].status \in Gone \cup {"ABSENT"} => status \in Gone)
    BY <1>1, <2>1 DEF Statuses, Gone
  <2>3. PICK q : q = WithStatus(task[k], status)
    OBVIOUS
  <2>4. /\ q \in TodoTasks /\ q.term = t
        /\ q.stage = task[k].stage \/ q.stage = "completed"
        /\ q.delivery = "delivered" => task[k].delivery = "delivered" \/ q.stage = "completed"
        /\ status \in Gone => q.exec = "failed" /\ q.delivery \in {"delivered", "failed"}
        /\ q.exec = "failed" => status \in Gone
    BY <1>1, <2>2, <2>3, StatusOfTask
  <2>5. b[k] = IF task[k].stage # "executing" THEN task[k]
               ELSE IF q.exec # "failed" /\ q.delivery \in {"pending", "sending"}
                    THEN [q EXCEPT !.exec = "failed", !.delivery = "failed"]
                    ELSE q
    BY <2>1, <2>3 DEF Reconciled
  <2> HIDE DEF t
  <2>6. CASE task[k].stage # "executing"
    BY <1>1, <2>5, <2>6 DEF t
  <2>7. CASE /\ task[k].stage = "executing"
             /\ q.exec # "failed" /\ q.delivery \in {"pending", "sending"}
    <3>1. /\ b[k] \in TodoTasks /\ b[k].term = q.term /\ b[k].stage = q.stage
          /\ b[k].exec = "failed" /\ b[k].delivery = "failed"
      BY <2>4, <2>5, <2>7 DEF TodoTasks, Executions, Deliveries
    <3> QED
      BY <2>2, <2>4, <2>7, <3>1 DEF t
  <2>8. CASE /\ task[k].stage = "executing" /\ b[k] = q
             /\ ~(q.exec # "failed" /\ q.delivery \in {"pending", "sending"})
    BY <2>2, <2>4, <2>8 DEF t
  <2> QED
    BY <2>5, <2>6, <2>7, <2>8
<1> QED
  BY <1>2, <1>3

LEMMA Loaded ==
    ASSUME IInv, NEW shown \in [Terminals -> [status : Statuses \cup {"ABSENT"}, ended : BOOLEAN, starting : BOOLEAN]],
           terminal' = shown, task' = Reconciled(shown),
           astray' = [k \in Tasks |-> astray[k] \cup Preempted(k)],
           armed' \in [Terminals -> Startups],
           \A u \in Terminals : /\ armed'[u].task \in {armed[u].task, None}
                                /\ armed'[u].started => armed'[u].task # None,
           launch' \in {launch, None}, sending' \subseteq sending, owed' = owed,
           escapes' \subseteq escapes, hooks' \in [Terminals -> Seq(Hooks)],
           bounds' \in Nat \X Nat \X Nat
    PROVE  IInv'
<1> USE TaskRunAssumption
<1>1. TypeOK
  BY DEF IInv
<1>2. /\ task' \in [Tasks -> TodoTasks]
      /\ \A k \in Tasks :
           /\ task'[k].term = task[k].term
           /\ task[k].stage # "executing" => task'[k] = task[k]
           /\ task'[k].stage = task[k].stage
                \/ (task'[k].stage = "completed" /\ task[k].stage = "executing")
           /\ task'[k].stage = "executing" => task'[k].delivery \notin {"pending", "sending"}
           /\ task'[k].delivery = "delivered" => task[k].delivery = "delivered"
                \/ (task'[k].stage = "completed" /\ task[k].stage = "executing")
           /\ task'[k].stage = "executing" /\ task'[k].term # None
                /\ shown[task'[k].term].status \in Gone \cup {"ABSENT"} => task'[k].exec = "failed"
  <2>1. PICK b : b = Reconciled(shown)
    OBVIOUS
  <2> QED
    BY <1>1, <2>1, ReconciledTask
<1>3. \A k \in Tasks : /\ astray[k] \subseteq astray'[k] /\ astray'[k] \subseteq Mishaps
                       /\ Preempted(k) \subseteq astray'[k]
  BY <1>1 DEF TypeOK, Preempted, Mishaps
<1>4. astray' \in [Tasks -> SUBSET Mishaps]
  <2>1. astray' = [k \in Tasks |-> astray'[k]]
    OBVIOUS
  <2> QED
    BY <1>3, <2>1
<1>5. TypeOK'
  BY <1>1, <1>2, <1>4 DEF TypeOK
<1>6. \A k \in Tasks : ~Waits(k)' /\ (Runs(k)' => Runs(k))
  BY <1>2 DEF Waits, Runs
<1>7. \A j, k \in Tasks : Mates(j, k)' => Mates(j, k)
  BY <1>2, <1>6 DEF Mates
<1>8. ASSUME NEW k \in Tasks, task'[k].delivery = "delivered", k \in owed
      PROVE  task[k].delivery = "delivered" \/ Excused(k)'
  <2>1. CASE task'[k].stage = "completed" /\ task[k].stage = "executing"
    <3>1. "preempted" \in Preempted(k)
      BY <1>8, <2>1 DEF Preempted
    <3> QED
      BY <1>3, <3>1 DEF Excused
  <2> QED
    BY <1>2, <1>8, <2>1
<1>9. \A k \in Tasks : /\ astray[k] \subseteq astray'[k]
                       /\ task'[k].term \in {task[k].term, None}
                       /\ task'[k].stage \in {"todo", "deleted"} => task'[k].term = None
                       /\ Waits(k)' => Waits(k) /\ (Sender(k) => Sender(k)')
                       /\ task'[k].delivery = "delivered" /\ k \in owed
                            => task[k].delivery = "delivered" \/ Excused(k)'
  BY <1>2, <1>3, <1>6, <1>8 DEF IInv, Placed
<1>10. Prepared' /\ Placed' /\ Writing' /\ Shared' /\ PromptHasSender' /\ Newest'
  BY <1>5, <1>7, <1>9, Calm
<1>11. GoneEndsRun'
  <2> SUFFICES ASSUME NEW k \in Tasks, Runs(k)', task'[k].term # None, ~Alive(task[k].term)'
               PROVE  task'[k].exec = "failed"
    BY <1>2 DEF GoneEndsRun, Runs
  <2>1. task'[k].term = task[k].term /\ task[k].term \in Terminals
    BY <1>1, <1>2 DEF TypeOK, TodoTasks
  <2>2. shown[task'[k].term].status \in Gone \cup {"ABSENT"}
    BY <2>1 DEF Alive, Exists
  <2> QED
    BY <1>2, <2>2 DEF Runs
<1> QED
  BY <1>5, <1>10, <1>11 DEF IInv

(* The events of an adopted terminal that are recent enough.                *)
LEMMA CurrentHooks ==
    ASSUME NEW h \in Seq(Hooks)
    PROVE  [i \in DOMAIN h |-> Current(h[i])] \in Seq(Hooks)
<1>1. \A i \in DOMAIN h : Current(h[i]) \in Hooks
  <2> SUFFICES ASSUME NEW i \in DOMAIN h
               PROVE  Current(h[i]) \in Hooks
    OBVIOUS
  <2>1. h[i] \in Hooks
    OBVIOUS
  <2> QED
    BY <2>1 DEF Current, Hooks
<1>2. [i \in 1 .. Len(h) |-> Current(h[i])] \in Seq(Hooks)
  BY <1>1
<1> QED
  BY <1>2

LEMMA RecentHooks ==
    ASSUME NEW h \in Seq(Hooks), NEW n \in Nat, n > 0
    PROVE  Recent(h, n) \in Seq(Hooks)
<1>1. PICK r : r = SubSeq(h, n, Len(h))
  OBVIOUS
<1>2. r \in Seq(Hooks)
  BY <1>1
<1>3. Recent(h, n) = [i \in DOMAIN r |-> Current(r[i])]
  BY <1>1 DEF Recent
<1> QED
  BY <1>2, <1>3, CurrentHooks

LEMMA RestartStep ==
    ASSUME IInv, Restart
    PROVE  IInv'
<1>0. PICK live \in SUBSET {t \in Terminals : Exists(t) /\ ~terminal[t].ended} :
        \E since \in [{t \in live : hooks[t] # <<>>} -> 1 .. MaxHooks + 1] :
          LET shown == [t \in Terminals |->
                          IF t \in live
                          THEN [terminal[t] EXCEPT !.starting = terminal[t].status = "STARTING"]
                          ELSE IF Exists(t) THEN Launched ELSE terminal[t]]
          IN  /\ terminal' = shown /\ task' = Reconciled(shown)
              /\ hooks' = [t \in Terminals |->
                             IF t \in DOMAIN since THEN Recent(hooks[t], since[t]) ELSE <<>>]
  BY Zenon DEF Restart
<1>1. PICK since, shown :
        /\ since \in [{t \in live : hooks[t] # <<>>} -> 1 .. MaxHooks + 1]
        /\ shown = [t \in Terminals |->
                      IF t \in live
                      THEN [terminal[t] EXCEPT !.starting = terminal[t].status = "STARTING"]
                      ELSE IF Exists(t) THEN Launched ELSE terminal[t]]
        /\ terminal' = shown /\ task' = Reconciled(shown)
        /\ hooks' = [t \in Terminals |->
                       IF t \in DOMAIN since THEN Recent(hooks[t], since[t]) ELSE <<>>]
  BY <1>0
<1>2. shown \in [Terminals -> [status : Statuses \cup {"ABSENT"}, ended : BOOLEAN, starting : BOOLEAN]]
  BY <1>1 DEF IInv, TypeOK, Statuses, Launched
<1>3. /\ astray' = [k \in Tasks |-> astray[k] \cup Preempted(k)]
      /\ launch' = None /\ sending' = {} /\ escapes' = {} /\ owed' = owed
      /\ armed' = [t \in Terminals |-> Unarmed]
  BY DEF Restart
<1>4. /\ armed' \in [Terminals -> Startups]
      /\ \A u \in Terminals : armed'[u].task = None /\ ~armed'[u].started
  BY <1>3 DEF Unarmed, Startups
<1>5. hooks' \in [Terminals -> Seq(Hooks)]
  <2> SUFFICES ASSUME NEW t \in Terminals
               PROVE  hooks'[t] \in Seq(Hooks)
    BY <1>1
  <2>1. CASE t \notin DOMAIN since
    <3>1. <<>> \in Seq(Hooks)
      OBVIOUS
    <3> QED
      BY <1>1, <2>1, <3>1
  <2>2. CASE t \in DOMAIN since
    <3>1. PICK h, n : h = hooks[t] /\ n = since[t] /\ hooks'[t] = Recent(h, n)
      BY <1>1, <2>2
    <3>2. h \in Seq(Hooks) /\ n \in Nat /\ n > 0
      BY <1>1, <2>2, <3>1, TaskRunAssumption DEF IInv, TypeOK
    <3> QED
      BY <3>1, <3>2, RecentHooks
  <2> QED
    BY <2>1, <2>2
<1>6. bounds' \in Nat \X Nat \X Nat
  BY DEF IInv, TypeOK, Restart, Upset, bounds
<1> QED
  BY <1>1, <1>2, <1>3, <1>4, <1>5, <1>6, Loaded

LEMMA OtherLoadsStep ==
    ASSUME IInv, OtherLoads
    PROVE  IInv'
<1>1. PICK shown : shown = terminal
  OBVIOUS
<1>2. shown \in [Terminals -> [status : Statuses \cup {"ABSENT"}, ended : BOOLEAN, starting : BOOLEAN]]
  BY <1>1 DEF IInv, TypeOK
<1>3. /\ terminal' = shown /\ task' = Reconciled(shown)
      /\ astray' = [k \in Tasks |-> astray[k] \cup Preempted(k)]
      /\ UNCHANGED <<armed, launch, sending, escapes, hooks, owed>>
  BY <1>1 DEF OtherLoads, Elsewhere
<1>4. /\ armed' \in [Terminals -> Startups]
      /\ \A u \in Terminals : /\ armed'[u].task = armed[u].task
                              /\ armed'[u].started => armed'[u].task # None
  BY <1>3 DEF IInv, TypeOK, Prepared
<1>5. bounds' \in Nat \X Nat \X Nat /\ hooks' \in [Terminals -> Seq(Hooks)]
  BY <1>3 DEF IInv, TypeOK, OtherLoads, Upset, bounds
<1> QED
  BY <1>2, <1>3, <1>4, <1>5, Loaded

-----------------------------------------------------------------------------
(* Errors.                                                                  *)

(* b shows the error on k, if it is meant, and all else as before.          *)
Errs(b, k, t) ==
    /\ b \in [Tasks -> TodoTasks]
    /\ \A j \in Tasks \ {k} : b[j] = task[j]
    /\ b[k].term = task[k].term /\ b[k].attempts = task[k].attempts
    /\ ~Named(task, k, t) => b = task
    /\ Named(task, k, t) => /\ b[k].stage = "executing" /\ b[k].exec = "failed"
                            /\ b[k].delivery \in {"delivered", "failed"}
                            /\ b[k].delivery = "delivered" => task[k].delivery = "delivered"

LEMMA RunFails ==
    ASSUME IInv, NEW k \in Tasks, NEW t \in Terminals \cup {None},
           Errs(task', k, t),
           UNCHANGED <<terminal, escapes, hooks, owed>>, bounds' \in Nat \X Nat \X Nat,
           armed' \in [Terminals -> Startups], astray' \in [Tasks -> SUBSET Mishaps],
           launch' = launch \/ (launch = k /\ launch' = None /\ t = None),
           sending' \subseteq sending,
           \A u \in Terminals : /\ armed'[u].task \in {armed[u].task, None}
                                /\ armed'[u].started => armed'[u].task # None,
           \A j \in Tasks : /\ astray[j] \subseteq astray'[j]
                            /\ Waits(j) /\ (j # k \/ ~Named(task, k, t))
                                 => (Sender(j) => Sender(j)'),
           Named(task, k, t) /\ ~Runs(k) /\ launch # k =>
              \A j \in Tasks \ {k} :
                 /\ Runs(j) \/ launch = j
                 /\ task[j].term = task[k].term /\ task[k].term # None
                 => BothJoined(j, k)'
    PROVE  IInv' /\ StopKept
<1> USE TaskRunAssumption
<1>1. TypeOK
  BY DEF IInv
<1>2. /\ task' \in [Tasks -> TodoTasks]
      /\ \A j \in Tasks \ {k} : task'[j] = task[j]
      /\ task'[k].term = task[k].term /\ task'[k].attempts = task[k].attempts
      /\ ~Named(task, k, t) => task' = task
      /\ Named(task, k, t) => /\ task'[k].stage = "executing" /\ task'[k].exec = "failed"
                              /\ task'[k].delivery \in {"delivered", "failed"}
                              /\ task'[k].delivery = "delivered" => task[k].delivery = "delivered"
  BY DEF Errs
<1>3. TypeOK'
  BY <1>1, <1>2 DEF TypeOK
<1>4. launch' \in {launch, None}
  OBVIOUS
<1>5. ASSUME NEW j \in Tasks, Waits(j)'
      PROVE  Waits(j) /\ (Sender(j) => Sender(j)')
  <2>1. j # k \/ ~Named(task, k, t)
    BY <1>2, <1>5 DEF Waits
  <2>2. task'[j] = task[j]
    BY <1>2, <2>1
  <2>3. "declined" \in astray[j] => "declined" \in astray'[j]
    OBVIOUS
  <2> QED
    BY <1>5, <2>1, <2>2, <2>3 DEF Waits, Runs
<1>6. ASSUME NEW i \in Tasks, NEW j \in Tasks, Mates(i, j)'
      PROVE  Mates(i, j) \/ Mates(j, i) \/ BothJoined(i, j)'
  <2>1. /\ task'[i].term = task[i].term /\ task'[j].term = task[j].term
        /\ \A x \in Tasks : Runs(x)' => Runs(x) \/ (x = k /\ Named(task, k, t))
    BY <1>2 DEF Runs
  <2>2. i # j /\ Runs(i)' /\ (Runs(j)' \/ launch = j)
        /\ task[i].term = task[j].term /\ task[i].term # None
    BY <1>4, <1>6, <2>1 DEF Mates
  <2>3. CASE Runs(i) /\ (Runs(j) \/ launch = j)
    BY <2>2, <2>3 DEF Mates
  <2>4. CASE Runs(i) /\ ~Runs(j) /\ launch # j
    BY <2>1, <2>2, <2>4
  <2>5. CASE ~Runs(i)
    <3>1. i = k /\ Named(task, k, t) /\ (Runs(j) \/ launch = j)
      BY <2>1, <2>2, <2>5
    <3>2. CASE launch = k
      BY <2>2, <2>5, <3>1, <3>2 DEF Mates
    <3>3. CASE launch # k
      <4>1. BothJoined(j, k)'
        BY <2>2, <2>5, <3>1, <3>3
      <4> QED
        BY <3>1, <4>1 DEF BothJoined
    <3> QED
      BY <3>2, <3>3
  <2> QED
    BY <2>3, <2>4, <2>5
<1>7. \A j \in Tasks :
        /\ task'[j].term = task[j].term
        /\ task'[j].stage \in {"todo", "deleted"} => task'[j].stage = task[j].stage
        /\ task'[j].delivery = "delivered" => task[j].delivery = "delivered"
  <2> TAKE j \in Tasks
  <2>1. CASE j # k \/ ~Named(task, k, t)
    BY <1>2, <2>1
  <2>2. CASE j = k /\ Named(task, k, t)
    BY <1>2, <2>2
  <2> QED
    BY <2>1, <2>2
<1>8. \A j \in Tasks : /\ astray[j] \subseteq astray'[j]
                       /\ task'[j].term \in {task[j].term, None}
                       /\ task'[j].stage \in {"todo", "deleted"} => task'[j].term = None
                       /\ Waits(j)' => Waits(j) /\ (Sender(j) => Sender(j)')
                       /\ task'[j].delivery = "delivered" /\ j \in owed
                            => task[j].delivery = "delivered" \/ Excused(j)'
  BY <1>5, <1>7 DEF IInv, Placed
<1>9. Prepared' /\ Placed' /\ Writing' /\ Shared' /\ PromptHasSender' /\ Newest'
  BY <1>3, <1>4, <1>6, <1>8, Calm
<1>10. GoneEndsRun'
  <2> SUFFICES ASSUME NEW j \in Tasks, Runs(j)', task'[j].term # None, ~Alive(task[j].term)',
                      astray'[j] \cap {"joined", "declined", "late"} = {}
               PROVE  task'[j].exec \in {"failed", "stopped"} \/ launch' = j
    BY <1>7 DEF GoneEndsRun, Runs
  <2>1. CASE j = k /\ Named(task, k, t)
    BY <1>2, <2>1
  <2>2. CASE j # k \/ ~Named(task, k, t)
    <3>1. task'[j] = task[j] /\ Runs(j)
      BY <1>2, <2>2 DEF Runs
    <3>2. ~Alive(task[j].term) /\ astray[j] \cap {"joined", "declined", "late"} = {}
      BY <3>1 DEF Alive, Exists
    <3>3. launch = j => launch' = j
      BY <2>2, <3>1 DEF Named, Runs
    <3> QED
      BY <3>1, <3>2, <3>3 DEF IInv, GoneEndsRun, Runs
  <2> QED
    BY <2>1, <2>2
<1>11. StopKept
  <2> SUFFICES ASSUME NEW j \in Tasks, task[j].exec = "stopped"
               PROVE  task'[j].exec \in {"stopped", "failed"}
    BY DEF StopKept
  <2> QED
    BY <1>2
<1> QED
  BY <1>3, <1>9, <1>10, <1>11 DEF IInv

LEMMA ErrorStep ==
    ASSUME IInv, NEW k \in Tasks, NEW t \in Terminals \cup {None},
           task' = WithError(task, k, t),
           UNCHANGED <<terminal, escapes, hooks, owed>>, bounds' \in Nat \X Nat \X Nat,
           armed' \in [Terminals -> Startups], astray' \in [Tasks -> SUBSET Mishaps],
           launch' = launch \/ (launch = k /\ launch' = None /\ t = None),
           sending' \subseteq sending,
           \A u \in Terminals : /\ armed'[u].task \in {armed[u].task, None}
                                /\ armed'[u].started => armed'[u].task # None,
           \A j \in Tasks : /\ astray[j] \subseteq astray'[j]
                            /\ Waits(j) /\ (j # k \/ ~Named(task, k, t))
                                 => (Sender(j) => Sender(j)'),
           Named(task, k, t) /\ ~Runs(k) /\ launch # k =>
              \A j \in Tasks \ {k} :
                 /\ Runs(j) \/ launch = j
                 /\ task[j].term = task[k].term /\ task[k].term # None
                 => BothJoined(j, k)'
    PROVE  IInv' /\ StopKept
<1>1. task \in [Tasks -> TodoTasks]
  BY DEF IInv, TypeOK
<1>2. PICK b : b = WithError(task, k, t)
  OBVIOUS
<1>3. Errs(b, k, t)
  BY <1>1, <1>2, ErrorOfTask DEF Errs
<1> QED
  BY <1>2, <1>3, RunFails

LEMMA StartedTypes ==
    ASSUME TypeOK
    PROVE  /\ task \in [Tasks -> TodoTasks] /\ armed \in [Terminals -> Startups]
           /\ launch \in Tasks \cup {None} /\ astray \in [Tasks -> SUBSET Mishaps]
           /\ bounds \in Nat \X Nat \X Nat
           /\ \A k \in Tasks : task[k].term \in Terminals \cup {None}
           /\ \A t \in Terminals : armed[t].task \in Tasks \cup {None}
           /\ \A s \in sending : s \in Sendings /\ s.task \in Tasks /\ s.term \in Terminals
  BY DEF TypeOK, TodoTasks, Startups, Sendings

LEMMA RefusedStep ==
    ASSUME IInv, NEW k \in Tasks, task[k].stage \in {"todo", "executing"}, Refused(k),
           bounds' \in Nat \X Nat \X Nat
    PROVE  IInv' /\ StopKept
<1>1. TypeOK /\ Prepared /\ Placed
  BY DEF IInv
<1>2. /\ task' = WithError(task, k, None)
      /\ UNCHANGED <<terminal, armed, launch, sending, escapes, hooks, owed, astray>>
  BY DEF Refused, Unsent, Elsewhere
<1>3. \A j \in Tasks : task'[j].term = task[j].term
  <2>1. PICK b : b = WithError(task, k, None)
    OBVIOUS
  <2> QED
    BY <1>1, <1>2, <2>1, StartedTypes, ErrorOfTask
<1>4. \A j \in Tasks : Sender(j) => Sender(j)'
  BY <1>2, <1>3 DEF Sender
<1>5. \A u \in Terminals : armed'[u].task = armed[u].task /\ (armed'[u].started => armed'[u].task # None)
  BY <1>1, <1>2 DEF Prepared
<1>6. ~Runs(k) => task[k].term = None
  BY <1>1 DEF Runs, Placed
<1> QED
  BY <1>1, <1>2, <1>4, <1>5, <1>6, StartedTypes, ErrorStep

LEMMA LaunchFailsStep ==
    ASSUME IInv, LaunchFails
    PROVE  IInv' /\ StopKept
<1>1. TypeOK /\ Prepared
  BY DEF IInv
<1>2. PICK k \in Tasks : k = launch
  BY <1>1, StartedTypes DEF LaunchFails
<1>3. /\ task' = WithError(task, k, None) /\ launch' = None
      /\ UNCHANGED <<terminal, armed, sending, escapes, hooks, owed, astray, bounds>>
  BY <1>2 DEF LaunchFails, Unsent
<1>4. \A j \in Tasks : task'[j].term = task[j].term
  <2>1. PICK b : b = WithError(task, k, None)
    OBVIOUS
  <2> QED
    BY <1>1, <1>3, <2>1, StartedTypes, ErrorOfTask
<1>5. \A j \in Tasks : Waits(j) /\ (j # k \/ ~Named(task, k, None)) => j # k
  BY DEF Waits, Runs, Named
<1>6. \A j \in Tasks : j # k => (Sender(j) => Sender(j)')
  BY <1>2, <1>3, <1>4 DEF Sender
<1>7. \A u \in Terminals : armed'[u].task = armed[u].task /\ (armed'[u].started => armed'[u].task # None)
  BY <1>1, <1>3 DEF Prepared
<1> QED
  BY <1>1, <1>2, <1>3, <1>5, <1>6, <1>7, StartedTypes, ErrorStep

LEMMA ConfirmationFailsStep ==
    ASSUME IInv, NEW t \in Terminals, ConfirmationFails(t)
    PROVE  IInv' /\ StopKept
<1>1. TypeOK /\ Prepared
  BY DEF IInv
<1>2. PICK k \in Tasks : k = armed[t].task
  BY <1>1, StartedTypes DEF ConfirmationFails, Prepared
<1>3. /\ task' = WithError(task, k, t) /\ armed' = [armed EXCEPT ![t] = Unarmed]
      /\ UNCHANGED <<terminal, launch, sending, escapes, hooks, owed, astray, bounds>>
  BY <1>2 DEF ConfirmationFails, Unsent
<1>4. \A j \in Tasks : task'[j].term = task[j].term
  <2>1. PICK b : b = WithError(task, k, t)
    OBVIOUS
  <2> QED
    BY <1>1, <1>3, <2>1, StartedTypes, ErrorOfTask
<1>5. /\ armed' \in [Terminals -> Startups]
      /\ \A u \in Terminals : u # t => armed'[u] = armed[u]
      /\ armed'[t].task = None /\ ~armed'[t].started
  BY <1>1, <1>3, UnarmedTyped, StartedTypes DEF Unarmed
<1>6. \A j \in Tasks : Waits(j) /\ (j # k \/ ~Named(task, k, t)) => ~(armed[t].task = j /\ task[j].term = t)
  BY <1>2 DEF Waits, Runs, Named
<1>7. ASSUME NEW j \in Tasks, ~(armed[t].task = j /\ task[j].term = t), Sender(j)
      PROVE  Sender(j)'
  BY <1>3, <1>4, <1>5, <1>7 DEF Sender
<1>8. Named(task, k, t) => \A j \in Tasks \ {k} : task[j].term # task[k].term
  BY <1>1, <1>2, TaskRunAssumption DEF Prepared, Named, Bound
<1>9. \A u \in Terminals : /\ armed'[u].task \in {armed[u].task, None}
                           /\ armed'[u].started => armed'[u].task # None
  BY <1>1, <1>5 DEF Prepared
<1> QED
  BY <1>1, <1>3, <1>5, <1>6, <1>7, <1>8, <1>9, StartedTypes, ErrorStep

LEMMA ReleasedTyped ==
    ASSUME IInv, NEW s \in sending
    PROVE  /\ Released(s) \in [Terminals -> Startups]
           /\ \A u \in Terminals :
                /\ Released(s)[u].task \in {armed[u].task, None}
                /\ Released(s)[u].started => Released(s)[u].task # None
                /\ Released(s)[u].task # armed[u].task => u = s.term /\ armed[u].task = s.task
<1> USE TaskRunAssumption
<1>1. TypeOK /\ Prepared /\ Writing
  BY DEF IInv
<1>2. /\ armed \in [Terminals -> Startups]
      /\ s.term \in Terminals
      /\ \A u \in Terminals : armed[u].started => armed[u].task # None
      /\ ~s.direct => armed[s.term].task \in {None, s.task}
  BY <1>1, StartedTypes DEF Prepared, Writing
<1>3. [armed EXCEPT ![s.term] = Unarmed] \in [Terminals -> Startups]
  BY <1>2, UnarmedTyped
<1>4. \A u \in Terminals : [armed EXCEPT ![s.term] = Unarmed][u] = IF u = s.term THEN Unarmed ELSE armed[u]
  BY <1>2
<1>5. CASE s.direct
  BY <1>2, <1>5 DEF Released
<1>6. CASE ~s.direct
  BY <1>2, <1>3, <1>4, <1>6 DEF Released, Unarmed
<1> QED
  BY <1>5, <1>6

LEMMA JoinedTyped ==
    ASSUME TypeOK, NEW k \in Tasks, NEW t
    PROVE  /\ Joined(k, t) \in [Tasks -> SUBSET Mishaps]
           /\ \A j \in Tasks : astray[j] \subseteq Joined(k, t)[j]
           /\ \A j \in Tasks \ {k} : Runs(j) /\ task[j].term = t
                => "joined" \in Joined(k, t)[j] /\ "joined" \in Joined(k, t)[k]
<1>1. PICK z : z = Joined(k, t)
  OBVIOUS
<1>2. /\ z = [j \in Tasks |-> z[j]]
      /\ \A j \in Tasks : z[j] = astray[j] \cup {m \in {"joined"} : Met(k, t) # {} /\ j \in Met(k, t) \cup {k}}
  BY <1>1 DEF Joined
<1>3. \A j \in Tasks : z[j] \subseteq Mishaps
  BY <1>2 DEF TypeOK, Mishaps
<1>4. \A j \in Tasks \ {k} : Runs(j) /\ task[j].term = t => "joined" \in z[j] /\ "joined" \in z[k]
  BY <1>2 DEF Met, Runs
<1>5. z \in [Tasks -> SUBSET Mishaps]
  BY <1>2, <1>3
<1> QED
  BY <1>1, <1>2, <1>4, <1>5

-----------------------------------------------------------------------------
(* Prompts being written.                                                   *)

LEMMA SendFailsStep ==
    ASSUME IInv, NEW s \in sending, SendFails(s)
    PROVE  IInv' /\ StopKept
<1> USE TaskRunAssumption
<1>1. TypeOK /\ Placed /\ Writing
  BY DEF IInv
<1>2. PICK k \in Tasks, t \in Terminals : k = s.task /\ t = s.term
  BY <1>1, StartedTypes
<1>3. /\ task' = WithError(task, k, t) /\ armed' = Released(s) /\ sending' = sending \ {s}
      /\ astray' = IF task[k].term = t /\ task[k].stage # "executing" THEN Joined(k, t) ELSE astray
      /\ UNCHANGED <<terminal, launch, escapes, hooks, owed, bounds>>
  BY <1>2 DEF SendFails
<1>4. \A j \in Tasks : task'[j].term = task[j].term
  <2>1. PICK b : b = WithError(task, k, t)
    OBVIOUS
  <2> QED
    BY <1>1, <1>3, <2>1, StartedTypes, ErrorOfTask
<1>5. PICK r : r = Released(s)
  OBVIOUS
<1>6. /\ r \in [Terminals -> Startups]
      /\ \A u \in Terminals :
           /\ r[u].task \in {armed[u].task, None}
           /\ r[u].started => r[u].task # None
           /\ r[u].task # armed[u].task => u = t /\ armed[u].task = k
  BY <1>2, <1>5, ReleasedTyped
<1>7. /\ astray' \in [Tasks -> SUBSET Mishaps]
      /\ \A j \in Tasks : astray[j] \subseteq astray'[j]
  BY <1>1, <1>3, JoinedTyped, StartedTypes
<1>8. ASSUME NEW j \in Tasks, Waits(j), j # k \/ ~Named(task, k, t), Sender(j)
      PROVE  Sender(j)'
  <2>1. ~(j = k /\ task[j].term = t)
    BY <1>8 DEF Waits, Runs, Named
  <2>2. ASSUME NEW u \in Terminals, armed[u].task = j, task[j].term = u
        PROVE  armed'[u].task = j
    BY <1>3, <1>5, <1>6, <2>1, <2>2
  <2>3. ASSUME NEW p \in sending, p.task = j, p.term = task[j].term
        PROVE  p \in sending'
    BY <1>2, <1>3, <2>1, <2>3
  <2> QED
    BY <1>3, <1>4, <1>8, <2>2, <2>3 DEF Sender
<1>9. ASSUME Named(task, k, t), ~Runs(k), NEW j \in Tasks \ {k}, Runs(j) \/ launch = j,
             task[j].term = task[k].term
      PROVE  BothJoined(j, k)'
  <2>1. task[k].term = t
    BY <1>9 DEF Named
  <2>2. Runs(j)
    <3> SUFFICES ASSUME launch = j
                 PROVE  FALSE
      BY <1>9
    <3>1. ~s.direct
      BY <1>1 DEF Writing
    <3>2. t \notin Open
      BY <1>1, <1>2, <3>1 DEF Writing
    <3> QED
      BY <1>1, <1>9, <2>1, <3>2 DEF Placed, Bound
  <2>3. astray' = Joined(k, t)
    BY <1>3, <1>9, <2>1 DEF Runs
  <2> QED
    BY <1>1, <1>9, <2>1, <2>2, <2>3, JoinedTyped DEF BothJoined
<1>10. sending' \subseteq sending /\ bounds' \in Nat \X Nat \X Nat
  BY <1>1, <1>3, StartedTypes
<1>11. /\ armed' \in [Terminals -> Startups]
       /\ \A u \in Terminals : /\ armed'[u].task \in {armed[u].task, None}
                               /\ armed'[u].started => armed'[u].task # None
  BY <1>3, <1>5, <1>6
<1> QED
  BY <1>3, <1>7, <1>8, <1>9, <1>10, <1>11, ErrorStep

LEMMA WriteEnterStep ==
    ASSUME IInv, NEW s \in sending, WriteEnter(s)
    PROVE  IInv' /\ StopKept
<1>1. TypeOK /\ Newest /\ Writing
  BY DEF IInv
<1>2. PICK e : e = [s EXCEPT !.step = "confirm"]
  OBVIOUS
<1>3. s \in Sendings
  BY <1>1, StartedTypes
<1>4. /\ e \in Sendings /\ e.task = s.task /\ e.term = s.term /\ e.direct = s.direct
      /\ e.newest = s.newest /\ e.step = "confirm"
  BY <1>2, <1>3 DEF Sendings
<1>5. /\ sending' = (sending \ {s}) \cup {e} /\ s.step = "text"
      /\ owed' = IF s.newest THEN owed \ {s.task} ELSE owed
      /\ UNCHANGED <<task, terminal, armed, launch, escapes, hooks, astray, bounds>>
  BY <1>2 DEF WriteEnter
<1>6. TypeOK'
  BY <1>1, <1>4, <1>5 DEF TypeOK
<1>7. Prepared' /\ Placed' /\ Shared' /\ GoneEndsRun'
  BY <1>5 DEF IInv, Prepared, Placed, Bound, Shared, Mates, BothJoined, Runs, GoneEndsRun, Alive, Exists
<1>8. Writing'
  BY <1>1, <1>4, <1>5 DEF Writing
<1>9. PromptHasSender'
  <2> SUFFICES ASSUME NEW k \in Tasks, Waits(k)'
               PROVE  Sender(k)'
    BY DEF PromptHasSender, Waits, Runs, Sender
  <2>1. Sender(k)
    BY <1>5 DEF IInv, PromptHasSender, Waits, Runs, Sender
  <2> QED
    BY <1>4, <1>5, <2>1 DEF Sender
<1>10. Newest'
  <2>1. ASSUME NEW p \in sending'
        PROVE  /\ p.newest /\ p.step = "confirm" => p.task \notin owed'
               /\ ~p.newest /\ p.term = task'[p.task].term => "overlapped" \in astray'[p.task]
    BY <1>1, <1>4, <1>5, <2>1 DEF Newest
  <2>2. ASSUME NEW k \in Tasks, task'[k].delivery = "delivered", k \in owed'
        PROVE  Excused(k)'
    BY <1>1, <1>5, <2>2 DEF Newest, Excused
  <2> QED
    BY <2>1, <2>2 DEF Newest
<1>11. StopKept
  BY <1>5 DEF StopKept
<1> QED
  BY <1>6, <1>7, <1>8, <1>9, <1>10, <1>11 DEF IInv

LEMMA SubmitStep ==
    ASSUME IInv, NEW t \in Terminals, Submit(t)
    PROVE  IInv' /\ StopKept
<1> USE TaskRunAssumption
<1>1. TypeOK /\ Newest /\ Writing /\ Prepared
  BY DEF IInv
<1>2. PICK k \in Tasks : k = armed[t].task
  BY <1>1, StartedTypes DEF Submit, Prepared
<1>3. t \notin Open /\ Bound(t) \subseteq {k}
  BY <1>1, <1>2 DEF Prepared
<1>4. UNCHANGED <<terminal, launch, escapes, hooks, owed, astray, bounds>>
  BY DEF Submit
<1>5. CASE task[k].term = t
  <2>1. PICK e : e = [Sending(k, t, FALSE) EXCEPT !.newest = "overlapped" \notin astray[k]]
    OBVIOUS
  <2>2. /\ e \in Sendings /\ e.task = k /\ e.term = t /\ ~e.direct /\ e.step = "text"
        /\ ~e.newest => "overlapped" \in astray[k]
    BY <2>1 DEF Sending, Sendings
  <2>3. /\ task' = [task EXCEPT ![k].delivery = "sending"] /\ sending' = sending \cup {e}
        /\ armed' = [armed EXCEPT ![t].submitting = TRUE]
    BY <1>2, <1>5, <2>1 DEF Submit
  <2>4. /\ task' \in [Tasks -> TodoTasks] /\ task'[k].delivery = "sending"
        /\ \A j \in Tasks : /\ task'[j].term = task[j].term /\ task'[j].stage = task[j].stage
                            /\ task'[j].exec = task[j].exec /\ (j # k => task'[j] = task[j])
    BY <1>1, <2>3, StartedTypes DEF TodoTasks, Deliveries
  <2>5. /\ armed' \in [Terminals -> Startups]
        /\ \A u \in Terminals : /\ armed'[u].task = armed[u].task
                                /\ armed'[u].started => armed'[u].task # None
    <3>1. armed \in [Terminals -> Startups] /\ \A u \in Terminals : armed[u].started => armed[u].task # None
      BY <1>1 DEF TypeOK, Prepared
    <3> QED
      BY <2>3, <3>1 DEF Startups
  <2>6. TypeOK'
    BY <1>1, <1>4, <2>2, <2>3, <2>4, <2>5 DEF TypeOK
  <2>7. Prepared' /\ Placed' /\ Shared'
    BY <1>4, <2>4, <2>5 DEF IInv, Prepared, Placed, Bound, Shared, Mates, BothJoined, Runs
  <2>8. GoneEndsRun'
    BY <1>4, <2>4 DEF IInv, GoneEndsRun, Alive, Exists
  <2>9. Writing'
    BY <1>1, <1>2, <1>3, <1>4, <2>2, <2>3, <2>5 DEF Writing
  <2>10. PromptHasSender'
    <3> SUFFICES ASSUME NEW j \in Tasks, Waits(j)'
                 PROVE  Sender(j)'
      BY DEF PromptHasSender, Waits, Runs, Sender
    <3>1. CASE j = k
      BY <1>5, <2>2, <2>3, <2>4, <3>1 DEF Sender
    <3>2. CASE j # k
      <4>1. Sender(j)
        BY <1>4, <2>4, <3>2 DEF IInv, PromptHasSender, Waits, Runs, Sender
      <4> QED
        BY <1>4, <2>3, <2>4, <2>5, <4>1 DEF Sender
    <3> QED
      BY <3>1, <3>2
  <2>11. Newest'
    <3>1. ASSUME NEW p \in sending'
          PROVE  /\ p.newest /\ p.step = "confirm" => p.task \notin owed'
                 /\ ~p.newest /\ p.term = task'[p.task].term => "overlapped" \in astray'[p.task]
      <4>1. CASE p = e
        BY <1>4, <2>2, <4>1
      <4>2. CASE p \in sending
        BY <1>1, <1>4, <2>4, <4>2, StartedTypes DEF Newest
      <4> QED
        BY <2>3, <4>1, <4>2
    <3>2. ASSUME NEW j \in Tasks, task'[j].delivery = "delivered", j \in owed'
          PROVE  Excused(j)'
      BY <1>1, <1>4, <2>4, <3>2 DEF Newest, Excused
    <3> QED
      BY <3>1, <3>2 DEF Newest
  <2>12. StopKept
    BY <2>4 DEF StopKept
  <2> QED
    BY <2>6, <2>7, <2>8, <2>9, <2>10, <2>11, <2>12 DEF IInv
<1>6. CASE task[k].term # t
  <2>1. armed' = [armed EXCEPT ![t] = Unarmed] /\ UNCHANGED <<task, sending>>
    BY <1>2, <1>6 DEF Submit
  <2>2. /\ armed' \in [Terminals -> Startups]
        /\ \A u \in Terminals : u # t => armed'[u] = armed[u]
        /\ armed'[t].task = None /\ ~armed'[t].started
    BY <1>1, <2>1, UnarmedTyped, StartedTypes DEF Unarmed
  <2>3. TypeOK'
    BY <1>1, <1>4, <2>1, <2>2 DEF TypeOK
  <2>4. Prepared' /\ Writing'
    BY <1>1, <1>4, <2>1, <2>2 DEF Prepared, Writing, Bound
  <2>5. Placed' /\ Shared' /\ GoneEndsRun' /\ Newest'
    BY <1>4, <2>1 DEF IInv, Placed, Bound, Shared, Mates, BothJoined, Runs, GoneEndsRun, Alive, Exists,
       Newest, Excused
  <2>6. PromptHasSender'
    <3> SUFFICES ASSUME NEW j \in Tasks, Waits(j)'
                 PROVE  Sender(j)'
      BY DEF PromptHasSender, Waits, Runs, Sender
    <3>1. Sender(j)
      BY <1>4, <2>1 DEF IInv, PromptHasSender, Waits, Runs, Sender
    <3> QED
      BY <1>2, <1>4, <1>6, <2>1, <2>2, <3>1 DEF Sender
  <2>7. StopKept
    BY <2>1 DEF StopKept
  <2> QED
    BY <2>3, <2>4, <2>5, <2>6, <2>7 DEF IInv
<1> QED
  BY <1>5, <1>6

LEMMA DatedHooks ==
    ASSUME NEW h \in Seq(Hooks), NEW k \in Tasks
    PROVE  [i \in DOMAIN h |-> BeforeDelivery(h[i], k)] \in Seq(Hooks)
<1>1. \A i \in DOMAIN h : BeforeDelivery(h[i], k) \in Hooks
  <2> SUFFICES ASSUME NEW i \in DOMAIN h
               PROVE  BeforeDelivery(h[i], k) \in Hooks
    OBVIOUS
  <2>1. h[i] \in Hooks
    OBVIOUS
  <2> QED
    BY <2>1 DEF BeforeDelivery, Hooks
<1>2. [i \in 1 .. Len(h) |-> BeforeDelivery(h[i], k)] \in Seq(Hooks)
  BY <1>1
<1> QED
  BY <1>2

(* The board after a prompt of k was delivered, and when w has heard of that. *)
ShownDelivered(board, k) ==
    /\ board \in [Tasks -> TodoTasks] /\ board[k].delivery = "delivered"
    /\ \A j \in Tasks : /\ board[j].term = task[j].term /\ board[j].stage = task[j].stage
                        /\ board[j].exec = task[j].exec
                        /\ j # k => board[j].delivery = task[j].delivery

LEMMA DeliveredBoard ==
    ASSUME task \in [Tasks -> TodoTasks], NEW k \in Tasks,
           NEW board, board = [task EXCEPT ![k].delivery = "delivered", ![k].dated = TRUE]
    PROVE  ShownDelivered(board, k)
<1>1. PICK q : q = [task[k] EXCEPT !.delivery = "delivered", !.dated = TRUE]
  OBVIOUS
<1>2. task[k] \in TodoTasks
  OBVIOUS
<1>3. /\ q \in TodoTasks /\ q.term = task[k].term /\ q.stage = task[k].stage
      /\ q.exec = task[k].exec /\ q.delivery = "delivered"
  BY <1>1, <1>2 DEF TodoTasks, Deliveries
<1>4. board = [task EXCEPT ![k] = q]
  BY <1>1
<1> QED
  BY <1>3, <1>4 DEF ShownDelivered

LEMMA DeliveredTask ==
    ASSUME IInv, NEW k \in Tasks, NEW t \in Terminals, task[k].term = t,
           NEW board, ShownDelivered(board, k), NEW status, status = "THINKING",
           NEW w \in Hearers(t), NEW b \in {board, Heard(board, w, status)}
    PROVE  /\ b \in [Tasks -> TodoTasks]
           /\ \A j \in Tasks :
                /\ b[j].term = task[j].term /\ b[j].stage = task[j].stage
                /\ b[j].delivery = "delivered" => task[j].delivery = "delivered" \/ j = k
                /\ b[j].delivery \in {"pending", "sending"} => j # k /\ b[j].delivery = task[j].delivery
                /\ task[j].exec = "stopped" => b[j].exec \in {"stopped", "failed"}
                /\ task[j].term # t => b[j].exec = task[j].exec
                /\ b = board => b[j].exec = task[j].exec
<1> USE TaskRunAssumption
<1>1. status \in Statuses /\ status # "COMPLETED" /\ board \in [Tasks -> TodoTasks]
  BY DEF Statuses, Interruptible, ShownDelivered
<1>2. w \in Tasks \cup {None} /\ (w # None => task[w].term = t)
  BY HearersBound
<1>3. CASE b = board
  BY <1>1, <1>3 DEF ShownDelivered
<1>4. CASE b = Heard(board, w, status)
  <2>1. /\ b \in [Tasks -> TodoTasks]
        /\ \A j \in Tasks : Follows(board[j], b[j]) /\ (j # w => b[j] = board[j])
        /\ \A j \in Tasks : board[j].exec = "stopped" => b[j].exec \in {"stopped", "failed"}
        /\ \A j \in Tasks : b[j].stage = board[j].stage
    BY <1>1, <1>2, <1>4, HeardOfTask
  <2>2. \A j \in Tasks : b[j].delivery = "delivered" => board[j].delivery = "delivered"
    <3>1. b = board \/ (w \in Tasks /\ board[w].stage # "completed")
      BY <1>2, <1>4 DEF Heard
    <3> QED
      BY <2>1, <3>1 DEF Follows
  <2>3. \A j \in Tasks :
           /\ board[j].term = task[j].term /\ board[j].stage = task[j].stage
           /\ board[j].exec = task[j].exec
           /\ board[j].delivery = IF j = k THEN "delivered" ELSE task[j].delivery
    BY DEF ShownDelivered
  <2>4. \A j \in Tasks : task[j].term # t => j # w
    BY <1>2
  <2>5. \A j \in Tasks : /\ b[j].term = board[j].term /\ b[j].stage = board[j].stage
                         /\ b[j].delivery \in {board[j].delivery, "delivered", "failed"}
                         /\ task[j].term # t => b[j] = board[j]
    BY <2>1, <2>4 DEF Follows
  <2>6. ASSUME NEW j \in Tasks
        PROVE  /\ b[j].term = task[j].term /\ b[j].stage = task[j].stage
               /\ b[j].delivery = "delivered" => task[j].delivery = "delivered" \/ j = k
               /\ b[j].delivery \in {"pending", "sending"} => j # k /\ b[j].delivery = task[j].delivery
               /\ task[j].exec = "stopped" => b[j].exec \in {"stopped", "failed"}
               /\ task[j].term # t => b[j].exec = task[j].exec
               /\ b = board => b[j].exec = task[j].exec
    <3>1. b[j].delivery \in {"pending", "sending"} => j # k /\ b[j].delivery = task[j].delivery
      BY <2>3, <2>5
    <3>2. b[j].delivery = "delivered" => task[j].delivery = "delivered" \/ j = k
      BY <2>2, <2>3
    <3>3. task[j].exec = "stopped" => b[j].exec \in {"stopped", "failed"}
      BY <2>1, <2>3
    <3> QED
      BY <2>3, <2>5, <3>1, <3>2, <3>3
  <2> QED
    BY <2>1, <2>6
<1> QED
  BY <1>3, <1>4

LEMMA DeliveredStep ==
    ASSUME IInv, NEW s \in sending, Delivered(s)
    PROVE  IInv' /\ StopKept
<1> USE TaskRunAssumption
<1>1. TypeOK /\ Newest
  BY DEF IInv
<1>2. PICK k \in Tasks, t \in Terminals : k = s.task /\ t = s.term
  BY <1>1, StartedTypes
<1>3. PICK board : board = [task EXCEPT ![k].delivery = "delivered", ![k].dated = TRUE]
  OBVIOUS
<1> PICK status : status = "THINKING"
  OBVIOUS
<1>4. ShownDelivered(board, k)
  BY <1>1, <1>3, DeliveredBoard DEF TypeOK
<1>5. /\ s.step = "confirm" /\ task[k].term = t
      /\ armed' = Released(s) /\ sending' = sending \ {s}
      /\ UNCHANGED <<launch, escapes, owed, bounds>>
  BY <1>2 DEF Delivered
<1>6. \E w \in Hearers(t) : task' \in {board, Heard(board, w, status)}
  <2>1. Hearers(t) # {}
    BY DEF Hearers
  <2> QED
    BY <1>2, <1>3, <2>1 DEF Delivered
<1>7. PICK w \in Hearers(t) : task' \in {board, Heard(board, w, status)}
  BY <1>6
<1>8. /\ task' \in [Tasks -> TodoTasks]
      /\ \A j \in Tasks :
           /\ task'[j].term = task[j].term /\ task'[j].stage = task[j].stage
           /\ task'[j].delivery = "delivered" => task[j].delivery = "delivered" \/ j = k
           /\ task'[j].delivery \in {"pending", "sending"}
                => j # k /\ task'[j].delivery = task[j].delivery
           /\ task[j].exec = "stopped" => task'[j].exec \in {"stopped", "failed"}
           /\ task[j].term # t => task'[j].exec = task[j].exec
           /\ task' = board => task'[j].exec = task[j].exec
  <2>1. PICK b : b = task' /\ b \in {board, Heard(board, w, status)}
    BY <1>7
  <2> QED
    BY <1>4, <1>5, <2>1, DeliveredTask
<1>9. PICK r : r = Released(s)
  OBVIOUS
<1>10. /\ r \in [Terminals -> Startups]
       /\ \A u \in Terminals :
            /\ r[u].task \in {armed[u].task, None}
            /\ r[u].started => r[u].task # None
            /\ r[u].task # armed[u].task => u = t /\ armed[u].task = k
  BY <1>2, <1>9, ReleasedTyped
<1>11. /\ hooks' \in [Terminals -> Seq(Hooks)]
       /\ terminal' \in [Terminals -> [status : Statuses \cup {"ABSENT"}, ended : BOOLEAN, starting : BOOLEAN]]
       /\ astray' \in [Tasks -> SUBSET Mishaps]
       /\ \A j \in Tasks : astray[j] \subseteq astray'[j]
       /\ \A u \in Terminals \ {t} : terminal'[u] = terminal[u]
       /\ IF s.direct
          THEN /\ Exists(t) => terminal'[t].status = status
               /\ ~Exists(t) => \A j \in Tasks : task[j].term = t => "late" \in astray'[j]
          ELSE task' = board /\ terminal' = terminal
  <2>1. /\ terminal \in [Terminals -> [status : Statuses \cup {"ABSENT"}, ended : BOOLEAN, starting : BOOLEAN]]
        /\ hooks \in [Terminals -> Seq(Hooks)] /\ hooks[t] \in Seq(Hooks)
        /\ status \in Statuses \cup {"ABSENT"}
    BY <1>1 DEF TypeOK, Statuses, Interruptible
  <2>2. PICK h : h = [i \in DOMAIN hooks[t] |-> BeforeDelivery(hooks[t][i], k)]
    OBVIOUS
  <2>3. PICK dated : dated = [hooks EXCEPT ![t] = h]
    OBVIOUS
  <2>4. PICK o : o = [i \in DOMAIN h |-> Superseded(h[i])]
    OBVIOUS
  <2>5. h \in Seq(Hooks)
    BY <2>1, <2>2, DatedHooks
  <2>6. o \in Seq(Hooks)
    BY <2>4, <2>5, SupersededHooks
  <2>7. dated[t] = h /\ dated \in [Terminals -> Seq(Hooks)]
    BY <2>1, <2>3, <2>5
  <2>8. dated = [hooks EXCEPT ![t] = [i \in DOMAIN @ |-> BeforeDelivery(@[i], k)]]
    BY <2>2, <2>3
  <2>9. PICK z : z = [terminal EXCEPT ![t].status = status]
    OBVIOUS
  <2>10. /\ z \in [Terminals -> [status : Statuses \cup {"ABSENT"}, ended : BOOLEAN, starting : BOOLEAN]]
         /\ z[t].status = status /\ \A u \in Terminals \ {t} : z[u] = terminal[u]
    <3>1. terminal \in [Terminals -> [status : Statuses \cup {"ABSENT"}, ended : BOOLEAN, starting : BOOLEAN]]
      BY <2>1
    <3>2. status \in Statuses \cup {"ABSENT"}
      BY <2>1
    <3> QED
      BY <2>9, <3>1, <3>2, StatusShown
  <2>11. CASE s.direct
    <3>1. hooks' = [dated EXCEPT ![t] = [i \in DOMAIN @ |-> Superseded(@[i])]]
      BY <1>2, <2>8, <2>11 DEF Delivered
    <3>2. hooks' = [dated EXCEPT ![t] = o]
      BY <2>4, <2>7, <3>1
    <3>3. hooks' \in [Terminals -> Seq(Hooks)]
      BY <2>6, <2>7, <3>2
    <3>4. terminal' = IF Exists(t) THEN z ELSE terminal
      BY <1>2, <2>9, <2>11 DEF Delivered
    <3>5. astray' = [j \in Tasks |-> astray[j] \cup {m \in {"late"} : ~Alive(t) /\ task[j].term = t}]
      BY <1>2, <2>11 DEF Delivered
    <3>6. \A j \in Tasks : /\ astray[j] \subseteq astray'[j] /\ astray'[j] \subseteq Mishaps
                           /\ ~Exists(t) /\ task[j].term = t => "late" \in astray'[j]
      BY <1>1, <3>5, StartedTypes DEF Mishaps, Alive
    <3>7. astray' \in [Tasks -> SUBSET Mishaps]
      <4>1. astray' = [j \in Tasks |-> astray'[j]]
        BY <3>5
      <4> QED
        BY <3>6, <4>1
    <3> QED
      BY <2>1, <2>10, <2>11, <3>3, <3>4, <3>6, <3>7
  <2>12. CASE ~s.direct
    <3>1. task' = board /\ UNCHANGED <<terminal, astray>> /\ hooks' = dated
      BY <1>2, <1>3, <2>8, <2>12 DEF Delivered
    <3> QED
      BY <1>1, <2>1, <2>7, <2>12, <3>1, StartedTypes
  <2> QED
    BY <2>11, <2>12
<1>12. TypeOK'
  BY <1>1, <1>5, <1>8, <1>9, <1>10, <1>11 DEF TypeOK
<1>13. ASSUME NEW j \in Tasks, Waits(j)'
       PROVE  Waits(j) /\ (Sender(j) => Sender(j)')
  <2>1. Waits(j) /\ j # k
    BY <1>8, <1>11, <1>13 DEF Waits, Runs
  <2>2. ASSUME NEW u \in Terminals, armed[u].task = j
        PROVE  armed'[u].task = j
    BY <1>5, <1>9, <1>10, <2>1, <2>2
  <2>3. ASSUME NEW p \in sending, p.task = j
        PROVE  p \in sending'
    BY <1>2, <1>5, <2>1, <2>3
  <2> QED
    BY <1>5, <1>8, <2>1, <2>2, <2>3 DEF Sender
<1>14. ASSUME NEW j \in Tasks, task'[j].delivery = "delivered", j \in owed
       PROVE  task[j].delivery = "delivered" \/ Excused(j)'
  <2> SUFFICES ASSUME j = k
               PROVE  Excused(j)'
    BY <1>8, <1>14
  <2>1. "overlapped" \in astray[k]
    BY <1>1, <1>2, <1>5, <1>14 DEF Newest
  <2> QED
    BY <1>11, <2>1 DEF Excused
<1>15. \A i, j \in Tasks : Mates(i, j)' => Mates(i, j)
  BY <1>5, <1>8 DEF Mates, Runs
<1>16. \A j \in Tasks : /\ astray[j] \subseteq astray'[j]
                        /\ task'[j].term \in {task[j].term, None}
                        /\ task'[j].stage \in {"todo", "deleted"} => task'[j].term = None
                        /\ Waits(j)' => Waits(j) /\ (Sender(j) => Sender(j)')
                        /\ task'[j].delivery = "delivered" /\ j \in owed
                             => task[j].delivery = "delivered" \/ Excused(j)'
  BY <1>8, <1>11, <1>13, <1>14 DEF IInv, Placed
<1>17. \A u \in Terminals : /\ armed'[u].task \in {armed[u].task, None}
                            /\ armed'[u].started => armed'[u].task # None
  BY <1>5, <1>9, <1>10
<1>18. Prepared' /\ Placed' /\ Writing' /\ Shared' /\ PromptHasSender' /\ Newest'
  BY <1>5, <1>12, <1>15, <1>16, <1>17, Calm
<1>19. GoneEndsRun'
  <2> SUFFICES ASSUME NEW j \in Tasks, Runs(j)', task'[j].term # None, ~Alive(task[j].term)',
                      astray'[j] \cap {"joined", "declined", "late"} = {}
               PROVE  task'[j].exec \in {"failed", "stopped"} \/ launch' = j
    BY <1>8 DEF GoneEndsRun, Runs
  <2> PICK u : u = task[j].term
    OBVIOUS
  <2>1. Runs(j) /\ u \in Terminals /\ u # None /\ task'[j].term = u /\ ~Alive(u)'
    BY <1>1, <1>8, StartedTypes DEF Runs
  <2>2. astray[j] \cap {"joined", "declined", "late"} = {}
    BY <1>11
  <2>3. u = t => ~s.direct
    <3> SUFFICES ASSUME s.direct, u = t
                 PROVE  FALSE
      OBVIOUS
    <3>1. Exists(t) /\ terminal'[t].status = status
      BY <1>11, <2>1
    <3> QED
      BY <2>1, <3>1 DEF Alive, Exists, Gone
  <2>4. task'[j].exec = task[j].exec
    BY <1>8, <1>11, <2>3
  <2>5. ~Alive(u)
    BY <1>11, <2>1, <2>3 DEF Alive, Exists
  <2>6. task[j].exec \in {"failed", "stopped"} \/ launch = j
    BY <2>1, <2>2, <2>5 DEF IInv, GoneEndsRun, Runs
  <2> QED
    BY <1>5, <2>4, <2>6
<1>20. StopKept
  BY <1>8 DEF StopKept
<1> QED
  BY <1>12, <1>18, <1>19, <1>20 DEF IInv

-----------------------------------------------------------------------------
(* Requests that end or move a run.                                         *)

LEMMA CardMoved ==
    ASSUME IInv, NEW k \in Tasks, NEW q \in TodoTasks, task' = [task EXCEPT ![k] = q],
           q.term \in {task[k].term, None}, q.stage \in {"todo", "deleted"} => q.term = None,
           q.stage = "executing" => Runs(k) /\ q.exec = "stopped" /\ q.delivery = "idle",
           q.delivery = "delivered" => task[k].delivery = "delivered",
           \/ armed' = armed
           \/ task[k].term # None /\ armed' = [armed EXCEPT ![task[k].term] = Unarmed],
           escapes' \subseteq Terminals, bounds' \in Nat \X Nat \X Nat,
           UNCHANGED <<terminal, launch, sending, hooks, owed, astray>>
    PROVE  IInv' /\ StopKept
<1> USE TaskRunAssumption
<1>1. TypeOK /\ Prepared /\ Placed
  BY DEF IInv
<1>2. /\ task' \in [Tasks -> TodoTasks] /\ task'[k] = q
      /\ \A j \in Tasks \ {k} : task'[j] = task[j]
  BY <1>1 DEF TypeOK
<1> PICK t : t = task[k].term
  OBVIOUS
<1>3. /\ armed' \in [Terminals -> Startups] /\ t \in Terminals \cup {None}
      /\ \A u \in Terminals : /\ armed'[u] = armed[u] \/ (u = t /\ armed'[u] = Unarmed)
                              /\ armed'[u].started => armed'[u].task # None
                              /\ armed'[u].task \in {armed[u].task, None}
  BY <1>1, UnarmedTyped, StartedTypes DEF Prepared, Unarmed
<1>4. TypeOK'
  BY <1>1, <1>2, <1>3 DEF TypeOK
<1>5. ASSUME NEW j \in Tasks, Waits(j)'
      PROVE  Waits(j) /\ (Sender(j) => Sender(j)')
  <2>1. j # k
    BY <1>2, <1>5 DEF Waits, Runs
  <2>2. task'[j] = task[j] /\ Waits(j)
    BY <1>2, <1>5, <2>1 DEF Waits, Runs
  <2>3. ASSUME NEW u \in Terminals, armed[u].task = j, task[j].term = u
        PROVE  armed'[u].task = j
    <3>1. u # t
      BY <1>1, <2>1, <2>3 DEF Prepared, Bound
    <3> QED
      BY <1>3, <2>3, <3>1
  <2> QED
    BY <2>2, <2>3 DEF Sender
<1>6. ASSUME NEW i \in Tasks, NEW j \in Tasks, Mates(i, j)'
      PROVE  Mates(i, j)
  BY <1>2, <1>6 DEF Mates, Runs
<1>7. ASSUME NEW j \in Tasks
      PROVE  /\ task'[j].term \in {task[j].term, None}
             /\ task'[j].stage \in {"todo", "deleted"} => task'[j].term = None
             /\ task'[j].delivery = "delivered" => task[j].delivery = "delivered"
             /\ Runs(j)' => Runs(j) /\ (task'[j].exec = "stopped" \/ task'[j] = task[j])
  BY <1>1, <1>2 DEF Placed, Runs
<1>8. Prepared' /\ Placed' /\ Writing' /\ Shared' /\ PromptHasSender' /\ Newest'
  <2>1. \A j \in Tasks : /\ astray[j] \subseteq astray'[j]
                         /\ task'[j].term \in {task[j].term, None}
                         /\ task'[j].stage \in {"todo", "deleted"} => task'[j].term = None
                         /\ Waits(j)' => Waits(j) /\ (Sender(j) => Sender(j)')
                         /\ task'[j].delivery = "delivered" /\ j \in owed
                              => task[j].delivery = "delivered" \/ Excused(j)'
    BY <1>5, <1>7
  <2> QED
    BY <1>3, <1>4, <1>6, <2>1, Calm
<1>9. GoneEndsRun'
  BY <1>7 DEF IInv, GoneEndsRun, Runs, Alive, Exists
<1>10. StopKept
  BY <1>7 DEF StopKept
<1> QED
  BY <1>4, <1>8, <1>9, <1>10 DEF IInv

LEMMA RequestCounted ==
    ASSUME TypeOK, Request
    PROVE  bounds' \in Nat \X Nat \X Nat
  BY DEF TypeOK, Request, bounds

LEMMA InterruptingSteps ==
    ASSUME TypeOK, NEW k \in Tasks, Interrupting(k)
    PROVE  /\ \/ armed' = armed
              \/ task[k].term # None /\ armed' = [armed EXCEPT ![task[k].term] = Unarmed]
           /\ escapes' \subseteq Terminals
           /\ UNCHANGED <<terminal, launch, sending, hooks, owed, astray>>
<1>1. escapes \subseteq Terminals /\ task[k].term \in Terminals \cup {None}
  BY StartedTypes DEF TypeOK
<1> QED
  BY <1>1 DEF Interrupting, Unsent

LEMMA StopStep ==
    ASSUME IInv, NEW k \in Tasks, Stop(k)
    PROVE  IInv' /\ StopKept
<1>1. TypeOK /\ task \in [Tasks -> TodoTasks] /\ task[k] \in TodoTasks
  BY DEF IInv, TypeOK
<1>2. PICK q : q = [task[k] EXCEPT !.exec = "stopped", !.delivery = "idle"]
  OBVIOUS
<1>3. /\ q \in TodoTasks /\ q.term = task[k].term /\ q.stage = task[k].stage
      /\ q.exec = "stopped" /\ q.delivery = "idle"
  BY <1>1, <1>2 DEF TodoTasks, Executions, Deliveries
<1>4. task' = [task EXCEPT ![k].exec = "stopped", ![k].delivery = "idle"]
  BY DEF Stop
<1>5. task' = [task EXCEPT ![k] = q]
  BY <1>1, <1>2, <1>4
<1>6. Runs(k) /\ Interrupting(k) /\ Request
  BY DEF Stop, Runs
<1>7. /\ \/ armed' = armed
         \/ task[k].term # None /\ armed' = [armed EXCEPT ![task[k].term] = Unarmed]
      /\ escapes' \subseteq Terminals /\ bounds' \in Nat \X Nat \X Nat
      /\ UNCHANGED <<terminal, launch, sending, hooks, owed, astray>>
  BY <1>1, <1>6, InterruptingSteps, RequestCounted
<1>8. q.stage = "executing"
  BY <1>3, <1>6 DEF Runs
<1> QED
  BY <1>3, <1>5, <1>6, <1>7, <1>8, CardMoved

LEMMA DeleteStep ==
    ASSUME IInv, NEW k \in Tasks, Delete(k)
    PROVE  IInv' /\ StopKept
<1>1. TypeOK /\ bounds' \in Nat \X Nat \X Nat
  BY RequestCounted DEF IInv, Delete
<1>2. PICK q : q = [Fresh EXCEPT !.stage = "deleted"]
  OBVIOUS
<1>3. q \in TodoTasks /\ q.term = None /\ q.stage = "deleted" /\ q.delivery = "idle"
  BY <1>2 DEF Fresh, TodoTasks, Stages, Executions, Deliveries
<1>4. task' = [task EXCEPT ![k] = q]
  BY <1>2 DEF Delete
<1>5. /\ \/ armed' = armed
         \/ task[k].term # None /\ armed' = [armed EXCEPT ![task[k].term] = Unarmed]
      /\ escapes' \subseteq Terminals
      /\ UNCHANGED <<terminal, launch, sending, hooks, owed, astray>>
  <2>1. CASE Interrupting(k)
    BY <1>1, <2>1, InterruptingSteps
  <2>2. CASE Unsent /\ Elsewhere
    BY <1>1, <2>2 DEF Unsent, Elsewhere, TypeOK
  <2> QED
    BY <2>1, <2>2 DEF Delete
<1> QED
  BY <1>1, <1>3, <1>4, <1>5, CardMoved

LEMMA MoveCardStep ==
    ASSUME IInv, NEW k \in Tasks, MoveCard(k)
    PROVE  IInv' /\ StopKept
<1>1. TypeOK /\ task \in [Tasks -> TodoTasks] /\ task[k] \in TodoTasks
  BY DEF IInv, TypeOK
<1>2. \E q \in TodoTasks :
         /\ task' = [task EXCEPT ![k] = q]
         /\ q.term \in {task[k].term, None} /\ (q.stage = "todo" => q.term = None)
         /\ q.stage \in {"todo", "completed", "verified"}
         /\ q.delivery = "delivered" => task[k].delivery = "delivered"
  <2>1. CASE Backlog(k)
    <3>1. PICK q : q = [Fresh EXCEPT !.attempts = task[k].attempts]
      OBVIOUS
    <3>2. q \in TodoTasks /\ q.term = None /\ q.stage = "todo" /\ q.delivery = "idle"
      BY <1>1, <3>1 DEF Fresh, TodoTasks, Stages, Executions, Deliveries
    <3>3. task' = [task EXCEPT ![k] = q]
      BY <2>1, <3>1 DEF Backlog
    <3> QED
      BY <3>2, <3>3
  <2>2. CASE Complete(k)
    <3>1. PICK q : q = [task[k] EXCEPT !.stage = "completed", !.exec = "completed"]
      OBVIOUS
    <3>2. /\ q \in TodoTasks /\ q.term = task[k].term /\ q.stage = "completed"
          /\ q.delivery = task[k].delivery
      BY <1>1, <3>1 DEF TodoTasks, Stages, Executions
    <3>3. task' = [task EXCEPT ![k].stage = "completed", ![k].exec = "completed"]
      BY <2>2 DEF Complete
    <3>4. task' = [task EXCEPT ![k] = q]
      BY <1>1, <3>1, <3>3
    <3> QED
      BY <3>2, <3>4
  <2>3. CASE Verify(k)
    <3>1. PICK q : q = [task[k] EXCEPT !.stage = "verified"]
      OBVIOUS
    <3>2. /\ q \in TodoTasks /\ q.term = task[k].term /\ q.stage = "verified"
          /\ q.delivery = task[k].delivery
      BY <1>1, <3>1 DEF TodoTasks, Stages
    <3>3. task' = [task EXCEPT ![k] = q]
      BY <2>3, <3>1 DEF Verify
    <3> QED
      BY <3>2, <3>3
  <2>4. CASE RunAgain(k)
    <3>1. Fresh \in TodoTasks /\ Fresh.term = None /\ Fresh.stage = "todo" /\ Fresh.delivery = "idle"
      BY DEF Fresh, TodoTasks, Stages, Executions, Deliveries
    <3>2. task' = [task EXCEPT ![k] = Fresh]
      BY <2>4 DEF RunAgain
    <3> QED
      BY <3>1, <3>2
  <2> QED
    BY <2>1, <2>2, <2>3, <2>4 DEF MoveCard
<1>3. PICK q \in TodoTasks :
         /\ task' = [task EXCEPT ![k] = q]
         /\ q.term \in {task[k].term, None} /\ (q.stage = "todo" => q.term = None)
         /\ q.stage \in {"todo", "completed", "verified"}
         /\ q.delivery = "delivered" => task[k].delivery = "delivered"
  BY <1>2
<1>4. /\ armed' = armed /\ escapes' \subseteq Terminals /\ bounds' \in Nat \X Nat \X Nat
      /\ UNCHANGED <<terminal, launch, sending, hooks, owed, astray>>
  BY <1>1 DEF MoveCard, Unsent, Elsewhere, TypeOK
<1>5. q.stage \notin {"deleted", "executing"}
  BY <1>3
<1> QED
  BY <1>3, <1>4, <1>5, CardMoved

LEMMA LaunchDeclinedStep ==
    ASSUME IInv, LaunchDeclined
    PROVE  IInv' /\ StopKept
<1> USE TaskRunAssumption
<1>1. TypeOK /\ Prepared /\ Placed
  BY DEF IInv
<1>2. /\ launch \in Tasks /\ launch' = None
      /\ astray' = [astray EXCEPT ![launch] = @ \cup {"declined"}]
      /\ UNCHANGED <<task, terminal, armed, sending, escapes, hooks, owed, bounds>>
  BY <1>1, StartedTypes DEF LaunchDeclined
<1>3. /\ astray' \in [Tasks -> SUBSET Mishaps]
      /\ \A k \in Tasks : astray[k] \subseteq astray'[k]
      /\ "declined" \in astray'[launch]
  BY <1>1, <1>2, StartedTypes DEF Mishaps
<1>4. TypeOK'
  BY <1>1, <1>2, <1>3 DEF TypeOK
<1>5. ASSUME NEW k \in Tasks, Waits(k)'
      PROVE  Waits(k) /\ (Sender(k) => Sender(k)')
  <2>1. k # launch /\ ~("declined" \in astray[k])
    BY <1>3, <1>5 DEF Waits
  <2> QED
    BY <1>2, <1>5, <2>1 DEF Waits, Runs, Sender
<1>6. \A j, k \in Tasks : Mates(j, k)' => Mates(j, k)
  BY <1>2 DEF Mates, Runs
<1>7. \A t \in Terminals : /\ armed'[t].task \in {armed[t].task, None}
                           /\ armed'[t].started => armed'[t].task # None
  BY <1>1, <1>2 DEF Prepared
<1>8. Prepared' /\ Placed' /\ Writing' /\ Shared' /\ PromptHasSender' /\ Newest'
  <2>1. \A k \in Tasks : /\ astray[k] \subseteq astray'[k]
                         /\ task'[k].term \in {task[k].term, None}
                         /\ task'[k].stage \in {"todo", "deleted"} => task'[k].term = None
                         /\ Waits(k)' => Waits(k) /\ (Sender(k) => Sender(k)')
                         /\ task'[k].delivery = "delivered" /\ k \in owed
                              => task[k].delivery = "delivered" \/ Excused(k)'
    BY <1>1, <1>2, <1>3, <1>5 DEF Placed
  <2> QED
    BY <1>2, <1>4, <1>6, <1>7, <2>1, Calm
<1>9. GoneEndsRun'
  <2> SUFFICES ASSUME NEW k \in Tasks, Runs(k), task[k].term # None, ~Alive(task[k].term),
                      astray'[k] \cap {"joined", "declined", "late"} = {}
               PROVE  task[k].exec \in {"failed", "stopped"}
    BY <1>2 DEF GoneEndsRun, Runs, Alive, Exists
  <2>1. k # launch /\ astray[k] \cap {"joined", "declined", "late"} = {}
    BY <1>3
  <2> QED
    BY <2>1 DEF IInv, GoneEndsRun, Runs
<1>10. StopKept
  BY <1>2 DEF StopKept
<1> QED
  BY <1>4, <1>8, <1>9, <1>10 DEF IInv

-----------------------------------------------------------------------------
(* Requests that begin a run, or write to it.                               *)

LEMMA OutdatedSendings ==
    ASSUME TypeOK, NEW k \in Tasks
    PROVE  /\ \A p \in Outdated(k) :
                /\ p \in Sendings
                /\ \E s \in sending : /\ p.task = s.task /\ p.term = s.term /\ p.direct = s.direct
                                      /\ p.step = s.step /\ (s.task # k => p = s)
                                      /\ s.task = k => ~p.newest
           /\ \A s \in sending : \E p \in Outdated(k) : p.task = s.task /\ p.term = s.term
<1>1. ASSUME NEW s \in sending, NEW p, p = IF s.task = k THEN [s EXCEPT !.newest = FALSE] ELSE s
      PROVE  /\ p \in Sendings /\ p.task = s.task /\ p.term = s.term /\ p.direct = s.direct
             /\ p.step = s.step /\ (s.task # k => p = s) /\ (s.task = k => ~p.newest)
  <2>1. s \in Sendings
    BY DEF TypeOK
  <2>2. CASE s.task = k
    <3>1. p = [s EXCEPT !.newest = FALSE]
      BY <1>1, <2>2
    <3> QED
      BY <2>1, <2>2, <3>1 DEF Sendings
  <2>3. CASE s.task # k
    BY <1>1, <2>1, <2>3
  <2> QED
    BY <2>2, <2>3
<1>2. ASSUME NEW p \in Outdated(k)
      PROVE  /\ p \in Sendings
             /\ \E s \in sending : /\ p.task = s.task /\ p.term = s.term /\ p.direct = s.direct
                                   /\ p.step = s.step /\ (s.task # k => p = s)
                                   /\ s.task = k => ~p.newest
  <2>1. PICK s \in sending : p = IF s.task = k THEN [s EXCEPT !.newest = FALSE] ELSE s
    BY <1>2 DEF Outdated
  <2> QED
    BY <1>1, <2>1
<1>3. ASSUME NEW s \in sending
      PROVE  \E p \in Outdated(k) : p.task = s.task /\ p.term = s.term
  <2>1. PICK p : p = IF s.task = k THEN [s EXCEPT !.newest = FALSE] ELSE s
    OBVIOUS
  <2>2. p \in Outdated(k)
    BY <2>1 DEF Outdated
  <2> QED
    BY <1>1, <2>1, <2>2
<1> QED
  BY <1>2, <1>3

(* A prompt that a request writes at once.                                  *)
LEMMA PromptWritten ==
    ASSUME IInv, ~Busy, NEW k \in Tasks, NEW t \in Terminals,
           task' \in [Tasks -> TodoTasks], \A j \in Tasks \ {k} : task'[j] = task[j],
           task'[k].stage = "executing", task'[k].term = t, task'[k].delivery = "sending",
           WriteAt(k, t), owed' = owed \cup {k}, Elsewhere, bounds' \in Nat \X Nat \X Nat,
           astray' \in [Tasks -> SUBSET Mishaps],
           \A j \in Tasks \ {k} : astray[j] \subseteq astray'[j], Overlap(k, t) \subseteq astray'[k],
           task[k].term = t \/ (t \in Open /\ armed[t].task = None),
           \A j \in Tasks \ {k} : Runs(j) /\ task[j].term = t => BothJoined(j, k)',
           \/ Alive(t)
           \/ /\ Runs(k) /\ task[k].term = t /\ task'[k].exec = task[k].exec
              /\ astray[k] \subseteq astray'[k],
           task'[k].attempts # task[k].attempts \/ task'[k].exec = task[k].exec
    PROVE  IInv' /\ StopKept
<1> USE TaskRunAssumption
<1>1. TypeOK /\ Prepared /\ Placed /\ Writing /\ Newest /\ Shared
  BY DEF IInv
<1>2. launch = None /\ \A s \in sending : ~s.direct
  BY DEF Busy
<1>3. UNCHANGED <<terminal, armed, launch, escapes, hooks>>
  BY DEF Elsewhere
<1>4. PICK e : e = Sending(k, t, TRUE)
  OBVIOUS
<1>5. /\ e \in Sendings /\ e.task = k /\ e.term = t /\ e.direct /\ e.newest /\ e.step = "text"
  BY <1>4 DEF Sending, Sendings
<1>6. sending' = Outdated(k) \cup {e}
  BY <1>4 DEF WriteAt
<1>7. TypeOK'
  BY <1>1, <1>3, <1>5, <1>6, OutdatedSendings DEF TypeOK
<1>8. Prepared'
  BY <1>1, <1>3 DEF Prepared, Bound
<1>9. Placed'
  <2>1. ASSUME NEW u \in Terminals \ Open, NEW i \in Bound(u)', NEW j \in Bound(u)'
        PROVE  i = j
    <3>1. i \in Bound(u) /\ j \in Bound(u)
      BY <2>1 DEF Bound
    <3> QED
      BY <1>1, <3>1 DEF Placed
  <2>2. \A j \in Tasks : task'[j].stage \in {"todo", "deleted"} => task'[j].term = None
    BY <1>1 DEF Placed
  <2> QED
    BY <2>1, <2>2 DEF Placed
<1>10. Writing'
  <2> SUFFICES ASSUME NEW p \in sending'
               PROVE  IF p.direct THEN launch' = None
                      ELSE p.term \notin Open /\ armed'[p.term].task \in {None, p.task}
    BY DEF Writing
  <2>1. CASE p = e
    BY <1>2, <1>3, <1>5, <2>1
  <2>2. CASE p \in Outdated(k)
    <3>1. PICK s \in sending : p.task = s.task /\ p.term = s.term /\ p.direct = s.direct
      BY <1>1, <2>2, OutdatedSendings
    <3> QED
      BY <1>1, <1>2, <1>3, <3>1 DEF Writing
  <2> QED
    BY <1>6, <2>1, <2>2
<1>11. Shared'
  <2> SUFFICES ASSUME NEW i \in Tasks, NEW j \in Tasks, Mates(i, j)'
               PROVE  BothJoined(i, j)'
    BY DEF Shared
  <2>1. /\ i # j /\ task'[i].term = task'[j].term /\ task'[i].term # None /\ Runs(i)' /\ Runs(j)'
    BY <1>2, <1>3 DEF Mates
  <2>2. CASE i = k
    <3>1. Runs(j) /\ task[j].term = t
      BY <2>1, <2>2 DEF Runs
    <3> QED
      BY <2>1, <2>2, <3>1 DEF BothJoined
  <2>3. CASE j = k
    <3>1. Runs(i) /\ task[i].term = t
      BY <2>1, <2>3 DEF Runs
    <3> QED
      BY <2>1, <2>3, <3>1 DEF BothJoined
  <2>4. CASE i # k /\ j # k
    <3>1. Mates(i, j)
      BY <2>1, <2>4 DEF Mates, Runs
    <3> QED
      BY <1>1, <2>4, <3>1 DEF Shared, BothJoined
  <2> QED
    BY <2>2, <2>3, <2>4
<1>12. GoneEndsRun'
  <2> SUFFICES ASSUME NEW j \in Tasks, Runs(j)', task'[j].term # None, ~Alive(task'[j].term),
                      astray'[j] \cap {"joined", "declined", "late"} = {}
               PROVE  task'[j].exec \in {"failed", "stopped"}
    BY <1>3 DEF GoneEndsRun, Runs, Alive, Exists
  <2>1. CASE j = k
    BY <1>2, <2>1 DEF IInv, GoneEndsRun, Runs
  <2>2. CASE j # k
    <3>1. task'[j] = task[j] /\ Runs(j) /\ astray[j] \cap {"joined", "declined", "late"} = {}
      BY <2>2 DEF Runs
    <3> QED
      BY <1>2, <3>1 DEF IInv, GoneEndsRun, Runs
  <2> QED
    BY <2>1, <2>2
<1>13. PromptHasSender'
  <2> SUFFICES ASSUME NEW j \in Tasks, Waits(j)'
               PROVE  Sender(j)'
    BY DEF PromptHasSender, Waits, Runs, Sender
  <2>1. CASE j = k
    BY <1>5, <1>6, <2>1 DEF Sender
  <2>2. CASE j # k
    <3>1. task'[j] = task[j] /\ Waits(j)
      BY <2>2 DEF Waits, Runs
    <3>2. Sender(j)
      BY <3>1 DEF IInv, PromptHasSender, Waits, Runs, Sender
    <3>3. ASSUME NEW s \in sending, s.task = j, s.term = task[j].term
          PROVE  \E p \in sending' : p.task = j /\ p.term = task'[j].term
      BY <1>1, <1>6, <3>1, <3>3, OutdatedSendings
    <3> QED
      BY <1>3, <3>1, <3>2, <3>3 DEF Sender
  <2> QED
    BY <2>1, <2>2
<1>14. Newest'
  <2>1. ASSUME NEW p \in sending'
        PROVE  /\ p.newest /\ p.step = "confirm" => p.task \notin owed'
               /\ ~p.newest /\ p.term = task'[p.task].term => "overlapped" \in astray'[p.task]
    <3>1. CASE p = e
      BY <1>5, <3>1
    <3>2. CASE p \in Outdated(k)
      <4>1. PICK s \in sending : /\ p.task = s.task /\ p.term = s.term /\ p.step = s.step
                                 /\ s.task # k => p = s
                                 /\ s.task = k => ~p.newest
        BY <1>1, <3>2, OutdatedSendings
      <4>2. CASE s.task = k
        <5>1. p.term = t => "overlapped" \in Overlap(k, t)
          BY <4>1, <4>2 DEF Overlap
        <5> QED
          BY <4>1, <4>2, <5>1
      <4>3. CASE s.task # k
        <5>1. s.task \in Tasks \ {k} /\ p = s
          BY <1>1, <4>1, <4>3, StartedTypes
        <5> QED
          BY <1>1, <4>1, <5>1 DEF Newest
      <4> QED
        BY <4>2, <4>3
    <3> QED
      BY <1>6, <3>1, <3>2
  <2>2. ASSUME NEW j \in Tasks, task'[j].delivery = "delivered", j \in owed'
        PROVE  Excused(j)'
    <3>1. j # k /\ task'[j] = task[j] /\ j \in owed
      BY <2>2
    <3> QED
      BY <1>1, <2>2, <3>1 DEF Newest, Excused
  <2> QED
    BY <2>1, <2>2 DEF Newest
<1>15. StopKept
  BY DEF StopKept, Runs
<1> QED
  BY <1>7, <1>8, <1>9, <1>10, <1>11, <1>12, <1>13, <1>14, <1>15 DEF IInv

LEMMA RejectedTask ==
    ASSUME TypeOK, NEW k \in Tasks, NEW b, b = Rejected(k)
    PROVE  /\ b \in [Tasks -> TodoTasks]
           /\ \A j \in Tasks \ {k} : b[j] = task[j]
           /\ b[k].stage = "executing" /\ b[k].exec = "starting" /\ b[k].delivery = "pending"
           /\ b[k].term = task[k].term /\ b[k].attempts = task[k].attempts
<1>1. task \in [Tasks -> TodoTasks] /\ task[k] \in TodoTasks
  BY DEF TypeOK
<1>2. PICK q : q = [task[k] EXCEPT !.stage = "executing", !.exec = "starting",
                                   !.delivery = "pending", !.dated = FALSE]
  OBVIOUS
<1>3. /\ q \in TodoTasks /\ q.stage = "executing" /\ q.exec = "starting" /\ q.delivery = "pending"
      /\ q.term = task[k].term /\ q.attempts = task[k].attempts
  BY <1>1, <1>2 DEF TodoTasks, Stages, Executions, Deliveries
<1>4. b = [task EXCEPT ![k] = q]
  BY <1>1, <1>2 DEF Rejected
<1> QED
  BY <1>1, <1>3, <1>4

(* An error that follows a change of the task's delivery.                   *)
LEMMA ErrsAfter ==
    ASSUME NEW k \in Tasks, NEW board \in [Tasks -> TodoTasks],
           \A j \in Tasks \ {k} : board[j] = task[j],
           board[k].term = task[k].term, board[k].attempts = task[k].attempts,
           board[k].stage = "executing", board[k].delivery = "pending",
           task[k].stage # "deleted",
           NEW b, b = WithError(board, k, None)
    PROVE  Errs(b, k, None)
  BY ErrorOfTask DEF Errs, Named

(* What a prompt marks on the runs it meets.                                *)
LEMMA OverlapTyped ==
    ASSUME NEW k \in Tasks, NEW t
    PROVE  Overlap(k, t) \subseteq Mishaps
  BY DEF Overlap, Mishaps

LEMMA RunExistingStep ==
    ASSUME IInv, ~Busy, NEW k \in Tasks, NEW t \in Terminals, RunExisting(k, t),
           task[k].stage \in {"todo", "executing"}, task[k].term = t \/ t \in Open,
           bounds' \in Nat \X Nat \X Nat
    PROVE  IInv' /\ StopKept
<1>1. CASE Available(k, t)
  <2>1. TypeOK /\ "sending" \in Deliveries
    BY DEF IInv, Deliveries
  <2>2. PICK b : b = Begun(task, k, t, "sending")
    OBVIOUS
  <2>3. /\ b \in [Tasks -> TodoTasks]
        /\ \A j \in Tasks \ {k} : b[j] = task[j]
        /\ b[k].stage = "executing" /\ b[k].delivery = "sending"
        /\ b[k].term = t /\ b[k].attempts = task[k].attempts + 1
    BY <2>1, <2>2, StartedTypes, BegunTask
  <2>4. task[k].attempts \in Nat
    BY <2>1 DEF TypeOK, TodoTasks
  <2>5. task' = b /\ WriteAt(k, t) /\ Instructed(k, t, {}) /\ Elsewhere
    BY <1>1, <2>2 DEF RunExisting
  <2>6. /\ owed' = owed \cup {k}
        /\ astray' \in [Tasks -> SUBSET Mishaps] /\ astray'[k] = Overlap(k, t)
        /\ \A j \in Tasks \ {k} : astray'[j] = astray[j]
    BY <2>1, <2>5, OverlapTyped, StartedTypes DEF Instructed
  <2>7. Alive(t) /\ armed[t].task = None /\ \A j \in Tasks \ {k} : ~(Runs(j) /\ task[j].term = t)
    BY <1>1, TaskRunAssumption DEF Available, Alive, Exists, Reusable, Gone, Met, Runs
  <2> QED
    BY <2>3, <2>4, <2>5, <2>6, <2>7, PromptWritten
<1>2. CASE ~Available(k, t)
  BY <1>2, RefusedStep DEF RunExisting
<1> QED
  BY <1>1, <1>2

LEMMA ResumeStep ==
    ASSUME IInv, NEW k \in Tasks, Resume(k)
    PROVE  IInv' /\ StopKept
<1>1. TypeOK /\ bounds' \in Nat \X Nat \X Nat
  BY RequestCounted DEF IInv, Resume
<1>2. ~Busy /\ task[k].stage = "executing"
  BY DEF Resume
<1>3. CASE Exists(task[k].term)
  <2>1. task[k].term \in Terminals
    BY <1>1, <1>3, StartedTypes DEF Exists
  <2> QED
    BY <1>1, <1>2, <1>3, <2>1, RunExistingStep DEF Resume
<1>4. CASE ~Exists(task[k].term)
  BY <1>1, <1>2, <1>4, RefusedStep DEF Resume
<1> QED
  BY <1>3, <1>4

(* A launch is awaited from now on.                                         *)
LEMMA LaunchBegun ==
    ASSUME IInv, ~Busy, NEW k \in Tasks, launch' = k,
           UNCHANGED <<terminal, armed, sending, escapes, hooks, owed>>,
           bounds' \in Nat \X Nat \X Nat,
           task' \in [Tasks -> TodoTasks], \A j \in Tasks \ {k} : task'[j] = task[j],
           task'[k] = task[k] \/ (task'[k].stage = "executing" /\ task'[k].delivery = "pending"),
           task'[k].term = task[k].term, task'[k].exec = task[k].exec \/ ~Runs(k),
           astray' \in [Tasks -> SUBSET Mishaps], \A j \in Tasks : astray[j] \subseteq astray'[j],
           \A j \in Tasks \ {k} :
              Runs(j) /\ task[j].term = task[k].term /\ task[j].term # None => BothJoined(j, k)'
    PROVE  IInv' /\ StopKept
<1> USE TaskRunAssumption
<1>1. TypeOK /\ Prepared /\ Placed /\ Writing /\ Newest /\ Shared
  BY DEF IInv
<1>2. launch = None /\ \A s \in sending : ~s.direct
  BY DEF Busy
<1>3. TypeOK'
  BY <1>1 DEF TypeOK
<1>4. \A j \in Tasks : task'[j].term = task[j].term
  OBVIOUS
<1>5. Prepared'
  BY <1>1, <1>4 DEF Prepared, Bound
<1>6. Placed'
  BY <1>1, <1>4 DEF Placed, Bound
<1>7. Writing'
  BY <1>1, <1>2 DEF Writing
<1>8. Shared'
  <2> SUFFICES ASSUME NEW i \in Tasks, NEW j \in Tasks, Mates(i, j)'
               PROVE  BothJoined(i, j)'
    BY DEF Shared
  <2>1. /\ i # j /\ task[i].term = task[j].term /\ task[i].term # None
        /\ Runs(i)' /\ (Runs(j)' \/ j = k)
    BY <1>4 DEF Mates
  <2>2. CASE i = k
    <3>1. Runs(j)
      BY <2>1, <2>2 DEF Runs
    <3> QED
      BY <2>1, <2>2, <3>1 DEF BothJoined
  <2>3. CASE j = k
    <3>1. Runs(i)
      BY <2>1, <2>3 DEF Runs
    <3> QED
      BY <2>1, <2>3, <3>1 DEF BothJoined
  <2>4. CASE i # k /\ j # k
    <3>1. Mates(i, j)
      BY <2>1, <2>4 DEF Mates, Runs
    <3> QED
      BY <1>1, <3>1 DEF Shared, BothJoined
  <2> QED
    BY <2>2, <2>3, <2>4
<1>9. GoneEndsRun'
  <2> SUFFICES ASSUME NEW j \in Tasks, j # k, Runs(j)', task'[j].term # None,
                      ~Alive(task'[j].term),
                      astray'[j] \cap {"joined", "declined", "late"} = {}
               PROVE  task'[j].exec \in {"failed", "stopped"}
    BY DEF GoneEndsRun, Runs, Alive, Exists
  <2>1. task'[j] = task[j] /\ Runs(j) /\ astray[j] \cap {"joined", "declined", "late"} = {}
    BY DEF Runs
  <2> QED
    BY <1>2, <2>1 DEF IInv, GoneEndsRun, Runs
<1>10. PromptHasSender'
  <2> SUFFICES ASSUME NEW j \in Tasks, j # k, Waits(j)'
               PROVE  Sender(j)'
    BY DEF PromptHasSender, Waits, Runs, Sender
  <2>1. task'[j] = task[j] /\ Waits(j)
    BY DEF Waits, Runs
  <2>2. Sender(j)
    BY <2>1 DEF IInv, PromptHasSender, Waits, Runs, Sender
  <2> QED
    BY <1>2, <1>4, <2>2 DEF Sender
<1>11. Newest'
  <2>1. \A s \in sending' :
         /\ s.newest /\ s.step = "confirm" => s.task \notin owed'
         /\ ~s.newest /\ s.term = task'[s.task].term => "overlapped" \in astray'[s.task]
    BY <1>1, <1>4, StartedTypes DEF Newest
  <2>2. ASSUME NEW j \in Tasks, task'[j].delivery = "delivered", j \in owed'
        PROVE  Excused(j)'
    <3>1. task'[j] = task[j] /\ j \in owed
      BY <2>2
    <3> QED
      BY <1>1, <2>2, <3>1 DEF Newest, Excused
  <2> QED
    BY <2>1, <2>2 DEF Newest
<1>12. StopKept
  BY DEF StopKept, Runs
<1> QED
  BY <1>3, <1>5, <1>6, <1>7, <1>8, <1>9, <1>10, <1>11, <1>12 DEF IInv

LEMMA ExecuteStep ==
    ASSUME IInv, NEW k \in Tasks, Execute(k)
    PROVE  IInv' /\ StopKept
<1> DEFINE t == IF Preferred[k] # None THEN Preferred[k]
                ELSE IF task[k].exec = "failed" THEN task[k].term ELSE None
<1>1. TypeOK /\ Placed /\ bounds' \in Nat \X Nat \X Nat
  BY RequestCounted DEF IInv, Execute
<1>2. ~Busy /\ task[k].stage \in {"todo", "executing"}
  BY DEF Execute
<1>3. Exists(t) => t \in Terminals /\ (task[k].term = t \/ t \in Open)
  BY <1>1, StartedTypes, TaskRunAssumption DEF Exists
<1>4. \/ Refused(k)
      \/ Exists(t) /\ RunExisting(k, t)
      \/ StartLaunch(task, k) /\ UNCHANGED astray
  BY DEF Execute
<1> HIDE DEF t
<1>5. CASE Refused(k)
  BY <1>1, <1>2, <1>5, RefusedStep
<1>6. CASE Exists(t) /\ RunExisting(k, t)
  BY <1>1, <1>2, <1>3, <1>6, RunExistingStep
<1>7. CASE StartLaunch(task, k) /\ UNCHANGED astray
  <2>1. UNCHANGED <<terminal, armed, sending, escapes, hooks, owed, astray>>
    BY <1>7 DEF StartLaunch
  <2>2. CASE task' = WithError(task, k, None) /\ launch' = launch
    <3>1. Refused(k)
      BY <2>1, <2>2 DEF Refused, Unsent, Elsewhere
    <3> QED
      BY <1>1, <1>2, <3>1, RefusedStep
  <2>3. CASE task' = task /\ launch' = k
    <3>1. \A j \in Tasks \ {k} : Runs(j) /\ task[j].term = task[k].term /\ task[j].term # None
             => BothJoined(j, k)'
      <4>1. ASSUME NEW j \in Tasks \ {k},
                   Runs(j), task[j].term = task[k].term, task[j].term # None
            PROVE  BothJoined(j, k)
        <5>1. Runs(k)
          BY <1>1, <1>2, <4>1 DEF Placed, Runs
        <5> QED
          BY <4>1, <5>1 DEF IInv, Shared, Mates
      <4> QED
        BY <2>1, <4>1 DEF BothJoined
    <3>2. task' \in [Tasks -> TodoTasks] /\ astray' \in [Tasks -> SUBSET Mishaps]
      BY <1>1, <2>1, <2>3, StartedTypes
    <3> QED
      BY <1>1, <1>2, <2>1, <2>3, <3>1, <3>2, LaunchBegun
  <2> QED
    BY <1>7, <2>2, <2>3 DEF StartLaunch
<1> QED
  BY <1>4, <1>5, <1>6, <1>7

LEMMA JoinedMet ==
    ASSUME TypeOK, NEW k \in Tasks, NEW t, NEW a, a = Joined(k, t)
    PROVE  /\ a \in [Tasks -> SUBSET Mishaps] /\ \A j \in Tasks : astray[j] \subseteq a[j]
           /\ \A j \in Tasks \ {k} : Runs(j) /\ task[j].term = t
                => "joined" \in a[j] \cap a[k]
<1>1. astray \in [Tasks -> SUBSET Mishaps]
  BY DEF TypeOK
<1>2. a = [j \in Tasks |-> astray[j] \cup
                {m \in {"joined"} : Met(k, t) # {} /\ j \in Met(k, t) \cup {k}}]
  BY DEF Joined
<1>3. a \in [Tasks -> SUBSET Mishaps] /\ \A j \in Tasks : astray[j] \subseteq a[j]
  BY <1>1, <1>2 DEF Mishaps
<1>4. ASSUME NEW j \in Tasks \ {k}, Runs(j), task[j].term = t
      PROVE  "joined" \in a[j] \cap a[k]
  <2>1. j \in Met(k, t)
    BY <1>4 DEF Met, Runs
  <2> QED
    BY <1>2, <2>1
<1> QED
  BY <1>3, <1>4

LEMMA ContinueStep ==
    ASSUME IInv, NEW k \in Tasks, Continue(k)
    PROVE  IInv' /\ StopKept
<1> USE TaskRunAssumption
<1>1. TypeOK /\ bounds' \in Nat \X Nat \X Nat
  BY RequestCounted DEF IInv, Continue
<1>2. PICK t : t = task[k].term
  OBVIOUS
<1>3. ~Busy /\ task[k].stage = "completed" /\ t \in Terminals \cup {None} /\ launch = None
  BY <1>1, <1>2, StartedTypes DEF Continue, Busy
<1>4. PICK a : a = Joined(k, t)
  OBVIOUS
<1>5. /\ a \in [Tasks -> SUBSET Mishaps] /\ \A j \in Tasks : astray[j] \subseteq a[j]
      /\ \A j \in Tasks \ {k} : Runs(j) /\ task[j].term = t => "joined" \in a[j] \cap a[k]
  BY <1>1, <1>4, JoinedMet
<1>6. PICK r : r = Rejected(k)
  OBVIOUS
<1>7. /\ r \in [Tasks -> TodoTasks]
      /\ \A j \in Tasks \ {k} : r[j] = task[j]
      /\ r[k].stage = "executing" /\ r[k].exec = "starting" /\ r[k].delivery = "pending"
      /\ r[k].term = task[k].term /\ r[k].attempts = task[k].attempts
  BY <1>1, <1>6, RejectedTask
<1>8. CASE Alive(t)
  <2>1. t \in Terminals /\ "sending" \in Deliveries
    BY <1>3, <1>8 DEF Alive, Exists, Deliveries
  <2>2. PICK b : b = Begun(r, k, t, "sending")
    OBVIOUS
  <2>3. /\ b \in [Tasks -> TodoTasks]
        /\ \A j \in Tasks \ {k} : b[j] = r[j]
        /\ b[k].stage = "executing" /\ b[k].delivery = "sending"
        /\ b[k].term = t /\ b[k].attempts = r[k].attempts + 1
    BY <1>7, <2>1, <2>2, BegunTask
  <2>4. task[k].attempts \in Nat
    BY <1>1 DEF TypeOK, TodoTasks
  <2>5. /\ task' = b /\ WriteAt(k, t) /\ owed' = owed \cup {k} /\ Elsewhere
        /\ astray' = [a EXCEPT ![k] = (@ \cap {"joined"}) \cup Overlap(k, t)]
    BY <1>2, <1>4, <1>6, <1>8, <2>2 DEF Continue
  <2>6. /\ astray' \in [Tasks -> SUBSET Mishaps] /\ Overlap(k, t) \subseteq astray'[k]
        /\ \A j \in Tasks \ {k} : astray'[j] = a[j]
        /\ "joined" \in a[k] => "joined" \in astray'[k]
    BY <1>5, <2>5, OverlapTyped
  <2>7. \A j \in Tasks \ {k} : Runs(j) /\ task[j].term = t => BothJoined(j, k)'
    BY <1>5, <2>6 DEF BothJoined
  <2> QED
    BY <1>1, <1>2, <1>3, <1>5, <1>7, <1>8, <2>1, <2>3, <2>4, <2>5, <2>6, <2>7, PromptWritten
<1>9. CASE ~Alive(t)
  <2>1. StartLaunch(r, k) /\ astray' = a
    BY <1>2, <1>4, <1>6, <1>9 DEF Continue
  <2>2. UNCHANGED <<terminal, armed, sending, escapes, hooks, owed>>
    BY <2>1 DEF StartLaunch
  <2>3. \A j \in Tasks \ {k} : Runs(j) /\ task[j].term = task[k].term /\ task[j].term # None
             => BothJoined(j, k)'
    BY <1>2, <1>5, <2>1 DEF BothJoined
  <2>4. CASE task' = WithError(r, k, None) /\ launch' = launch
    <3>1. Errs(task', k, None)
      BY <1>3, <1>7, <2>4, ErrsAfter
    <3>2. \A j \in Tasks : task'[j].term = task[j].term
      BY <3>1 DEF Errs
    <3>3. \A j \in Tasks : Sender(j) => Sender(j)'
      BY <2>2, <2>4, <3>2 DEF Sender
    <3>4. /\ armed' \in [Terminals -> Startups] /\ sending' \subseteq sending
          /\ \A u \in Terminals : /\ armed'[u].task \in {armed[u].task, None}
                                  /\ armed'[u].started => armed'[u].task # None
      BY <1>1, <2>2, StartedTypes DEF IInv, Prepared
    <3>5. \A j \in Tasks \ {k} :
             /\ Runs(j) \/ launch = j
             /\ task[j].term = task[k].term /\ task[k].term # None
             => BothJoined(j, k)'
      BY <1>3, <2>3
    <3> QED
      BY <1>1, <1>5, <2>1, <2>2, <2>4, <3>1, <3>3, <3>4, <3>5, RunFails
  <2>5. CASE task' = r /\ launch' = k
    <3>1. ~Runs(k)
      BY <1>3 DEF Runs
    <3> QED
      BY <1>1, <1>3, <1>5, <1>7, <2>1, <2>2, <2>3, <2>5, <3>1, LaunchBegun
  <2> QED
    BY <2>1, <2>4, <2>5 DEF StartLaunch
<1> QED
  BY <1>8, <1>9

LEMMA AmendStep ==
    ASSUME IInv, NEW k \in Tasks, Amend(k)
    PROVE  IInv' /\ StopKept
<1> USE TaskRunAssumption
<1>1. TypeOK /\ Shared /\ bounds' \in Nat \X Nat \X Nat
  BY RequestCounted DEF IInv, Amend
<1>2. PICK t : t = task[k].term
  OBVIOUS
<1>3. ~Busy /\ Runs(k) /\ t \in Terminals \cup {None} /\ launch = None /\ Elsewhere
  BY <1>1, <1>2, StartedTypes DEF Amend, Busy, Runs
<1>4. task \in [Tasks -> TodoTasks] /\ task[k] \in TodoTasks
  BY <1>1 DEF TypeOK
<1>5. PICK board : board = [task EXCEPT ![k].delivery = "pending", ![k].dated = FALSE]
  OBVIOUS
<1>6. PICK q : q = [task[k] EXCEPT !.delivery = "pending", !.dated = FALSE]
  OBVIOUS
<1>7. /\ q \in TodoTasks /\ q.stage = task[k].stage /\ q.exec = task[k].exec /\ q.delivery = "pending"
      /\ q.term = task[k].term /\ q.attempts = task[k].attempts
  BY <1>4, <1>6 DEF TodoTasks, Deliveries
<1>8. board = [task EXCEPT ![k] = q]
  BY <1>4, <1>5, <1>6
<1>9. board \in [Tasks -> TodoTasks] /\ board[k] = q /\ \A j \in Tasks \ {k} : board[j] = task[j]
  BY <1>4, <1>7, <1>8
<1>10. CASE Exists(t)
  <2>1. t \in Terminals
    BY <1>3, <1>10 DEF Exists
  <2>2. /\ task' = [board EXCEPT ![k].delivery = "sending"]
        /\ WriteAt(k, t) /\ Instructed(k, t, astray[k])
    BY <1>2, <1>5, <1>10 DEF Amend
  <2>3. PICK p : p = [q EXCEPT !.delivery = "sending"]
    OBVIOUS
  <2>4. /\ p \in TodoTasks /\ p.stage = q.stage /\ p.exec = q.exec /\ p.delivery = "sending"
        /\ p.term = q.term /\ p.attempts = q.attempts
    BY <1>7, <2>3 DEF TodoTasks, Deliveries
  <2>5. task' = [board EXCEPT ![k] = p]
    BY <1>9, <2>2, <2>3
  <2>6. /\ task' \in [Tasks -> TodoTasks] /\ task'[k] = p
        /\ \A j \in Tasks \ {k} : task'[j] = task[j]
    BY <1>9, <2>4, <2>5
  <2>7. /\ owed' = owed \cup {k} /\ astray' \in [Tasks -> SUBSET Mishaps]
        /\ astray'[k] = astray[k] \cup Overlap(k, t)
        /\ \A j \in Tasks \ {k} : astray'[j] = astray[j]
    <3>1. astray \in [Tasks -> SUBSET Mishaps] /\ astray[k] \cup Overlap(k, t) \in SUBSET Mishaps
      BY <1>1, StartedTypes, OverlapTyped
    <3> QED
      BY <2>2, <3>1 DEF Instructed
  <2>8. ASSUME NEW j \in Tasks \ {k}, Runs(j), task[j].term = t
        PROVE  BothJoined(j, k)'
    <3>1. Mates(j, k)
      BY <1>2, <1>3, <2>1, <2>8 DEF Mates
    <3>2. BothJoined(j, k)
      BY <1>1, <3>1 DEF Shared
    <3> QED
      BY <2>7, <3>2 DEF BothJoined
  <2>9. task'[k].stage = "executing" /\ task'[k].term = t /\ task'[k].exec = task[k].exec
        /\ task'[k].delivery = "sending"
    BY <1>2, <1>3, <1>7, <2>4, <2>6 DEF Runs
  <2> QED
    BY <1>1, <1>2, <1>3, <2>1, <2>2, <2>6, <2>7, <2>8, <2>9, PromptWritten
<1>11. CASE ~Exists(t)
  <2>1. task' = WithError(board, k, None)
        /\ UNCHANGED <<terminal, armed, launch, sending, escapes, hooks, owed, astray>>
    BY <1>2, <1>3, <1>5, <1>11 DEF Amend, Unsent, Elsewhere
  <2>2. Errs(task', k, None)
    <3>1. task[k].stage = "executing" /\ board[k].stage = "executing" /\ board[k].delivery = "pending"
          /\ board[k].term = task[k].term /\ board[k].attempts = task[k].attempts
      BY <1>3, <1>7, <1>9 DEF Runs
    <3> QED
      BY <1>9, <2>1, <3>1, ErrsAfter
  <2>3. \A j \in Tasks : task'[j].term = task[j].term
    BY <2>2 DEF Errs
  <2>4. \A j \in Tasks : Sender(j) => Sender(j)'
    BY <2>1, <2>3 DEF Sender
  <2>5. /\ armed' \in [Terminals -> Startups] /\ astray' \in [Tasks -> SUBSET Mishaps]
        /\ sending' \subseteq sending
        /\ \A u \in Terminals : /\ armed'[u].task \in {armed[u].task, None}
                                /\ armed'[u].started => armed'[u].task # None
    BY <1>1, <2>1, StartedTypes DEF IInv, Prepared
  <2> QED
    BY <1>1, <1>3, <2>1, <2>2, <2>4, <2>5, RunFails
<1> QED
  BY <1>10, <1>11

(* The terminal of a launch appears, and its task is there no more, ...     *)
LEMMA LaunchForgotten ==
    ASSUME IInv, NEW t \in Terminals, LaunchReady(t), ~Present(launch)
    PROVE  IInv' /\ StopKept
<1> USE TaskRunAssumption
<1>1. TypeOK /\ Prepared /\ Placed /\ launch \in Tasks
  BY StartedTypes DEF IInv, LaunchReady
<1>2. /\ terminal' = [terminal EXCEPT ![t] = Launched]
      /\ launch' = None
      /\ UNCHANGED <<task, armed, sending, escapes, hooks, owed, astray, bounds>>
  BY DEF LaunchReady, Unsent
<1>3. /\ terminal' \in [Terminals -> [status : Statuses \cup {"ABSENT"}, ended : BOOLEAN, starting : BOOLEAN]]
      /\ \A u \in Terminals \ {t} : terminal'[u] = terminal[u]
  BY <1>1, <1>2 DEF TypeOK, Statuses, Launched
<1>4. TypeOK'
  BY <1>1, <1>2, <1>3 DEF TypeOK, bounds
<1>5. ~Runs(launch) /\ \A k \in Tasks : task[k].term # t
  BY DEF LaunchReady, Unused, Bound, Present, Runs
<1>6. \A k \in Tasks : Waits(k)' => Waits(k) /\ (Sender(k) => Sender(k)')
  BY <1>2, <1>5 DEF Waits, Runs, Sender
<1>7. \A j, k \in Tasks : Mates(j, k)' => Mates(j, k)
  BY <1>2 DEF Mates, Runs
<1>8. Prepared' /\ Placed' /\ Writing' /\ Shared' /\ PromptHasSender' /\ Newest'
  <2>1. \A k \in Tasks : /\ astray[k] \subseteq astray'[k]
                         /\ task'[k].term \in {task[k].term, None}
                         /\ task'[k].stage \in {"todo", "deleted"} => task'[k].term = None
                         /\ Waits(k)' => Waits(k) /\ (Sender(k) => Sender(k)')
                         /\ task'[k].delivery = "delivered" /\ k \in owed
                              => task[k].delivery = "delivered" \/ Excused(k)'
    BY <1>1, <1>2, <1>6 DEF Placed
  <2>2. \A u \in Terminals : /\ armed'[u].task \in {armed[u].task, None}
                             /\ armed'[u].started => armed'[u].task # None
    BY <1>1, <1>2 DEF Prepared
  <2> QED
    BY <1>2, <1>4, <1>7, <2>1, <2>2, Calm
<1>9. GoneEndsRun'
  <2> SUFFICES ASSUME NEW k \in Tasks, Runs(k), task[k].term # None, ~Alive(task[k].term)',
                      astray[k] \cap {"joined", "declined", "late"} = {}
               PROVE  task[k].exec \in {"failed", "stopped"}
    BY <1>2 DEF GoneEndsRun, Runs
  <2>1. task[k].term \in Terminals \ {t} /\ k # launch
    BY <1>1, <1>5, StartedTypes
  <2>2. ~Alive(task[k].term)
    BY <1>2, <1>3, <2>1 DEF Alive, Exists
  <2> QED
    BY <2>1, <2>2 DEF IInv, GoneEndsRun, Runs
<1>10. StopKept
  BY <1>2 DEF StopKept
<1> QED
  BY <1>4, <1>8, <1>9, <1>10 DEF IInv

(* ... or it is, and its prompt is armed there.                             *)
LEMMA LaunchBound ==
    ASSUME IInv, NEW t \in Terminals, LaunchReady(t), Present(launch)
    PROVE  IInv' /\ StopKept
<1> USE TaskRunAssumption
<1>1. TypeOK /\ Prepared /\ Placed /\ Writing /\ Newest /\ Shared /\ launch \in Tasks
  BY StartedTypes DEF IInv, LaunchReady
<1>2. PICK k \in Tasks : k = launch
  BY <1>1
<1>3. PICK b : b = Begun(task, k, t, "pending")
  OBVIOUS
<1>4. /\ b \in [Tasks -> TodoTasks]
      /\ \A j \in Tasks \ {k} : b[j] = task[j]
      /\ b[k].stage = "executing" /\ b[k].delivery = "pending"
      /\ b[k].term = t /\ b[k].attempts = task[k].attempts + 1
  <2>1. task \in [Tasks -> TodoTasks] /\ "pending" \in Deliveries
    BY <1>1, StartedTypes DEF Deliveries
  <2> QED
    BY <1>3, <2>1, BegunTask
<1>5. PICK a : a = [Unarmed EXCEPT !.task = k]
  OBVIOUS
<1>6. a \in Startups /\ a.task = k /\ ~a.started
  BY <1>5 DEF Unarmed, Startups
<1>7. /\ task' = b /\ armed' = [armed EXCEPT ![t] = a] /\ launch' = None
      /\ terminal' = [terminal EXCEPT ![t] = Launched]
      /\ sending' = Outdated(k) /\ Instructed(k, t, {})
      /\ UNCHANGED <<escapes, hooks, bounds>>
  BY <1>2, <1>3, <1>5 DEF LaunchReady
<1>8. /\ t \notin Open /\ armed[t].task = None
      /\ \A j \in Tasks : task[j].term # t
      /\ \A s \in sending : s.term # t
  BY DEF LaunchReady, Unused, Bound
<1>9. /\ owed' = owed \cup {k}
      /\ astray' \in [Tasks -> SUBSET Mishaps] /\ \A j \in Tasks \ {k} : astray'[j] = astray[j]
  BY <1>1, <1>7, OverlapTyped, StartedTypes DEF Instructed
<1>10. /\ armed' \in [Terminals -> Startups] /\ armed'[t] = a
       /\ \A u \in Terminals \ {t} : armed'[u] = armed[u]
  BY <1>1, <1>6, <1>7, StartedTypes
<1>11. /\ terminal' \in [Terminals -> [status : Statuses \cup {"ABSENT"}, ended : BOOLEAN, starting : BOOLEAN]]
       /\ \A u \in Terminals \ {t} : terminal'[u] = terminal[u]
       /\ terminal'[t].status = "STARTING"
  BY <1>1, <1>7 DEF TypeOK, Statuses, Launched
<1>12. sending' \subseteq Sendings
  BY <1>1, <1>7, OutdatedSendings
<1>13. TypeOK'
  BY <1>1, <1>4, <1>7, <1>9, <1>10, <1>11, <1>12 DEF TypeOK, bounds
<1>14. Prepared'
  <2> SUFFICES ASSUME NEW u \in Terminals
               PROVE  /\ armed'[u].started => armed'[u].task # None
                      /\ armed'[u].task # None => u \notin Open /\ Bound(u)' \subseteq {armed'[u].task}
    BY DEF Prepared
  <2>1. CASE u = t
    <3>1. Bound(u)' \subseteq {k}
      BY <1>4, <1>7, <1>8, <2>1 DEF Bound
    <3> QED
      BY <1>6, <1>8, <1>10, <2>1, <3>1
  <2>2. CASE u # t
    <3>1. Bound(u)' \subseteq Bound(u)
      BY <1>4, <1>7, <2>2 DEF Bound
    <3> QED
      BY <1>1, <1>10, <2>2, <3>1 DEF Prepared
  <2> QED
    BY <2>1, <2>2
<1>15. Placed'
  <2>1. ASSUME NEW u \in Terminals \ Open, NEW i \in Bound(u)', NEW j \in Bound(u)'
        PROVE  i = j
    <3>1. CASE u = t
      BY <1>4, <1>7, <1>8, <2>1, <3>1 DEF Bound
    <3>2. CASE u # t
      <4>1. i \in Bound(u) /\ j \in Bound(u)
        BY <1>4, <1>7, <2>1, <3>2 DEF Bound
      <4> QED
        BY <1>1, <4>1 DEF Placed
    <3> QED
      BY <3>1, <3>2
  <2>2. \A j \in Tasks : task'[j].stage \in {"todo", "deleted"} => task'[j].term = None
    BY <1>1, <1>4, <1>7 DEF Placed
  <2> QED
    BY <2>1, <2>2 DEF Placed
<1>16. Writing'
  <2> SUFFICES ASSUME NEW p \in sending', ~p.direct
               PROVE  p.term \notin Open /\ armed'[p.term].task \in {None, p.task}
    BY <1>7 DEF Writing
  <2>1. PICK s \in sending : p.task = s.task /\ p.term = s.term /\ p.direct = s.direct
    BY <1>1, <1>7, OutdatedSendings
  <2>2. p.term \in Terminals \ {t}
    BY <1>1, <1>8, <2>1, StartedTypes
  <2> QED
    BY <1>1, <1>10, <2>1, <2>2 DEF Writing
<1>17. Shared'
  <2> SUFFICES ASSUME NEW i \in Tasks, NEW j \in Tasks, Mates(i, j)'
               PROVE  BothJoined(i, j)'
    BY DEF Shared
  <2>1. i # j /\ task'[i].term = task'[j].term /\ task'[i].term # None /\ Runs(i)' /\ Runs(j)'
    BY <1>2, <1>7 DEF Mates
  <2>2. i # k /\ j # k
    BY <1>4, <1>7, <1>8, <2>1
  <2>3. Mates(i, j)
    BY <1>4, <1>7, <2>1, <2>2 DEF Mates, Runs
  <2> QED
    BY <1>1, <1>9, <2>2, <2>3 DEF Shared, BothJoined
<1>18. GoneEndsRun'
  <2> SUFFICES ASSUME NEW j \in Tasks, Runs(j)', task'[j].term # None,
                      NEW u, u = task'[j].term, ~Alive(u)',
                      astray'[j] \cap {"joined", "declined", "late"} = {}
               PROVE  task'[j].exec \in {"failed", "stopped"}
    BY DEF GoneEndsRun, Runs, Alive, Exists
  <2>1. j # k
    BY <1>4, <1>7, <1>11 DEF Alive, Exists, Gone
  <2>2. task'[j] = task[j] /\ Runs(j) /\ u \in Terminals \ {t}
    BY <1>1, <1>4, <1>7, <1>8, <2>1, StartedTypes DEF Runs
  <2>3. ~Alive(u)
    BY <1>11, <2>2 DEF Alive, Exists
  <2> QED
    BY <1>2, <1>9, <2>1, <2>2, <2>3 DEF IInv, GoneEndsRun, Runs
<1>19. PromptHasSender'
  <2> SUFFICES ASSUME NEW j \in Tasks, Waits(j)'
               PROVE  Sender(j)'
    BY DEF PromptHasSender, Waits, Runs, Sender
  <2>1. CASE j = k
    BY <1>4, <1>6, <1>7, <1>10, <2>1 DEF Sender
  <2>2. CASE j # k
    <3>1. task'[j] = task[j] /\ Waits(j)
      BY <1>4, <1>7, <1>9, <2>2 DEF Waits, Runs
    <3>2. Sender(j)
      BY <3>1 DEF IInv, PromptHasSender, Waits, Runs, Sender
    <3>3. ASSUME NEW s \in sending, s.task = j, s.term = task[j].term
          PROVE  \E p \in sending' : p.task = j /\ p.term = task'[j].term
      BY <1>1, <1>7, <3>1, <3>3, OutdatedSendings
    <3>4. ASSUME NEW u \in Terminals, armed[u].task = j, task[j].term = u
          PROVE  armed'[u].task = j /\ task'[j].term = u
      BY <1>8, <1>10, <3>1, <3>4
    <3> QED
      BY <1>2, <2>2, <3>2, <3>3, <3>4 DEF Sender
  <2> QED
    BY <2>1, <2>2
<1>20. Newest'
  <2>1. ASSUME NEW p \in sending'
        PROVE  /\ p.newest /\ p.step = "confirm" => p.task \notin owed'
               /\ ~p.newest /\ p.term = task'[p.task].term => "overlapped" \in astray'[p.task]
    <3>1. PICK s \in sending : /\ p.task = s.task /\ p.term = s.term /\ p.step = s.step
                               /\ s.task # k => p = s
                               /\ s.task = k => ~p.newest
      BY <1>1, <1>7, OutdatedSendings
    <3>2. CASE s.task = k
      BY <1>4, <1>7, <1>8, <3>1, <3>2
    <3>3. CASE s.task # k
      <4>1. s.task \in Tasks \ {k} /\ p = s
        BY <1>1, <3>1, <3>3, StartedTypes
      <4> QED
        BY <1>1, <1>4, <1>7, <1>9, <4>1 DEF Newest
    <3> QED
      BY <3>2, <3>3
  <2>2. ASSUME NEW j \in Tasks, task'[j].delivery = "delivered", j \in owed'
        PROVE  Excused(j)'
    <3>1. j # k /\ task'[j] = task[j] /\ j \in owed
      BY <1>4, <1>7, <1>9, <2>2
    <3> QED
      BY <1>1, <1>9, <2>2, <3>1 DEF Newest, Excused
  <2> QED
    BY <2>1, <2>2 DEF Newest
<1>21. StopKept
  <2>1. task[k].attempts \in Nat
    BY <1>1 DEF TypeOK, TodoTasks
  <2>2. \A j \in Tasks : j # k => task'[j] = task[j]
    BY <1>4, <1>7
  <2>3. task'[k].attempts # task[k].attempts
    BY <1>4, <1>7, <2>1
  <2> QED
    BY <2>2, <2>3 DEF StopKept
<1> QED
  BY <1>13, <1>14, <1>15, <1>16, <1>17, <1>18, <1>19, <1>20, <1>21 DEF IInv

-----------------------------------------------------------------------------
(* The specification.                                                       *)

LEMMA InitStep ==
    ASSUME Init
    PROVE  IInv
<1> USE TaskRunAssumption
<1>1. TypeOK
  <2>1. task \in [Tasks -> TodoTasks]
    BY DEF Init, TodoTasks, Stages, Executions, Deliveries
  <2>2. terminal \in [Terminals -> [status : Statuses \cup {"ABSENT"}, ended : BOOLEAN, starting : BOOLEAN]]
    BY DEF Init, Statuses, Reusable
  <2>3. armed \in [Terminals -> Startups]
    BY DEF Init, Unarmed, Startups
  <2>4. hooks \in [Terminals -> Seq(Hooks)]
    <3>1. <<>> \in Seq(Hooks)
      OBVIOUS
    <3> QED
      BY <3>1 DEF Init
  <2> QED
    BY <2>1, <2>2, <2>3, <2>4 DEF Init, TypeOK, bounds
<1>2. /\ sending = {} /\ owed = {} /\ launch = None
      /\ \A k \in Tasks : /\ task[k].term = None /\ task[k].stage = "todo"
                          /\ task[k].delivery = "idle"
      /\ \A t \in Terminals : armed[t].task = None /\ ~armed[t].started
  BY DEF Init, Unarmed
<1>3. Prepared
  BY <1>2 DEF Prepared
<1>4. Placed
  BY <1>2 DEF Placed, Bound
<1>5. Writing /\ Newest
  BY <1>2 DEF Writing, Newest
<1>6. Shared
  BY <1>2 DEF Shared, Mates
<1>7. GoneEndsRun /\ PromptHasSender
  BY <1>2 DEF GoneEndsRun, PromptHasSender
<1> QED
  BY <1>1, <1>3, <1>4, <1>5, <1>6, <1>7 DEF IInv

LEMMA NextStep ==
    ASSUME IInv, [Next]_vars
    PROVE  IInv' /\ (Restart \/ OtherLoads \/ StopKept)
<1>1. CASE UNCHANGED vars
  <2>1. UNCHANGED <<task, terminal, armed, launch, sending, escapes, hooks, owed, astray, bounds>>
    BY <1>1 DEF vars
  <2>2. escapes' \subseteq Terminals /\ hooks' \in [Terminals -> Seq(Hooks)]
        /\ bounds' \in Nat \X Nat \X Nat
    BY <2>1 DEF IInv, TypeOK
  <2> QED
    BY <2>1, <2>2, FrameStep
<1>2. ASSUME NEW k \in Tasks,
             \/ Execute(k) \/ Resume(k) \/ Continue(k) \/ Amend(k)
             \/ Stop(k) \/ Delete(k) \/ MoveCard(k)
      PROVE  IInv' /\ StopKept
  BY <1>2, ExecuteStep, ResumeStep, ContinueStep, AmendStep, StopStep, DeleteStep, MoveCardStep
<1>3. CASE Finish
  BY <1>3, LaunchFailsStep, LaunchDeclinedStep, LaunchBound, LaunchForgotten DEF Finish
<1>4. ASSUME NEW t \in Terminals,
             \/ RuntimeStarts(t) \/ Submit(t) \/ ConfirmationFails(t)
             \/ EscapeWritten(t) \/ Close(t) \/ Exit(t) \/ Fire(t)
             \/ \E i \in DOMAIN hooks[t] : Apply(t, i)
      PROVE  IInv' /\ StopKept
  BY <1>4, RuntimeStartsStep, SubmitStep, ConfirmationFailsStep, EscapeWrittenStep, CloseStep,
     ExitStep, FireStep, ApplyStep
<1>5. ASSUME NEW s \in sending, Send(s)
      PROVE  IInv' /\ StopKept
  BY <1>5, SendFailsStep, WriteEnterStep, DeliveredStep DEF Send
<1>6. CASE Restart \/ OtherLoads
  BY <1>6, RestartStep, OtherLoadsStep
<1> QED
  BY <1>1, <1>2, <1>3, <1>4, <1>5, <1>6 DEF Next

LEMMA Invariant == Spec => []IInv
<1>1. Init => IInv
  BY InitStep
<1>2. IInv /\ [Next]_vars => IInv'
  BY NextStep
<1> QED
  BY <1>1, <1>2, PTL DEF Spec

(* Every variable of the run of a task keeps its type.                      *)
THEOREM Types == Spec => []TypeOK
<1>1. IInv => TypeOK
  BY DEF IInv
<1> QED
  BY <1>1, Invariant, PTL

(* A prompt the board shows as waiting has somebody who is going to write it *)
(* to the task's terminal, and one it shows as delivered to a running task  *)
(* had the Enter of its latest instructions written.                        *)
THEOREM DeliveryIsTrue == Spec => []DeliveryTrue
<1>1. IInv => DeliveryTrue
  BY DEF IInv, Newest, Excused, DeliveryTrue, DeliveredWasSent
<1> QED
  BY <1>1, Invariant, PTL

(* Two tasks run in one terminal only when a rejection, or the error of an  *)
(* abandoned prompt, brought one of them back there.                        *)
THEOREM TerminalsAreExclusive == Spec => []ExclusiveTerminal
<1>1. IInv => ExclusiveTerminal
  BY DEF IInv, Shared, Mates, BothJoined, Runs, ExclusiveTerminal
<1> QED
  BY <1>1, Invariant, PTL

(* A task whose terminal has failed, stopped or been closed shows it, unless *)
(* its new launch is under way.                                             *)
THEOREM RunsEndWithTerminals == Spec => []GoneEndsRun
<1>1. IInv => GoneEndsRun
  BY DEF IInv
<1> QED
  BY <1>1, Invariant, PTL

(* No hook, status or late delivery makes a stopped run read as going on.   *)
THEOREM StopsStay == Spec => StopStays
<1>1. IInv /\ [Next]_vars =>
        [\A k \in Tasks :
           /\ task[k].stage = "executing" /\ task[k].exec = "stopped"
           /\ task'[k].stage = "executing" /\ task'[k].attempts = task[k].attempts
           => Restart \/ OtherLoads \/ task'[k].exec \in {"stopped", "failed"}]_vars
  BY NextStep DEF StopKept, Runs
<1> QED
  BY <1>1, Invariant, PTL DEF Spec, StopStays
=============================================================================
