------------------------------ MODULE TaskRun ------------------------------
(***************************************************************************)
(* The run of a board task: from the request that starts it, over the      *)
(* terminal it is bound to and the prompt that has to reach the agent      *)
(* there, to the status the agent's hooks, the process's exit or the user  *)
(* end it with.  One desktop window; requests of the board, of the MCP     *)
(* bridge, timers, hooks and exits interleave at every await.              *)
(*                                                                         *)
(* A prompt is written in two parts, the text and, a second later, the     *)
(* Enter that submits it.  Clock readings are compared, never shown: a     *)
(* hook on its way remembers which comparisons it will lose.               *)
(***************************************************************************)
EXTENDS Naturals, Sequences, FiniteSets, SequencesExt

CONSTANTS
    Tasks, Terminals,
    None,          (* no task, no terminal                                   *)
    Open,          (* terminals that are at their prompt when the window opens *)
    Preferred,     (* per task: preferredTerminalId                          *)
    Routine,       (* recurring tasks                                        *)
    Codex,         (* terminals in which the agent is codex                  *)
    HookEvents,    (* events the agents' hooks report                        *)
    Asks,          (* whether a launch can ask about a background session    *)
    MaxRequests,   (* bound: requests of the user or of MCP                  *)
    MaxHooks,      (* bound: hook events                                     *)
    MaxUpsets      (* bound: exits, closed terminals, restarts, other loads  *)

Gone == {"FAILED", "STOPPED", "DISCONNECTED"}
Reusable == {"RUNNING", "WAITING_INPUT", "IDLE", "COMPLETED"}
Interruptible == {"THINKING", "RUNNING", "WAITING_APPROVAL"}
Statuses == Gone \cup Reusable \cup Interruptible \cup {"STARTING", "RATE_LIMITED"}

(* EVENT_STATUS                                                             *)
EventStatus ==
    [session_starting |-> "STARTING", session_started |-> "RUNNING", session_ready |-> "IDLE",
     session_ended |-> "STOPPED", agent_thinking |-> "THINKING", tool_started |-> "RUNNING",
     tool_completed |-> "THINKING", tool_failed |-> "RUNNING",
     approval_required |-> "WAITING_APPROVAL", user_input_required |-> "WAITING_INPUT",
     agent_rate_limited |-> "RATE_LIMITED", agent_timeout |-> "WAITING_INPUT",
     task_completed |-> "COMPLETED", agent_failed |-> "FAILED",
     agent_interrupted |-> "IDLE", agent_idle |-> "IDLE"]

ASSUME TaskRunAssumption ==
    /\ None \notin Tasks \cup Terminals
    /\ Open \cup Codex \subseteq Terminals /\ Routine \subseteq Tasks
    /\ Preferred \in [Tasks -> Open \cup {None}]
    /\ HookEvents \subseteq DOMAIN EventStatus /\ Asks \in BOOLEAN
    /\ {MaxRequests, MaxHooks, MaxUpsets} \subseteq Nat

VARIABLES
    task,       (* the board: TodoTask                                        *)
    terminal,   (* AppStateService: status, whether this launch has exited, and *)
                (* whether its panel awaits start()                          *)
    armed,      (* AgentStartupService.pending                                *)
    launch,     (* the task launchTodoTerminal is busy with                         *)
    sending,    (* prompts being written to a terminal                        *)
    escapes,    (* interrupts of stopped runs, being written                  *)
    hooks,      (* per terminal: events that fired and are not applied        *)
    owed,       (* ghost: tasks whose latest instructions no Enter has submitted *)
    astray,     (* ghost: per task, what its run has met that the code accepts *)
    requests, fired, upsets

bounds == <<requests, fired, upsets>>
vars == <<task, terminal, armed, launch, sending, escapes, hooks, owed, astray, bounds>>

Stages == {"todo", "executing", "completed", "verified", "deleted"}
Executions == {"idle", "starting", "running", "waiting", "stopped", "completed", "failed"}
Deliveries == {"idle", "pending", "sending", "delivered", "failed"}
TodoTasks == [stage : Stages, exec : Executions, delivery : Deliveries,
              dated : BOOLEAN, term : Terminals \cup {None}, attempts : Nat]
Startups == [task : Tasks \cup {None}, started : BOOLEAN, submitting : BOOLEAN]
(* direct: written by the handler that holds busyTodoTaskId, not by an armed *)
(* startup.  newest: no later instructions were given to the task.           *)
Sendings == [task : Tasks, term : Terminals, direct : BOOLEAN, newest : BOOLEAN,
             step : {"text", "enter", "confirm"}]
Hooks == [event : HookEvents, old : BOOLEAN, early : SUBSET Tasks]
Mishaps == {"overlapped", "joined", "declined", "late", "preempted"}

TypeOK ==
    /\ task \in [Tasks -> TodoTasks]
    /\ terminal \in [Terminals -> [status : Statuses \cup {"ABSENT"}, ended : BOOLEAN,
                                    starting : BOOLEAN]]
    /\ armed \in [Terminals -> Startups]
    /\ launch \in Tasks \cup {None}
    /\ sending \subseteq Sendings
    /\ escapes \subseteq Terminals
    /\ hooks \in [Terminals -> Seq(Hooks)]
    /\ owed \subseteq Tasks
    /\ astray \in [Tasks -> SUBSET Mishaps]
    /\ bounds \in Nat \X Nat \X Nat

Unarmed == [task |-> None, started |-> FALSE, submitting |-> FALSE]

Init ==
    /\ task = [k \in Tasks |-> [stage |-> "todo", exec |-> "idle", delivery |-> "idle",
                                dated |-> FALSE, term |-> None, attempts |-> 0]]
    /\ terminal = [t \in Terminals |->
                     [status |-> IF t \in Open THEN "IDLE" ELSE "ABSENT", ended |-> FALSE,
                      starting |-> FALSE]]
    /\ armed = [t \in Terminals |-> Unarmed]
    /\ launch = None
    /\ sending = {} /\ escapes = {}
    /\ hooks = [t \in Terminals |-> <<>>]
    /\ owed = {} /\ astray = [k \in Tasks |-> {}]
    /\ requests = 0 /\ fired = 0 /\ upsets = 0

-----------------------------------------------------------------------------
(* What the handlers share.                                                 *)

Exists(t) == t # None /\ terminal[t].status # "ABSENT"
Alive(t) == Exists(t) /\ terminal[t].status \notin Gone
Busy == launch # None \/ \E s \in sending : s.direct
Present(k) == task[k].stage # "deleted"
Met(k, t) == {j \in Tasks \ {k} : task[j].stage = "executing" /\ task[j].term = t}

(* A task that prefers updatedAt over another bound to the same terminal is *)
(* any of those the stage does not tell apart.                              *)
Bound(t) == {k \in Tasks : task[k].term = t}
Hearers(t) ==
    LET live == {k \in Bound(t) : task[k].stage = "executing"}
    IN  IF live # {} THEN live ELSE IF Bound(t) # {} THEN Bound(t) ELSE {None}

(* Mutant of ExecutionState: an agent at its prompt has no state of its own. *)
ExecutionStateWithoutPrompt(status, delivery) ==
    CASE status = "STARTING" -> "starting"
      [] status \in {"RUNNING", "THINKING"} -> "running"
      [] status \in {"WAITING_INPUT", "WAITING_APPROVAL", "RATE_LIMITED"} -> "waiting"
      [] status = "COMPLETED" -> "completed"
      [] status \in Gone -> "failed"
      [] OTHER -> status

ExecutionState(status, delivery) ==
    CASE status = "STARTING" -> "starting"
      [] status \in {"RUNNING", "THINKING"} -> "running"
      [] status \in {"WAITING_INPUT", "WAITING_APPROVAL", "RATE_LIMITED"} -> "waiting"
      [] status = "COMPLETED" -> "completed"
      [] status \in Gone -> "failed"
      [] status = "IDLE" -> IF delivery = "delivered" THEN "waiting" ELSE "idle"

WithStatus(r, status) ==
    LET done == status = "COMPLETED"
    IN  [r EXCEPT
            !.stage = IF done THEN "completed" ELSE @,
            !.exec = ExecutionState(status, r.delivery),
            !.delivery = IF done THEN "delivered"
                         ELSE IF status \in Gone /\ @ # "delivered" THEN "failed" ELSE @,
            !.dated = @ \/ done]

(* Mutant of Heard: a stopped run listens to its terminal.                  *)
HeardWhenStopped(board, w, status) ==
    IF w = None \/ board[w].stage \in {"completed", "verified"}
    THEN board
    ELSE [board EXCEPT ![w] = WithStatus(@, status)]

(* TodoService.handleTerminalStatus: the board after it, w hearing of it.   *)
Heard(board, w, status) ==
    IF \/ w = None
       \/ board[w].stage \in {"completed", "verified"}
       \/ board[w].exec = "stopped" /\ status \notin Gone
    THEN board
    ELSE [board EXCEPT ![w] = WithStatus(@, status)]

(* setExecutionError; t, if given, names the terminal the error is about.   *)
WithError(board, k, t) ==
    IF board[k].stage = "deleted" \/ (t # None /\ board[k].term # t) THEN board
    ELSE [board EXCEPT ![k].stage = "executing", ![k].exec = "failed",
                       ![k].delivery = IF @ = "delivered" THEN @ ELSE "failed"]

(* A status that completes a task whose instructions are still on their way. *)
Preempted(k) == {m \in {"preempted"} : k \in owed /\ task[k].stage # "completed"
                                                  /\ task'[k].stage = "completed"}

Superseded(h) == [h EXCEPT !.old = TRUE]
(* An event that fired before a prompt of k was confirmed.                  *)
BeforeDelivery(h, k) == [h EXCEPT !.early = @ \cup {k}]
(* A status set now is newer than every event on its way.                   *)
Overtaken(t) == [hooks EXCEPT ![t] = [i \in DOMAIN @ |-> Superseded(@[i])]]

(* App.handleTerminalStatus; shown: the terminals but for the new status.   *)
Announced(shown, t, status) ==
    /\ terminal' = IF Exists(t) THEN [shown EXCEPT ![t].status = status] ELSE shown
    /\ hooks' = Overtaken(t)
    /\ \E w \in Hearers(t) : task' = Heard(task, w, status)
    /\ armed' = IF status \in Gone THEN [armed EXCEPT ![t] = Unarmed]
                ELSE IF status \in {"RUNNING", "IDLE"} /\ armed[t].task # None
                     THEN [armed EXCEPT ![t].started = TRUE]
                     ELSE armed
TerminalStatus(t, status) == Announced(terminal, t, status)

(* beginExecution with a binding to t.                                      *)
Begun(board, k, t, delivery) ==
    [board EXCEPT ![k].stage = "executing", ![k].exec = "starting", ![k].delivery = delivery,
                  ![k].dated = FALSE, ![k].term = t, ![k].attempts = @ + 1]

Rejected(k) == [task EXCEPT ![k].stage = "executing", ![k].exec = "starting",
                            ![k].delivery = "pending", ![k].dated = FALSE]

Sending(k, t, direct) ==
    [task |-> k, term |-> t, direct |-> direct, newest |-> TRUE, step |-> "text"]

(* Ghosts of instructions for k that go to t: prompts of older ones that    *)
(* are still armed or being written there overlap with them.                *)
Overlap(k, t) == {m \in {"overlapped"} :
                    armed[t].task = k \/ \E s \in sending : s.task = k /\ s.term = t}
Instructed(k, t, mishaps) ==
    /\ owed' = owed \cup {k}
    /\ astray' = [astray EXCEPT ![k] = mishaps \cup Overlap(k, t)]

(* k comes to run in t whatever else runs there.                            *)
Joined(k, t) == [j \in Tasks |-> astray[j] \cup
                   {m \in {"joined"} : Met(k, t) # {} /\ j \in Met(k, t) \cup {k}}]

Outdated(k) == {IF s.task = k THEN [s EXCEPT !.newest = FALSE] ELSE s : s \in sending}

(* The handlers that write at once have marked the prompt as being sent     *)
(* when they first let go.                                                  *)
WriteAt(k, t) == sending' = Outdated(k) \cup {Sending(k, t, TRUE)}

Request == requests < MaxRequests /\ requests' = requests + 1 /\ UNCHANGED <<fired, upsets>>
Upset == upsets < MaxUpsets /\ upsets' = upsets + 1 /\ UNCHANGED <<requests, fired>>
Unsent == UNCHANGED <<sending, owed, astray>>
Elsewhere == UNCHANGED <<terminal, armed, launch, escapes, hooks>>
Refused(k) == task' = WithError(task, k, None) /\ Unsent /\ Elsewhere

(* Mutant of Available: whoever else runs in the terminal is not looked at. *)
AvailableToAll(k, t) ==
    /\ terminal[t].status \in Reusable
    /\ armed[t].task = None

(* runTodoInExistingTerminal.                                               *)
Available(k, t) ==
    /\ terminal[t].status \in Reusable
    /\ armed[t].task = None
    /\ Met(k, t) = {}

RunExisting(k, t) ==
    IF Available(k, t)
    THEN /\ task' = Begun(task, k, t, "sending")
         /\ WriteAt(k, t) /\ Instructed(k, t, {}) /\ Elsewhere
    ELSE Refused(k)

(* launchTodoTerminal up to its first await: the directory, the profile or  *)
(* its credential may be missing.                                           *)
StartLaunch(board, k) ==
    /\ \/ task' = WithError(board, k, None) /\ launch' = launch
       \/ task' = board /\ launch' = k
    /\ UNCHANGED <<terminal, armed, sending, escapes, hooks, owed>>

-----------------------------------------------------------------------------
(* Requests of the board and of the MCP bridge.                             *)

Execute(k) ==
    LET r == task[k]
        t == IF Preferred[k] # None THEN Preferred[k]
             ELSE IF r.exec = "failed" THEN r.term ELSE None
    IN  /\ ~Busy /\ Request
        /\ r.stage = "todo" \/ (r.stage = "executing" /\ r.exec = "failed")
        /\ CASE t # None /\ ~Exists(t) /\ r.attempts = 0 -> Refused(k)
             [] Exists(t) /\ (terminal[t].status \in Reusable \/ r.attempts = 0) ->
                  RunExisting(k, t)
             [] OTHER -> StartLaunch(task, k) /\ UNCHANGED astray

Resume(k) ==
    /\ ~Busy /\ Request
    /\ task[k].stage = "executing" /\ task[k].exec = "stopped"
    /\ IF Exists(task[k].term) THEN RunExisting(k, task[k].term) ELSE Refused(k)

(* continueTodoTask: the feedback goes to the terminal of the finished run, *)
(* whatever else may be running there by now.                               *)
Continue(k) ==
    LET t == task[k].term
    IN  /\ ~Busy /\ Request /\ task[k].stage = "completed"
        /\ IF Alive(t)
           THEN /\ task' = Begun(Rejected(k), k, t, "sending")
                /\ WriteAt(k, t) /\ owed' = owed \cup {k}
                /\ astray' = [Joined(k, t) EXCEPT ![k] = (@ \cap {"joined"}) \cup Overlap(k, t)]
                /\ Elsewhere
           ELSE StartLaunch(Rejected(k), k) /\ astray' = Joined(k, t)

(* The dialog of an amendment may have been opened before the run stopped.  *)
Amend(k) ==
    LET t == task[k].term
        amended == [task EXCEPT ![k].delivery = "pending", ![k].dated = FALSE]
    IN  /\ ~Busy /\ Request /\ task[k].stage = "executing"
        /\ IF Exists(t)
           THEN /\ task' = [amended EXCEPT ![k].delivery = "sending"]
                /\ WriteAt(k, t) /\ Instructed(k, t, astray[k])
           ELSE task' = WithError(amended, k, None) /\ Unsent
        /\ Elsewhere

(* interruptTodoTask, up to the write of the Esc.                           *)
Interrupting(k) ==
    LET t == task[k].term
    IN  /\ armed' = IF t = None THEN armed ELSE [armed EXCEPT ![t] = Unarmed]
        /\ escapes' = escapes \cup ({t} \ {None})
        /\ Unsent /\ UNCHANGED <<terminal, launch, hooks>>

Stop(k) ==
    /\ Request /\ task[k].stage = "executing" /\ task[k].exec # "stopped"
    /\ task' = [task EXCEPT ![k].exec = "stopped", ![k].delivery = "idle"]
    /\ Interrupting(k)

Fresh == [stage |-> "todo", exec |-> "idle", delivery |-> "idle",
          dated |-> FALSE, term |-> None, attempts |-> 0]

(* confirmTaskDeletion: an executing task is stopped first.                 *)
Delete(k) ==
    /\ Request /\ Present(k)
    /\ task' = [task EXCEPT ![k] = [Fresh EXCEPT !.stage = "deleted"]]
    /\ IF task[k].stage = "executing" THEN Interrupting(k) ELSE Unsent /\ Elsewhere

Backlog(k) ==
    /\ task[k].stage = "executing" /\ task[k].exec = "stopped"
    /\ task' = [task EXCEPT ![k] = [Fresh EXCEPT !.attempts = task[k].attempts]]

Complete(k) ==
    /\ task[k].stage = "executing"
    /\ task' = [task EXCEPT ![k].stage = "completed", ![k].exec = "completed"]

Verify(k) ==
    /\ task[k].stage = "completed"
    /\ task' = [task EXCEPT ![k].stage = "verified"]

RunAgain(k) ==
    /\ k \in Routine /\ task[k].stage \in {"completed", "verified"}
    /\ task' = [task EXCEPT ![k] = Fresh]

MoveCard(k) ==
    /\ Backlog(k) \/ Complete(k) \/ Verify(k) \/ RunAgain(k)
    /\ Unsent /\ Elsewhere /\ UNCHANGED bounds

-----------------------------------------------------------------------------
(* Launches, startups and the writing of prompts.                           *)

Unused(t) ==
    /\ t \notin Open /\ ~Exists(t) /\ Bound(t) = {} /\ armed[t].task = None
    /\ hooks[t] = <<>> /\ t \notin escapes /\ \A s \in sending : s.term # t

Launched == [status |-> "STARTING", ended |-> FALSE, starting |-> TRUE]

LaunchReady(t) ==
    LET k == launch
    IN  /\ k # None /\ Unused(t)
        /\ terminal' = [terminal EXCEPT ![t] = Launched]
        /\ launch' = None
        /\ IF Present(k)
           THEN /\ task' = Begun(task, k, t, "pending")
                /\ armed' = [armed EXCEPT ![t] = [Unarmed EXCEPT !.task = k]]
                /\ sending' = Outdated(k) /\ Instructed(k, t, {})
           ELSE Unsent /\ UNCHANGED <<task, armed>>
        /\ UNCHANGED <<escapes, hooks, bounds>>

(* Mutant of LaunchFails: the error is shown as a toast, not on the task.   *)
LaunchFailsQuietly ==
    /\ launch # None
    /\ launch' = None
    /\ Unsent /\ UNCHANGED <<task, terminal, armed, escapes, hooks, bounds>>

LaunchFails ==
    /\ launch # None
    /\ task' = WithError(task, launch, None)
    /\ launch' = None
    /\ Unsent /\ UNCHANGED <<terminal, armed, escapes, hooks, bounds>>

(* The user leaves the question about a background session unanswered.      *)
LaunchDeclined ==
    /\ Asks /\ launch # None
    /\ launch' = None
    /\ astray' = [astray EXCEPT ![launch] = @ \cup {"declined"}]
    /\ UNCHANGED <<task, terminal, armed, sending, escapes, hooks, owed, bounds>>

(* The panel's start() returns.  A status a hook reported in the meantime is *)
(* kept, and nothing is announced then; a failure always is, while the panel *)
(* is there.                                                                *)
RuntimeStarts(t) ==
    LET attached == [terminal EXCEPT ![t].starting = FALSE]
    IN  /\ Exists(t) /\ terminal[t].starting
        /\ \/ Announced(attached, t, "FAILED")
           \/ /\ terminal[t].status = "STARTING"
              /\ Announced(attached, t, IF t \in Codex THEN "IDLE" ELSE "RUNNING")
           \/ /\ terminal[t].status # "STARTING"
              /\ terminal' = attached /\ UNCHANGED <<task, armed, hooks>>
        /\ Unsent /\ UNCHANGED <<launch, escapes, bounds>>

(* A settled frame, or the deadline: AgentStartupService.submit.            *)
Submit(t) ==
    LET k == armed[t].task
    IN  /\ armed[t].started /\ ~armed[t].submitting
        /\ IF task[k].term = t
           THEN /\ task' = [task EXCEPT ![k].delivery = "sending"]
                /\ armed' = [armed EXCEPT ![t].submitting = TRUE]
                /\ sending' = sending \cup
                     {[Sending(k, t, FALSE) EXCEPT !.newest = "overlapped" \notin astray[k]]}
           ELSE armed' = [armed EXCEPT ![t] = Unarmed] /\ UNCHANGED <<task, sending>>
        /\ UNCHANGED <<terminal, launch, escapes, hooks, owed, astray, bounds>>

(* The answer to a startup dialog cannot be written.                        *)
ConfirmationFails(t) ==
    /\ armed[t].started /\ ~armed[t].submitting
    /\ task' = WithError(task, armed[t].task, t)
    /\ armed' = [armed EXCEPT ![t] = Unarmed]
    /\ Unsent /\ UNCHANGED <<terminal, launch, escapes, hooks, bounds>>

(* The entry of an armed prompt goes with it, unless it was cancelled.      *)
Released(s) == IF s.direct THEN armed ELSE [armed EXCEPT ![s.term] = Unarmed]

SendFails(s) ==
    /\ s.step = "text" \/ task[s.task].term # s.term
    /\ sending' = sending \ {s}
    /\ task' = WithError(task, s.task, s.term)
    /\ armed' = Released(s)
    /\ astray' = IF task[s.task].term = s.term /\ task[s.task].stage # "executing"
                 THEN Joined(s.task, s.term) ELSE astray
    /\ UNCHANGED <<terminal, launch, escapes, hooks, owed, bounds>>

(* The text has settled and the Enter goes out.                             *)
WriteEnter(s) ==
    /\ s.step = "text" /\ Exists(s.term)
    /\ sending' = (sending \ {s}) \cup {[s EXCEPT !.step = "confirm"]}
    /\ owed' = IF s.newest THEN owed \ {s.task} ELSE owed
    /\ UNCHANGED <<task, terminal, armed, launch, escapes, hooks, astray, bounds>>

(* Mutant of Delivered: the task may have moved to another terminal.        *)
DeliveredAnywhere(s) ==
    LET k == s.task
        t == s.term
        board == [task EXCEPT ![k].delivery = "delivered", ![k].dated = TRUE]
    IN  /\ s.step = "confirm"
        /\ sending' = sending \ {s}
        /\ armed' = Released(s)
        /\ task' = board
        /\ UNCHANGED <<terminal, hooks, astray, launch, escapes, owed, bounds>>

(* markPromptDelivered, then, for a prompt written at once, THINKING.       *)
Delivered(s) ==
    LET k == s.task
        t == s.term
        board == [task EXCEPT ![k].delivery = "delivered", ![k].dated = TRUE]
        dated == [hooks EXCEPT ![t] = [i \in DOMAIN @ |-> BeforeDelivery(@[i], k)]]
    IN  /\ s.step = "confirm" /\ task[k].term = t
        /\ sending' = sending \ {s}
        /\ armed' = Released(s)
        /\ IF s.direct
           THEN /\ \E w \in Hearers(t) : task' = Heard(board, w, "THINKING")
                /\ terminal' = IF Exists(t) THEN [terminal EXCEPT ![t].status = "THINKING"]
                               ELSE terminal
                /\ hooks' = [dated EXCEPT ![t] = [i \in DOMAIN @ |-> Superseded(@[i])]]
                /\ astray' = [j \in Tasks |-> astray[j] \cup
                                {m \in {"late"} : ~Alive(t) /\ task[j].term = t}]
           ELSE task' = board /\ hooks' = dated /\ UNCHANGED <<terminal, astray>>
        /\ UNCHANGED <<launch, escapes, owed, bounds>>

Send(s) == SendFails(s) \/ WriteEnter(s) \/ Delivered(s)

(* The Esc is written, or cannot be; recordInterruptStatus.                 *)
EscapeWritten(t) ==
    /\ t \in escapes /\ escapes' = escapes \ {t}
    /\ \/ UNCHANGED <<task, terminal, armed, hooks>>
       \/ terminal[t].status \in Interruptible /\ TerminalStatus(t, "IDLE")
    /\ Unsent /\ UNCHANGED <<launch, bounds>>

-----------------------------------------------------------------------------
(* Terminals, hooks, other windows.                                         *)

(* Mutant of Close: the board is not told.                                  *)
CloseQuietly(t) ==
    /\ Exists(t) /\ Upset
    /\ armed' = [armed EXCEPT ![t] = Unarmed]
    /\ terminal' = [terminal EXCEPT ![t].status = "ABSENT"]
    /\ UNCHANGED task
    /\ Unsent /\ UNCHANGED <<launch, escapes, hooks>>

(* closeTerminal: the terminal leaves the workspace at once.                *)
Close(t) ==
    /\ Exists(t) /\ Upset
    /\ armed' = [armed EXCEPT ![t] = Unarmed]
    /\ \E w \in Hearers(t) : task' = Heard(task, w, "STOPPED")
    /\ terminal' = [terminal EXCEPT ![t].status = "ABSENT"]
    /\ Unsent /\ UNCHANGED <<launch, escapes, hooks>>

(* handleTerminalExit.                                                      *)
Exit(t) ==
    /\ Exists(t) /\ ~terminal[t].ended /\ Upset
    /\ \E status \in {"STOPPED", "FAILED"} :
         /\ terminal' = [terminal EXCEPT ![t].status = status, ![t].ended = TRUE]
         /\ \E w \in Hearers(t) : task' = Heard(task, w, status)
    /\ hooks' = Overtaken(t)
    /\ armed' = [armed EXCEPT ![t] = Unarmed]
    /\ Unsent /\ UNCHANGED <<launch, escapes>>

(* A hook of the agent appends its event to the spool.                      *)
Fire(t) ==
    /\ Exists(t) /\ ~terminal[t].ended /\ fired < MaxHooks /\ fired' = fired + 1
    /\ \E event \in HookEvents :
         hooks' = [hooks EXCEPT ![t] =
                     Append(@, [event |-> event, old |-> FALSE, early |-> {}])]
    /\ Unsent /\ UNCHANGED <<task, terminal, armed, launch, escapes, requests, upsets>>

(* isSupersededAgentEvent.                                                  *)
Ignored(t, h) ==
    \/ h.old
    \/ Exists(t) /\ terminal[t].ended
    \/ /\ h.event = "session_ready" /\ t \in Codex
       /\ Exists(t) /\ terminal[t].status \notin {"STARTING", "IDLE"}
    \/ h.event = "agent_idle" /\ terminal[t].status \in Gone \cup {"COMPLETED"}
    \/ h.event = "tool_started" /\ terminal[t].status = "WAITING_APPROVAL"

FiredBeforeDelivery(k, h) ==
    task[k].dated /\ k \in h.early /\ EventStatus[h.event] \notin Gone

(* applyAgentEvent of the event at i: batches arrive in any order.          *)
Apply(t, i) ==
    LET h == hooks[t][i]
        status == EventStatus[h.event]
        rest == [hooks EXCEPT ![t] = RemoveAt(@, i)]
        overtaken == [hooks EXCEPT ![t] = [j \in 1 .. Len(@) - 1 |->
                        IF j < i THEN Superseded(@[j]) ELSE @[j + 1]]]
    IN  /\ IF Ignored(t, h)
           THEN hooks' = rest /\ UNCHANGED <<task, terminal, astray>>
           ELSE /\ terminal' = IF Exists(t) THEN [terminal EXCEPT ![t].status = status]
                               ELSE terminal
                /\ hooks' = IF Exists(t) THEN overtaken ELSE rest
                /\ \E w \in Hearers(t) :
                     /\ task' = IF w # None /\ ~FiredBeforeDelivery(w, h)
                                THEN Heard(task, w, status) ELSE task
                     /\ astray' = [k \in Tasks |-> astray[k] \cup Preempted(k) \cup
                                     {m \in {"late"} : k = w /\ ~Exists(t)}]
        /\ UNCHANGED <<armed, launch, sending, escapes, owed, bounds>>

(* reconcileTerminals, with interrupted prompts.                            *)
Reconciled(shown) ==
    [k \in Tasks |->
       LET t == task[k].term
           r == WithStatus(task[k], IF t # None /\ shown[t].status # "ABSENT"
                                    THEN shown[t].status ELSE "DISCONNECTED")
       IN  IF task[k].stage # "executing" THEN task[k]
           ELSE IF r.exec # "failed" /\ r.delivery \in {"pending", "sending"}
                THEN [r EXCEPT !.exec = "failed", !.delivery = "failed"]
                ELSE r]

(* The events from the n-th on, with no newer status known.                 *)
Current(h) == [h EXCEPT !.old = FALSE]
Recent(events, n) ==
    LET recent == SubSeq(events, n, Len(events))
    IN  [i \in DOMAIN recent |-> Current(recent[i])]

(* The window is loaded again.  Terminals the backend still runs are adopted *)
(* as they are (their start() only attaches, and has nothing to announce     *)
(* unless they are STARTING), the others relaunched; what was on its way is  *)
(* forgotten, and so are the events from before the load, but for those of   *)
(* adopted terminals that fired within ADOPTED_TERMINAL_EVENT_GRACE_MS.      *)
Restart ==
    \E live \in SUBSET {t \in Terminals : Exists(t) /\ ~terminal[t].ended} :
      \E since \in [{t \in live : hooks[t] # <<>>} -> 1 .. MaxHooks + 1] :
        LET shown == [t \in Terminals |->
                        IF t \in live
                        THEN [terminal[t] EXCEPT !.starting = terminal[t].status = "STARTING"]
                        ELSE IF Exists(t) THEN Launched ELSE terminal[t]]
        IN  /\ Upset
            /\ terminal' = shown
            /\ task' = Reconciled(shown)
            /\ armed' = [t \in Terminals |-> Unarmed]
            /\ launch' = None /\ sending' = {} /\ escapes' = {}
            /\ hooks' = [t \in Terminals |->
                           IF t \in DOMAIN since
                           THEN Recent(hooks[t], since[t]) ELSE <<>>]
            /\ astray' = [k \in Tasks |-> astray[k] \cup Preempted(k)]
            /\ UNCHANGED owed

(* Another client that shares the workspaces loads, reconciles the board it *)
(* reads and saves it; this window takes the change over.                   *)
OtherLoads ==
    /\ Upset
    /\ task' = Reconciled(terminal)
    /\ astray' = [k \in Tasks |-> astray[k] \cup Preempted(k)]
    /\ UNCHANGED <<sending, owed>> /\ Elsewhere

Finish == LaunchFails \/ LaunchDeclined \/ \E t \in Terminals : LaunchReady(t)

Next ==
    \/ \E k \in Tasks : \/ Execute(k) \/ Resume(k) \/ Continue(k) \/ Amend(k)
                        \/ Stop(k) \/ Delete(k) \/ MoveCard(k)
    \/ Finish
    \/ \E t \in Terminals : \/ RuntimeStarts(t) \/ Submit(t) \/ ConfirmationFails(t)
                            \/ EscapeWritten(t) \/ Close(t) \/ Exit(t) \/ Fire(t)
                            \/ \E i \in DOMAIN hooks[t] : Apply(t, i)
    \/ \E s \in sending : Send(s)
    \/ Restart \/ OtherLoads

(* Calls to the backend are answered, start() returns, and timers fire.     *)
Fairness ==
    /\ WF_vars(Finish)
    /\ \A t \in Terminals : WF_vars(RuntimeStarts(t)) /\ WF_vars(Submit(t))
    /\ \A s \in Sendings : WF_vars(s \in sending /\ Send(s))

Spec == Init /\ [][Next]_vars
FairSpec == Spec /\ Fairness

-----------------------------------------------------------------------------
(* The board never shows a prompt as waiting to be sent that nobody is going *)
(* to send to the task's terminal, unless the launch was left at its         *)
(* question: every path that abandons a prompt has to say so on the board.   *)
PromptHasSender ==
    \A k \in Tasks :
        /\ task[k].stage = "executing"
        /\ task[k].delivery \in {"pending", "sending"}
        /\ "declined" \notin astray[k]
        => \/ launch = k
           \/ \E t \in Terminals : armed[t].task = k /\ task[k].term = t
           \/ \E s \in sending : s.task = k /\ s.term = task[k].term

(* A running task whose prompt reads as delivered has had the Enter of its  *)
(* latest instructions written, also when a prompt of an abandoned attempt  *)
(* is still being written to another terminal.                              *)
DeliveredWasSent ==
    \A k \in Tasks :
        /\ task[k].stage = "executing" /\ task[k].delivery = "delivered"
        /\ astray[k] \cap {"overlapped", "preempted"} = {}
        => k \notin owed

(* What the board says of the delivery of a prompt is so.                   *)
DeliveryTrue == PromptHasSender /\ DeliveredWasSent

(* No two tasks run in one terminal, unless one of them was sent back there *)
(* by a rejection, or by the error of a prompt it no longer waits for.      *)
ExclusiveTerminal ==
    \A j, k \in Tasks :
        /\ j # k /\ task[j].term = task[k].term /\ task[j].term # None
        /\ task[j].stage = "executing" /\ task[k].stage = "executing"
        => "joined" \in astray[j] \cap astray[k]

(* A run does not outlive its terminal: once that has failed, stopped or    *)
(* been closed the task says so, unless a launch that is still under way    *)
(* will, or one of the accepted mishaps came between.                       *)
GoneEndsRun ==
    \A k \in Tasks :
        /\ task[k].stage = "executing" /\ task[k].term # None /\ ~Alive(task[k].term)
        /\ astray[k] \cap {"joined", "declined", "late"} = {}
        => task[k].exec \in {"failed", "stopped"} \/ launch = k

(* A run the user stopped stays stopped, or fails, until the user starts it *)
(* again or a window is loaded: no status, hook or late delivery undoes it. *)
StopStays ==
    [][\A k \in Tasks :
         /\ task[k].stage = "executing" /\ task[k].exec = "stopped"
         /\ task'[k].stage = "executing" /\ task'[k].attempts = task[k].attempts
         => Restart \/ OtherLoads \/ task'[k].exec \in {"stopped", "failed"}]_vars

(* What agent-startup.service.ts says of every prompt: it is received       *)
(* eventually, or the task shows why not.                                   *)
PromptSettles ==
    \A k \in Tasks :
        (task[k].stage = "executing" /\ task[k].delivery = "pending")
            ~> ~(task[k].stage = "executing" /\ task[k].delivery = "pending")

=============================================================================
