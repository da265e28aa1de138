---------------------------- MODULE AgentLaunch -----------------------------
(***************************************************************************)
(* How the window starts agents: launches, resumed sessions, tasks that    *)
(* continue one, accounts and models that are switched under running       *)
(* terminals, and the terminals of the last time, whose commands are       *)
(* prepared again when the page is loaded.                                 *)
(*                                                                         *)
(* Each of them is a flow that waits for the backend several times, and    *)
(* between two waits the user selects other workspaces, closes terminals   *)
(* and begins other flows.  The CLI of Claude keeps the session of a       *)
(* terminal that went away: an idle one is stopped before it is resumed,   *)
(* for a busy one the user is asked.                                       *)
(*                                                                         *)
(* A command is the flow that prepared it, or Stored.  A terminal's        *)
(* session has the terminal's name.  A terminal that a flow creates has    *)
(* the flow's name; it is not followed any further.                        *)
(***************************************************************************)
EXTENDS Naturals, Sequences, FiniteSets

CONSTANTS
    Agents,
    Terminals,   (* the terminals of the last time                           *)
    AgentOf,     (* what runs in them                                        *)
    HomeOf,      (* the workspaces they are in                               *)
    Workspaces,
    FirstActive, (* which of them may be active at first                     *)
    Found,       (* agents that were found when the window started           *)
    Adopted,     (* which terminals may be running still                     *)
    Flows,       (* what the user begins, in this order; bound               *)
    Restore,     (* the flow that runs when the page is loaded               *)
    Stored,      (* the command as it was stored                             *)
    None,
    MaxAtOnce,   (* bound: flows underway at the same time                   *)
    MaxMeanwhile (* bound: workspaces selected, terminals closed, turns that   *)
                 (* begin or end                                             *)

ASSUME AgentLaunchAssumption ==
    /\ {"claude", "codex", "opencode", "grok", "pi", "antigravity"} = Agents
    /\ AgentOf \in [Terminals -> Agents] /\ HomeOf \in [Terminals -> Workspaces]
    /\ Flows \subseteq Nat /\ Restore \notin Flows /\ Terminals \cap Flows = {}
    /\ None \notin Workspaces \cup Flows \cup {Restore, Stored}
    /\ FirstActive \subseteq Workspaces /\ Found \subseteq Agents
    /\ Adopted \subseteq SUBSET Terminals /\ MaxAtOnce \in Nat /\ MaxMeanwhile \in Nat

VARIABLES
    active,      (* activeWorkspaceId                                        *)
    mounted,     (* mountedWorkspaceIds                                      *)
    place,       (* the workspace a terminal is in                           *)
    command,     (* its command                                              *)
    due,         (* terminals with a runtime revision that was never started *)
    process,     (* the command of the process that runs in it               *)
    held,        (* the sessions the CLI keeps: free, idle or busy           *)
    detected,    (* agents whose installation is known                       *)
    launching,   (* launchingClaude, launchingCodex, ..., busyTodoTaskId     *)
    flow,        (* the flows, each where it waits                           *)
    asking,      (* backgroundSessionResolver: whose question is open        *)
    adopted,     (* ghost: terminals that were running when the page loaded  *)
    early,       (* ghost: workspaces that were selected before the restored *)
                 (* terminals were ready                                     *)
    disturbed,   (* ghost: switches during which something else changed what *)
                 (* they were switching, or gave their flag back, and flows  *)
                 (* that began while such a switch was underway              *)
    replaced,    (* ghost: flows whose question another flow's took away     *)
    turned,      (* ghost: sessions that began a turn when they were to be   *)
                 (* stopped                                                  *)
    meanwhile

terminals == <<place, command, due, process>>
ghosts == <<adopted, early, disturbed, replaced, turned>>
vars == <<active, mounted, terminals, held, detected, launching, flow, asking, ghosts, meanwhile>>

All == Terminals \cup Flows
Sessions == {t \in Terminals : AgentOf[t] = "claude"}
Idle == [kind |-> "none", step |-> "none"]
Over == [kind |-> "none", step |-> "ended"]
Underway(f) == flow[f].step \notin {"none", "ended"}
Switches == {f \in Flows : flow[f].kind \in {"models", "account"} /\ Underway(f)}

TypeOK ==
    /\ active \in Workspaces /\ mounted \subseteq Workspaces
    /\ place \in [All -> Workspaces \cup {None}]
    /\ command \in [Terminals -> Flows \cup {Restore, Stored}]
    /\ process \in [Terminals -> Flows \cup {Restore, Stored, None}]
    /\ due \subseteq {t \in Terminals : place[t] # None}
    /\ \A t \in Terminals : place[t] = None => process[t] = None
    /\ held \in [Terminals -> {"free", "idle", "busy"}]
    /\ launching \subseteq Agents \cup {"todo"} /\ detected \subseteq Agents
    /\ asking \in Flows \cup {Restore, None}
    /\ asking # None => flow[asking].step = "asking"
    /\ \A f \in Flows \cup {Restore} :
         flow[f].step \in {"none", "detecting", "inspecting", "stopping", "asking",
                           "preparing", "closing", "rolling", "ended"}

-----------------------------------------------------------------------------
(* The terminals that were running are adopted; the others are restored.    *)

Of(a) == {t \in Terminals : AgentOf[t] = a /\ t \notin adopted}

RestoreOrder == <<"claude", "codex", "opencode", "grok", "pi">>

(* Of Claude the sessions are looked at first, for all terminals at once;   *)
(* the others are prepared straight away.                                   *)
RefreshClaude(ts, rest) ==
    [kind |-> "restore", step |-> "inspecting", left |-> ts, rest |-> rest, ids |-> ts,
     stops |-> {}, blocking |-> {}, unseen |-> {}, choice |-> "skip"]
RefreshOthers(ts, rest) ==
    [RefreshClaude(ts, rest) EXCEPT !.step = "preparing", !.ids = {}]

(* The next agent of which there are terminals to restore.                  *)
Refresh(agents) ==
    LET ts(a) == {t \in Of(a) : place[t] # None}
        those == SelectSeq(agents, LAMBDA a : ts(a) # {})
    IN  IF those = <<>> THEN Over
        ELSE IF Head(those) = "claude" THEN RefreshClaude(ts("claude"), Tail(those))
        ELSE RefreshOthers(ts(Head(those)), Tail(those))

(* Mutant of FirstMounted: the panels start what is there.                  *)
MountedAtOnce == {active}

(* Nothing is mounted until the restored terminals are ready.               *)
FirstMounted == IF flow[Restore] = Over THEN {active} ELSE {}

Init ==
    /\ adopted \in Adopted
    /\ active \in FirstActive
    /\ place = [t \in All |-> IF t \in Terminals THEN HomeOf[t] ELSE None]
    /\ command = [t \in Terminals |-> Stored]
    /\ process = [t \in Terminals |-> IF t \in adopted THEN Stored ELSE None]
    /\ due = Terminals \ adopted
    /\ held \in [Terminals -> {"free", "idle", "busy"}]
    /\ \A t \in Terminals : t \in adopted \/ AgentOf[t] # "claude" => held[t] = "free"
    /\ detected = Found /\ launching = {}
    /\ flow = [f \in Flows \cup {Restore} |-> IF f = Restore THEN Refresh(RestoreOrder) ELSE Idle]
    /\ mounted = FirstMounted
    /\ asking = None
    /\ early = {} /\ disturbed = {} /\ replaced = {} /\ turned = {} /\ meanwhile = 0

-----------------------------------------------------------------------------
(* Begins a flow, with the flag that keeps a second one away.               *)
Begin(f, flag, r) ==
    /\ flow[f] = Idle /\ \A g \in Flows : g < f => flow[g] # Idle
    /\ Cardinality({g \in Flows \cup {Restore} : Underway(g)}) < MaxAtOnce
    /\ flag \notin launching
    /\ flow' = [flow EXCEPT ![f] = r]
    /\ launching' = IF r.step = "detecting" THEN launching ELSE launching \cup {flag}
    /\ disturbed' = IF \E g \in Switches : flow[g].flag = flag THEN disturbed \cup {f} ELSE disturbed
    /\ UNCHANGED <<active, mounted, terminals, held, detected, asking, adopted, early, replaced, turned, meanwhile>>

(* Claude is launched without a look at its installation.                   *)
Launch(f, a) ==
    Begin(f, a, [kind |-> "launch", flag |-> a, home |-> active,
                 step |-> IF a = "claude" \/ a \in detected THEN "preparing" ELSE "detecting"])

LaunchAntigravity(f) == Launch(f, "antigravity")
LaunchOpenCode(f) == Launch(f, "opencode")
LaunchGrok(f) == Launch(f, "grok")
LaunchPi(f) == Launch(f, "pi")
LaunchCodex(f) == Launch(f, "codex")
LaunchClaude(f) == Launch(f, "claude")

(* The flag is not looked at again once the installation is known.          *)
Detected(f) ==
    /\ flow[f].step = "detecting"
    /\ \/ /\ detected' = detected \cup {flow[f].flag}
          /\ launching' = launching \cup {flow[f].flag}
          /\ flow' = [flow EXCEPT ![f].step = "preparing"]
       \/ /\ flow' = [flow EXCEPT ![f] = Over]
          /\ UNCHANGED <<detected, launching>>
    /\ UNCHANGED <<active, mounted, terminals, held, asking, ghosts, meanwhile>>

(* A session is resumed in a terminal of its own; that of Claude may have   *)
(* to be taken back from the CLI first.                                     *)
Reclaiming(kind, flag, s, first) ==
    [kind |-> kind, flag |-> flag, home |-> active, session |-> s, step |-> first,
     ids |-> {s} \ {None}, stops |-> {}, blocking |-> {}, unseen |-> {}, choice |-> "skip"]

ResumeAgent(f, a, s) ==
    Begin(f, a, Reclaiming("resume", a, s, IF a = "claude" THEN "inspecting" ELSE "preparing"))

(* Of a task only what it shares with the others is here: TaskRun has the  *)
(* rest.                                                                    *)
LaunchTodo(f, s) == Begin(f, "todo", Reclaiming("todo", "todo", s, "inspecting"))

(* Which terminals, and with which commands, is settled when it begins.     *)
Switch(f, kind, a, ts) ==
    /\ ts # {} /\ \A t \in ts : place[t] = active
    /\ Begin(f, a, [kind |-> kind, flag |-> a, home |-> active, step |-> "preparing",
                    targets |-> ts, left |-> ts, done |-> {}, before |-> command,
                    alive |-> {t \in ts : t \in due \/ process[t] # None}])

SwitchAccount(f, t) ==
    AgentOf[t] \in {"claude", "codex"} /\ Switch(f, "account", AgentOf[t], {t})

SwitchModels(f, a) ==
    LET shown == {t \in Terminals : AgentOf[t] = a /\ place[t] = active}
    IN  \/ Switch(f, "models", a, shown)
        \/ \E t \in shown : Switch(f, "models", a, {t})

(* Mutant of End: there is no finally.                                      *)
EndWithFlag(f) ==
    flow' = [flow EXCEPT ![f] = Over] /\ UNCHANGED <<launching, disturbed>>

(* The flag goes even if a switch has it too: it was free while the agent   *)
(* was detected.                                                            *)
End(f) ==
    /\ flow' = [flow EXCEPT ![f] = Over]
    /\ launching' = launching \ {flow[f].flag}
    /\ disturbed' = disturbed \cup {g \in Switches \ {f} : flow[g].flag = flow[f].flag}

-----------------------------------------------------------------------------
(* planBackgroundReclaim: an idle session is stopped; a busy one, and one   *)
(* that could not be stopped, is put to the user.  What cannot be inspected *)
(* counts as free.                                                          *)

(* Mutant of Planned: a busy session is stopped like an idle one.           *)
PlannedAll(r, found) ==
    [r EXCEPT !.stops = {s \in r.ids : found[s] # "free"}]

Planned(r, found) ==
    [r EXCEPT !.stops = {s \in r.ids : found[s] = "idle"},
              !.blocking = {s \in r.ids : found[s] = "busy"}]

(* The next session is stopped, or the user is asked, or the launch is      *)
(* prepared.  There is one question at a time: the next one replaces it.    *)
Reclaim(f, r) ==
    LET step == CASE r.stops # {} -> "stopping"
                  [] r.stops = {} /\ r.blocking # {} -> "asking"
                  [] OTHER -> "preparing"
    IN  /\ flow' = [flow EXCEPT ![f] = [r EXCEPT !.step = step]]
        /\ asking' = IF step = "asking" THEN f ELSE asking
        /\ replaced' = IF step = "asking" THEN replaced \cup ({asking} \ {None}) ELSE replaced

Inspected(f) ==
    /\ flow[f].step = "inspecting"
    /\ \E unseen \in SUBSET flow[f].ids :
         Reclaim(f, [Planned(flow[f], [s \in flow[f].ids |->
                                         IF s \in unseen THEN "free" ELSE held[s]])
                      EXCEPT !.unseen = unseen])
    /\ UNCHANGED <<active, mounted, terminals, held, detected, launching, adopted, early, disturbed, turned, meanwhile>>

(* Mutant of StopFails: a session that could not be stopped is forgotten.   *)
StopFailsQuietly(r, s) == [r EXCEPT !.stops = @ \ {s}]

StopFails(r, s) == [r EXCEPT !.stops = @ \ {s}, !.blocking = @ \cup {s}]

Stopped(f) ==
    /\ flow[f].step = "stopping"
    /\ \E s \in flow[f].stops :
         \/ /\ held' = [held EXCEPT ![s] = "free"]
            /\ Reclaim(f, [flow[f] EXCEPT !.stops = @ \ {s}])
         \/ Reclaim(f, StopFails(flow[f], s)) /\ UNCHANGED held
    /\ UNCHANGED <<active, mounted, terminals, detected, launching, adopted, early, disturbed, turned, meanwhile>>

(* To fork a session or to attach to it is, to the window, the same.        *)
Choices == {"skip", "resume"}

(* Mutant of Answer: the dialog is dismissed without an answer.             *)
AnswerUnlessDismissed(choice) ==
    LET f == asking
    IN  /\ f # None /\ asking' = None
        /\ flow' = IF choice = "skip" THEN flow
                   ELSE [flow EXCEPT ![f].step = "preparing", ![f].choice = choice]
        /\ UNCHANGED <<active, mounted, terminals, held, detected, launching, ghosts, meanwhile>>

(* Mutant of Answer: the resolver is kept.                                  *)
AnswerTwice(choice) ==
    /\ asking # None
    /\ flow' = [flow EXCEPT ![asking].step = "preparing", ![asking].choice = choice]
    /\ UNCHANGED <<active, mounted, terminals, held, detected, launching, asking, ghosts, meanwhile>>

(* resolveBackgroundSessions: skip, fork or attach.                         *)
Answer(choice) ==
    LET f == asking
    IN  /\ f # None /\ asking' = None
        /\ IF choice = "skip" /\ f # Restore THEN End(f)
           ELSE /\ flow' = [flow EXCEPT ![f].step = "preparing", ![f].choice = choice]
                /\ UNCHANGED <<launching, disturbed>>
        /\ UNCHANGED <<active, mounted, terminals, held, detected, adopted, early, replaced, turned, meanwhile>>

-----------------------------------------------------------------------------
(* A launch command is prepared, or cannot be.                              *)

(* What is launched and resumed goes to the workspace that is active now,   *)
(* a task's terminal to the task's workspace.                               *)
CreateTerminal(f, w) ==
    place' = [place EXCEPT ![f] = w] /\ UNCHANGED <<command, due, process>>

Mount(w) ==
    /\ mounted' = mounted \cup {w}
    /\ early' = IF Underway(Restore) THEN early \cup {w} ELSE early

Prepared(f) ==
    /\ flow[f].kind \in {"launch", "resume", "todo"} /\ flow[f].step = "preparing"
    /\ \/ /\ flow[f].kind # "todo" /\ CreateTerminal(f, active)
          /\ UNCHANGED <<mounted, early>>
       \/ flow[f].kind = "todo" /\ CreateTerminal(f, flow[f].home) /\ Mount(flow[f].home)
       \/ UNCHANGED <<terminals, mounted, early>>
    /\ End(f)
    /\ UNCHANGED <<active, held, detected, asking, adopted, replaced, turned, meanwhile>>

(* The commands of all targets, before any process is touched.              *)
PlansReady(f) ==
    /\ flow[f].kind \in {"account", "models"} /\ flow[f].step = "preparing"
    /\ \/ flow' = [flow EXCEPT ![f].step = "closing"] /\ UNCHANGED <<launching, disturbed>>
       \/ End(f)
    /\ UNCHANGED <<active, mounted, terminals, held, detected, asking, adopted, early, replaced, turned, meanwhile>>

(* restartTerminalWithProfile: only in the active workspace.                *)
Restartable(t) == place[t] = active

(* What is closed is not running any more, even if closing it fails.        *)
CloseProcess(t) == process' = [process EXCEPT ![t] = None]

Restart(t, c) ==
    /\ CloseProcess(t)
    /\ IF Restartable(t)
       THEN command' = [command EXCEPT ![t] = c] /\ due' = due \cup {t}
       ELSE UNCHANGED <<command, due>>
    /\ UNCHANGED place

(* Mutant of RollbackTargets: only what was switched is rolled back.        *)
RollbackSwitched(r, t) == r.done

(* Including the failed target, whose process may be closed already.        *)
RollbackTargets(r, t) == r.done \cup {t}

SwitchFails(f, t) ==
    LET back == RollbackTargets(flow[f], t)
    IN  IF flow[f].kind = "account" \/ back = {} THEN End(f)
        ELSE /\ flow' = [flow EXCEPT ![f] = [flow[f] EXCEPT !.step = "rolling", !.left = back]]
             /\ UNCHANGED <<launching, disturbed>>

(* The next target is closed and restarted.  One that does not run cannot   *)
(* be closed.                                                               *)
Closed(f) ==
    /\ flow[f].step = "closing"
    /\ \E t \in flow[f].left :
         \/ /\ process[t] # None /\ Restart(t, f)
            /\ IF ~Restartable(t) THEN SwitchFails(f, t)
               ELSE IF flow[f].left = {t} THEN End(f)
               ELSE /\ flow' = [flow EXCEPT ![f] = [flow[f] EXCEPT !.left = @ \ {t}, !.done = @ \cup {t}]]
                    /\ UNCHANGED <<launching, disturbed>>
         \/ CloseProcess(t) /\ SwitchFails(f, t) /\ UNCHANGED <<place, command, due>>
    /\ UNCHANGED <<active, mounted, held, detected, asking, adopted, early, replaced, turned, meanwhile>>

(* Whether the process can be closed makes no difference here.              *)
RolledBack(f) ==
    /\ flow[f].step = "rolling"
    /\ \E t \in flow[f].left :
         /\ Restart(t, flow[f].before[t])
         /\ IF flow[f].left = {t} THEN End(f)
            ELSE flow' = [flow EXCEPT ![f].left = @ \ {t}] /\ UNCHANGED <<launching, disturbed>>
    /\ UNCHANGED <<active, mounted, held, detected, asking, adopted, early, replaced, turned, meanwhile>>

-----------------------------------------------------------------------------
(* The terminals of the last time.  When the last ones of an agent are      *)
(* done those of the next are looked up; with the last of all, the active   *)
(* workspace is mounted, and its panels start what is in it.                *)

Skipped(r) == IF r.choice = "skip" THEN r.blocking ELSE {}

UpdateRestored(t) ==
    IF place[t] = None THEN UNCHANGED command
    ELSE command' = [command EXCEPT ![t] = Restore]

Refreshed ==
    LET r == flow[Restore]
    IN  /\ r.step = "preparing"
        /\ \E t \in r.left :
             /\ \/ t \notin Skipped(r) /\ UpdateRestored(t)
                \/ UNCHANGED command
             /\ flow' = [flow EXCEPT ![Restore] = IF r.left = {t} THEN Refresh(r.rest)
                                                  ELSE [r EXCEPT !.left = @ \ {t}]]
             /\ disturbed' = disturbed \cup {f \in Switches : t \in flow[f].targets}
        /\ mounted' = IF flow'[Restore] = Over THEN mounted \cup {active} ELSE mounted
        /\ UNCHANGED <<active, place, due, process, held, detected, launching, asking,
                       adopted, early, replaced, turned, meanwhile>>

-----------------------------------------------------------------------------
(* The panels, the user and the CLI.                                        *)

(* A panel starts the command its terminal has at that moment.              *)
Start(t) ==
    /\ t \in due /\ place[t] \in mounted
    /\ process' = [process EXCEPT ![t] = command[t]]
    /\ due' = due \ {t}
    /\ UNCHANGED <<active, mounted, place, command, held, detected, launching, flow, asking, ghosts, meanwhile>>

Meanwhile == meanwhile < MaxMeanwhile /\ meanwhile' = meanwhile + 1

(* Creating a workspace, or deleting another than the active one, ends in   *)
(* the same two steps.                                                      *)
SelectWorkspace(w) ==
    /\ Meanwhile
    /\ active' = w /\ Mount(w)
    /\ disturbed' = IF w = active THEN disturbed ELSE disturbed \cup Switches
    /\ UNCHANGED <<terminals, held, detected, launching, flow, asking, adopted, replaced, turned>>

CloseTerminal(t) ==
    /\ Meanwhile
    /\ place[t] # None
    /\ place' = [place EXCEPT ![t] = None]
    /\ process' = [process EXCEPT ![t] = None]
    /\ due' = due \ {t}
    /\ disturbed' = disturbed \cup {f \in Switches : t \in flow[f].targets}
    /\ UNCHANGED <<active, mounted, command, held, detected, launching, flow, asking,
                   adopted, early, replaced, turned>>

(* It was looked at, and is being stopped or the next to be.                *)
AboutToStop(s) ==
    \E f \in Flows \cup {Restore} : flow[f].step = "stopping" /\ s \in flow[f].stops

(* A session the CLI keeps begins a turn, ends it, or ends.                 *)
HeldChanges(s) ==
    /\ Meanwhile
    /\ held[s] # "free"
    /\ \E h \in {"free", "idle", "busy"} \ {held[s]} : held' = [held EXCEPT ![s] = h]
    /\ turned' = IF held[s] = "idle" /\ AboutToStop(s) THEN turned \cup {s} ELSE turned
    /\ UNCHANGED <<active, mounted, terminals, detected, launching, flow, asking,
                   adopted, early, disturbed, replaced>>

Continue(f) ==
    \/ Detected(f) \/ Inspected(f) \/ Stopped(f)
    \/ Prepared(f) \/ PlansReady(f) \/ Closed(f) \/ RolledBack(f)
    \/ f = Restore /\ Refreshed

Next ==
    \/ \E f \in Flows :
         \/ LaunchAntigravity(f) \/ LaunchOpenCode(f) \/ LaunchGrok(f)
         \/ LaunchPi(f) \/ LaunchCodex(f) \/ LaunchClaude(f)
         \/ \E s \in Terminals, a \in Agents \ {"antigravity"} :
              AgentOf[s] = a /\ ResumeAgent(f, a, s)
         \/ \E s \in Sessions \cup {None} : LaunchTodo(f, s)
         \/ \E t \in Terminals : SwitchAccount(f, t)
         \/ \E a \in {"claude", "codex"} : SwitchModels(f, a)
    \/ \E f \in Flows \cup {Restore} : Continue(f)
    \/ \E choice \in Choices : Answer(choice)
    \/ \E t \in Terminals : Start(t) \/ CloseTerminal(t)
    \/ \E w \in Workspaces : SelectWorkspace(w)
    \/ \E s \in Terminals : HeldChanges(s)

(* The backend answers every call, and the question stays open until the    *)
(* user answers it: dismissing it is an answer.                             *)
Fairness ==
    /\ \A f \in Flows \cup {Restore} : WF_vars(Continue(f))
    /\ WF_vars(\E choice \in Choices : Answer(choice))

Spec == Init /\ [][Next]_vars /\ Fairness

-----------------------------------------------------------------------------
(* Whatever way a flow goes, its flag goes with it: an agent that cannot be *)
(* launched because it is being launched is being launched.                 *)
FlagHasFlow ==
    \A a \in launching :
        \E f \in Flows : Underway(f) /\ flow[f].step # "detecting" /\ flow[f].flag = a

(* A switch that nothing else comes in the way of moves all its terminals   *)
(* to the new command or leaves all of them with the old one, and ends no   *)
(* process while a command is still missing.  When models are switched,     *)
(* every process it ended is started again.  (alive: what ran when it       *)
(* began.)                                                                  *)
SwitchTogether ==
    [][\A f \in Switches \ disturbed :
         LET ts == flow[f].targets
         IN  /\ flow[f].step = "preparing" /\ flow'[f] # flow[f] => UNCHANGED process
             /\ flow'[f] = Over =>
                  /\ \/ \A t \in ts : command'[t] = f
                     \/ \A t \in ts : command'[t] = flow[f].before[t]
                  /\ flow[f].kind = "models" =>
                       \A t \in flow[f].alive : t \in due' \/ process'[t] # None]_vars

(* A session is resumed in place only when the CLI does not keep it, as far *)
(* as the CLI could be asked; otherwise the user chose to fork or attach.   *)
ResumesOnlyFreed ==
    [][\A f \in Flows \cup {Restore} :
         /\ flow[f].step = "preparing" /\ flow[f].kind \in {"resume", "todo", "restore"}
         /\ flow'[f] # flow[f]
         => \A s \in flow[f].ids :
              (IF f = Restore THEN command[s] # Restore /\ command'[s] = Restore
                              ELSE place[f] = None /\ place'[f] # None)
              => \/ held[s] = "free" \/ s \in flow[f].unseen
                 \/ s \in flow[f].blocking /\ flow[f].choice # "skip"]_vars

(* No session is stopped in the middle of a turn, unless the turn began     *)
(* after it had been looked at.                                             *)
NoTurnLost ==
    [][\A s \in Terminals :
         (held[s] = "busy" /\ held'[s] = "free" /\ \E f \in Flows \cup {Restore} : flow'[f] # flow[f])
         => s \in turned]_vars

(* A restored terminal is not started with the command of the last time     *)
(* while a new one is being prepared, unless its workspace is selected      *)
(* meanwhile.                                                               *)
RestoredStartsFresh ==
    [][\A t \in Terminals \ adopted :
         t \in due /\ process'[t] = Stored /\ process[t] # Stored
         => ~Underway(Restore) \/ place[t] \in early]_vars

(* Every flow ends and gives its flag back, so that the next one can begin, *)
(* unless another flow's question took the place of its own.                *)
FlowsEnd ==
    []<>(/\ \A f \in Flows \cup {Restore} : Underway(f) => f \in replaced
         /\ FlagHasFlow)

=============================================================================
