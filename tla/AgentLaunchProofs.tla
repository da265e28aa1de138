------------------------- MODULE AgentLaunchProofs --------------------------
(***************************************************************************)
(* What is proved about AgentLaunch: the variables keep their types, an    *)
(* agent's flag is held by a flow that is underway, no session is stopped  *)
(* in the middle of a turn that could be seen, none is resumed in place    *)
(* while the CLI keeps it, no panel starts a restored terminal with its    *)
(* old command, and a switch moves all its terminals or none.              *)
(***************************************************************************)
EXTENDS AgentLaunch, TLAPS

Commands == Flows \cup {Restore, Stored}

(* The fields a flow has, by its kind.                                      *)
Launching(r) ==
    /\ r.kind = "launch"
    /\ r = [kind |-> r.kind, flag |-> r.flag, home |-> r.home, step |-> r.step]
    /\ r.flag \in Agents /\ r.home \in Workspaces /\ r.step \in {"detecting", "preparing"}

ReclaimSteps == {"inspecting", "stopping", "asking", "preparing"}
Reclaimed(r) ==
    /\ r.step \in ReclaimSteps
    /\ r.ids \in SUBSET Terminals /\ r.stops \in SUBSET Terminals
    /\ r.blocking \in SUBSET Terminals /\ r.unseen \in SUBSET Terminals

Resuming(r) ==
    /\ r.kind \in {"resume", "todo"}
    /\ r = [kind |-> r.kind, flag |-> r.flag, home |-> r.home, session |-> r.session,
            step |-> r.step, ids |-> r.ids, stops |-> r.stops, blocking |-> r.blocking,
            unseen |-> r.unseen, choice |-> r.choice]
    /\ r.flag \in Agents \cup {"todo"} /\ r.home \in Workspaces
    /\ Reclaimed(r)

Restoring(r) ==
    /\ r.kind = "restore"
    /\ r = [kind |-> r.kind, step |-> r.step, left |-> r.left, rest |-> r.rest,
            ids |-> r.ids, stops |-> r.stops, blocking |-> r.blocking,
            unseen |-> r.unseen, choice |-> r.choice]
    /\ r.left \in SUBSET Terminals
    /\ Reclaimed(r)

Switching(r) ==
    /\ r.kind \in {"account", "models"}
    /\ r = [kind |-> r.kind, flag |-> r.flag, home |-> r.home, step |-> r.step,
            targets |-> r.targets, left |-> r.left, done |-> r.done,
            before |-> r.before, alive |-> r.alive]
    /\ r.flag \in Agents /\ r.home \in Workspaces
    /\ r.step \in {"preparing", "closing", "rolling"}
    /\ r.targets \in SUBSET Terminals /\ r.left \in SUBSET Terminals
    /\ r.done \in SUBSET Terminals
    /\ r.before \in [Terminals -> Commands]

Begun(r) == r = Idle \/ r = Over \/ Launching(r) \/ Resuming(r) \/ Switching(r)
FlowShapes ==
    /\ flow = [f \in Flows \cup {Restore} |-> flow[f]]
    /\ \A f \in Flows : Begun(flow[f])
    /\ flow[Restore] = Over \/ Restoring(flow[Restore])

(* Only Claude keeps sessions.                                              *)
OthersFree == \A s \in Terminals : AgentOf[s] # "claude" => held[s] = "free"

(* What is about to be stopped was idle when it was looked at.              *)
StopsSeenIdle(r) ==
    r.step = "stopping" => \A s \in r.stops : held[s] # "busy" \/ s \in turned

(* A session that is looked after is free, was not seen, or stands in the   *)
(* way until it is stopped or the user has chosen.                          *)
Cleared(r) ==
    /\ r.step \in {"stopping", "asking", "preparing"} =>
         \A s \in r.ids : \/ held[s] = "free" \/ s \in r.unseen \/ s \in r.blocking
                          \/ r.step = "stopping" /\ s \in r.stops
    /\ r.step = "stopping" => r.stops # {}
Decided(r) == r.step = "preparing" /\ r.choice = "skip" => r.blocking = {}

SessionsSafe ==
    /\ \A f \in Flows : Resuming(flow[f]) =>
          StopsSeenIdle(flow[f]) /\ Cleared(flow[f]) /\ Decided(flow[f])
    /\ Restoring(flow[Restore]) => StopsSeenIdle(flow[Restore]) /\ Cleared(flow[Restore])

Inv == TypeOK /\ FlowShapes /\ OthersFree /\ SessionsSafe /\ FlagHasFlow

-----------------------------------------------------------------------------
USE AgentLaunchAssumption

FlowIds == Flows \cup {Restore}
Steps == {"none", "detecting", "inspecting", "stopping", "asking", "preparing",
          "closing", "rolling", "ended"}

(* Every flow is idle at first but the restoring, which looks at Claude's   *)
(* sessions or has none.                                                    *)
LEMMA InitInv == Init => Inv
<1> SUFFICES ASSUME Init PROVE Inv
  OBVIOUS
<1> DEFINE first == Refresh(RestoreOrder)
<1>1. first = Over \/ (Restoring(first) /\ first.step \in {"inspecting", "preparing"} /\ (first.step = "preparing" => first.ids = {}))
  BY DEF Refresh, RefreshClaude, RefreshOthers, Of, Over, Restoring, Reclaimed, ReclaimSteps
<1>2. FlowShapes
  BY <1>1 DEF Init, FlowShapes, Begun, Idle, Over
<1>3. TypeOK
  <2>1. \A f \in FlowIds : flow[f].step \in Steps
    BY <1>1 DEF Init, FlowIds, Steps, Idle, Over
  <2>2. mounted \subseteq Workspaces
    BY DEF Init, FirstMounted
  <2>3. place \in [All -> Workspaces \cup {None}] /\ \A t \in Terminals : place[t] \in Workspaces
    BY DEF Init, All
  <2>4. /\ active \in Workspaces
        /\ command \in [Terminals -> Flows \cup {Restore, Stored}]
        /\ process \in [Terminals -> Flows \cup {Restore, Stored, None}]
        /\ due \subseteq Terminals
        /\ held \in [Terminals -> {"free", "idle", "busy"}]
        /\ launching = {} /\ detected \subseteq Agents /\ asking = None
    BY DEF Init
  <2> QED
    BY <2>1, <2>2, <2>3, <2>4 DEF TypeOK, FlowIds, Steps
<1>4. OthersFree
  BY DEF Init, OthersFree
<1>5. SessionsSafe
  <2>1. \A f \in Flows : flow[f] = Idle
    BY DEF Init
  <2>2. flow[Restore] = first
    BY DEF Init
  <2>3. ~Resuming(Idle) /\ ~Restoring(Over)
    BY DEF Resuming, Restoring, Idle, Over
  <2> HIDE DEF first
  <2> QED
    BY <1>1, <2>1, <2>2, <2>3 DEF SessionsSafe, StopsSeenIdle, Cleared
<1>6. FlagHasFlow
  BY DEF Init, FlagHasFlow
<1> QED
  BY <1>2, <1>3, <1>4, <1>5, <1>6 DEF Inv

-----------------------------------------------------------------------------
(* A flow of the user begins.                                               *)
LEMMA BeginKeeps ==
  ASSUME Inv, NEW f \in Flows, NEW flag \in Agents \cup {"todo"}, NEW r, Begin(f, flag, r),
         Launching(r) \/ Resuming(r) \/ Switching(r), r.flag = flag,
         r.step \in {"detecting", "inspecting", "preparing"},
         r.step = "preparing" /\ Resuming(r) => \A s \in r.ids : held[s] = "free",
         r.step = "preparing" /\ Resuming(r) => r.blocking = {}
  PROVE  Inv'
<1>1. /\ flow' = [flow EXCEPT ![f] = r] /\ flow[f] = Idle
      /\ launching' \in {launching, launching \cup {flag}}
      /\ r.step = "detecting" => launching' = launching
      /\ UNCHANGED <<active, mounted, terminals, held, detected, asking, turned, meanwhile>>
  BY DEF Begin
<1>2. flow'[f] = r /\ \A g \in FlowIds : g # f => flow'[g] = flow[g]
  BY <1>1 DEF Inv, FlowShapes, FlowIds
<1>3. TypeOK'
  <2>1. \A g \in FlowIds : flow'[g].step \in Steps
    BY <1>2 DEF Inv, TypeOK, FlowIds, Steps
  <2>2. asking' # None => flow'[asking'].step = "asking"
    BY <1>1, <1>2 DEF Inv, TypeOK, Idle, FlowIds
  <2> QED
    BY <1>1, <2>1, <2>2 DEF Inv, TypeOK, terminals, FlowIds, Steps
<1>4. FlowShapes'
  BY <1>1, <1>2 DEF Inv, FlowShapes, Begun, FlowIds
<1>5. OthersFree'
  BY <1>1 DEF Inv, OthersFree
<1>6. SessionsSafe'
  BY <1>1, <1>2 DEF Inv, SessionsSafe, StopsSeenIdle, Cleared, Decided, FlowIds
<1>7. FlagHasFlow'
  <2> SUFFICES ASSUME NEW a \in launching'
               PROVE  \E g \in Flows : Underway(g)' /\ flow'[g].step # "detecting" /\ flow'[g].flag = a
    BY DEF FlagHasFlow
  <2>1. CASE a \in launching
    <3> PICK g \in Flows : Underway(g) /\ flow[g].step # "detecting" /\ flow[g].flag = a
      BY <2>1 DEF Inv, FlagHasFlow
    <3>1. g # f
      BY <1>1 DEF Underway, Idle
    <3> QED
      BY <1>2, <3>1 DEF Underway, FlowIds
  <2>2. CASE a \notin launching
    <3>1. a = flag /\ r.step \in {"inspecting", "preparing"}
      BY <1>1, <2>2
    <3> QED
      BY <1>2, <3>1 DEF Underway
  <2> QED
    BY <2>1, <2>2
<1> QED
  BY <1>3, <1>4, <1>5, <1>6, <1>7 DEF Inv

(* A flow of the user ends and gives its flag back.                         *)
LEMMA EndKeeps ==
  ASSUME Inv, NEW f \in Flows, Underway(f), End(f), UNCHANGED <<held, turned>>
  PROVE  /\ FlowShapes' /\ SessionsSafe' /\ FlagHasFlow' /\ OthersFree'
         /\ \A g \in FlowIds : flow'[g].step \in Steps
         /\ flow'[f] = Over /\ \A g \in FlowIds : g # f => flow'[g] = flow[g]
         /\ launching' \subseteq launching
<1>1. flow'[f] = Over /\ \A g \in FlowIds : g # f => flow'[g] = flow[g]
  BY DEF End, Inv, FlowShapes, FlowIds
<1>2. FlowShapes'
  BY <1>1 DEF End, Inv, FlowShapes, Begun, FlowIds
<1>3. SessionsSafe'
  <2>1. ~Resuming(Over)
    BY DEF Resuming, Over
  <2> QED
    BY <1>1, <2>1 DEF Inv, SessionsSafe, StopsSeenIdle, Cleared, Decided, FlowIds
<1>4. FlagHasFlow'
  BY <1>1 DEF End, Inv, FlagHasFlow, Underway, FlowIds
<1>5. OthersFree'
  BY DEF Inv, OthersFree
<1>6. \A g \in FlowIds : flow'[g].step \in Steps
  BY <1>1 DEF Inv, TypeOK, FlowIds, Steps, Over
<1> QED
  BY <1>1, <1>2, <1>3, <1>4, <1>5, <1>6 DEF End

(* A flow of the user goes on, under the same flag.                         *)
LEMMA GoesOnKeeps ==
  ASSUME Inv, NEW f \in Flows, Underway(f), NEW r,
         flow' = [flow EXCEPT ![f] = r],
         Launching(r) \/ Resuming(r) \/ Switching(r),
         r.flag = flow[f].flag, r.step # "detecting",
         launching' \in {launching, launching \cup {r.flag}}
  PROVE  /\ FlowShapes' /\ FlagHasFlow'
         /\ \A g \in FlowIds : flow'[g].step \in Steps
         /\ flow'[f] = r /\ \A g \in FlowIds : g # f => flow'[g] = flow[g]
         /\ launching' \subseteq Agents \cup {"todo"}
<1>1. flow'[f] = r /\ \A g \in FlowIds : g # f => flow'[g] = flow[g]
  BY DEF Inv, FlowShapes, FlowIds
<1>2. FlowShapes'
  BY <1>1 DEF Inv, FlowShapes, Begun, FlowIds
<1>3. r.step \in Steps /\ r.step \notin {"none", "ended"} /\ r.flag \in Agents \cup {"todo"}
  BY DEF Launching, Resuming, Switching, Reclaimed, ReclaimSteps, Steps
<1>4. FlagHasFlow'
  <2> SUFFICES ASSUME NEW a \in launching'
               PROVE  \E g \in Flows : Underway(g)' /\ flow'[g].step # "detecting" /\ flow'[g].flag = a
    BY DEF FlagHasFlow
  <2>1. CASE a = r.flag
    BY <1>1, <1>3, <2>1 DEF Underway
  <2>2. CASE a # r.flag
    BY <1>1, <2>2 DEF Inv, FlagHasFlow, Underway, FlowIds
  <2> QED
    BY <2>1, <2>2
<1>5. \A g \in FlowIds : flow'[g].step \in Steps
  BY <1>1, <1>3 DEF Inv, TypeOK, FlowIds, Steps
<1> QED
  BY <1>1, <1>2, <1>3, <1>4, <1>5 DEF Inv, TypeOK

(* What a flow is, by what it waits for.                                    *)
LEMMA Shapes ==
  ASSUME Inv, NEW f \in FlowIds
  PROVE  /\ flow[f].step \in {"inspecting", "stopping", "asking"} =>
              (f = Restore /\ Restoring(flow[f])) \/ (f \in Flows /\ Resuming(flow[f]))
         /\ f \in Flows /\ flow[f].step = "detecting" => Launching(flow[f])
         /\ f \in Flows /\ flow[f].step \in {"closing", "rolling"} => Switching(flow[f])
         /\ f \in Flows /\ flow[f].step = "preparing" =>
              Launching(flow[f]) \/ Resuming(flow[f]) \/ Switching(flow[f])
         /\ f = Restore => ~(flow[f].step \in {"detecting", "closing", "rolling"})
         /\ f = Restore /\ flow[f].step = "preparing" => Restoring(flow[f])
<1>1. CASE f \in Flows
  BY <1>1 DEF Inv, FlowShapes, Begun, Idle, Over, Launching, Resuming, Switching, Reclaimed, ReclaimSteps, FlowIds
<1>2. CASE f = Restore
  BY <1>2 DEF Inv, FlowShapes, Over, Restoring, Reclaimed, ReclaimSteps, FlowIds
<1> QED
  BY <1>1, <1>2 DEF FlowIds

(* The installation of an agent is known, or the launch ends.               *)
LEMMA DetectedKeeps ==
  ASSUME Inv, NEW f \in FlowIds, Detected(f)
  PROVE  Inv'
<1> DEFINE r == [flow[f] EXCEPT !.step = "preparing"]
<1>1. f \in Flows /\ Launching(flow[f]) /\ Underway(f)
  BY Shapes DEF Detected, FlowIds, Underway
<1>2. UNCHANGED <<active, mounted, terminals, held, asking, ghosts, meanwhile>>
  BY DEF Detected
<1>3. CASE flow' = [flow EXCEPT ![f].step = "preparing"] /\ launching' = launching \cup {flow[f].flag}
           /\ detected' = detected \cup {flow[f].flag}
  <2>1. Launching(r) /\ r.flag = flow[f].flag /\ r.step = "preparing" /\ flow' = [flow EXCEPT ![f] = r]
    BY <1>1, <1>3 DEF Launching
  <2> HIDE DEF r
  <2>2. /\ FlowShapes' /\ FlagHasFlow'
        /\ \A g \in FlowIds : flow'[g].step \in Steps
        /\ flow'[f] = r /\ \A g \in FlowIds : g # f => flow'[g] = flow[g]
        /\ launching' \subseteq Agents \cup {"todo"}
    BY <1>1, <1>3, <2>1, GoesOnKeeps
  <2>3. ~Resuming(r)
    BY <2>1 DEF Launching, Resuming
  <2>4. SessionsSafe'
    <3>1. \A g \in FlowIds : flow'[g] = flow[g] \/ (g \in Flows /\ ~Resuming(flow'[g]))
      BY <1>1, <2>2, <2>3
    <3>2. held' = held /\ turned' = turned
      BY <1>2 DEF ghosts
    <3> QED
      BY <3>1, <3>2 DEF Inv, SessionsSafe, StopsSeenIdle, Cleared, Decided, FlowIds
  <2>5. TypeOK'
    <3>1. detected' \subseteq Agents
      BY <1>1, <1>3 DEF Inv, TypeOK, Launching
    <3>2. asking' # None => flow'[asking'].step = "asking"
      BY <1>1, <1>2, <2>2 DEF Inv, TypeOK, FlowIds, Detected
    <3> QED
      BY <1>2, <2>2, <3>1, <3>2 DEF Inv, TypeOK, terminals, FlowIds, Steps
  <2> QED
    BY <1>2, <2>2, <2>4, <2>5 DEF Inv, OthersFree
<1>4. CASE flow' = [flow EXCEPT ![f] = Over] /\ UNCHANGED <<detected, launching>>
  <2>1. flow'[f] = Over /\ \A g \in FlowIds : g # f => flow'[g] = flow[g]
    BY <1>4 DEF Inv, FlowShapes, FlowIds
  <2>2. FlowShapes'
    BY <1>4, <2>1 DEF Inv, FlowShapes, Begun, FlowIds
  <2>3. SessionsSafe'
    <3>1. ~Resuming(Over)
      BY DEF Resuming, Over
    <3> QED
      BY <1>1, <1>2, <2>1, <3>1 DEF Inv, SessionsSafe, StopsSeenIdle, Cleared, Decided, FlowIds, ghosts
  <2>4. FlagHasFlow'
    BY <1>4, <2>1 DEF Inv, FlagHasFlow, Underway, FlowIds, Detected
  <2>5. TypeOK'
    <3>1. \A g \in FlowIds : flow'[g].step \in Steps
      BY <2>1 DEF Inv, TypeOK, FlowIds, Steps, Over
    <3>2. asking' # None => flow'[asking'].step = "asking"
      BY <1>1, <1>2, <2>1 DEF Inv, TypeOK, FlowIds, Detected
    <3> QED
      BY <1>2, <1>4, <3>1, <3>2 DEF Inv, TypeOK, terminals, FlowIds, Steps
  <2> QED
    BY <1>2, <2>2, <2>3, <2>4, <2>5 DEF Inv, OthersFree
<1> QED
  BY <1>3, <1>4 DEF Detected

(* A flow looks after its sessions: each that it looks at is free now, was  *)
(* not seen, is to be stopped, or stands in the way.                        *)
LEMMA ReclaimKeeps ==
  ASSUME Inv, NEW f \in FlowIds, NEW r, Reclaim(f, r),
         flow[f].step \in {"inspecting", "stopping"},
         \/ f = Restore /\ Restoring(r)
         \/ f \in Flows /\ Resuming(r) /\ r.flag = flow[f].flag,
         held' \in [Terminals -> {"free", "idle", "busy"}],
         \A s \in r.stops : held'[s] # "busy" \/ s \in turned,
         \A s \in r.ids : held'[s] = "free" \/ s \in r.unseen \cup r.blocking \cup r.stops,
         \A s \in Terminals : held'[s] = held[s] \/ held'[s] = "free",
         UNCHANGED <<active, mounted, terminals, detected, launching, adopted, early,
                     disturbed, turned, meanwhile>>
  PROVE  Inv'
<1> DEFINE step == CASE r.stops # {} -> "stopping"
                     [] r.stops = {} /\ r.blocking # {} -> "asking"
                     [] OTHER -> "preparing"
           q == [r EXCEPT !.step = step]
<1>1. /\ step \in {"stopping", "asking", "preparing"}
      /\ step = "stopping" <=> r.stops # {}
      /\ step = "preparing" => r.blocking = {}
  OBVIOUS
<1>2. /\ flow' = [flow EXCEPT ![f] = q]
      /\ asking' = IF step = "asking" THEN f ELSE asking
  BY DEF Reclaim
<1> HIDE DEF step
<1>3. /\ q.step = step /\ q.ids = r.ids /\ q.stops = r.stops /\ q.blocking = r.blocking
      /\ q.unseen = r.unseen
      /\ \/ f = Restore /\ Restoring(q)
         \/ f \in Flows /\ Resuming(q) /\ q.flag = flow[f].flag
  BY <1>1 DEF Restoring, Resuming, Reclaimed, ReclaimSteps
<1> HIDE DEF q
<1>4. flow'[f] = q /\ \A g \in FlowIds : g # f => flow'[g] = flow[g]
  BY <1>2 DEF Inv, FlowShapes, FlowIds
<1>5. FlowShapes'
  BY <1>2, <1>3, <1>4 DEF Inv, FlowShapes, Begun, FlowIds
<1>6. TypeOK'
  <2>1. \A g \in FlowIds : flow'[g].step \in Steps
    BY <1>1, <1>3, <1>4 DEF Inv, TypeOK, FlowIds, Steps
  <2>2. asking' # None => flow'[asking'].step = "asking"
    BY <1>1, <1>2, <1>3, <1>4 DEF Inv, TypeOK, FlowIds
  <2> QED
    BY <1>2, <2>1, <2>2 DEF Inv, TypeOK, terminals, FlowIds, Steps
<1>7. FlagHasFlow'
  <2> SUFFICES ASSUME NEW a \in launching
               PROVE  \E g \in Flows : Underway(g)' /\ flow'[g].step # "detecting" /\ flow'[g].flag = a
    BY DEF FlagHasFlow
  <2> PICK g \in Flows : Underway(g) /\ flow[g].step # "detecting" /\ flow[g].flag = a
    BY DEF Inv, FlagHasFlow
  <2>1. CASE g = f
    BY <1>1, <1>3, <1>4, <2>1 DEF Underway, FlowIds
  <2>2. CASE g # f
    BY <1>4, <2>2 DEF Underway, FlowIds
  <2> QED
    BY <2>1, <2>2
<1>8. OthersFree'
  BY DEF Inv, OthersFree
<1>9. SessionsSafe'
  <2>1. StopsSeenIdle(q)' /\ Cleared(q)' /\ Decided(q)'
    BY <1>1, <1>3 DEF StopsSeenIdle, Cleared, Decided
  <2>2. ASSUME NEW g \in FlowIds, g # f, Resuming(flow[g]) \/ Restoring(flow[g]),
               StopsSeenIdle(flow[g]), Cleared(flow[g])
        PROVE  StopsSeenIdle(flow[g])' /\ Cleared(flow[g])'
    BY <1>4, <2>2 DEF StopsSeenIdle, Cleared, Resuming, Restoring, Reclaimed
  <2>3. \A g \in FlowIds : g # f /\ Decided(flow[g]) => Decided(flow[g])'
    BY <1>4 DEF Decided
  <2> QED
    BY <1>3, <1>4, <2>1, <2>2, <2>3 DEF Inv, SessionsSafe, FlowIds
<1> QED
  BY <1>5, <1>6, <1>7, <1>8, <1>9 DEF Inv

(* What is noted of the sessions leaves a flow what it is.                  *)
Note(r, stops, blocking, unseen) ==
    [r EXCEPT !.stops = stops, !.blocking = blocking, !.unseen = unseen]

IsNote(q, r, stops, blocking, unseen) ==
    /\ q.stops = stops /\ q.blocking = blocking /\ q.unseen = unseen /\ q.ids = r.ids
    /\ Resuming(r) => Resuming(q) /\ q.flag = r.flag
    /\ Restoring(r) => Restoring(q)

(* What a note leaves as it was.                                            *)
LEMMA Noted ==
  ASSUME NEW r, Resuming(r) \/ Restoring(r),
         NEW stops \in SUBSET Terminals, NEW blocking \in SUBSET Terminals,
         NEW unseen \in SUBSET Terminals
  PROVE  IsNote(Note(r, stops, blocking, unseen), r, stops, blocking, unseen)
<1> PICK q : q = Note(r, stops, blocking, unseen)
  OBVIOUS
<1>1. CASE Resuming(r)
  <2>1. ~Restoring(r)
    BY <1>1 DEF Resuming, Restoring
  <2>2. /\ q.stops = stops /\ q.blocking = blocking /\ q.unseen = unseen /\ q.ids = r.ids
        /\ q.flag = r.flag /\ q.kind = r.kind /\ q.home = r.home /\ q.session = r.session
        /\ q.step = r.step /\ q.choice = r.choice
        /\ q = [kind |-> q.kind, flag |-> q.flag, home |-> q.home, session |-> q.session,
                step |-> q.step, ids |-> q.ids, stops |-> q.stops, blocking |-> q.blocking,
                unseen |-> q.unseen, choice |-> q.choice]
    BY <1>1 DEF Resuming, Note
  <2>3. Resuming(q)
    BY <1>1, <2>2 DEF Resuming, Reclaimed
  <2> QED
    BY <1>1, <2>1, <2>2, <2>3 DEF IsNote
<1>2. CASE Restoring(r)
  <2>1. ~Resuming(r)
    BY <1>2 DEF Resuming, Restoring
  <2>2. /\ q.stops = stops /\ q.blocking = blocking /\ q.unseen = unseen /\ q.ids = r.ids
        /\ q.kind = r.kind /\ q.left = r.left /\ q.rest = r.rest
        /\ q.step = r.step /\ q.choice = r.choice
        /\ q = [kind |-> q.kind, step |-> q.step, left |-> q.left, rest |-> q.rest,
                ids |-> q.ids, stops |-> q.stops, blocking |-> q.blocking,
                unseen |-> q.unseen, choice |-> q.choice]
    BY <1>2 DEF Restoring, Note
  <2>3. Restoring(q)
    BY <1>2, <2>2 DEF Restoring, Reclaimed
  <2> QED
    BY <1>2, <2>1, <2>2, <2>3 DEF IsNote
<1> QED
  BY <1>1, <1>2

(* What is idle is to be stopped, what is busy stands in the way.           *)
LEMMA InspectedKeeps ==
  ASSUME Inv, NEW f \in FlowIds, Inspected(f)
  PROVE  Inv'
<1> PICK unseen \in SUBSET flow[f].ids :
         Reclaim(f, [Planned(flow[f], [s \in flow[f].ids |->
                                         IF s \in unseen THEN "free" ELSE held[s]])
                      EXCEPT !.unseen = unseen])
  BY DEF Inspected
<1> DEFINE found == [s \in flow[f].ids |-> IF s \in unseen THEN "free" ELSE held[s]]
           r == [Planned(flow[f], found) EXCEPT !.unseen = unseen]
<1>1. flow[f].step = "inspecting"
      /\ UNCHANGED <<active, mounted, terminals, held, detected, launching, adopted, early,
                     disturbed, turned, meanwhile>>
  BY DEF Inspected
<1>2. \/ f = Restore /\ Restoring(flow[f])
      \/ f \in Flows /\ Resuming(flow[f])
  BY <1>1, Shapes
<1>3. /\ r.stops = {s \in flow[f].ids : found[s] = "idle"}
      /\ r.blocking = {s \in flow[f].ids : found[s] = "busy"}
      /\ r.unseen = unseen /\ r.ids = flow[f].ids
      /\ \/ f = Restore /\ Restoring(r)
         \/ f \in Flows /\ Resuming(r) /\ r.flag = flow[f].flag
  <2> DEFINE stops == {s \in flow[f].ids : found[s] = "idle"}
             blocking == {s \in flow[f].ids : found[s] = "busy"}
  <2>1. r = Note(flow[f], stops, blocking, unseen)
    BY <1>2 DEF Planned, Note, Resuming, Restoring
  <2>2. flow[f].ids \in SUBSET Terminals
    BY <1>2 DEF Resuming, Restoring, Reclaimed
  <2>3. stops \in SUBSET Terminals /\ blocking \in SUBSET Terminals /\ unseen \in SUBSET Terminals
    BY <2>2
  <2> HIDE DEF r, stops, blocking, found
  <2>4. /\ r.stops = stops /\ r.blocking = blocking /\ r.unseen = unseen /\ r.ids = flow[f].ids
        /\ Resuming(flow[f]) => Resuming(r) /\ r.flag = flow[f].flag
        /\ Restoring(flow[f]) => Restoring(r)
    BY <1>2, <2>1, <2>3, Noted DEF IsNote
  <2> QED
    BY <1>2, <2>4 DEF stops, blocking
<1>4. flow[f].ids \in SUBSET Terminals /\ held \in [Terminals -> {"free", "idle", "busy"}]
  BY <1>2 DEF Restoring, Resuming, Reclaimed, Inv, TypeOK
<1>5. Reclaim(f, r)
  OBVIOUS
<1> HIDE DEF r
<1>6. /\ \A s \in r.stops : held'[s] # "busy" \/ s \in turned
      /\ \A s \in r.ids : held'[s] = "free" \/ s \in r.unseen \cup r.blocking \cup r.stops
  BY <1>1, <1>3, <1>4
<1> QED
  BY <1>1, <1>3, <1>4, <1>5, <1>6, ReclaimKeeps

(* A session is stopped and free, or it could not be and stands in the way. *)
LEMMA StoppedKeeps ==
  ASSUME Inv, NEW f \in FlowIds, Stopped(f)
  PROVE  Inv'
<1>1. flow[f].step = "stopping"
      /\ UNCHANGED <<active, mounted, terminals, detected, launching, adopted, early,
                     disturbed, turned, meanwhile>>
  BY DEF Stopped
<1>2. \/ f = Restore /\ Restoring(flow[f])
      \/ f \in Flows /\ Resuming(flow[f])
  BY <1>1, Shapes
<1>3. /\ flow[f].stops \in SUBSET Terminals /\ flow[f].ids \in SUBSET Terminals
      /\ held \in [Terminals -> {"free", "idle", "busy"}]
      /\ StopsSeenIdle(flow[f]) /\ Cleared(flow[f])
  BY <1>2 DEF Inv, TypeOK, SessionsSafe, Restoring, Resuming, Reclaimed
<1> PICK s \in flow[f].stops :
       \/ /\ held' = [held EXCEPT ![s] = "free"]
          /\ Reclaim(f, [flow[f] EXCEPT !.stops = @ \ {s}])
       \/ Reclaim(f, StopFails(flow[f], s)) /\ UNCHANGED held
  BY DEF Stopped
<1>4. CASE /\ held' = [held EXCEPT ![s] = "free"]
           /\ Reclaim(f, [flow[f] EXCEPT !.stops = @ \ {s}])
  <2> DEFINE r == [flow[f] EXCEPT !.stops = @ \ {s}]
  <2>1. /\ r.stops = flow[f].stops \ {s} /\ r.ids = flow[f].ids
        /\ r.unseen = flow[f].unseen /\ r.blocking = flow[f].blocking
        /\ \/ f = Restore /\ Restoring(r)
           \/ f \in Flows /\ Resuming(r) /\ r.flag = flow[f].flag
    <3>1. flow[f].stops \ {s} \in SUBSET Terminals /\ flow[f].blocking \in SUBSET Terminals
          /\ flow[f].unseen \in SUBSET Terminals
      BY <1>2, <1>3 DEF Restoring, Resuming, Reclaimed
    <3>2. r = Note(flow[f], flow[f].stops \ {s}, flow[f].blocking, flow[f].unseen)
      BY <1>2 DEF Restoring, Resuming, Note
    <3> HIDE DEF r
    <3> QED
      BY <1>2, <3>1, <3>2, Noted DEF IsNote
  <2>2. /\ \A t \in r.stops : held'[t] # "busy" \/ t \in turned
        /\ \A t \in r.ids : held'[t] = "free" \/ t \in r.unseen \cup r.blocking \cup r.stops
        /\ \A t \in Terminals : held'[t] = held[t] \/ held'[t] = "free"
        /\ held' \in [Terminals -> {"free", "idle", "busy"}]
    BY <1>1, <1>3, <1>4, <2>1 DEF StopsSeenIdle, Cleared
  <2>3. Reclaim(f, r)
    BY <1>4
  <2> HIDE DEF r
  <2> QED
    BY <1>1, <1>4, <2>1, <2>2, <2>3, ReclaimKeeps
<1>5. CASE Reclaim(f, StopFails(flow[f], s)) /\ UNCHANGED held
  <2> DEFINE r == StopFails(flow[f], s)
  <2>1. /\ r.stops = flow[f].stops \ {s} /\ r.ids = flow[f].ids
        /\ r.unseen = flow[f].unseen /\ r.blocking = flow[f].blocking \cup {s}
        /\ \/ f = Restore /\ Restoring(r)
           \/ f \in Flows /\ Resuming(r) /\ r.flag = flow[f].flag
    <3>1. flow[f].stops \ {s} \in SUBSET Terminals /\ flow[f].blocking \cup {s} \in SUBSET Terminals
          /\ flow[f].unseen \in SUBSET Terminals
      BY <1>2, <1>3 DEF Restoring, Resuming, Reclaimed
    <3>2. r = Note(flow[f], flow[f].stops \ {s}, flow[f].blocking \cup {s}, flow[f].unseen)
      BY <1>2 DEF StopFails, Restoring, Resuming, Note
    <3> HIDE DEF r
    <3> QED
      BY <1>2, <3>1, <3>2, Noted DEF IsNote
  <2>2. /\ \A t \in r.stops : held'[t] # "busy" \/ t \in turned
        /\ \A t \in r.ids : held'[t] = "free" \/ t \in r.unseen \cup r.blocking \cup r.stops
    BY <1>1, <1>3, <1>5, <2>1 DEF StopsSeenIdle, Cleared
  <2>3. Reclaim(f, r)
    BY <1>5
  <2> HIDE DEF r
  <2> QED
    BY <1>1, <1>3, <1>5, <2>1, <2>2, <2>3, ReclaimKeeps
<1> QED
  BY <1>4, <1>5

(* The restoring goes on, or is over.                                       *)
LEMMA RestoreGoesOn ==
  ASSUME Inv, NEW r, flow' = [flow EXCEPT ![Restore] = r], r = Over \/ Restoring(r),
         UNCHANGED launching
  PROVE  /\ FlowShapes' /\ FlagHasFlow'
         /\ \A g \in FlowIds : flow'[g].step \in Steps
         /\ flow'[Restore] = r /\ \A g \in Flows : flow'[g] = flow[g]
<1>1. flow'[Restore] = r /\ \A g \in Flows : flow'[g] = flow[g]
  BY DEF Inv, FlowShapes
<1>2. FlowShapes'
  BY <1>1 DEF Inv, FlowShapes, Begun
<1>3. r.step \in Steps
  BY DEF Over, Restoring, Reclaimed, ReclaimSteps, Steps
<1>4. FlagHasFlow'
  BY <1>1 DEF Inv, FlagHasFlow, Underway
<1>5. \A g \in FlowIds : flow'[g].step \in Steps
  BY <1>1, <1>3 DEF Inv, TypeOK, FlowIds, Steps
<1> QED
  BY <1>1, <1>2, <1>4, <1>5

(* The flow and its answer.                                                 *)
Told(r, choice) == [r EXCEPT !.step = "preparing", !.choice = choice]

(* What an answer leaves as it was.                                         *)
LEMMA ToldKeeps ==
  ASSUME NEW r, Resuming(r) \/ Restoring(r), NEW choice
  PROVE  LET told == Told(r, choice)
         IN  /\ told.ids = r.ids /\ told.unseen = r.unseen /\ told.blocking = r.blocking
             /\ told.step = "preparing" /\ told.choice = choice
             /\ Resuming(r) => Resuming(told) /\ told.flag = r.flag
             /\ Restoring(r) => Restoring(told)
<1> PICK q : q = Told(r, choice)
  OBVIOUS
<1>1. CASE Resuming(r)
  <2>1. ~Restoring(r)
    BY <1>1 DEF Resuming, Restoring
  <2>2. /\ q.step = "preparing" /\ q.choice = choice /\ q.ids = r.ids /\ q.stops = r.stops
        /\ q.blocking = r.blocking /\ q.unseen = r.unseen
        /\ q.flag = r.flag /\ q.kind = r.kind /\ q.home = r.home /\ q.session = r.session
        /\ q = [kind |-> q.kind, flag |-> q.flag, home |-> q.home, session |-> q.session,
                step |-> q.step, ids |-> q.ids, stops |-> q.stops, blocking |-> q.blocking,
                unseen |-> q.unseen, choice |-> q.choice]
    BY <1>1 DEF Resuming, Told
  <2>3. Resuming(q)
    BY <1>1, <2>2 DEF Resuming, Reclaimed, ReclaimSteps
  <2> QED
    BY <1>1, <2>1, <2>2, <2>3
<1>2. CASE Restoring(r)
  <2>1. ~Resuming(r)
    BY <1>2 DEF Resuming, Restoring
  <2>2. /\ q.step = "preparing" /\ q.choice = choice /\ q.ids = r.ids /\ q.stops = r.stops
        /\ q.blocking = r.blocking /\ q.unseen = r.unseen
        /\ q.kind = r.kind /\ q.left = r.left /\ q.rest = r.rest
        /\ q = [kind |-> q.kind, step |-> q.step, left |-> q.left, rest |-> q.rest,
                ids |-> q.ids, stops |-> q.stops, blocking |-> q.blocking,
                unseen |-> q.unseen, choice |-> q.choice]
    BY <1>2 DEF Restoring, Told
  <2>3. Restoring(q)
    BY <1>2, <2>2 DEF Restoring, Reclaimed, ReclaimSteps
  <2> QED
    BY <1>2, <2>1, <2>2, <2>3
<1> QED
  BY <1>1, <1>2

(* The answer: the flow ends, or goes on with what the user chose.          *)
LEMMA AnswerKeeps ==
  ASSUME Inv, NEW choice \in Choices, Answer(choice)
  PROVE  Inv'
<1> PICK f \in FlowIds : f = asking
  BY DEF Answer, Inv, TypeOK, FlowIds
<1>1. /\ flow[f].step = "asking" /\ asking' = None /\ Underway(f)
      /\ UNCHANGED <<active, mounted, terminals, held, detected, turned, meanwhile>>
  BY DEF Answer, Inv, TypeOK, FlowIds, Underway
<1>2. held' = held /\ turned' = turned
  BY <1>1
<1>3. \/ f = Restore /\ Restoring(flow[f])
      \/ f \in Flows /\ Resuming(flow[f])
  BY <1>1, Shapes
<1>4. CASE choice = "skip" /\ f # Restore
  <2>1. f \in Flows /\ End(f)
    BY <1>1, <1>4 DEF Answer, FlowIds
  <2>2. /\ FlowShapes' /\ SessionsSafe' /\ FlagHasFlow' /\ OthersFree'
        /\ \A g \in FlowIds : flow'[g].step \in Steps
        /\ launching' \subseteq launching
    BY <1>1, <1>2, <2>1, EndKeeps
  <2>3. TypeOK'
    BY <1>1, <2>2 DEF Inv, TypeOK, terminals, FlowIds, Steps
  <2> QED
    BY <2>2, <2>3 DEF Inv
<1>5. CASE ~(choice = "skip" /\ f # Restore)
  <2> PICK r : r = Told(flow[f], choice)
    OBVIOUS
  <2>1. flow' = [flow EXCEPT ![f] = r] /\ UNCHANGED launching
    BY <1>5 DEF Answer, Told
  <2>2. /\ r.ids = flow[f].ids /\ r.unseen = flow[f].unseen /\ r.blocking = flow[f].blocking
        /\ r.step = "preparing" /\ r.choice = choice
        /\ Resuming(flow[f]) => Resuming(r) /\ r.flag = flow[f].flag
        /\ Restoring(flow[f]) => Restoring(r)
    BY <1>3, ToldKeeps
  <2>3. /\ FlowShapes' /\ FlagHasFlow'
        /\ \A g \in FlowIds : flow'[g].step \in Steps
        /\ flow'[f] = r /\ \A g \in FlowIds : g # f => flow'[g] = flow[g]
    <3>1. CASE f = Restore
      BY <1>3, <2>1, <2>2, <3>1, RestoreGoesOn DEF FlowIds
    <3>2. CASE f # Restore
      <4>1. f \in Flows /\ Resuming(r) /\ r.flag = flow[f].flag /\ r.step # "detecting"
        BY <1>3, <2>2, <3>2
      <4>2. launching' \in {launching, launching \cup {r.flag}}
        BY <2>1
      <4>3. Launching(r) \/ Resuming(r) \/ Switching(r)
        BY <4>1
      <4> HIDE AgentLaunchAssumption
      <4> QED
        BY <1>1, <2>1, <4>1, <4>2, <4>3, GoesOnKeeps
    <3> QED
      BY <3>1, <3>2
  <2>4. Cleared(flow[f]) /\ (f \in Flows => choice # "skip")
    BY <1>3, <1>5 DEF Inv, SessionsSafe
  <2>5. StopsSeenIdle(r)' /\ Cleared(r)' /\ (f \in Flows => Decided(r)')
    BY <1>1, <1>2, <2>2, <2>4 DEF StopsSeenIdle, Cleared, Decided
  <2>6. SessionsSafe'
    <3>1. \A g \in FlowIds : g # f /\ StopsSeenIdle(flow[g]) => StopsSeenIdle(flow[g])'
      BY <1>2, <2>3 DEF StopsSeenIdle
    <3>2. \A g \in FlowIds : g # f /\ Cleared(flow[g]) => Cleared(flow[g])'
      BY <1>2, <2>3 DEF Cleared
    <3>3. \A g \in FlowIds : g # f /\ Decided(flow[g]) => Decided(flow[g])'
      BY <1>2, <2>3 DEF Decided
    <3>4. /\ f \in Flows => Resuming(flow'[f]) /\ StopsSeenIdle(flow[f])' /\ Cleared(flow[f])' /\ Decided(flow[f])'
          /\ f = Restore => StopsSeenIdle(flow[f])' /\ Cleared(flow[f])'
      BY <1>1, <1>3, <2>2, <2>3, <2>5 DEF StopsSeenIdle, Cleared, Decided
    <3> QED
      BY <1>1, <2>3, <3>1, <3>2, <3>3, <3>4 DEF Inv, SessionsSafe, FlowIds
  <2>7. TypeOK'
    BY <1>1, <2>1, <2>3 DEF Inv, TypeOK, terminals, FlowIds, Steps
  <2> QED
    BY <1>2, <2>3, <2>6, <2>7 DEF Inv, OthersFree
<1> QED
  BY <1>4, <1>5

-----------------------------------------------------------------------------
(* What is not about sessions.                                              *)
LEMMA SessionsKeep ==
  ASSUME Inv, NEW f \in Flows, ~Resuming(flow'[f]),
         \A g \in FlowIds : g # f => flow'[g] = flow[g], UNCHANGED <<held, turned>>
  PROVE  SessionsSafe' /\ OthersFree'
<1>1. SessionsSafe'
  <2>1. \A g \in FlowIds : g # f /\ StopsSeenIdle(flow[g]) => StopsSeenIdle(flow[g])'
    BY DEF StopsSeenIdle
  <2>2. \A g \in FlowIds : g # f /\ Cleared(flow[g]) => Cleared(flow[g])'
    BY DEF Cleared
  <2>3. \A g \in FlowIds : g # f /\ Decided(flow[g]) => Decided(flow[g])'
    BY DEF Decided
  <2> QED
    BY <2>1, <2>2, <2>3 DEF Inv, SessionsSafe, FlowIds
<1>2. OthersFree'
  BY DEF Inv, OthersFree
<1> QED
  BY <1>1, <1>2

(* What does not touch flows and sessions keeps what is said of them.       *)
LEMMA FlowStays ==
  ASSUME Inv, UNCHANGED <<flow, launching, held, turned>>
  PROVE  FlowShapes' /\ OthersFree' /\ SessionsSafe' /\ FlagHasFlow'
<1>1. FlowShapes'
  BY DEF Inv, FlowShapes
<1>2. OthersFree' /\ SessionsSafe'
  BY DEF Inv, OthersFree, SessionsSafe, StopsSeenIdle, Cleared, Decided
<1>3. FlagHasFlow'
  BY DEF Inv, FlagHasFlow, Underway
<1> QED
  BY <1>1, <1>2, <1>3

TerminalsOK ==
    /\ place \in [All -> Workspaces \cup {None}]
    /\ command \in [Terminals -> Flows \cup {Restore, Stored}]
    /\ process \in [Terminals -> Flows \cup {Restore, Stored, None}]
    /\ due \subseteq {t \in Terminals : place[t] # None}
    /\ \A t \in Terminals : place[t] = None => process[t] = None

(* What does not touch sessions and questions keeps its types.              *)
LEMMA TypesKeep ==
  ASSUME Inv, TerminalsOK', active' \in Workspaces, mounted' \subseteq Workspaces,
         launching' \subseteq launching, UNCHANGED <<held, detected, asking>>,
         \A g \in FlowIds : flow'[g].step \in Steps,
         asking # None => flow'[asking].step = "asking"
  PROVE  TypeOK'
BY DEF Inv, TypeOK, TerminalsOK, FlowIds, Steps

(* An open question stays open when another flow takes a step.              *)
LEMMA AskingStays ==
  ASSUME Inv, NEW f \in FlowIds, flow[f].step # "asking",
         \A g \in FlowIds : g # f => flow'[g] = flow[g]
  PROVE  asking # None => flow'[asking].step = "asking"
BY DEF Inv, TypeOK, FlowIds

(* A command is there and its terminal is created, or the flow ends.        *)
LEMMA PreparedKeeps ==
  ASSUME Inv, NEW f \in FlowIds, Prepared(f)
  PROVE  Inv'
<1>1. f \in Flows /\ Underway(f) /\ (Launching(flow[f]) \/ Resuming(flow[f]))
      /\ flow[f].home \in Workspaces /\ flow[f].step = "preparing"
  <2>1. f # Restore
    BY DEF Prepared, Inv, FlowShapes, Restoring, Over
  <2> QED
    BY <2>1, Shapes DEF Prepared, FlowIds, Underway, Switching, Launching, Resuming
<1>2. /\ End(f)
      /\ UNCHANGED <<active, held, detected, asking, adopted, replaced, turned, meanwhile>>
      /\ \/ UNCHANGED <<place, mounted>>
         \/ \E w \in Workspaces : place' = [place EXCEPT ![f] = w] /\ mounted' \in {mounted, mounted \cup {w}}
      /\ UNCHANGED <<command, due, process>>
  BY <1>1 DEF Prepared, CreateTerminal, Mount, terminals, Inv, TypeOK
<1>3. /\ FlowShapes' /\ SessionsSafe' /\ FlagHasFlow' /\ OthersFree'
      /\ \A g \in FlowIds : flow'[g].step \in Steps
      /\ \A g \in FlowIds : g # f => flow'[g] = flow[g]
      /\ launching' \subseteq launching
  BY <1>1, <1>2, EndKeeps
<1>4. TerminalsOK' /\ mounted' \subseteq Workspaces
  BY <1>1, <1>2 DEF Inv, TypeOK, TerminalsOK, All
<1>5. asking # None => flow'[asking].step = "asking"
  BY <1>1, <1>3, AskingStays
<1>6. TypeOK'
  <2>1. active' \in Workspaces
    BY <1>2 DEF Inv, TypeOK
  <2> QED
    BY <1>2, <1>3, <1>4, <1>5, <2>1, TypesKeep
<1> QED
  BY <1>3, <1>6 DEF Inv

(* A switch goes on.                                                        *)
Turned(r, step, left, done) == [r EXCEPT !.step = step, !.left = left, !.done = done]

(* A switch that goes on has the shape and the flag it had.                 *)
LEMMA SwitchGoesOn ==
  ASSUME Inv, NEW f \in Flows, Switching(flow[f]),
         NEW step \in {"preparing", "closing", "rolling"},
         NEW left \in SUBSET Terminals, NEW done \in SUBSET Terminals,
         flow' = [flow EXCEPT ![f] = Turned(flow[f], step, left, done)],
         UNCHANGED <<launching, held, turned>>
  PROVE  /\ FlowShapes' /\ SessionsSafe' /\ FlagHasFlow' /\ OthersFree'
         /\ \A g \in FlowIds : flow'[g].step \in Steps
         /\ \A g \in FlowIds : g # f => flow'[g] = flow[g]
<1> PICK r : r = flow[f]
  OBVIOUS
<1> PICK q : q = Turned(r, step, left, done)
  OBVIOUS
<1>1. Switching(r)
  OBVIOUS
<1>2. /\ q.kind = r.kind /\ q.flag = r.flag /\ q.home = r.home /\ q.step = step
      /\ q.targets = r.targets /\ q.left = left /\ q.done = done
      /\ q.before = r.before /\ q.alive = r.alive
      /\ q = [kind |-> q.kind, flag |-> q.flag, home |-> q.home, step |-> q.step,
              targets |-> q.targets, left |-> q.left, done |-> q.done,
              before |-> q.before, alive |-> q.alive]
  BY <1>1 DEF Switching, Turned
<1>3. Switching(q) /\ q.flag = flow[f].flag /\ q.step # "detecting" /\ ~Resuming(q)
  BY <1>1, <1>2 DEF Switching, Resuming
<1>4. Underway(f) /\ flow' = [flow EXCEPT ![f] = q]
  BY DEF Underway, Switching
<1>5. /\ FlowShapes' /\ FlagHasFlow'
      /\ \A g \in FlowIds : flow'[g].step \in Steps
      /\ flow'[f] = q /\ \A g \in FlowIds : g # f => flow'[g] = flow[g]
  <2>1. launching' \in {launching, launching \cup {q.flag}}
    OBVIOUS
  <2>2. Launching(q) \/ Resuming(q) \/ Switching(q)
    BY <1>3
  <2> HIDE AgentLaunchAssumption
  <2> QED
    BY <1>3, <1>4, <2>1, <2>2, GoesOnKeeps
<1>6. SessionsSafe' /\ OthersFree'
  <2>1. ~Resuming(flow'[f]) /\ UNCHANGED <<held, turned>>
    BY <1>3, <1>5
  <2> QED
    BY <1>5, <2>1, SessionsKeep
<1> QED
  BY <1>5, <1>6

(* The commands of a switch are there, or it ends.                          *)
LEMMA PlansReadyKeeps ==
  ASSUME Inv, NEW f \in FlowIds, PlansReady(f)
  PROVE  Inv'
<1>1. f \in Flows /\ Underway(f) /\ Switching(flow[f]) /\ flow[f].step = "preparing"
  <2>1. f # Restore
    BY DEF PlansReady, Inv, FlowShapes, Restoring, Over
  <2> QED
    BY <2>1, Shapes DEF PlansReady, FlowIds, Underway, Switching, Launching, Resuming
<1>2. UNCHANGED <<active, mounted, terminals, held, detected, asking, turned, meanwhile>>
  BY DEF PlansReady
<1>3. held' = held /\ turned' = turned
  BY <1>2
<1>4. /\ FlowShapes' /\ SessionsSafe' /\ FlagHasFlow' /\ OthersFree'
      /\ \A g \in FlowIds : flow'[g].step \in Steps
      /\ \A g \in FlowIds : g # f => flow'[g] = flow[g]
      /\ launching' \subseteq launching
  <2>1. CASE End(f)
    BY <1>1, <1>3, <2>1, EndKeeps
  <2>2. CASE flow' = [flow EXCEPT ![f].step = "closing"] /\ UNCHANGED launching
    <3>1. flow' = [flow EXCEPT ![f] = Turned(flow[f], "closing", flow[f].left, flow[f].done)]
      <4>1. [flow[f] EXCEPT !.step = "closing"] = Turned(flow[f], "closing", flow[f].left, flow[f].done)
        BY <1>1 DEF Turned, Switching
      <4> QED
        BY <2>2, <4>1
    <3>2. flow[f].left \in SUBSET Terminals /\ flow[f].done \in SUBSET Terminals
      BY <1>1 DEF Switching
    <3>3. UNCHANGED <<launching, held, turned>> /\ "closing" \in {"preparing", "closing", "rolling"}
      BY <1>3, <2>2
    <3>4. /\ FlowShapes' /\ SessionsSafe' /\ FlagHasFlow' /\ OthersFree'
          /\ \A g \in FlowIds : flow'[g].step \in Steps
          /\ \A g \in FlowIds : g # f => flow'[g] = flow[g]
      BY <1>1, <3>1, <3>2, <3>3, SwitchGoesOn
    <3> QED
      BY <2>2, <3>4
  <2> QED
    BY <2>1, <2>2 DEF PlansReady
<1>5. TypeOK'
  <2>1. TerminalsOK' /\ active' \in Workspaces /\ mounted' \subseteq Workspaces
    BY <1>2 DEF Inv, TypeOK, TerminalsOK, terminals
  <2>2. asking # None => flow'[asking].step = "asking"
    BY <1>1, <1>4, AskingStays
  <2> QED
    BY <1>2, <1>4, <2>1, <2>2, TypesKeep
<1> QED
  BY <1>4, <1>5 DEF Inv

(* A flow that closes and restarts terminals keeps their types.             *)
LEMMA RestartKeeps ==
  ASSUME Inv, NEW t \in Terminals, NEW c \in Commands, place[t] # None \/ ~Restartable(t), Restart(t, c)
  PROVE  TerminalsOK'
BY DEF Inv, TypeOK, TerminalsOK, Restart, Restartable, CloseProcess, Commands, All

(* A process that is closed leaves its terminal where it is.                *)
LEMMA CloseKeeps ==
  ASSUME Inv, NEW t \in Terminals, CloseProcess(t), UNCHANGED <<place, command, due>>
  PROVE  TerminalsOK'
BY DEF Inv, TypeOK, TerminalsOK, CloseProcess, All

(* What a terminal is restarted in is a workspace.                          *)
LEMMA PlaceIsThere ==
  ASSUME Inv, NEW t \in Terminals, Restartable(t)
  PROVE  place[t] # None
BY DEF Inv, TypeOK, Restartable

(* A step of a switch: what becomes of the flow, and of the terminals.      *)
LEMMA SwitchKeeps ==
  ASSUME Inv, NEW f \in FlowIds, Switching(flow[f]), f \in Flows,
         TerminalsOK',
         UNCHANGED <<active, mounted, held, detected, asking, turned, meanwhile>>,
         \/ End(f)
         \/ \E step \in {"closing", "rolling"} :
              \E left \in SUBSET Terminals, done \in SUBSET Terminals :
                 /\ flow' = [flow EXCEPT ![f] = Turned(flow[f], step, left, done)]
                 /\ UNCHANGED launching
  PROVE  Inv'
<1>1. UNCHANGED <<held, turned>>
  OBVIOUS
<1>2. Underway(f) /\ flow[f].step # "asking"
  BY DEF Underway, Switching
<1>3. /\ FlowShapes' /\ SessionsSafe' /\ FlagHasFlow' /\ OthersFree'
      /\ \A g \in FlowIds : flow'[g].step \in Steps
      /\ \A g \in FlowIds : g # f => flow'[g] = flow[g]
      /\ launching' \subseteq launching
  <2>1. CASE End(f)
    BY <1>1, <1>2, <2>1, EndKeeps
  <2>2. CASE \E step \in {"closing", "rolling"} :
               \E left \in SUBSET Terminals, done \in SUBSET Terminals :
                 /\ flow' = [flow EXCEPT ![f] = Turned(flow[f], step, left, done)]
                 /\ UNCHANGED launching
    <3> PICK step \in {"closing", "rolling"}, left \in SUBSET Terminals, done \in SUBSET Terminals :
                 /\ flow' = [flow EXCEPT ![f] = Turned(flow[f], step, left, done)]
                 /\ UNCHANGED launching
      BY <2>2
    <3>1. UNCHANGED <<launching, held, turned>> /\ step \in {"preparing", "closing", "rolling"}
      BY <1>1
    <3>2. /\ FlowShapes' /\ SessionsSafe' /\ FlagHasFlow' /\ OthersFree'
          /\ \A g \in FlowIds : flow'[g].step \in Steps
          /\ \A g \in FlowIds : g # f => flow'[g] = flow[g]
      BY <3>1, SwitchGoesOn
    <3> QED
      BY <3>2
  <2> QED
    BY <2>1, <2>2
<1>4. asking # None => flow'[asking].step = "asking"
  BY <1>2, <1>3, AskingStays
<1>5. TypeOK'
  <2>1. active' \in Workspaces /\ mounted' \subseteq Workspaces
    BY DEF Inv, TypeOK
  <2> QED
    BY <1>3, <1>4, <2>1, TypesKeep
<1> QED
  BY <1>3, <1>5 DEF Inv

(* A switch that fails ends, or rolls back.                                 *)
LEMMA FailsGoesOn ==
  ASSUME Inv, NEW f \in Flows, Switching(flow[f]), NEW t \in flow[f].left, SwitchFails(f, t)
  PROVE  \/ End(f)
         \/ \E step \in {"closing", "rolling"} :
              \E left \in SUBSET Terminals, done \in SUBSET Terminals :
                 /\ flow' = [flow EXCEPT ![f] = Turned(flow[f], step, left, done)]
                 /\ UNCHANGED launching
<1>a. flow[f].left \in SUBSET Terminals /\ flow[f].done \in SUBSET Terminals
  BY DEF Switching
<1>b. RollbackTargets(flow[f], t) = flow[f].done \cup {t}
  BY DEF RollbackTargets
<1>c. RollbackTargets(flow[f], t) \in SUBSET Terminals
  BY <1>a, <1>b
<1> PICK back \in SUBSET Terminals : back = RollbackTargets(flow[f], t)
  BY <1>c
<1>1. CASE flow[f].kind = "account" \/ back = {}
  BY <1>1 DEF SwitchFails
<1>2. CASE ~(flow[f].kind = "account" \/ back = {})
  <2>1. [flow[f] EXCEPT !.step = "rolling", !.left = back] = Turned(flow[f], "rolling", back, flow[f].done)
    BY DEF Turned, Switching
  <2>2. flow' = [flow EXCEPT ![f] = [flow[f] EXCEPT !.step = "rolling", !.left = back]] /\ UNCHANGED launching
    <3>1. SwitchFails(f, t) <=>
            IF flow[f].kind = "account" \/ back = {} THEN End(f)
            ELSE /\ flow' = [flow EXCEPT ![f] = [flow[f] EXCEPT !.step = "rolling", !.left = back]]
                 /\ UNCHANGED launching
      BY DEF SwitchFails
    <3> QED
      BY <1>2, <3>1
  <2>3. flow[f].done \in SUBSET Terminals
    BY DEF Switching
  <2>4. flow' = [flow EXCEPT ![f] = Turned(flow[f], "rolling", back, flow[f].done)] /\ UNCHANGED launching
    BY <2>1, <2>2
  <2> QED
    BY <2>3, <2>4
<1> QED
  BY <1>1, <1>2

(* A target is switched, or the switch ends or rolls back.                  *)
LEMMA ClosedKeeps ==
  ASSUME Inv, NEW f \in FlowIds, Closed(f)
  PROVE  Inv'
<1>1. f \in Flows /\ Switching(flow[f])
  BY Shapes DEF Closed, FlowIds
<1>2. UNCHANGED <<active, mounted, held, detected, asking, turned, meanwhile>>
  BY DEF Closed
<1> PICK t \in flow[f].left :
         \/ /\ process[t] # None /\ Restart(t, f)
            /\ IF ~Restartable(t) THEN SwitchFails(f, t)
               ELSE IF flow[f].left = {t} THEN End(f)
               ELSE /\ flow' = [flow EXCEPT ![f] = [flow[f] EXCEPT !.left = @ \ {t}, !.done = @ \cup {t}]]
                    /\ UNCHANGED <<launching, disturbed>>
         \/ CloseProcess(t) /\ SwitchFails(f, t) /\ UNCHANGED <<place, command, due>>
  BY DEF Closed
<1>3. t \in Terminals /\ f \in Commands
  BY <1>1 DEF Switching, Commands
<1>4. TerminalsOK'
  BY <1>3, RestartKeeps, CloseKeeps, PlaceIsThere
<1>5. \/ End(f)
      \/ \E step \in {"closing", "rolling"} :
           \E left \in SUBSET Terminals, done \in SUBSET Terminals :
              /\ flow' = [flow EXCEPT ![f] = Turned(flow[f], step, left, done)]
              /\ UNCHANGED launching
  <2>1. CASE SwitchFails(f, t)
    BY <1>1, <2>1, FailsGoesOn
  <2>2. CASE End(f)
    BY <2>2
  <2>3. CASE flow' = [flow EXCEPT ![f] = [flow[f] EXCEPT !.left = @ \ {t}, !.done = @ \cup {t}]] /\ UNCHANGED launching
    <3>1. [flow[f] EXCEPT !.left = @ \ {t}, !.done = @ \cup {t}]
            = Turned(flow[f], "closing", flow[f].left \ {t}, flow[f].done \cup {t})
      BY <1>1 DEF Turned, Switching, Closed
    <3>2. flow' = [flow EXCEPT ![f] = [flow[f] EXCEPT !.left = @ \ {t}, !.done = @ \cup {t}]]
      BY <1>1, <2>3 DEF Inv, FlowShapes
    <3>3. flow[f].left \ {t} \in SUBSET Terminals /\ flow[f].done \cup {t} \in SUBSET Terminals
      BY <1>1, <1>3 DEF Switching
    <3> QED
      BY <2>3, <3>1, <3>2, <3>3
  <2> QED
    BY <2>1, <2>2, <2>3
<1> QED
  BY <1>1, <1>2, <1>4, <1>5, SwitchKeeps

(* A target is rolled back; with the last one the switch ends.              *)
LEMMA RolledBackKeeps ==
  ASSUME Inv, NEW f \in FlowIds, RolledBack(f)
  PROVE  Inv'
<1>1. f \in Flows /\ Switching(flow[f])
  BY Shapes DEF RolledBack, FlowIds
<1>2. UNCHANGED <<active, mounted, held, detected, asking, turned, meanwhile>>
  BY DEF RolledBack
<1> PICK t \in flow[f].left :
         /\ Restart(t, flow[f].before[t])
         /\ IF flow[f].left = {t} THEN End(f)
            ELSE flow' = [flow EXCEPT ![f].left = @ \ {t}] /\ UNCHANGED <<launching, disturbed>>
  BY DEF RolledBack
<1>3. t \in Terminals /\ flow[f].before[t] \in Commands
  BY <1>1 DEF Switching
<1>4. TerminalsOK'
  BY <1>3, RestartKeeps, PlaceIsThere
<1>5. \/ End(f)
      \/ \E step \in {"closing", "rolling"} :
           \E left \in SUBSET Terminals, done \in SUBSET Terminals :
              /\ flow' = [flow EXCEPT ![f] = Turned(flow[f], step, left, done)]
              /\ UNCHANGED launching
  <2>1. CASE End(f)
    BY <2>1
  <2>2. CASE flow' = [flow EXCEPT ![f].left = @ \ {t}] /\ UNCHANGED launching
    <3>1. [flow[f] EXCEPT !.left = @ \ {t}]
            = Turned(flow[f], "rolling", flow[f].left \ {t}, flow[f].done)
      BY <1>1 DEF Turned, Switching, RolledBack
    <3>2. flow' = [flow EXCEPT ![f] = [flow[f] EXCEPT !.left = @ \ {t}]]
      BY <1>1, <2>2 DEF Inv, FlowShapes
    <3>3. flow[f].left \ {t} \in SUBSET Terminals /\ flow[f].done \in SUBSET Terminals
      BY <1>1, <1>3 DEF Switching
    <3> QED
      BY <2>2, <3>1, <3>2, <3>3
  <2> QED
    BY <2>1, <2>2
<1> QED
  BY <1>1, <1>2, <1>4, <1>5, SwitchKeeps

(* What is looked up next is nothing, or the terminals of an agent.         *)
LEMMA RefreshShapes ==
  ASSUME NEW agents
  PROVE  \/ Refresh(agents) = Over
         \/ /\ Restoring(Refresh(agents)) /\ Refresh(agents).step \in {"inspecting", "preparing"}
            /\ Refresh(agents).step = "preparing" => Refresh(agents).ids = {}
BY DEF Refresh, RefreshClaude, RefreshOthers, Of, Over, Restoring, Reclaimed, ReclaimSteps

(* Restored terminals that are left do not change what the sessions are.    *)
Left(r, left) == [r EXCEPT !.left = left]

(* Terminals that are left to restore do not change the rest.               *)
LEMMA LeftKeeps ==
  ASSUME NEW r, Restoring(r), NEW left \in SUBSET Terminals
  PROVE  LET q == Left(r, left)
         IN  /\ Restoring(q) /\ q.step = r.step /\ q.ids = r.ids /\ q.stops = r.stops
             /\ q.blocking = r.blocking /\ q.unseen = r.unseen
<1> PICK q : q = Left(r, left)
  OBVIOUS
<1>1. /\ q.kind = r.kind /\ q.step = r.step /\ q.left = left /\ q.rest = r.rest /\ q.ids = r.ids
      /\ q.stops = r.stops /\ q.blocking = r.blocking /\ q.unseen = r.unseen /\ q.choice = r.choice
      /\ q = [kind |-> q.kind, step |-> q.step, left |-> q.left, rest |-> q.rest,
              ids |-> q.ids, stops |-> q.stops, blocking |-> q.blocking,
              unseen |-> q.unseen, choice |-> q.choice]
  BY DEF Restoring, Left
<1>2. Restoring(q)
  BY <1>1 DEF Restoring, Reclaimed
<1> QED
  BY <1>1, <1>2

(* A terminal is restored; with the last one the next agent's are looked    *)
(* up.                                                                      *)
LEMMA RefreshedKeeps ==
  ASSUME Inv, Refreshed
  PROVE  Inv'
<1>1. Restoring(flow[Restore]) /\ flow[Restore].step = "preparing"
  BY Shapes DEF Refreshed, FlowIds
<1> PICK r : r = flow[Restore]
  OBVIOUS
<1> PICK t \in r.left :
         /\ \/ t \notin Skipped(r) /\ UpdateRestored(t)
            \/ UNCHANGED command
         /\ flow' = [flow EXCEPT ![Restore] = IF r.left = {t} THEN Refresh(r.rest)
                                              ELSE [r EXCEPT !.left = @ \ {t}]]
  BY DEF Refreshed
<1>2. /\ UNCHANGED <<active, place, due, process, held, detected, launching, asking,
                     adopted, early, replaced, turned, meanwhile>>
      /\ mounted' \in {mounted, mounted \cup {active}}
  BY DEF Refreshed
<1> PICK q : q = IF r.left = {t} THEN Refresh(r.rest) ELSE Left(r, r.left \ {t})
  OBVIOUS
<1>3. flow' = [flow EXCEPT ![Restore] = q]
  BY DEF Left
<1>4. \/ q = Over
      \/ /\ Restoring(q)
         /\ \/ q.step = "inspecting"
            \/ q.step = "preparing" /\ q.ids = {}
            \/ /\ q.step = r.step /\ q.ids = r.ids /\ q.stops = r.stops
               /\ q.blocking = r.blocking /\ q.unseen = r.unseen
  <2>1. CASE r.left = {t}
    BY <2>1, RefreshShapes
  <2>2. CASE r.left # {t}
    <3>1. r.left \ {t} \in SUBSET Terminals /\ Restoring(r)
      BY <1>1 DEF Restoring
    <3> QED
      BY <2>2, <3>1, LeftKeeps
  <2> QED
    BY <2>1, <2>2
<1>5. /\ FlowShapes' /\ FlagHasFlow'
      /\ \A g \in FlowIds : flow'[g].step \in Steps
      /\ flow'[Restore] = q /\ \A g \in Flows : flow'[g] = flow[g]
  <2>1. (q = Over \/ Restoring(q)) /\ UNCHANGED launching
    BY <1>2, <1>4
  <2> QED
    BY <1>3, <2>1, RestoreGoesOn
<1>6. OthersFree'
  BY <1>2 DEF Inv, OthersFree
<1>7. SessionsSafe'
  <2>1. \A g \in Flows : StopsSeenIdle(flow[g]) => StopsSeenIdle(flow[g])'
    BY <1>2, <1>5 DEF StopsSeenIdle
  <2>2. \A g \in Flows : Cleared(flow[g]) => Cleared(flow[g])'
    BY <1>2, <1>5 DEF Cleared
  <2>3. \A g \in Flows : Decided(flow[g]) => Decided(flow[g])'
    BY <1>5 DEF Decided
  <2>4. ~Restoring(Over)
    BY DEF Restoring, Over
  <2>5. Cleared(r) /\ r.step = "preparing"
    BY <1>1 DEF Inv, SessionsSafe
  <2>6. Restoring(q) => StopsSeenIdle(q)' /\ Cleared(q)'
    BY <1>2, <1>4, <2>4, <2>5 DEF StopsSeenIdle, Cleared
  <2>7. Restoring(flow[Restore])' => StopsSeenIdle(flow[Restore])' /\ Cleared(flow[Restore])'
    BY <1>5, <2>6 DEF StopsSeenIdle, Cleared
  <2> QED
    BY <1>5, <2>1, <2>2, <2>3, <2>7 DEF Inv, SessionsSafe
<1>8. TypeOK'
  <2>1. TerminalsOK'
    <3>1. t \in Terminals
      BY <1>1 DEF Restoring
    <3>2. command' \in [Terminals -> Flows \cup {Restore, Stored}]
      BY <3>1 DEF UpdateRestored, Inv, TypeOK
    <3> QED
      BY <1>2, <3>2 DEF Inv, TypeOK, TerminalsOK
  <2>2. active' \in Workspaces /\ mounted' \subseteq Workspaces
    BY <1>2 DEF Inv, TypeOK
  <2>3. asking # None => flow'[asking].step = "asking"
    BY <1>1, <1>5 DEF Inv, TypeOK
  <2> QED
    BY <1>2, <1>5, <2>1, <2>2, <2>3, TypesKeep
<1> QED
  BY <1>5, <1>6, <1>7, <1>8 DEF Inv

-----------------------------------------------------------------------------
(* The panels, the user and the CLI leave the flows alone.                  *)
LEMMA OutsideKeeps ==
  ASSUME Inv, TerminalsOK', active' \in Workspaces, mounted' \subseteq Workspaces,
         UNCHANGED <<held, detected, launching, flow, asking, turned>>
  PROVE  Inv'
<1>1. UNCHANGED <<flow, launching, held, turned>> /\ UNCHANGED <<held, detected, asking>>
  OBVIOUS
<1>2. FlowShapes' /\ OthersFree' /\ SessionsSafe' /\ FlagHasFlow'
  BY <1>1, FlowStays
<1>3. /\ \A g \in FlowIds : flow'[g].step \in Steps
      /\ asking # None => flow'[asking].step = "asking"
      /\ launching' \subseteq launching
  BY DEF Inv, TypeOK, FlowIds, Steps
<1> QED
  BY <1>1, <1>2, <1>3, TypesKeep DEF Inv

(* A panel starts a terminal that is in some workspace.                     *)
LEMMA StartKeeps ==
  ASSUME Inv, NEW t \in Terminals, Start(t)
  PROVE  Inv'
<1>1. TerminalsOK'
  BY DEF Start, Inv, TypeOK, TerminalsOK
<1>2. /\ UNCHANGED <<held, detected, launching, flow, asking, turned>>
      /\ active' \in Workspaces /\ mounted' \subseteq Workspaces
  BY DEF Start, ghosts, Inv, TypeOK
<1> QED
  BY <1>1, <1>2, OutsideKeeps

(* The user selects a workspace.                                            *)
LEMMA SelectKeeps ==
  ASSUME Inv, NEW w \in Workspaces, SelectWorkspace(w)
  PROVE  Inv'
<1>1. TerminalsOK'
  BY DEF SelectWorkspace, terminals, Inv, TypeOK, TerminalsOK
<1>2. /\ UNCHANGED <<held, detected, launching, flow, asking, turned>>
      /\ active' \in Workspaces /\ mounted' \subseteq Workspaces
  BY DEF SelectWorkspace, Mount, Inv, TypeOK
<1> QED
  BY <1>1, <1>2, OutsideKeeps

(* A terminal that is closed has no process and nothing due.                *)
LEMMA CloseTerminalKeeps ==
  ASSUME Inv, NEW t \in Terminals, CloseTerminal(t)
  PROVE  Inv'
<1>1. TerminalsOK'
  BY DEF CloseTerminal, Inv, TypeOK, TerminalsOK, All
<1>2. /\ UNCHANGED <<held, detected, launching, flow, asking, turned>>
      /\ active' \in Workspaces /\ mounted' \subseteq Workspaces
  BY DEF CloseTerminal, Inv, TypeOK
<1> QED
  BY <1>1, <1>2, OutsideKeeps

(* A session that begins a turn when it is about to be stopped is           *)
(* remembered; a free one stays free.                                       *)
LEMMA HeldChangesKeeps ==
  ASSUME Inv, NEW s \in Terminals, HeldChanges(s)
  PROVE  Inv'
<1> PICK h \in {"free", "idle", "busy"} \ {held[s]} : held' = [held EXCEPT ![s] = h]
  BY DEF HeldChanges
<1>1. /\ UNCHANGED <<active, mounted, terminals, detected, launching, flow, asking>>
      /\ held[s] # "free" /\ turned \subseteq turned'
      /\ held[s] = "idle" /\ AboutToStop(s) => s \in turned'
  BY DEF HeldChanges
<1>2. held \in [Terminals -> {"free", "idle", "busy"}]
  BY DEF Inv, TypeOK
<1>3. /\ \A t \in Terminals : held[t] = "free" => held'[t] = "free"
      /\ \A t \in Terminals :
           AboutToStop(t) /\ (held[t] # "busy" \/ t \in turned) => held'[t] # "busy" \/ t \in turned'
  BY <1>1, <1>2
<1>4. OthersFree'
  BY <1>3 DEF Inv, OthersFree
<1>5. FlowShapes' /\ FlagHasFlow'
  BY <1>1 DEF Inv, FlowShapes, FlagHasFlow, Underway
<1>6. SessionsSafe'
  <2>1. \A g \in FlowIds : (Resuming(flow[g]) \/ Restoring(flow[g])) /\ StopsSeenIdle(flow[g]) => StopsSeenIdle(flow[g])'
    BY <1>1, <1>3 DEF StopsSeenIdle, Resuming, Restoring, Reclaimed, AboutToStop, FlowIds
  <2>2. \A g \in FlowIds : (Resuming(flow[g]) \/ Restoring(flow[g])) /\ Cleared(flow[g]) => Cleared(flow[g])'
    BY <1>1, <1>3 DEF Cleared, Resuming, Restoring, Reclaimed
  <2>3. \A g \in FlowIds : Decided(flow[g]) => Decided(flow[g])'
    BY <1>1 DEF Decided
  <2> QED
    BY <1>1, <2>1, <2>2, <2>3 DEF Inv, SessionsSafe, FlowIds
<1>7. TypeOK'
  BY <1>1, <1>2 DEF Inv, TypeOK, terminals
<1> QED
  BY <1>4, <1>5, <1>6, <1>7 DEF Inv

-----------------------------------------------------------------------------
(* What the user begins.                                                    *)
LEMMA LaunchKeeps ==
  ASSUME Inv, NEW f \in Flows, NEW a \in Agents, Launch(f, a)
  PROVE  Inv'
<1> PICK r : r = [kind |-> "launch", flag |-> a, home |-> active,
                  step |-> IF a = "claude" \/ a \in detected THEN "preparing" ELSE "detecting"]
  OBVIOUS
<1>1. Begin(f, a, r)
  BY DEF Launch
<1>2. Launching(r) /\ r.flag = a
  BY DEF Launching, Inv, TypeOK
<1>3. ~Resuming(r) /\ r.step \in {"detecting", "inspecting", "preparing"}
  BY <1>2 DEF Launching, Resuming
<1> QED
  BY <1>1, <1>2, <1>3, BeginKeeps

(* What a resumed session's flow begins with.                               *)
LEMMA ReclaimingShape ==
  ASSUME Inv, NEW kind \in {"resume", "todo"}, NEW flag \in Agents \cup {"todo"},
         NEW s \in Terminals \cup {None}, NEW first \in {"inspecting", "preparing"}
  PROVE  LET r == Reclaiming(kind, flag, s, first)
         IN  /\ Resuming(r) /\ r.flag = flag /\ r.step = first
             /\ r.ids = {s} \ {None} /\ r.blocking = {}
BY DEF Reclaiming, Resuming, Reclaimed, ReclaimSteps, Inv, TypeOK

(* A session is resumed: of the other agents the CLI keeps none.            *)
LEMMA ResumeKeeps ==
  ASSUME Inv, NEW f \in Flows, NEW a \in Agents, NEW s \in Terminals,
         AgentOf[s] = a, ResumeAgent(f, a, s)
  PROVE  Inv'
<1> PICK first \in {"inspecting", "preparing"} : first = IF a = "claude" THEN "inspecting" ELSE "preparing"
  OBVIOUS
<1> PICK r : r = Reclaiming("resume", a, s, first)
  OBVIOUS
<1>1. Begin(f, a, r)
  BY DEF ResumeAgent
<1>2. Resuming(r) /\ r.flag = a /\ r.step = first /\ r.ids = {s} \ {None} /\ r.blocking = {}
  BY ReclaimingShape
<1>3. first = "preparing" => held[s] = "free"
  BY DEF Inv, OthersFree
<1> QED
  BY <1>1, <1>2, <1>3, BeginKeeps

(* A task begins, with a session to continue or without one.                *)
LEMMA TodoKeeps ==
  ASSUME Inv, NEW f \in Flows, NEW s \in Sessions \cup {None}, LaunchTodo(f, s)
  PROVE  Inv'
<1> PICK kind \in {"resume", "todo"}, flag \in Agents \cup {"todo"}, first \in {"inspecting", "preparing"} :
      kind = "todo" /\ flag = "todo" /\ first = "inspecting"
  OBVIOUS
<1> PICK r : r = Reclaiming(kind, flag, s, first)
  OBVIOUS
<1>1. Begin(f, flag, r)
  BY DEF LaunchTodo
<1>2. s \in Terminals \cup {None}
  BY DEF Sessions
<1>3. Resuming(r) /\ r.flag = flag /\ r.step = first
  BY <1>2, ReclaimingShape
<1>4. r.step \in {"detecting", "inspecting", "preparing"} /\ r.step # "preparing"
  BY <1>3
<1> QED
  BY <1>1, <1>3, <1>4, BeginKeeps

(* A switch begins with the commands its targets have.                      *)
LEMMA SwitchBeginKeeps ==
  ASSUME Inv, NEW f \in Flows, NEW kind \in {"account", "models"}, NEW a \in Agents,
         NEW ts \in SUBSET Terminals, Switch(f, kind, a, ts)
  PROVE  Inv'
<1> PICK r : r = [kind |-> kind, flag |-> a, home |-> active, step |-> "preparing",
                  targets |-> ts, left |-> ts, done |-> {}, before |-> command,
                  alive |-> {t \in ts : t \in due \/ process[t] # None}]
  OBVIOUS
<1>1. Begin(f, a, r)
  BY DEF Switch
<1>2. command \in [Terminals -> Commands] /\ active \in Workspaces
  BY DEF Inv, TypeOK, Commands
<1>3. Switching(r) /\ r.flag = a /\ r.step = "preparing"
  BY <1>2 DEF Switching
<1>4. ~Resuming(r)
  BY <1>3 DEF Switching, Resuming
<1> QED
  BY <1>1, <1>3, <1>4, BeginKeeps

(* A step that changes nothing.                                             *)
LEMMA StutterKeeps ==
  ASSUME Inv, UNCHANGED vars
  PROVE  Inv'
<1>1. TerminalsOK' /\ active' \in Workspaces /\ mounted' \subseteq Workspaces
  BY DEF vars, terminals, Inv, TypeOK, TerminalsOK
<1>2. UNCHANGED <<held, detected, launching, flow, asking, turned>>
  BY DEF vars, ghosts
<1> QED
  BY <1>1, <1>2, OutsideKeeps

(* Every step keeps the invariant.                                          *)
LEMMA InvStep == Inv /\ [Next]_vars => Inv'
<1> SUFFICES ASSUME Inv, [Next]_vars PROVE Inv'
  OBVIOUS
<1>1. ASSUME NEW f \in Flows,
             \/ LaunchAntigravity(f) \/ LaunchOpenCode(f) \/ LaunchGrok(f)
             \/ LaunchPi(f) \/ LaunchCodex(f) \/ LaunchClaude(f)
      PROVE  Inv'
  BY <1>1, LaunchKeeps DEF LaunchAntigravity, LaunchOpenCode, LaunchGrok, LaunchPi, LaunchCodex, LaunchClaude
<1>2. ASSUME NEW f \in Flows, NEW s \in Terminals, NEW a \in Agents \ {"antigravity"},
             AgentOf[s] = a, ResumeAgent(f, a, s)
      PROVE  Inv'
  BY <1>2, ResumeKeeps
<1>3. ASSUME NEW f \in Flows, NEW s \in Sessions \cup {None}, LaunchTodo(f, s)
      PROVE  Inv'
  BY <1>3, TodoKeeps
<1>4. ASSUME NEW f \in Flows, NEW t \in Terminals, SwitchAccount(f, t)
      PROVE  Inv'
  <2>1. AgentOf[t] \in Agents /\ {t} \in SUBSET Terminals /\ Switch(f, "account", AgentOf[t], {t})
    BY <1>4 DEF SwitchAccount
  <2> QED
    BY <2>1, SwitchBeginKeeps
<1>5. ASSUME NEW f \in Flows, NEW a \in {"claude", "codex"}, SwitchModels(f, a)
      PROVE  Inv'
  <2>1. \E ts \in SUBSET Terminals : Switch(f, "models", a, ts)
    BY <1>5 DEF SwitchModels
  <2>2. a \in Agents
    OBVIOUS
  <2> QED
    BY <2>1, <2>2, SwitchBeginKeeps
<1>6. ASSUME NEW f \in FlowIds, Continue(f)
      PROVE  Inv'
  BY <1>6, DetectedKeeps, InspectedKeeps, StoppedKeeps, PreparedKeeps, PlansReadyKeeps,
     ClosedKeeps, RolledBackKeeps, RefreshedKeeps DEF Continue
<1>7. ASSUME NEW choice \in Choices, Answer(choice)
      PROVE  Inv'
  BY <1>7, AnswerKeeps
<1>8. ASSUME NEW t \in Terminals, Start(t) \/ CloseTerminal(t) \/ HeldChanges(t)
      PROVE  Inv'
  BY <1>8, StartKeeps, CloseTerminalKeeps, HeldChangesKeeps
<1>9. ASSUME NEW w \in Workspaces, SelectWorkspace(w)
      PROVE  Inv'
  BY <1>9, SelectKeeps
<1>10. CASE UNCHANGED vars
  BY <1>10, StutterKeeps
<1> QED
  BY <1>1, <1>2, <1>3, <1>4, <1>5, <1>6, <1>7, <1>8, <1>9, <1>10 DEF Next, FlowIds

(* The invariant holds in every state of every behaviour.                   *)
THEOREM Invariance == Spec => []Inv
<1>1. Init => Inv
  BY InitInv
<1>2. Inv /\ [Next]_vars => Inv'
  BY InvStep
<1> QED
  BY <1>1, <1>2, PTL DEF Spec

(* The variables keep their types: a question that is open is one a flow    *)
(* waits for, and a terminal that was closed has no process.                *)
THEOREM TypeCorrect == Spec => []TypeOK
<1>1. Inv => TypeOK
  BY DEF Inv
<1> QED
  BY <1>1, Invariance, PTL

(* An agent that cannot be launched because it is being launched is being   *)
(* launched.                                                                *)
THEOREM FlagsHeld == Spec => []FlagHasFlow
<1>1. Inv => FlagHasFlow
  BY DEF Inv
<1> QED
  BY <1>1, Invariance, PTL

-----------------------------------------------------------------------------
(* No session is stopped in the middle of a turn, unless the turn began     *)
(* after it had been looked at: what a flow stops was idle when it looked,  *)
(* or has begun a turn since.                                               *)
LostTurn(s) ==
  held[s] = "busy" /\ held'[s] = "free" /\ \E f \in FlowIds : flow'[f] # flow[f]

(* Only a flow that stops a session frees it, and what it stops it had seen *)
(* idle.                                                                    *)
LEMMA StopsIdle ==
  ASSUME Inv, Next, NEW s \in Terminals, LostTurn(s)
  PROVE  s \in turned
<1>1. ~UNCHANGED held /\ ~UNCHANGED flow
  BY DEF LostTurn
<1>2. \E f \in FlowIds : Stopped(f)
  <2>1. ASSUME NEW f \in Flows PROVE
          ~(\/ LaunchAntigravity(f) \/ LaunchOpenCode(f) \/ LaunchGrok(f)
            \/ LaunchPi(f) \/ LaunchCodex(f) \/ LaunchClaude(f))
    BY <1>1 DEF LaunchAntigravity, LaunchOpenCode, LaunchGrok, LaunchPi, LaunchCodex,
                LaunchClaude, Launch, Begin
  <2>2. ASSUME NEW f \in Flows, NEW a, NEW t PROVE ~ResumeAgent(f, a, t) /\ ~LaunchTodo(f, t)
    BY <1>1 DEF ResumeAgent, LaunchTodo, Begin
  <2>3. ASSUME NEW f \in Flows, NEW a, NEW t PROVE ~SwitchAccount(f, t) /\ ~SwitchModels(f, a)
    BY <1>1 DEF SwitchAccount, SwitchModels, Switch, Begin
  <2>4. ASSUME NEW f \in FlowIds, Continue(f) PROVE Stopped(f)
    BY <1>1, <2>4 DEF Continue, Detected, Inspected, Prepared, PlansReady, Closed, RolledBack, Refreshed
  <2>5. ASSUME NEW choice PROVE ~Answer(choice)
    BY <1>1 DEF Answer
  <2>6. ASSUME NEW t PROVE ~Start(t) /\ ~CloseTerminal(t) /\ ~HeldChanges(t) /\ ~SelectWorkspace(t)
    BY <1>1 DEF Start, CloseTerminal, HeldChanges, SelectWorkspace
  <2> QED
    BY <2>1, <2>2, <2>3, <2>4, <2>5, <2>6 DEF Next, FlowIds
<1> PICK f \in FlowIds : Stopped(f)
  BY <1>2
<1>3. /\ flow[f].step = "stopping"
      /\ \E t \in flow[f].stops : held' = [held EXCEPT ![t] = "free"]
  BY <1>1 DEF Stopped
<1>4. StopsSeenIdle(flow[f])
  BY <1>3, Shapes DEF Inv, SessionsSafe
<1>5. held \in [Terminals -> {"free", "idle", "busy"}]
  BY DEF Inv, TypeOK
<1> QED
  BY <1>3, <1>4, <1>5 DEF StopsSeenIdle, LostTurn

(* No session loses a turn that had begun before it was looked at.          *)
THEOREM TurnsKept == Spec => NoTurnLost
<1>1. Inv /\ [Next]_vars =>
        [\A s \in Terminals :
           (held[s] = "busy" /\ held'[s] = "free" /\ \E f \in Flows \cup {Restore} : flow'[f] # flow[f])
           => s \in turned]_vars
  BY StopsIdle DEF LostTurn, FlowIds
<1> QED
  BY <1>1, Invariance, PTL DEF Spec, NoTurnLost

-----------------------------------------------------------------------------
(* A session is resumed in place only when the CLI does not keep it, as far *)
(* as the CLI could be asked; otherwise the user chose to fork or attach.   *)
Resumes(f) ==
  /\ flow[f].step = "preparing" /\ flow[f].kind \in {"resume", "todo", "restore"}
  /\ flow'[f] # flow[f]

(* A launch has only sessions that are free, unseen or decided; a restored  *)
(* one that was skipped keeps its command.                                  *)
LEMMA ResumesFreed ==
  ASSUME Inv, Next, NEW f \in FlowIds, Resumes(f), NEW s \in flow[f].ids,
         IF f = Restore THEN command[s] # Restore /\ command'[s] = Restore
                        ELSE place[f] = None /\ place'[f] # None
  PROVE  \/ held[s] = "free" \/ s \in flow[f].unseen
         \/ s \in flow[f].blocking /\ flow[f].choice # "skip"
<1>1. CASE f \in Flows
  <2>1. Resuming(flow[f])
    BY <1>1, Shapes DEF Resumes, Launching, Resuming, Switching
  <2>2. Cleared(flow[f]) /\ Decided(flow[f]) /\ flow[f].step = "preparing"
    BY <1>1, <2>1 DEF Inv, SessionsSafe, Resumes
  <2> QED
    BY <2>2 DEF Cleared, Decided
<1>2. CASE f = Restore
  <2>1. Restoring(flow[f]) /\ Cleared(flow[f]) /\ flow[f].step = "preparing"
    BY <1>2, Shapes DEF Inv, SessionsSafe, Resumes
  <2>2. s \in flow[f].unseen \/ held[s] = "free" \/ s \in flow[f].blocking
    BY <2>1 DEF Cleared
  <2>3. ASSUME s \in flow[f].blocking, flow[f].choice = "skip" PROVE FALSE
    <3>1. s \in Skipped(flow[f]) /\ s \in Terminals
      BY <2>1, <2>3 DEF Skipped, Restoring, Reclaimed
    <3>2. command' # command /\ flow' # flow
      BY <1>2 DEF Resumes
    <3>3. Refreshed
      <4>1. ASSUME NEW g \in Flows PROVE
              ~(\/ LaunchAntigravity(g) \/ LaunchOpenCode(g) \/ LaunchGrok(g)
                \/ LaunchPi(g) \/ LaunchCodex(g) \/ LaunchClaude(g))
        BY <3>2 DEF LaunchAntigravity, LaunchOpenCode, LaunchGrok, LaunchPi, LaunchCodex,
                    LaunchClaude, Launch, Begin, terminals
      <4>2. ASSUME NEW g \in Flows, NEW a, NEW t PROVE
              ~ResumeAgent(g, a, t) /\ ~LaunchTodo(g, t) /\ ~SwitchAccount(g, t) /\ ~SwitchModels(g, a)
        BY <3>2 DEF ResumeAgent, LaunchTodo, SwitchAccount, SwitchModels, Switch, Begin, terminals
      <4>3. ASSUME NEW g \in FlowIds, Continue(g) PROVE Refreshed
        <5>1. ~Detected(g) /\ ~Inspected(g) /\ ~Stopped(g) /\ ~Prepared(g) /\ ~PlansReady(g)
          BY <3>2 DEF Detected, Inspected, Stopped, Prepared, PlansReady, CreateTerminal, terminals
        <5>2. ~Closed(g) /\ ~RolledBack(g)
          <6>1. ASSUME Closed(g) \/ RolledBack(g) PROVE FALSE
            <7>1. g \in Flows /\ g # f
              BY <1>2, <6>1, Shapes DEF Closed, RolledBack, FlowIds
            <7>2. \E r : flow' = [flow EXCEPT ![g] = r]
              BY <6>1 DEF Closed, RolledBack, SwitchFails, End
            <7> QED
              BY <1>2, <7>1, <7>2 DEF Resumes, Inv, FlowShapes, FlowIds
          <6> QED
            BY <6>1
        <5> QED
          BY <4>3, <5>1, <5>2 DEF Continue
      <4>4. ASSUME NEW t PROVE ~Answer(t) /\ ~Start(t) /\ ~CloseTerminal(t) /\ ~HeldChanges(t) /\ ~SelectWorkspace(t)
        BY <3>2 DEF Answer, Start, CloseTerminal, HeldChanges, SelectWorkspace, terminals
      <4> QED
        BY <4>1, <4>2, <4>3, <4>4 DEF Next, FlowIds
    <3>4. \E t \in flow[Restore].left : t \notin Skipped(flow[Restore]) /\ UpdateRestored(t)
      BY <3>2, <3>3 DEF Refreshed
    <3>5. \A t : UpdateRestored(t) => t = s \/ command'[s] = command[s]
      BY <3>1 DEF UpdateRestored, Inv, TypeOK
    <3> QED
      BY <1>2, <3>1, <3>4, <3>5
  <2> QED
    BY <2>2, <2>3
<1> QED
  BY <1>1, <1>2 DEF FlowIds

(* A session is resumed in place only when the CLI no longer keeps it.      *)
THEOREM SessionsFreed == Spec => ResumesOnlyFreed
<1>1. Inv /\ [Next]_vars =>
        [\A f \in Flows \cup {Restore} :
           /\ flow[f].step = "preparing" /\ flow[f].kind \in {"resume", "todo", "restore"}
           /\ flow'[f] # flow[f]
           => \A s \in flow[f].ids :
                (IF f = Restore THEN command[s] # Restore /\ command'[s] = Restore
                                ELSE place[f] = None /\ place'[f] # None)
                => \/ held[s] = "free" \/ s \in flow[f].unseen
                   \/ s \in flow[f].blocking /\ flow[f].choice # "skip"]_vars
  BY ResumesFreed DEF Resumes, FlowIds
<1> QED
  BY <1>1, Invariance, PTL DEF Spec, ResumesOnlyFreed

-----------------------------------------------------------------------------
(* Nothing is mounted before the restored terminals are ready but what the  *)
(* user selects or a task goes to.                                          *)
MountedEarly == Underway(Restore) => mounted \subseteq early

(* What an entry of flow is, after it was replaced.                         *)
LEMMA FlowsAre ==
  ASSUME Inv
  PROVE  /\ flow = [f \in FlowIds |-> flow[f]] /\ Restore \notin Flows
         /\ \A f \in FlowIds : \A r : [flow EXCEPT ![f] = r][f] = r
         /\ \A f, g \in FlowIds : \A r : f # g => [flow EXCEPT ![f] = r][g] = flow[g]
BY DEF Inv, FlowShapes, FlowIds

(* A flow of the user changes only itself when it begins.                   *)
LEMMA BeginsAlone ==
  ASSUME Inv, NEW f \in Flows, NEW flag, NEW r, Begin(f, flag, r)
  PROVE  /\ flow'[Restore] = flow[Restore]
         /\ UNCHANGED <<active, mounted, terminals, asking, adopted, early>>
<1>1. flow' = [flow EXCEPT ![f] = r] /\ f \in FlowIds /\ Restore \in FlowIds /\ f # Restore
  BY DEF Begin, FlowIds
<1>2. flow'[Restore] = flow[Restore]
  BY <1>1, FlowsAre
<1> QED
  BY <1>2 DEF Begin

(* Whatever the user begins, the restoring is not touched.                  *)
LEMMA UserBeginsAlone ==
  ASSUME Inv, NEW f \in Flows,
         \/ LaunchAntigravity(f) \/ LaunchOpenCode(f) \/ LaunchGrok(f)
         \/ LaunchPi(f) \/ LaunchCodex(f) \/ LaunchClaude(f)
         \/ \E s \in Terminals, a \in Agents \ {"antigravity"} : ResumeAgent(f, a, s)
         \/ \E s \in Sessions \cup {None} : LaunchTodo(f, s)
         \/ \E t \in Terminals : SwitchAccount(f, t)
         \/ \E a \in {"claude", "codex"} : SwitchModels(f, a)
  PROVE  /\ flow'[Restore] = flow[Restore]
         /\ UNCHANGED <<active, mounted, terminals, asking, adopted, early>>
<1>1. \E flag, r : Begin(f, flag, r)
  BY DEF LaunchAntigravity, LaunchOpenCode, LaunchGrok, LaunchPi, LaunchCodex, LaunchClaude,
         Launch, ResumeAgent, LaunchTodo, SwitchAccount, SwitchModels, Switch
<1> QED
  BY <1>1, BeginsAlone

(* Only a flow that waits goes on.                                          *)
LEMMA ContinuesUnderway ==
  ASSUME NEW f, Continue(f)
  PROVE  flow[f].step \in {"detecting", "inspecting", "stopping", "preparing", "closing", "rolling"}
<1>1. CASE Detected(f) \/ Inspected(f) \/ Stopped(f)
  BY <1>1 DEF Detected, Inspected, Stopped
<1>2. CASE Prepared(f)
  BY <1>2 DEF Prepared
<1>3. CASE PlansReady(f)
  BY <1>3 DEF PlansReady
<1>4. CASE Closed(f) \/ RolledBack(f)
  BY <1>4 DEF Closed, RolledBack
<1>5. CASE f = Restore /\ Refreshed
  BY <1>5 DEF Refreshed
<1> QED
  BY <1>1, <1>2, <1>3, <1>4, <1>5 DEF Continue

(* A flow that goes on changes only itself.                                 *)
LEMMA ContinuesAlone ==
  ASSUME Inv, NEW f \in FlowIds, Continue(f), NEW g \in FlowIds, g # f
  PROVE  flow'[g] = flow[g]
<1>1. f \in FlowIds /\ g \in FlowIds /\ g # f /\ flow = [h \in FlowIds |-> flow[h]]
  BY FlowsAre
<1>2. CASE Detected(f)
  BY <1>1, <1>2 DEF Detected
<1>3. CASE Inspected(f) \/ Stopped(f)
  BY <1>1, <1>3 DEF Inspected, Stopped, Reclaim
<1>4. CASE Prepared(f) \/ PlansReady(f)
  BY <1>1, <1>4 DEF Prepared, PlansReady, End
<1>5. CASE Closed(f)
  BY <1>1, <1>5 DEF Closed, SwitchFails, End
<1>6. CASE RolledBack(f)
  BY <1>1, <1>6 DEF RolledBack, End
<1>7. CASE f = Restore /\ Refreshed
  BY <1>1, <1>7 DEF Refreshed
<1> QED
  BY <1>2, <1>3, <1>4, <1>5, <1>6, <1>7 DEF Continue

(* Once the terminals are restored, they are not restored again.            *)
LEMMA RestoredOnce ==
  ASSUME Inv, Next, flow[Restore] = Over
  PROVE  flow'[Restore] = Over
<1>1. ASSUME NEW f \in Flows,
         \/ LaunchAntigravity(f) \/ LaunchOpenCode(f) \/ LaunchGrok(f)
         \/ LaunchPi(f) \/ LaunchCodex(f) \/ LaunchClaude(f)
         \/ \E s \in Terminals, a \in Agents \ {"antigravity"} : ResumeAgent(f, a, s)
         \/ \E s \in Sessions \cup {None} : LaunchTodo(f, s)
         \/ \E t \in Terminals : SwitchAccount(f, t)
         \/ \E a \in {"claude", "codex"} : SwitchModels(f, a)
      PROVE  flow'[Restore] = Over
  BY <1>1, UserBeginsAlone
<1>2. ASSUME NEW f \in FlowIds, Continue(f)
      PROVE  flow'[Restore] = Over
  <2>1. f # Restore
    BY <1>2, ContinuesUnderway DEF Over
  <2>2. Restore \in FlowIds
    BY DEF FlowIds
  <2>3. flow'[Restore] = flow[Restore]
    BY <1>2, <2>1, <2>2, ContinuesAlone
  <2> QED
    BY <2>3
<1>3. ASSUME NEW choice \in Choices, Answer(choice)
      PROVE  flow'[Restore] = Over
  <2>1. asking \in FlowIds /\ asking # Restore
    <3>1. asking # None
      BY <1>3 DEF Answer
    <3>2. asking \in FlowIds /\ flow[asking].step = "asking"
      BY <3>1 DEF Inv, TypeOK, FlowIds
    <3> QED
      BY <3>2 DEF Over
  <2>2. \E r : flow' = [flow EXCEPT ![asking] = r]
    BY <1>3, <2>1 DEF Answer, End
  <2> QED
    BY <2>1, <2>2, FlowsAre DEF FlowIds
<1>4. ASSUME NEW t, Start(t) \/ CloseTerminal(t) \/ HeldChanges(t) \/ SelectWorkspace(t)
      PROVE  flow'[Restore] = Over
  BY <1>4 DEF Start, CloseTerminal, HeldChanges, SelectWorkspace
<1> QED
  BY <1>1, <1>2, <1>3, <1>4 DEF Next, FlowIds

(* A step mounts nothing early but what is in early then.                   *)
LEMMA MountedStep ==
  ASSUME Inv, MountedEarly, [Next]_vars
  PROVE  MountedEarly'
<1> SUFFICES ASSUME Underway(Restore)'
             PROVE  mounted' \subseteq early'
  BY DEF MountedEarly
<1>1. flow'[Restore] # Over
  BY DEF Underway, Over
<1>2. Underway(Restore) /\ mounted \subseteq early
  <2>1. flow[Restore] # Over
    BY <1>1, RestoredOnce DEF vars
  <2> QED
    BY <2>1 DEF Inv, FlowShapes, Restoring, Reclaimed, ReclaimSteps, Underway, MountedEarly
<1>3. CASE UNCHANGED <<mounted, early>>
  BY <1>2, <1>3
<1>4. CASE \E w : Mount(w)
  <2> PICK w : Mount(w)
    BY <1>4
  <2>1. mounted' = mounted \cup {w} /\ early' = early \cup {w}
    BY <1>2 DEF Mount
  <2> QED
    BY <1>2, <2>1
<1>5. CASE Refreshed
  BY <1>1, <1>2, <1>5 DEF Refreshed
<1>6. ASSUME NEW f \in FlowIds, Continue(f), ~Refreshed
      PROVE  \/ UNCHANGED <<mounted, early>>
             \/ \E w : Mount(w)
  <2>1. CASE Prepared(f)
    <3>1. CASE flow[f].kind = "todo" /\ CreateTerminal(f, flow[f].home) /\ Mount(flow[f].home)
      BY <3>1
    <3>2. CASE UNCHANGED <<mounted, early>>
      BY <3>2
    <3> QED
      BY <2>1, <3>1, <3>2 DEF Prepared
  <2>2. CASE Detected(f) \/ Inspected(f) \/ Stopped(f)
    BY <2>2 DEF Detected, Inspected, Stopped, ghosts
  <2>3. CASE PlansReady(f)
    BY <2>3 DEF PlansReady
  <2>4. CASE Closed(f) \/ RolledBack(f)
    BY <2>4 DEF Closed, RolledBack
  <2> QED
    BY <1>6, <2>1, <2>2, <2>3, <2>4 DEF Continue
<1>7. ASSUME NEW t
      PROVE  /\ Start(t) \/ CloseTerminal(t) => UNCHANGED <<mounted, early>>
             /\ HeldChanges(t) \/ Answer(t) => UNCHANGED <<mounted, early>>
             /\ SelectWorkspace(t) => Mount(t)
  <2>1. Start(t) \/ CloseTerminal(t) => UNCHANGED <<mounted, early>>
    BY DEF Start, CloseTerminal, ghosts
  <2>2. HeldChanges(t) \/ Answer(t) => UNCHANGED <<mounted, early>>
    BY DEF HeldChanges, Answer
  <2> QED
    BY <2>1, <2>2 DEF SelectWorkspace
<1>8. CASE UNCHANGED vars
  BY <1>3, <1>8 DEF vars, ghosts
<1> QED
  BY <1>3, <1>4, <1>5, <1>6, <1>7, <1>8, UserBeginsAlone DEF Next, FlowIds

(* Only a panel starts a process.                                           *)
LEMMA PanelsStart ==
  ASSUME Inv, Next, NEW t \in Terminals, process'[t] # process[t], process'[t] # None
  PROVE  Start(t)
<1>1. process \in [Terminals -> Flows \cup {Restore, Stored, None}]
  BY DEF Inv, TypeOK
<1>2. ASSUME NEW s \in Terminals
      PROVE  ~CloseProcess(s)
  BY <1>1 DEF CloseProcess
<1>3. ASSUME NEW f \in FlowIds
      PROVE  ~Continue(f)
  <2>1. ~(Detected(f) \/ Inspected(f) \/ Stopped(f) \/ Prepared(f) \/ PlansReady(f) \/ Refreshed)
    BY DEF Detected, Inspected, Stopped, Prepared, PlansReady, Refreshed, terminals, CreateTerminal
  <2>2. ~Closed(f) /\ ~RolledBack(f)
    <3>1. Closed(f) \/ RolledBack(f) => flow[f].left \in SUBSET Terminals
      BY Shapes DEF Closed, RolledBack, Switching, FlowIds
    <3> QED
      BY <1>2, <3>1 DEF Closed, RolledBack, Restart
  <2> QED
    BY <2>1, <2>2 DEF Continue
<1>4. ASSUME NEW s \in Terminals, Start(s) \/ CloseTerminal(s) \/ HeldChanges(s)
      PROVE  Start(t)
  BY <1>1, <1>4 DEF Start, CloseTerminal, HeldChanges, terminals
<1>5. ASSUME NEW x
      PROVE  ~SelectWorkspace(x) /\ ~Answer(x)
  BY DEF SelectWorkspace, Answer, terminals
<1>6. ~UNCHANGED terminals
  BY DEF terminals
<1> QED
  BY <1>3, <1>4, <1>5, <1>6, UserBeginsAlone DEF Next, FlowIds

(* A restored terminal is not started with the command of the last time     *)
(* while a new one is being prepared, unless its workspace is selected      *)
(* meanwhile.                                                               *)
THEOREM RestoredFresh == Spec => RestoredStartsFresh
<1>1. Init => MountedEarly
  BY DEF Init, MountedEarly, FirstMounted, Underway, Over
<1>2. Inv /\ MountedEarly /\ [Next]_vars => MountedEarly'
  BY MountedStep
<1>3. Inv /\ MountedEarly /\ [Next]_vars =>
        [\A t \in Terminals \ adopted :
           t \in due /\ process'[t] = Stored /\ process[t] # Stored
           => ~Underway(Restore) \/ place[t] \in early]_vars
  <2> SUFFICES ASSUME Inv, MountedEarly, Next, NEW t \in Terminals,
                      process'[t] = Stored, process[t] # Stored, Underway(Restore)
               PROVE  place[t] \in early
    OBVIOUS
  <2>1. Stored # None
    BY DEF AgentLaunchAssumption
  <2>2. Start(t)
    BY <2>1, PanelsStart
  <2> QED
    BY <2>2 DEF Start, MountedEarly
<1> QED
  BY <1>1, <1>2, <1>3, Invariance, PTL DEF Spec, RestoredStartsFresh

-----------------------------------------------------------------------------
(* Switches: as long as nothing comes in their way, each has its terminals  *)
(* to itself, and every one of them is where the switch has brought it.     *)
Running(t) == t \in due \/ process[t] # None

(* A switch is about terminals of the agent whose flag it has.              *)
Matching(r) ==
    /\ r.left \in SUBSET r.targets /\ r.done \in SUBSET r.targets
    /\ \A t \in r.targets : AgentOf[t] = r.flag
    /\ r.kind = "account" => \E t \in Terminals : r.targets = {t}

(* No other switch is underway under the flag of f.                         *)
Alone(f) ==
    /\ flow[f].flag \in launching
    /\ \A g \in Switches \ {f} : flow[g].flag # flow[f].flag

(* What is not reached yet has its old command, what was switched the new   *)
(* one, and what is not to be rolled back any more the old one again.       *)
Intact(f) ==
    LET r == flow[f]
    IN  /\ r.left # {}
        /\ r.left \in SUBSET r.targets
        /\ \A t \in r.targets : place[t] = active
        /\ r.step = "preparing" => r.left = r.targets
        /\ r.step # "rolling" =>
             /\ r.done = r.targets \ r.left
             /\ \A t \in r.left : command[t] = r.before[t]
             /\ \A t \in r.done : command[t] = f
             /\ \A t \in r.alive : Running(t)
        /\ r.step = "rolling" =>
             \A t \in r.targets \ r.left :
                command[t] = r.before[t] /\ (t \in r.alive => Running(t))
        /\ r.alive \in SUBSET r.targets

SwitchesSafe ==
    \A f \in Switches : Matching(flow[f]) /\ (f \notin disturbed => Alone(f) /\ Intact(f))

(* What a switch finds as it left it.                                       *)
Stays(h) ==
  /\ flow'[h] = flow[h] /\ active' = active
  /\ \A t \in flow[h].targets :
       place'[t] = place[t] /\ command'[t] = command[t] /\ (Running(t) => Running(t)')

(* A switch is a flow with the fields of a switch.                          *)
LEMMA SwitchesAre ==
  ASSUME Inv, NEW f
  PROVE  /\ f \in Switches <=> f \in Flows /\ Switching(flow[f])
         /\ f \in Switches => f \in FlowIds
BY DEF Inv, FlowShapes, Begun, Switches, Underway, Switching, Launching, Resuming, Idle, Over, FlowIds

(* What is left as it was is intact still.                                  *)
LEMMA StaysIntact ==
  ASSUME NEW h, Intact(h), Stays(h)
  PROVE  Intact(h)'
<1> PICK r : r = flow[h]
  OBVIOUS
<1>1. flow'[h] = r /\ flow[h] = r /\ active' = active
  BY DEF Stays
<1>2. r.left # {} /\ (\A t \in r.targets : place'[t] = active') /\ r.alive \in SUBSET r.targets
  BY <1>1 DEF Stays, Intact
<1>3. r.step # "rolling" =>
             /\ r.done = r.targets \ r.left
             /\ \A t \in r.left \cap r.targets : command'[t] = r.before[t]
             /\ \A t \in r.done : command'[t] = h
             /\ \A t \in r.alive : Running(t)'
  BY <1>1 DEF Stays, Intact
<1> QED
  BY <1>1, <1>2, <1>3 DEF Stays, Intact

(* A step of f, or of none of the flows, keeps what is said of the others,  *)
(* if it leaves alone those it does not disturb.                            *)
LEMMA OthersSafe ==
  ASSUME Inv, Inv', SwitchesSafe, NEW f,
         \A h \in FlowIds : h # f => flow'[h] = flow[h],
         disturbed \subseteq disturbed',
         \A h \in Switches : h # f /\ h \notin disturbed' =>
            /\ Stays(h) /\ flow[h].flag \in launching'
            /\ f \in Switches' => flow'[f].flag # flow[h].flag
  PROVE  \A h \in Switches' : h # f =>
            Matching(flow'[h]) /\ (h \notin disturbed' => Alone(h)' /\ Intact(h)')
<1> SUFFICES ASSUME NEW h \in Switches', h # f
             PROVE  Matching(flow'[h]) /\ (h \notin disturbed' => Alone(h)' /\ Intact(h)')
  OBVIOUS
<1>1. \A g : g # f => (g \in Switches' <=> g \in Switches) /\ (g \in Switches => flow'[g] = flow[g])
  <2> SUFFICES ASSUME NEW g, g # f
               PROVE  (g \in Switches' <=> g \in Switches) /\ (g \in Switches => flow'[g] = flow[g])
    OBVIOUS
  <2>1. g \in FlowIds => flow'[g] = flow[g]
    OBVIOUS
  <2> QED
    BY <2>1 DEF Switches, Underway, FlowIds
<1>2. h \in Switches /\ flow'[h] = flow[h] /\ Matching(flow[h])
  BY <1>1 DEF SwitchesSafe
<1>3. ASSUME h \notin disturbed'
      PROVE  Alone(h)' /\ Intact(h)'
  <2>1. Alone(h) /\ Intact(h) /\ Stays(h) /\ flow[h].flag \in launching'
    BY <1>2, <1>3 DEF SwitchesSafe
  <2>2. Intact(h)'
    BY <2>1, StaysIntact
  <2>3. ASSUME NEW g \in Switches', g # h
        PROVE  flow'[g].flag # flow'[h].flag
    <3>1. CASE g = f
      BY <1>2, <1>3, <3>1, <2>3
    <3>2. CASE g # f
      BY <1>1, <1>2, <2>1, <2>3, <3>2 DEF Alone
    <3> QED
      BY <3>1, <3>2
  <2> QED
    BY <1>2, <2>1, <2>2, <2>3 DEF Alone
<1> QED
  BY <1>2, <1>3

(* A step that leaves terminals and flags alone.                            *)
LEMMA StaysWhere ==
  ASSUME NEW h, flow'[h] = flow[h], UNCHANGED <<active, place, command, due, process>>
  PROVE  Stays(h)
BY DEF Stays, Running

(* A flow that ends takes only its flag with it, and those it takes it from *)
(* are disturbed.                                                           *)
LEMMA EndsSafe ==
  ASSUME Inv, Inv', SwitchesSafe, NEW f \in FlowIds, End(f),
         \A h \in FlowIds : h # f => flow'[h] = flow[h],
         \A h \in Switches : h # f /\ h \notin disturbed => Stays(h)
  PROVE  SwitchesSafe'
<1>1. f \notin Switches'
  <2>1. flow'[f] = Over
    BY FlowsAre DEF End
  <2> QED
    BY <2>1 DEF Switches, Underway, Over
<1>2. ASSUME NEW h \in Switches, h # f, h \notin disturbed'
      PROVE  flow[h].flag \in launching'
  <2>1. h \notin disturbed /\ flow[h].flag # flow[f].flag
    BY <1>2 DEF End
  <2>2. flow[h].flag \in launching
    BY <2>1 DEF SwitchesSafe, Alone
  <2> QED
    BY <2>1, <2>2 DEF End
<1>3. disturbed \subseteq disturbed'
  BY DEF End
<1>4. \A h \in Switches' : h # f =>
            Matching(flow'[h]) /\ (h \notin disturbed' => Alone(h)' /\ Intact(h)')
  BY <1>1, <1>2, <1>3, OthersSafe
<1> QED
  BY <1>1, <1>4 DEF SwitchesSafe

(* A flow that is not a switch goes on, and may take a flag.                *)
LEMMA GoesOnSafe ==
  ASSUME Inv, Inv', SwitchesSafe, NEW f, f \notin Switches',
         \A h \in FlowIds : h # f => flow'[h] = flow[h],
         disturbed' = disturbed, launching \subseteq launching',
         \A h \in Switches : h # f => Stays(h)
  PROVE  SwitchesSafe'
<1>1. \A h \in Switches : h \notin disturbed => flow[h].flag \in launching'
  BY DEF SwitchesSafe, Alone
<1>2. \A h \in Switches' : h # f =>
            Matching(flow'[h]) /\ (h \notin disturbed' => Alone(h)' /\ Intact(h)')
  BY <1>1, OthersSafe
<1> QED
  BY <1>2 DEF SwitchesSafe

(* A flow begins.                                                           *)
LEMMA BeginSafe ==
  ASSUME Inv, Inv', SwitchesSafe, NEW f \in Flows, NEW flag, NEW r, Begin(f, flag, r),
         r.flag = flag,
         r.kind \in {"models", "account"} => Matching(r) /\ Intact(f)' /\ r.step = "preparing"
  PROVE  SwitchesSafe'
<1>1. /\ flow' = [flow EXCEPT ![f] = r] /\ flow[f] = Idle /\ flag \notin launching
      /\ launching' = IF r.step = "detecting" THEN launching ELSE launching \cup {flag}
      /\ disturbed' = IF \E g \in Switches : flow[g].flag = flag THEN disturbed \cup {f} ELSE disturbed
      /\ UNCHANGED <<active, terminals>>
  BY DEF Begin
<1>2. flow'[f] = r /\ \A h \in FlowIds : h # f => flow'[h] = flow[h]
  BY <1>1, FlowsAre DEF FlowIds
<1>3. ASSUME NEW h \in Switches, h # f, h \notin disturbed'
      PROVE  Stays(h) /\ flow[h].flag \in launching' /\ flow'[f].flag # flow[h].flag
  <2>1. h \notin disturbed /\ h \in FlowIds
    BY <1>1, <1>3, SwitchesAre
  <2>2. flow[h].flag \in launching
    BY <2>1 DEF SwitchesSafe, Alone
  <2>3. Stays(h)
    BY <1>1, <1>2, <1>3, <2>1, StaysWhere DEF terminals
  <2> QED
    BY <1>1, <1>2, <2>2, <2>3
<1>4. disturbed \subseteq disturbed'
  BY <1>1
<1>5. \A h \in Switches' : h # f =>
            Matching(flow'[h]) /\ (h \notin disturbed' => Alone(h)' /\ Intact(h)')
  BY <1>2, <1>3, <1>4, OthersSafe
<1>6. ASSUME f \in Switches'
      PROVE  Matching(flow'[f]) /\ (f \notin disturbed' => Alone(f)' /\ Intact(f)')
  <2>1. r.kind \in {"models", "account"}
    BY <1>2, <1>6 DEF Switches
  <2>2. r.step = "preparing" /\ flow'[f].flag \in launching'
    BY <1>1, <1>2, <2>1
  <2>3. ASSUME f \notin disturbed', NEW g \in Switches', g # f
        PROVE  flow'[g].flag # flow'[f].flag
    <3>1. g \in FlowIds
      BY DEF Switches, FlowIds
    <3>2. flow'[g] = flow[g] /\ g \in Switches
      BY <1>2, <2>3, <3>1 DEF Switches, Underway
    <3> QED
      BY <1>1, <1>2, <2>3, <3>2
  <2> QED
    BY <1>2, <2>1, <2>2, <2>3 DEF Alone
<1> QED
  BY <1>5, <1>6 DEF SwitchesSafe

(* A switch begins with the commands its targets have.                      *)
LEMMA SwitchBeginSafe ==
  ASSUME Inv, Inv', SwitchesSafe, NEW f \in Flows, NEW kind \in {"account", "models"},
         NEW a \in Agents, NEW ts \in SUBSET Terminals, Switch(f, kind, a, ts),
         \A t \in ts : AgentOf[t] = a,
         kind = "account" => \E t \in Terminals : ts = {t}
  PROVE  SwitchesSafe'
<1> PICK r : r = [kind |-> kind, flag |-> a, home |-> active, step |-> "preparing",
                  targets |-> ts, left |-> ts, done |-> {}, before |-> command,
                  alive |-> {t \in ts : t \in due \/ process[t] # None}]
  OBVIOUS
<1>1. Begin(f, a, r) /\ ts # {} /\ \A t \in ts : place[t] = active
  BY DEF Switch
<1>2. flow' = [flow EXCEPT ![f] = r] /\ UNCHANGED <<active, place, command, due, process>>
  BY <1>1 DEF Begin, terminals
<1>3. flow'[f] = r
  BY <1>2, FlowsAre DEF FlowIds
<1>4. /\ r.kind = kind /\ r.flag = a /\ r.step = "preparing" /\ r.targets = ts /\ r.left = ts
      /\ r.done = {} /\ r.before = command /\ r.alive = {t \in ts : t \in due \/ process[t] # None}
  OBVIOUS
<1>5. Matching(r)
  BY <1>4 DEF Matching
<1>6. \A t \in r.alive : Running(t)'
  BY <1>2, <1>4 DEF Running
<1>7. Intact(f)'
  BY <1>1, <1>2, <1>3, <1>4, <1>6 DEF Intact
<1> QED
  BY <1>1, <1>4, <1>5, <1>7, BeginSafe

(* What is launched or resumed is no switch.                                *)
LEMMA LaunchSafe ==
  ASSUME Inv, Inv', SwitchesSafe, NEW f \in Flows, NEW a \in Agents, Launch(f, a)
  PROVE  SwitchesSafe'
<1> PICK r : r = [kind |-> "launch", flag |-> a, home |-> active,
                  step |-> IF a = "claude" \/ a \in detected THEN "preparing" ELSE "detecting"]
  OBVIOUS
<1>1. Begin(f, a, r) /\ r.kind = "launch" /\ r.flag = a
  BY DEF Launch
<1> QED
  BY <1>1, BeginSafe

(* A session is resumed, in a terminal or for a task.                       *)
LEMMA ReclaimingSafe ==
  ASSUME Inv, Inv', SwitchesSafe, NEW f \in Flows, NEW kind \in {"resume", "todo"}, NEW flag,
         NEW s, NEW first, Begin(f, flag, Reclaiming(kind, flag, s, first))
  PROVE  SwitchesSafe'
<1> PICK r : r = Reclaiming(kind, flag, s, first)
  OBVIOUS
<1>1. r.kind = kind /\ r.flag = flag
  BY DEF Reclaiming
<1> QED
  BY <1>1, BeginSafe

(* The user begins something.                                               *)
LEMMA UserBeginsSafe ==
  ASSUME Inv, Inv', SwitchesSafe, NEW f \in Flows,
         \/ LaunchAntigravity(f) \/ LaunchOpenCode(f) \/ LaunchGrok(f)
         \/ LaunchPi(f) \/ LaunchCodex(f) \/ LaunchClaude(f)
         \/ \E s \in Terminals, a \in Agents \ {"antigravity"} : ResumeAgent(f, a, s)
         \/ \E s \in Sessions \cup {None} : LaunchTodo(f, s)
         \/ \E t \in Terminals : SwitchAccount(f, t)
         \/ \E a \in {"claude", "codex"} : SwitchModels(f, a)
  PROVE  SwitchesSafe'
<1>1. ASSUME LaunchAntigravity(f) \/ LaunchOpenCode(f) \/ LaunchGrok(f)
               \/ LaunchPi(f) \/ LaunchCodex(f) \/ LaunchClaude(f)
      PROVE  SwitchesSafe'
  BY <1>1, LaunchSafe DEF LaunchAntigravity, LaunchOpenCode, LaunchGrok, LaunchPi, LaunchCodex, LaunchClaude
<1>2. ASSUME NEW s, NEW a, ResumeAgent(f, a, s)
      PROVE  SwitchesSafe'
  <2>1. \E first : Begin(f, a, Reclaiming("resume", a, s, first))
    BY <1>2 DEF ResumeAgent
  <2>2. "resume" \in {"resume", "todo"}
    OBVIOUS
  <2> QED
    BY <2>1, <2>2, ReclaimingSafe
<1>3. ASSUME NEW s, LaunchTodo(f, s)
      PROVE  SwitchesSafe'
  <2>1. \E first : Begin(f, "todo", Reclaiming("todo", "todo", s, first))
    BY <1>3 DEF LaunchTodo
  <2>2. "todo" \in {"resume", "todo"}
    OBVIOUS
  <2> QED
    BY <2>1, <2>2, ReclaimingSafe
<1>4. ASSUME NEW t \in Terminals, SwitchAccount(f, t)
      PROVE  SwitchesSafe'
  <2>1. /\ AgentOf[t] \in Agents /\ {t} \in SUBSET Terminals /\ Switch(f, "account", AgentOf[t], {t})
        /\ \A s \in {t} : AgentOf[s] = AgentOf[t]
        /\ \E s \in Terminals : {t} = {s}
    BY <1>4 DEF SwitchAccount
  <2>2. "account" \in {"account", "models"}
    OBVIOUS
  <2> QED
    BY <2>1, <2>2, SwitchBeginSafe
<1>5. ASSUME NEW a \in {"claude", "codex"}, SwitchModels(f, a)
      PROVE  SwitchesSafe'
  <2>1. PICK ts \in SUBSET Terminals : Switch(f, "models", a, ts) /\ \A t \in ts : AgentOf[t] = a
    <3> PICK shown : shown = {t \in Terminals : AgentOf[t] = a /\ place[t] = active}
      OBVIOUS
    <3>1. Switch(f, "models", a, shown) \/ \E t \in shown : Switch(f, "models", a, {t})
      BY <1>5 DEF SwitchModels
    <3>2. \A t \in shown : t \in Terminals /\ AgentOf[t] = a
      OBVIOUS
    <3>3. shown \in SUBSET Terminals /\ \A t \in shown : {t} \in SUBSET Terminals
      OBVIOUS
    <3>4. CASE Switch(f, "models", a, shown)
      BY <3>2, <3>3, <3>4
    <3>5. ASSUME NEW t \in shown, Switch(f, "models", a, {t})
          PROVE  \E ts \in SUBSET Terminals : Switch(f, "models", a, ts) /\ \A s \in ts : AgentOf[s] = a
      BY <3>2, <3>3, <3>5
    <3> QED
      BY <3>1, <3>4, <3>5
  <2>2. a \in Agents /\ "models" \in {"account", "models"} /\ "models" # "account"
    OBVIOUS
  <2> QED
    BY <2>1, <2>2, SwitchBeginSafe
<1> QED
  BY <1>1, <1>2, <1>3, <1>4, <1>5

(* What looks after sessions is no switch, before and after.                *)
LEMMA ReclaimsNoSwitch ==
  ASSUME Inv, NEW f \in Flows, Resuming(flow[f]), NEW q, flow'[f] = q, q.kind = flow[f].kind
  PROVE  f \notin Switches' /\ f \notin Switches
BY DEF Resuming, Switches

(* The installation is looked up, sessions are looked at and stopped.       *)
LEMMA DetectedSafe ==
  ASSUME Inv, Inv', SwitchesSafe, NEW f \in FlowIds, Detected(f)
  PROVE  SwitchesSafe'
<1>1. f \in Flows /\ Launching(flow[f])
  BY Shapes DEF Detected, FlowIds
<1>2. f \notin Switches'
  <2> PICK q : q = flow[f]
    OBVIOUS
  <2> PICK p : p = [q EXCEPT !.step = "preparing"]
    OBVIOUS
  <2>1. p.kind = q.kind /\ q.kind = "launch"
    BY <1>1 DEF Launching
  <2>2. flow'[f] = Over \/ flow'[f] = p
    BY FlowsAre DEF Detected
  <2>3. CASE flow'[f] = Over
    BY <2>3 DEF Switches, Over
  <2>4. CASE flow'[f] = p
    BY <2>1, <2>4 DEF Switches
  <2> QED
    BY <2>2, <2>3, <2>4
<1>3. \A h \in FlowIds : h # f => flow'[h] = flow[h]
  BY ContinuesAlone DEF Continue
<1>4. UNCHANGED <<active, place, command, due, process, disturbed>> /\ launching \subseteq launching'
  BY DEF Detected, terminals, ghosts
<1>5. \A h \in Switches : h # f => Stays(h)
  BY <1>3, <1>4, StaysWhere, SwitchesAre
<1> QED
  BY <1>2, <1>3, <1>4, <1>5, GoesOnSafe

(* Sessions are looked at and stopped.                                      *)
LEMMA ReclaimedSafe ==
  ASSUME Inv, Inv', SwitchesSafe, NEW f \in FlowIds, Inspected(f) \/ Stopped(f)
  PROVE  SwitchesSafe'
<1>1. \/ f = Restore /\ Restoring(flow[f])
      \/ f \in Flows /\ Resuming(flow[f])
  BY Shapes DEF Inspected, Stopped
<1>2. f \notin Switches'
  <2>1. CASE f = Restore
    BY <2>1, FlowsAre DEF Switches
  <2>2. CASE f \in Flows /\ Resuming(flow[f])
    <3>1. PICK r : Reclaim(f, r) /\ r.kind = flow[f].kind
      <4> PICK q : q = flow[f]
        OBVIOUS
      <4>1. /\ \A found, unseen : [Planned(q, found) EXCEPT !.unseen = unseen].kind = q.kind
            /\ \A s : [q EXCEPT !.stops = @ \ {s}].kind = q.kind
            /\ \A s : StopFails(q, s).kind = q.kind
        <5>1. \A found, unseen : [Planned(q, found) EXCEPT !.unseen = unseen].kind = q.kind
          BY DEF Planned
        <5>2. (\A s : [q EXCEPT !.stops = @ \ {s}].kind = q.kind) /\ \A s : StopFails(q, s).kind = q.kind
          BY DEF StopFails
        <5> QED
          BY <5>1, <5>2
      <4>2. CASE Inspected(f)
        <5> PICK unseen \in SUBSET q.ids :
                   Reclaim(f, [Planned(q, [s \in q.ids |-> IF s \in unseen THEN "free" ELSE held[s]])
                                 EXCEPT !.unseen = unseen])
          BY <4>2 DEF Inspected
        <5> PICK found : found = [s \in q.ids |-> IF s \in unseen THEN "free" ELSE held[s]]
          OBVIOUS
        <5> PICK r : r = [Planned(q, found) EXCEPT !.unseen = unseen]
          OBVIOUS
        <5>1. Reclaim(f, r)
          OBVIOUS
        <5>2. r.kind = q.kind
          BY <4>1
        <5> QED
          BY <5>1, <5>2
      <4>3. CASE Stopped(f)
        BY <4>1, <4>3 DEF Stopped
      <4> QED
        BY <4>2, <4>3
    <3>2. PICK step : flow'[f] = [r EXCEPT !.step = step]
      BY <3>1, FlowsAre DEF Reclaim
    <3>3. [r EXCEPT !.step = step].kind = r.kind
      OBVIOUS
    <3> QED
      BY <2>2, <3>1, <3>2, <3>3, ReclaimsNoSwitch
  <2> QED
    BY <1>1, <2>1, <2>2
<1>3. \A h \in FlowIds : h # f => flow'[h] = flow[h]
  BY ContinuesAlone DEF Continue
<1>4. UNCHANGED <<active, place, command, due, process, disturbed, launching>>
  BY DEF Inspected, Stopped, terminals
<1>5. \A h \in Switches : h # f => Stays(h)
  BY <1>3, <1>4, StaysWhere, SwitchesAre
<1> QED
  BY <1>2, <1>3, <1>4, <1>5, GoesOnSafe

(* The user answers a question, a terminal is created.                      *)
LEMMA AnswerSafe ==
  ASSUME Inv, Inv', SwitchesSafe, NEW choice, Answer(choice)
  PROVE  SwitchesSafe'
<1> PICK f : f = asking
  OBVIOUS
<1>1. f \in FlowIds /\ flow[f].step = "asking"
  <2>1. asking # None
    BY DEF Answer
  <2> QED
    BY <2>1 DEF Inv, TypeOK, FlowIds
<1>2. \/ f = Restore /\ Restoring(flow[f])
      \/ f \in Flows /\ Resuming(flow[f])
  BY <1>1, Shapes
<1>3. UNCHANGED <<active, place, command, due, process>>
  BY DEF Answer, terminals
<1>4. CASE End(f)
  <2>1. \A h \in FlowIds : h # f => flow'[h] = flow[h]
    BY <1>1, <1>4, FlowsAre DEF End
  <2>2. \A h \in Switches : h # f => Stays(h)
    BY <1>3, <2>1, StaysWhere, SwitchesAre
  <2> QED
    BY <1>1, <1>4, <2>1, <2>2, EndsSafe
<1>5. CASE ~End(f)
  <2> PICK q : q = flow[f]
    OBVIOUS
  <2> PICK p : p = [q EXCEPT !.step = "preparing", !.choice = choice]
    OBVIOUS
  <2>1. flow' = [flow EXCEPT ![f] = p] /\ UNCHANGED <<launching, disturbed>>
    BY <1>5 DEF Answer
  <2>2. p.kind = q.kind /\ flow'[f] = p /\ \A h \in FlowIds : h # f => flow'[h] = flow[h]
    BY <1>1, <2>1, FlowsAre
  <2>3. f \notin Switches'
    BY <1>2, <2>2, ReclaimsNoSwitch DEF Switches
  <2>4. \A h \in Switches : h # f => Stays(h)
    BY <1>3, <2>2, StaysWhere, SwitchesAre
  <2> QED
    BY <2>1, <2>2, <2>3, <2>4, GoesOnSafe
<1> QED
  BY <1>4, <1>5

(* A terminal is created, or the launch ends without one.                   *)
LEMMA PreparedSafe ==
  ASSUME Inv, Inv', SwitchesSafe, NEW f \in FlowIds, Prepared(f)
  PROVE  SwitchesSafe'
<1>1. End(f) /\ active' = active
  BY DEF Prepared
<1>2. \A h \in FlowIds : h # f => flow'[h] = flow[h]
  BY ContinuesAlone DEF Continue
<1>3. UNCHANGED <<command, due, process>> /\ \A t \in Terminals : place'[t] = place[t]
  <2>1. UNCHANGED <<command, due, process>> /\ (place' = place \/ \E w : place' = [place EXCEPT ![f] = w])
    BY DEF Prepared, CreateTerminal, terminals
  <2>2. f \notin Terminals
    <3>1. f # Restore
      BY DEF Prepared, Inv, FlowShapes, Restoring, Over
    <3> QED
      BY <3>1 DEF FlowIds
  <2>3. place = [t \in All |-> place[t]] /\ Terminals \subseteq All
    BY DEF Inv, TypeOK, All
  <2> QED
    BY <2>1, <2>2, <2>3
<1>4. ASSUME NEW h \in Switches, h # f
      PROVE  Stays(h)
  <2>1. h \in FlowIds /\ flow[h].targets \in SUBSET Terminals
    BY <1>4, SwitchesAre DEF Switching
  <2> QED
    BY <1>1, <1>2, <1>3, <1>4, <2>1 DEF Stays, Running
<1> QED
  BY <1>1, <1>2, <1>4, EndsSafe

(* A switch goes on, under the flag it has.                                 *)
LEMMA MovesSafe ==
  ASSUME Inv, Inv', SwitchesSafe, NEW f \in FlowIds, f \in Switches, NEW p,
         flow' = [flow EXCEPT ![f] = p], UNCHANGED <<launching, disturbed>>,
         p.flag = flow[f].flag, Matching(p),
         f \notin disturbed => Intact(f)',
         \A h \in FlowIds : h # f => flow'[h] = flow[h],
         \A h \in Switches : h # f /\ h \notin disturbed => Stays(h)
  PROVE  SwitchesSafe'
<1>1. flow'[f] = p
  BY FlowsAre
<1>2. \A h \in Switches : h # f /\ h \notin disturbed' =>
          Stays(h) /\ flow[h].flag \in launching' /\ flow'[f].flag # flow[h].flag
  BY <1>1 DEF SwitchesSafe, Alone
<1>3. \A h \in Switches' : h # f =>
          Matching(flow'[h]) /\ (h \notin disturbed' => Alone(h)' /\ Intact(h)')
  BY <1>2, OthersSafe
<1>4. ASSUME f \notin disturbed'
      PROVE  Alone(f)'
  <2>1. Alone(f)
    BY <1>4 DEF SwitchesSafe
  <2>2. \A g \in Switches' \ {f} : g \in Switches /\ flow'[g] = flow[g]
    BY DEF Switches, Underway, FlowIds
  <2> QED
    BY <1>1, <2>1, <2>2 DEF Alone
<1> QED
  BY <1>1, <1>3, <1>4 DEF SwitchesSafe

(* What the property says of a step of a switch.                            *)
Together(f) ==
  LET ts == flow[f].targets
  IN  /\ flow[f].step = "preparing" /\ flow'[f] # flow[f] => UNCHANGED process
      /\ flow'[f] = Over =>
           /\ \/ \A t \in ts : command'[t] = f
              \/ \A t \in ts : command'[t] = flow[f].before[t]
           /\ flow[f].kind = "models" =>
                \A t \in flow[f].alive : t \in due' \/ process'[t] # None

(* The commands of a switch are prepared: none of its processes is touched. *)
LEMMA PlansReadySafe ==
  ASSUME Inv, Inv', SwitchesSafe, NEW f \in FlowIds, PlansReady(f)
  PROVE  /\ SwitchesSafe'
         /\ f \notin disturbed => Together(f)
<1>1. f \in Flows /\ Switching(flow[f]) /\ flow[f].step = "preparing" /\ f \in Switches
  <2>1. f \in Flows
    BY DEF PlansReady, Inv, FlowShapes, Restoring, Over, FlowIds
  <2>2. flow[f].step = "preparing" /\ flow[f].kind \in {"account", "models"}
    BY DEF PlansReady
  <2>3. f \in Switches
    BY <2>1, <2>2 DEF Switches, Underway
  <2> QED
    BY <2>1, <2>2, <2>3, SwitchesAre
<1>2. UNCHANGED <<active, place, command, due, process>>
  BY DEF PlansReady, terminals
<1>3. \A h \in FlowIds : h # f => flow'[h] = flow[h]
  BY ContinuesAlone DEF Continue
<1>4. \A h \in Switches : h # f => Stays(h)
  BY <1>2, <1>3, StaysWhere, SwitchesAre
<1>5. f \notin disturbed => Together(f)
  <2> SUFFICES ASSUME f \notin disturbed PROVE Together(f)
    OBVIOUS
  <2>1. Intact(f) /\ flow[f].alive \in SUBSET flow[f].targets
    BY <1>1 DEF SwitchesSafe, Intact
  <2>2. \A t \in flow[f].targets : command[t] = flow[f].before[t]
    BY <1>1, <2>1 DEF Intact
  <2>3. \A t \in flow[f].alive : Running(t)
    BY <1>1, <2>1 DEF Intact
  <2> QED
    BY <1>2, <2>2, <2>3 DEF Together, Running
<1>6. CASE End(f)
  BY <1>3, <1>4, <1>5, <1>6, EndsSafe
<1>7. CASE ~End(f)
  <2> PICK q : q = flow[f]
    OBVIOUS
  <2> PICK p : p = [q EXCEPT !.step = "closing"]
    OBVIOUS
  <2>1. flow' = [flow EXCEPT ![f] = p] /\ UNCHANGED <<launching, disturbed>>
    BY <1>7 DEF PlansReady
  <2>2. flow'[f] = p
    BY <2>1, FlowsAre
  <2>3. /\ p.kind = q.kind /\ p.flag = q.flag /\ p.targets = q.targets /\ p.left = q.left
        /\ p.done = q.done /\ p.before = q.before /\ p.alive = q.alive /\ p.step = "closing"
    BY <1>1 DEF Switching
  <2>4. Matching(p)
    <3>1. Matching(q)
      BY <1>1 DEF SwitchesSafe
    <3> QED
      BY <2>3, <3>1 DEF Matching
  <2>5. ASSUME f \notin disturbed
        PROVE  Intact(f)'
    <3>1. Intact(f)
      BY <1>1, <2>1, <2>5 DEF SwitchesSafe
    <3> QED
      BY <1>1, <1>2, <2>2, <2>3, <3>1 DEF Intact, Running
  <2>6. SwitchesSafe'
    <3>1. p.flag = flow[f].flag /\ f \in Switches
      BY <1>1, <2>3
    <3> QED
      BY <1>3, <1>4, <2>1, <2>4, <2>5, <3>1, MovesSafe
  <2> QED
    BY <1>5, <2>6
<1> QED
  BY <1>6, <1>7

(* Only the terminal t is closed and restarted.                             *)
TouchesOnly(t) ==
  /\ active' = active /\ place' = place
  /\ \A s \in Terminals : s # t =>
       command'[s] = command[s] /\ process'[s] = process[s] /\ (s \in due => s \in due')

(* A restart touches one terminal.                                          *)
LEMMA RestartTouches ==
  ASSUME Inv, NEW t \in Terminals, NEW c, Restart(t, c), active' = active
  PROVE  /\ TouchesOnly(t) /\ place' = place
         /\ place[t] = active => command'[t] = c /\ t \in due'
<1>1. command = [s \in Terminals |-> command[s]] /\ process = [s \in Terminals |-> process[s]]
  BY DEF Inv, TypeOK
<1>2. /\ process' = [process EXCEPT ![t] = None] /\ place' = place
      /\ \/ command' = [command EXCEPT ![t] = c] /\ due' = due \cup {t}
         \/ place[t] # active /\ UNCHANGED <<command, due>>
  BY DEF Restart, CloseProcess, Restartable
<1> QED
  BY <1>1, <1>2 DEF TouchesOnly

(* So does the end of a process.                                            *)
LEMMA CloseTouches ==
  ASSUME Inv, NEW t \in Terminals, CloseProcess(t), UNCHANGED <<active, place, command, due>>
  PROVE  TouchesOnly(t)
<1>1. process = [s \in Terminals |-> process[s]]
  BY DEF Inv, TypeOK
<1> QED
  BY <1>1 DEF CloseProcess, TouchesOnly

(* No other switch has that terminal, unless it is disturbed.               *)
LEMMA OthersUntouched ==
  ASSUME Inv, SwitchesSafe, NEW f \in Switches, NEW t \in flow[f].left, TouchesOnly(t),
         \A h \in FlowIds : h # f => flow'[h] = flow[h],
         NEW h \in Switches, h # f, h \notin disturbed
  PROVE  Stays(h)
<1>1. t \in flow[f].targets /\ AgentOf[t] = flow[f].flag
  BY DEF SwitchesSafe, Matching
<1>2. flow[f].flag # flow[h].flag
  BY DEF SwitchesSafe, Alone
<1>3. h \in FlowIds /\ flow[h].targets \in SUBSET Terminals
  BY SwitchesAre DEF Switching
<1>4. \A s \in flow[h].targets : s \in Terminals /\ s # t
  BY <1>1, <1>2, <1>3 DEF SwitchesSafe, Matching
<1> QED
  BY <1>3, <1>4 DEF TouchesOnly, Stays, Running

(* A target that cannot be switched: an account stays, models are rolled    *)
(* back.                                                                    *)
LEMMA FailsSafe ==
  ASSUME Inv, Inv', SwitchesSafe, NEW f \in Switches, flow[f].step = "closing",
         NEW t \in flow[f].left, SwitchFails(f, t), TouchesOnly(t), UNCHANGED command,
         \A h \in FlowIds : h # f => flow'[h] = flow[h]
  PROVE  /\ SwitchesSafe'
         /\ f \notin disturbed => Together(f)
<1> PICK q : q = flow[f]
  OBVIOUS
<1>1. f \in FlowIds /\ f \in Flows /\ Switching(q) /\ Matching(q)
  BY SwitchesAre DEF SwitchesSafe
<1>2. \A h \in Switches : h # f /\ h \notin disturbed => Stays(h)
  BY OthersUntouched
<1>3. RollbackTargets(q, t) = q.done \cup {t} /\ t \in q.left /\ t \in q.targets
  BY <1>1 DEF RollbackTargets, Matching
<1>4. CASE q.kind = "account"
  <2>1. End(f)
    BY <1>4 DEF SwitchFails
  <2>2. f \notin disturbed => Together(f)
    <3> SUFFICES ASSUME f \notin disturbed PROVE Together(f)
      OBVIOUS
    <3>1. Intact(f) /\ q.targets = {t}
      BY <1>1, <1>3, <1>4 DEF SwitchesSafe, Matching
    <3>2. command'[t] = q.before[t]
      BY <1>3, <3>1 DEF Intact
    <3> QED
      BY <1>4, <3>1, <3>2 DEF Together
  <2> QED
    BY <1>1, <1>2, <2>1, <2>2, EndsSafe
<1>5. CASE q.kind # "account"
  <2> PICK back : back = q.done \cup {t}
    OBVIOUS
  <2> PICK p : p = [q EXCEPT !.step = "rolling", !.left = back]
    OBVIOUS
  <2>1. flow' = [flow EXCEPT ![f] = p] /\ UNCHANGED <<launching, disturbed>>
    BY <1>3, <1>5 DEF SwitchFails
  <2>2. flow'[f] = p
    BY <1>1, <2>1, FlowsAre
  <2>3. /\ p.kind = q.kind /\ p.flag = q.flag /\ p.targets = q.targets /\ p.left = back
        /\ p.done = q.done /\ p.before = q.before /\ p.alive = q.alive /\ p.step = "rolling"
    BY <1>1 DEF Switching
  <2>4. Matching(p)
    BY <1>1, <1>3, <2>3 DEF Matching
  <2>5. ASSUME f \notin disturbed
        PROVE  Intact(f)'
    <3>1. Intact(f)
      BY <2>5 DEF SwitchesSafe
    <3>2. ASSUME NEW s \in q.targets, s \notin back
          PROVE  command'[s] = q.before[s] /\ (s \in q.alive => Running(s)')
      <4>1. s \in q.left /\ s # t /\ s \in Terminals
        BY <1>1, <3>1, <3>2 DEF Intact, Switching
      <4>2. command[s] = q.before[s] /\ (s \in q.alive => Running(s))
        BY <3>1, <4>1 DEF Intact
      <4> QED
        BY <4>1, <4>2 DEF TouchesOnly, Running
    <3>3. \A s \in q.targets : place'[s] = active'
      BY <3>1 DEF TouchesOnly, Intact
    <3>4. q.alive \in SUBSET q.targets /\ back # {}
      BY <3>1 DEF Intact
    <3> QED
      BY <2>2, <2>3, <2>4, <3>2, <3>3, <3>4 DEF Intact, Matching
  <2>6. SwitchesSafe'
    <3>1. p.flag = flow[f].flag
      BY <2>3
    <3> QED
      BY <1>1, <1>2, <2>1, <2>4, <2>5, <3>1, MovesSafe
  <2>7. Together(f)
    <3>1. Over.step = "ended" /\ flow'[f].step # "ended" /\ flow[f].step # "preparing"
      BY <2>2, <2>3 DEF Over
    <3> QED
      BY <3>1 DEF Together
  <2> QED
    BY <2>6, <2>7
<1> QED
  BY <1>4, <1>5

(* A target that was switched runs, or will, with the new command.          *)
LEMMA TouchedRuns ==
  ASSUME Inv, NEW t \in Terminals, NEW c, Restart(t, c), active' = active, place[t] = active
  PROVE  /\ TouchesOnly(t) /\ command'[t] = c /\ Running(t)'
         /\ \A s \in Terminals : Running(s) => Running(s)'
<1>1. TouchesOnly(t) /\ command'[t] = c /\ t \in due'
  BY RestartTouches
<1> QED
  BY <1>1 DEF TouchesOnly, Running

(* A target is switched, or cannot be.                                      *)
LEMMA ClosedSafe ==
  ASSUME Inv, Inv', SwitchesSafe, NEW f \in FlowIds, Closed(f)
  PROVE  /\ SwitchesSafe'
         /\ f \notin disturbed => Together(f)
<1> PICK q : q = flow[f]
  OBVIOUS
<1>1. f \in Flows /\ Switching(q) /\ q.step = "closing" /\ f \in Switches /\ Matching(q)
  <2>1. f \in Flows /\ Switching(q) /\ q.step = "closing"
    BY Shapes DEF Closed, FlowIds
  <2> QED
    BY <2>1, SwitchesAre DEF SwitchesSafe
<1>2. \A h \in FlowIds : h # f => flow'[h] = flow[h]
  BY ContinuesAlone DEF Continue
<1>3. active' = active
  BY DEF Closed
<1> PICK t \in q.left :
         \/ /\ process[t] # None /\ Restart(t, f)
            /\ IF ~Restartable(t) THEN SwitchFails(f, t)
               ELSE IF q.left = {t} THEN End(f)
               ELSE /\ flow' = [flow EXCEPT ![f] = [q EXCEPT !.left = @ \ {t}, !.done = @ \cup {t}]]
                    /\ UNCHANGED <<launching, disturbed>>
         \/ CloseProcess(t) /\ SwitchFails(f, t) /\ UNCHANGED <<place, command, due>>
  BY DEF Closed
<1>4. t \in Terminals /\ t \in q.targets /\ t \in flow[f].left
  BY <1>1 DEF Switching, Matching
<1>5. CASE CloseProcess(t) /\ SwitchFails(f, t) /\ UNCHANGED <<place, command, due>>
  <2>1. TouchesOnly(t)
    BY <1>3, <1>4, <1>5, CloseTouches
  <2> QED
    BY <1>1, <1>2, <1>4, <1>5, <2>1, FailsSafe
<1>6. CASE Restart(t, f) /\ ~Restartable(t) /\ SwitchFails(f, t)
  <2>1. TouchesOnly(t)
    BY <1>3, <1>4, <1>6, RestartTouches
  <2>2. UNCHANGED command
    BY <1>6 DEF Restart
  <2> QED
    BY <1>1, <1>2, <1>4, <1>6, <2>1, <2>2, FailsSafe
<1>7. ASSUME Restart(t, f), Restartable(t)
      PROVE  /\ TouchesOnly(t) /\ command'[t] = f /\ Running(t)'
             /\ \A s \in Terminals : Running(s) => Running(s)'
             /\ \A h \in Switches : h # f /\ h \notin disturbed => Stays(h)
  <2>1. /\ TouchesOnly(t) /\ command'[t] = f /\ Running(t)'
        /\ \A s \in Terminals : Running(s) => Running(s)'
    BY <1>3, <1>4, <1>7, TouchedRuns DEF Restartable
  <2> QED
    BY <1>1, <1>2, <1>4, <2>1, OthersUntouched
<1>8. CASE Restart(t, f) /\ Restartable(t) /\ q.left = {t} /\ End(f)
  <2>1. SwitchesSafe'
    BY <1>2, <1>7, <1>8, EndsSafe
  <2>2. ASSUME f \notin disturbed PROVE Together(f)
    <3>1. Intact(f)
      BY <1>1, <2>2 DEF SwitchesSafe
    <3>2. ASSUME NEW s \in q.targets PROVE command'[s] = f
      <4>1. s = t \/ s \in q.done
        BY <1>1, <1>8, <3>1 DEF Intact
      <4>2. s \in Terminals /\ (s # t => command[s] = f)
        BY <1>1, <3>1, <4>1 DEF Intact, Switching
      <4> QED
        BY <1>7, <1>8, <4>2 DEF TouchesOnly
    <3>3. ASSUME NEW s \in q.alive PROVE Running(s)'
      <4>1. s \in Terminals /\ Running(s)
        BY <1>1, <3>1 DEF Intact, Switching
      <4> QED
        BY <1>7, <1>8, <4>1
    <3> QED
      BY <1>1, <3>2, <3>3 DEF Together, Running
  <2> QED
    BY <2>1, <2>2
<1>9. CASE /\ Restart(t, f) /\ Restartable(t) /\ q.left # {t}
           /\ flow' = [flow EXCEPT ![f] = [q EXCEPT !.left = @ \ {t}, !.done = @ \cup {t}]]
           /\ UNCHANGED <<launching, disturbed>>
  <2> PICK left : left = q.left \ {t}
    OBVIOUS
  <2> PICK done : done = q.done \cup {t}
    OBVIOUS
  <2> PICK p : p = [q EXCEPT !.left = left, !.done = done]
    OBVIOUS
  <2>1. flow' = [flow EXCEPT ![f] = p]
    <3>1. p = [q EXCEPT !.left = @ \ {t}, !.done = @ \cup {t}]
      OBVIOUS
    <3> QED
      BY <1>9, <3>1
  <2>2. flow'[f] = p
    BY <2>1, FlowsAre
  <2>3. /\ p.kind = q.kind /\ p.flag = q.flag /\ p.targets = q.targets /\ p.left = left
        /\ p.done = done /\ p.before = q.before /\ p.alive = q.alive /\ p.step = "closing"
    BY <1>1 DEF Switching
  <2>4. Matching(p)
    BY <1>1, <1>4, <2>3 DEF Matching
  <2>5. ASSUME f \notin disturbed PROVE Intact(f)'
    <3>1. Intact(f) /\ q.left \in SUBSET q.targets
      BY <1>1, <2>5 DEF SwitchesSafe, Intact
    <3>2. left # {} /\ left \in SUBSET q.targets /\ done = q.targets \ left
      BY <1>1, <1>4, <1>9, <3>1 DEF Intact
    <3>3. ASSUME NEW s \in left PROVE command'[s] = q.before[s]
      <4>1. s \in q.left /\ s # t /\ s \in Terminals
        BY <1>1 DEF Switching
      <4>2. command[s] = q.before[s]
        BY <1>1, <3>1, <4>1 DEF Intact
      <4> QED
        BY <1>7, <1>9, <4>1, <4>2 DEF TouchesOnly
    <3>4. ASSUME NEW s \in done PROVE command'[s] = f
      <4>1. CASE s = t
        BY <1>7, <1>9, <4>1
      <4>2. CASE s # t
        <5>1. s \in q.done /\ s \in Terminals
          BY <1>1, <4>2 DEF Switching
        <5>2. command[s] = f
          BY <1>1, <3>1, <5>1 DEF Intact
        <5> QED
          BY <1>7, <1>9, <4>2, <5>1, <5>2 DEF TouchesOnly
      <4> QED
        BY <4>1, <4>2
    <3>5. ASSUME NEW s \in q.alive PROVE Running(s)'
      <4>1. s \in Terminals /\ Running(s)
        BY <1>1, <3>1 DEF Intact, Switching
      <4> QED
        BY <1>7, <1>9, <4>1
    <3>6. (\A s \in q.targets : place'[s] = active') /\ q.alive \in SUBSET q.targets
      BY <1>7, <1>9, <3>1 DEF Intact, TouchesOnly
    <3> QED
      BY <2>2, <2>3, <3>2, <3>3, <3>4, <3>5, <3>6 DEF Intact
  <2>6. SwitchesSafe'
    <3>1. p.flag = flow[f].flag
      BY <2>3
    <3> QED
      BY <1>1, <1>2, <1>7, <1>9, <2>1, <2>4, <2>5, <3>1, MovesSafe
  <2>7. Together(f)
    <3>1. Over.step = "ended" /\ flow'[f].step # "ended" /\ flow[f].step # "preparing"
      BY <1>1, <2>2, <2>3 DEF Over
    <3> QED
      BY <3>1 DEF Together
  <2> QED
    BY <2>6, <2>7
<1> QED
  BY <1>5, <1>6, <1>8, <1>9

(* A target is rolled back; with the last one the switch ends.              *)
LEMMA RolledBackSafe ==
  ASSUME Inv, Inv', SwitchesSafe, NEW f \in FlowIds, RolledBack(f)
  PROVE  /\ SwitchesSafe'
         /\ f \notin disturbed => Together(f)
<1> PICK q : q = flow[f]
  OBVIOUS
<1>1. f \in Flows /\ Switching(q) /\ q.step = "rolling" /\ f \in Switches /\ Matching(q)
  <2>1. f \in Flows /\ Switching(q) /\ q.step = "rolling"
    BY Shapes DEF RolledBack, FlowIds
  <2> QED
    BY <2>1, SwitchesAre DEF SwitchesSafe
<1>2. \A h \in FlowIds : h # f => flow'[h] = flow[h]
  BY ContinuesAlone DEF Continue
<1>3. active' = active
  BY DEF RolledBack
<1> PICK t \in q.left :
         /\ Restart(t, q.before[t])
         /\ IF q.left = {t} THEN End(f)
            ELSE flow' = [flow EXCEPT ![f].left = @ \ {t}] /\ UNCHANGED <<launching, disturbed>>
  BY DEF RolledBack
<1>4. t \in Terminals /\ t \in q.targets /\ t \in flow[f].left
  BY <1>1 DEF Switching, Matching
<1>5. TouchesOnly(t)
  BY <1>3, <1>4, RestartTouches
<1>6. \A h \in Switches : h # f /\ h \notin disturbed => Stays(h)
  BY <1>1, <1>2, <1>4, <1>5, OthersUntouched
<1>7. ASSUME f \notin disturbed, NEW s \in q.targets, s \notin q.left \ {t}
      PROVE  command'[s] = q.before[s] /\ (s \in q.alive => Running(s)')
  <2>1. Intact(f) /\ place[t] = active
    BY <1>1, <1>4, <1>7 DEF SwitchesSafe, Intact
  <2>2. command'[t] = q.before[t] /\ Running(t)'
    BY <1>3, <1>4, <2>1, TouchedRuns
  <2>3. CASE s # t
    <3>1. s \in Terminals /\ s \in q.targets \ q.left
      BY <1>1, <1>7, <2>3 DEF Switching
    <3>2. command[s] = q.before[s] /\ (s \in q.alive => Running(s))
      BY <1>1, <2>1, <3>1 DEF Intact
    <3> QED
      BY <1>5, <2>3, <3>1, <3>2 DEF TouchesOnly, Running
  <2> QED
    BY <2>2, <2>3
<1>8. CASE q.left = {t} /\ End(f)
  <2>1. SwitchesSafe'
    BY <1>2, <1>6, <1>8, EndsSafe
  <2>2. ASSUME f \notin disturbed PROVE Together(f)
    <3>1. q.alive \in SUBSET q.targets
      BY <1>1, <2>2 DEF SwitchesSafe, Intact
    <3>2. \A s \in q.targets : command'[s] = q.before[s] /\ (s \in q.alive => Running(s)')
      BY <1>7, <1>8, <2>2
    <3> QED
      BY <1>1, <3>1, <3>2 DEF Together, Running
  <2> QED
    BY <2>1, <2>2
<1>9. CASE q.left # {t} /\ flow' = [flow EXCEPT ![f].left = @ \ {t}] /\ UNCHANGED <<launching, disturbed>>
  <2> PICK left : left = q.left \ {t}
    OBVIOUS
  <2> PICK p : p = [q EXCEPT !.left = left]
    OBVIOUS
  <2>1. flow' = [flow EXCEPT ![f] = p]
    BY <1>9, FlowsAre
  <2>2. flow'[f] = p
    BY <2>1, FlowsAre
  <2>3. /\ p.kind = q.kind /\ p.flag = q.flag /\ p.targets = q.targets /\ p.left = left
        /\ p.done = q.done /\ p.before = q.before /\ p.alive = q.alive /\ p.step = "rolling"
    BY <1>1 DEF Switching
  <2>4. Matching(p)
    BY <1>1, <2>3 DEF Matching
  <2>5. ASSUME f \notin disturbed PROVE Intact(f)'
    <3>1. Intact(f) /\ q.left \in SUBSET q.targets
      BY <1>1, <2>5 DEF SwitchesSafe, Intact
    <3>2. left # {} /\ left \in SUBSET q.targets
      BY <1>4, <1>9, <3>1
    <3>3. \A s \in q.targets \ left : command'[s] = q.before[s] /\ (s \in q.alive => Running(s)')
      BY <1>7, <2>5
    <3>4. (\A s \in q.targets : place'[s] = active') /\ q.alive \in SUBSET q.targets
      BY <1>5, <3>1 DEF Intact, TouchesOnly
    <3> QED
      BY <2>2, <2>3, <3>2, <3>3, <3>4 DEF Intact
  <2>6. SwitchesSafe'
    <3>1. p.flag = flow[f].flag
      BY <2>3
    <3> QED
      BY <1>1, <1>2, <1>6, <1>9, <2>1, <2>4, <2>5, <3>1, MovesSafe
  <2>7. Together(f)
    <3>1. Over.step = "ended" /\ flow'[f].step # "ended" /\ flow[f].step # "preparing"
      BY <1>1, <2>2, <2>3 DEF Over
    <3> QED
      BY <3>1 DEF Together
  <2> QED
    BY <2>6, <2>7
<1> QED
  BY <1>8, <1>9

(* A terminal is restored: a switch that has it is disturbed.               *)
LEMMA RefreshedSafe ==
  ASSUME Inv, Inv', SwitchesSafe, Refreshed
  PROVE  SwitchesSafe'
<1>1. Restore \notin Switches' /\ Restore \notin Switches /\ Restore \in FlowIds
  BY DEF Switches, FlowIds
<1>2. \A h \in FlowIds : h # Restore => flow'[h] = flow[h]
  BY <1>1, ContinuesAlone DEF Continue
<1>3. UNCHANGED <<active, place, due, process, launching>> /\ disturbed \subseteq disturbed'
  BY DEF Refreshed
<1>4. ASSUME NEW h \in Switches, h \notin disturbed'
      PROVE  Stays(h) /\ flow[h].flag \in launching'
  <2>1. h \in FlowIds /\ h # Restore /\ h \notin disturbed /\ flow[h].targets \in SUBSET Terminals
    BY <1>1, <1>3, <1>4, SwitchesAre DEF Switching
  <2>2. PICK t : /\ UpdateRestored(t) \/ UNCHANGED command
                 /\ disturbed' = disturbed \cup {f \in Switches : t \in flow[f].targets}
    BY DEF Refreshed
  <2>3. \A s \in flow[h].targets : s # t
    BY <1>4, <2>2
  <2>4. command = [s \in Terminals |-> command[s]]
    BY DEF Inv, TypeOK
  <2>5. \A s \in flow[h].targets : command'[s] = command[s]
    BY <2>1, <2>2, <2>3, <2>4 DEF UpdateRestored
  <2>6. Stays(h)
    BY <1>2, <1>3, <2>1, <2>5 DEF Stays, Running
  <2> QED
    BY <1>3, <2>1, <2>6 DEF SwitchesSafe, Alone
<1> QED
  BY <1>1, <1>2, <1>3, <1>4, OthersSafe DEF SwitchesSafe

(* The panels, the user and the CLI: who comes in the way of a switch       *)
(* disturbs it.                                                             *)
LEMMA OutsideSafe ==
  ASSUME Inv, Inv', SwitchesSafe, UNCHANGED <<flow, launching>>, disturbed \subseteq disturbed',
         \A h \in Switches : h \notin disturbed' => Stays(h)
  PROVE  SwitchesSafe'
<1>1. Restore \notin Switches'
  BY DEF Switches
<1>2. \A h \in Switches : h \notin disturbed' => flow[h].flag \in launching'
  BY DEF SwitchesSafe, Alone
<1> QED
  BY <1>1, <1>2, OthersSafe DEF SwitchesSafe

(* A panel starts a terminal.                                               *)
LEMMA StartSafe ==
  ASSUME Inv, Inv', SwitchesSafe, NEW t \in Terminals, Start(t)
  PROVE  SwitchesSafe'
<1>1. /\ command \in [Terminals -> Flows \cup {Restore, Stored}]
      /\ process = [s \in Terminals |-> process[s]]
  BY DEF Inv, TypeOK
<1>2. \A s \in Terminals : Running(s) => Running(s)'
  <2>1. command[t] # None
    BY <1>1
  <2>2. process'[t] = command[t] /\ \A s \in Terminals : s # t => process'[s] = process[s] /\ (s \in due => s \in due')
    BY <1>1 DEF Start
  <2> QED
    BY <2>1, <2>2 DEF Running
<1>3. UNCHANGED <<active, place, command, flow, launching, disturbed>>
  BY DEF Start, ghosts
<1>4. \A h \in Switches : Stays(h)
  BY <1>2, <1>3, SwitchesAre DEF Stays, Switching
<1> QED
  BY <1>3, <1>4, OutsideSafe

(* The user closes a terminal: the switches that have it are disturbed.     *)
LEMMA CloseTerminalSafe ==
  ASSUME Inv, Inv', SwitchesSafe, NEW t \in Terminals, CloseTerminal(t)
  PROVE  SwitchesSafe'
<1>1. UNCHANGED <<active, command, flow, launching>> /\ disturbed \subseteq disturbed'
  BY DEF CloseTerminal
<1>2. \A s \in Terminals : s # t =>
         place'[s] = place[s] /\ process'[s] = process[s] /\ (s \in due => s \in due')
  BY DEF CloseTerminal, Inv, TypeOK, All
<1>3. ASSUME NEW h \in Switches, h \notin disturbed'
      PROVE  Stays(h)
  <2>1. flow[h].targets \in SUBSET Terminals /\ t \notin flow[h].targets
    BY <1>3, SwitchesAre DEF CloseTerminal, Switching
  <2> QED
    BY <1>1, <1>2, <2>1 DEF Stays, Running
<1> QED
  BY <1>1, <1>3, OutsideSafe

(* The user selects another workspace, or a session changes.                *)
LEMMA ElsewhereSafe ==
  ASSUME Inv, Inv', SwitchesSafe, NEW x, SelectWorkspace(x) \/ HeldChanges(x) \/ UNCHANGED vars
  PROVE  SwitchesSafe'
<1>1. CASE SelectWorkspace(x)
  <2>1. /\ UNCHANGED <<flow, launching, place, command, due, process>> /\ active' = x
        /\ disturbed' = IF x = active THEN disturbed ELSE disturbed \cup Switches
    BY <1>1 DEF SelectWorkspace, terminals
  <2>2. CASE x = active
    BY <2>1, <2>2, StaysWhere, OutsideSafe
  <2>3. CASE x # active
    BY <2>1, <2>3, OutsideSafe
  <2> QED
    BY <2>2, <2>3
<1>2. CASE HeldChanges(x) \/ UNCHANGED vars
  <2>1. UNCHANGED <<flow, launching, disturbed, active, place, command, due, process>>
    BY <1>2 DEF HeldChanges, vars, terminals, ghosts
  <2> QED
    BY <2>1, StaysWhere, OutsideSafe
<1> QED
  BY <1>1, <1>2

(* Every step keeps the switches safe.                                      *)
LEMMA SwitchesStep ==
  ASSUME Inv, Inv', SwitchesSafe, [Next]_vars
  PROVE  SwitchesSafe'
<1>1. ASSUME NEW f \in Flows,
         \/ LaunchAntigravity(f) \/ LaunchOpenCode(f) \/ LaunchGrok(f)
         \/ LaunchPi(f) \/ LaunchCodex(f) \/ LaunchClaude(f)
         \/ \E s \in Terminals, a \in Agents \ {"antigravity"} : ResumeAgent(f, a, s)
         \/ \E s \in Sessions \cup {None} : LaunchTodo(f, s)
         \/ \E t \in Terminals : SwitchAccount(f, t)
         \/ \E a \in {"claude", "codex"} : SwitchModels(f, a)
      PROVE  SwitchesSafe'
  BY <1>1, UserBeginsSafe
<1>2. ASSUME NEW f \in FlowIds, Continue(f)
      PROVE  SwitchesSafe'
  BY <1>2, DetectedSafe, ReclaimedSafe, PreparedSafe, PlansReadySafe, ClosedSafe, RolledBackSafe,
     RefreshedSafe DEF Continue
<1>3. ASSUME NEW choice \in Choices, Answer(choice)
      PROVE  SwitchesSafe'
  BY <1>3, AnswerSafe
<1>4. ASSUME NEW t \in Terminals, Start(t) \/ CloseTerminal(t)
      PROVE  SwitchesSafe'
  BY <1>4, StartSafe, CloseTerminalSafe
<1>5. ASSUME NEW x, SelectWorkspace(x) \/ HeldChanges(x) \/ UNCHANGED vars
      PROVE  SwitchesSafe'
  BY <1>5, ElsewhereSafe
<1> QED
  BY <1>1, <1>2, <1>3, <1>4, <1>5 DEF Next, FlowIds

(* A switch is changed by its own steps only.                               *)
LEMMA SwitchMovesItself ==
  ASSUME Inv, Next, NEW f \in Switches, flow'[f] # flow[f]
  PROVE  PlansReady(f) \/ Closed(f) \/ RolledBack(f)
<1>1. f \in FlowIds /\ f \in Flows /\ Switching(flow[f]) /\ flow[f] # Idle
  BY SwitchesAre DEF Switching, Idle
<1>2. ASSUME NEW g \in Flows,
         \/ LaunchAntigravity(g) \/ LaunchOpenCode(g) \/ LaunchGrok(g)
         \/ LaunchPi(g) \/ LaunchCodex(g) \/ LaunchClaude(g)
         \/ \E s \in Terminals, a \in Agents \ {"antigravity"} : ResumeAgent(g, a, s)
         \/ \E s \in Sessions \cup {None} : LaunchTodo(g, s)
         \/ \E t \in Terminals : SwitchAccount(g, t)
         \/ \E a \in {"claude", "codex"} : SwitchModels(g, a)
      PROVE  FALSE
  <2>1. PICK flag, r : Begin(g, flag, r)
    BY <1>2 DEF LaunchAntigravity, LaunchOpenCode, LaunchGrok, LaunchPi, LaunchCodex, LaunchClaude,
         Launch, ResumeAgent, LaunchTodo, SwitchAccount, SwitchModels, Switch
  <2>2. g # f /\ g \in FlowIds /\ flow' = [flow EXCEPT ![g] = r]
    BY <1>1, <2>1 DEF Begin, FlowIds
  <2> QED
    BY <1>1, <2>2, FlowsAre
<1>3. ASSUME NEW g \in FlowIds, Continue(g)
      PROVE  PlansReady(f) \/ Closed(f) \/ RolledBack(f)
  <2>1. g = f
    BY <1>1, <1>3, ContinuesAlone
  <2>2. f # Restore /\ flow[f].step \in {"preparing", "closing", "rolling"}
        /\ flow[f].kind \in {"account", "models"}
    BY <1>1 DEF Switching
  <2> QED
    BY <1>3, <2>1, <2>2 DEF Continue, Detected, Inspected, Stopped, Prepared
<1>4. ASSUME NEW choice \in Choices, Answer(choice)
      PROVE  FALSE
  <2>1. asking \in FlowIds /\ flow[asking].step = "asking"
    <3>1. asking # None
      BY <1>4 DEF Answer
    <3> QED
      BY <3>1 DEF Inv, TypeOK, FlowIds
  <2>2. asking # f /\ \E r : flow' = [flow EXCEPT ![asking] = r]
    <3>1. asking # f
      BY <1>1, <2>1 DEF Switching
    <3>2. \E r : flow' = [flow EXCEPT ![asking] = r]
      BY <1>4 DEF Answer, End
    <3> QED
      BY <3>1, <3>2
  <2> QED
    BY <1>1, <2>1, <2>2, FlowsAre
<1>5. ASSUME NEW t, Start(t) \/ CloseTerminal(t) \/ HeldChanges(t) \/ SelectWorkspace(t)
      PROVE  FALSE
  BY <1>5 DEF Start, CloseTerminal, HeldChanges, SelectWorkspace
<1> QED
  BY <1>2, <1>3, <1>4, <1>5 DEF Next, FlowIds

(* What a switch that nothing came in the way of does.                      *)
LEMMA SwitchesKeepTogether ==
  ASSUME Inv, Inv', SwitchesSafe, Next, NEW f \in Switches \ disturbed
  PROVE  Together(f)
<1>1. f \in FlowIds /\ flow[f] # Over
  BY SwitchesAre DEF Switches, Underway, Over
<1>2. CASE flow'[f] = flow[f]
  BY <1>1, <1>2 DEF Together
<1>3. CASE flow'[f] # flow[f]
  <2>1. PlansReady(f) \/ Closed(f) \/ RolledBack(f)
    BY <1>3, SwitchMovesItself
  <2> QED
    BY <1>1, <2>1, PlansReadySafe, ClosedSafe, RolledBackSafe
<1> QED
  BY <1>2, <1>3

(* A switch that nothing else comes in the way of moves all its terminals   *)
(* to the new command or leaves all of them with the old one, and ends no   *)
(* process while a command is still missing; switched models leave none of  *)
(* the processes they ended without a new start.                            *)
THEOREM SwitchesTogether == Spec => SwitchTogether
<1>1. Init => SwitchesSafe
  <2> SUFFICES ASSUME Init PROVE Switches = {}
    BY DEF SwitchesSafe
  <2>1. \A f \in Flows : flow[f].kind = "none"
    BY DEF Init, Idle
  <2> QED
    BY <2>1 DEF Switches
<1>2. Inv /\ Inv' /\ SwitchesSafe /\ [Next]_vars => SwitchesSafe'
  BY SwitchesStep
<1>3. Inv /\ Inv' /\ SwitchesSafe /\ [Next]_vars =>
        [\A f \in Switches \ disturbed :
           LET ts == flow[f].targets
           IN  /\ flow[f].step = "preparing" /\ flow'[f] # flow[f] => UNCHANGED process
               /\ flow'[f] = Over =>
                    /\ \/ \A t \in ts : command'[t] = f
                       \/ \A t \in ts : command'[t] = flow[f].before[t]
                    /\ flow[f].kind = "models" =>
                         \A t \in flow[f].alive : t \in due' \/ process'[t] # None]_vars
  <2> SUFFICES ASSUME Inv, Inv', SwitchesSafe, Next PROVE \A f \in Switches \ disturbed : Together(f)
    BY DEF Together
  <2> QED
    BY SwitchesKeepTogether
<1> QED
  BY <1>1, <1>2, <1>3, Invariance, PTL DEF Spec, SwitchTogether
=============================================================================
