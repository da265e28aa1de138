--------------------------- MODULE BridgeSession ---------------------------
(***************************************************************************)
(* The remote bridge: browsers that call the desktop over a WebSocket, the *)
(* server tasks that authenticate and serve their connections, and the     *)
(* rotation of the access token meanwhile.  Connections drop, frames on    *)
(* the way are lost with them, and a dead connection's task lingers.       *)
(*                                                                         *)
(* A token is its number, a call its number within one browser.  What a    *)
(* frame is sealed with is left out: each connection has keys of its own,  *)
(* and a frame is only ever read by the connection it was sent on.         *)
(***************************************************************************)
EXTENDS Naturals, Sequences, FiniteSets

CONSTANTS
    Clients,       (* browsers, all behind one source address             *)
    MaxFailures,   (* MAX_FAILURES_PER_WINDOW                             *)
    MaxTokens,     (* bound: tokens ever issued                           *)
    MaxCalls,      (* bound: calls of one browser                         *)
    MaxConns,      (* bound: connections of one browser                   *)
    MaxUpsets      (* bound: how often a browser is given a token, or a   *)
                   (* connection breaks or times out                      *)

ASSUME BridgeSessionAssumption ==
    /\ IsFiniteSet(Clients) /\ MaxFailures \in Nat \ {0} /\ MaxTokens \in Nat \ {0}
    /\ MaxCalls \in Nat /\ MaxConns \in Nat /\ MaxUpsets \in Nat

VARIABLES
    token,      (* RemoteAuth.token                                            *)
    rotation,   (* how far regenerate_token got                                *)
    version,    (* of the watch channel: ConnectionCommands sent               *)
    failures,   (* FailureThrottle: failures of the address in this window     *)
    locked,     (* ... and whether it is locked out                            *)
    client,     (* per browser: RemoteBridgeClient                             *)
    conn,       (* per browser: its connections, with the server's task and    *)
                (* the frames on their way                                     *)
    tasks,      (* spawn_invoke tasks still running                            *)
    executed,   (* ghost: per browser, how often each call ran                 *)
    outcome,    (* per browser, what became of the promise of each call        *)
    adoptions, drops

vars == <<token, rotation, version, failures, locked, client, conn, tasks, executed,
          outcome, adoptions, drops>>
serverVars == <<token, rotation, version, failures, locked>>
callVars == <<tasks, executed, outcome>>

Tokens == 1..MaxTokens
CallIds == 1..MaxCalls
ConnIds == 1..MaxConns
NoToken == 0

States == {"idle", "connecting", "ready", "unauthorized"}
Stages == {"challenged", "checking", "open", "closed"}

(* Frames.  "close" stands for the end of the stream, whoever ended it. *)
Frame(type) == [type |-> type, arg |-> 0]
Auth(t)     == [type |-> "auth", arg |-> t]
Invoke(i)   == [type |-> "invoke", arg |-> i]
Result(i)   == [type |-> "result", arg |-> i]

ClientFrames == {Frame("close")} \cup {Auth(t) : t \in Tokens} \cup {Invoke(i) : i \in CallIds}
ServerFrames == {Frame(k) : k \in {"challenge", "ready", "auth-failed", "close"}}
                  \cup {Result(i) : i \in CallIds}

Conns == [stage : Stages, up : Seq(ClientFrames), down : Seq(ServerFrames),
          used : Tokens \cup {NoToken}, read : Tokens \cup {NoToken}, seen : Nat,
          negotiating : Tokens \cup {NoToken}]

BrowserStates ==
    [state : States, token : Tokens \cup {NoToken}, socket : ConnIds \cup {0},
     timer : BOOLEAN, queue : Seq(CallIds), pending : SUBSET CallIds, calls : 0..MaxCalls]

TypeOK ==
    /\ token \in Tokens /\ version \in Nat
    /\ rotation \in {"none", "written", "reset"}
    /\ failures \in Nat /\ locked \in BOOLEAN
    /\ client \in [Clients -> BrowserStates]
    /\ conn \in [Clients -> Seq(Conns)]
    /\ tasks \subseteq [client : Clients, conn : ConnIds, call : CallIds]
    /\ executed \in [Clients -> [CallIds -> Nat]]
    /\ outcome \in [Clients -> [CallIds -> {"none", "waiting", "resolved", "rejected"}]]
    /\ adoptions \in Nat /\ drops \in Nat

NoBrowser == [state |-> "idle", token |-> NoToken, socket |-> 0, timer |-> FALSE,
              queue |-> <<>>, pending |-> {}, calls |-> 0]

Init ==
    /\ token = 1 /\ rotation = "none" /\ version = 0
    /\ failures = 0 /\ locked = FALSE
    /\ client = [c \in Clients |-> NoBrowser]
    /\ conn = [c \in Clients |-> <<>>]
    /\ tasks = {}
    /\ executed = [c \in Clients |-> [i \in CallIds |-> 0]]
    /\ outcome = [c \in Clients |-> [i \in CallIds |-> "none"]]
    /\ adoptions = 0 /\ drops = 0

InQueue(p) == {p.queue[i] : i \in 1..Len(p.queue)}
Down(c, k) == conn[c][k].down
Current(c) == conn[c][client[c].socket]
Has(frames, type) == \E i \in 1..Len(frames) : frames[i].type = type

-----------------------------------------------------------------------------
(* Browser: RemoteBridgeClient. *)

Reject(c, calls) ==
    [outcome EXCEPT ![c] = [i \in CallIds |-> IF i \in calls THEN "rejected" ELSE @[i]]]

(* dropConnection: the socket is closed and what waits for its answers is     *)
(* rejected; what is queued stays.                                            *)
Dropped(p) == [p EXCEPT !.socket = 0, !.pending = {}]
CloseSocket(c) ==
    IF client[c].socket = 0 THEN conn[c]
    ELSE [conn[c] EXCEPT ![client[c].socket].up = Append(@, Frame("close"))]

(* Mutants of AfterDrop: calls in flight are sent again, or forgotten. *)
Requeued(p) ==
    [Dropped(p) EXCEPT !.queue = @ \o SelectSeq([i \in CallIds |-> i],
                                                LAMBDA i : i \in p.pending)]
StillPending(p) == [p EXCEPT !.socket = 0]
AfterDrop(p) == Dropped(p)

(* connect(): a new socket; the server greets it with a challenge. *)
Challenged == [stage |-> "challenged", up |-> <<>>, down |-> <<Frame("challenge")>>,
               used |-> NoToken, read |-> NoToken, seen |-> 0, negotiating |-> NoToken]
Connect(c, p) ==
    /\ Len(conn[c]) < MaxConns
    /\ conn' = [conn EXCEPT ![c] = Append(CloseSocket(c), Challenged)]
    /\ client' = [client EXCEPT ![c] =
          [AfterDrop(p) EXCEPT !.state = "connecting", !.timer = FALSE,
                                      !.socket = Len(conn[c]) + 1]]
    /\ outcome' = Reject(c, client[c].pending)

(* setToken(token): the user opens a link or scans a code, fresh or stale. *)
SetToken(c, t) ==
    /\ adoptions + drops < MaxUpsets /\ t <= token
    /\ ~(client[c].token = t /\ client[c].state # "unauthorized" /\ client[c].socket # 0)
    /\ adoptions' = adoptions + 1
    /\ Connect(c, [client[c] EXCEPT !.token = t])
    /\ UNCHANGED <<serverVars, tasks, executed, drops>>

(* forget() and handleAuthFailed: everything that waits is rejected. *)
GiveUp(c) ==
    /\ client' = [client EXCEPT ![c] =
          [Dropped(@) EXCEPT !.state = "unauthorized", !.token = NoToken, !.timer = FALSE,
                             !.queue = <<>>]]
    /\ outcome' = Reject(c, client[c].pending \cup InQueue(client[c]))

Forget(c) ==
    /\ client[c].token # NoToken
    /\ conn' = [conn EXCEPT ![c] = CloseSocket(c)]
    /\ GiveUp(c)
    /\ UNCHANGED <<serverVars, tasks, executed, adoptions, drops>>

(* invoke: sent when ready, queued otherwise, refused without a token. *)
InvokeCall(c) ==
    LET p == client[c]
        i == p.calls + 1
    IN
    /\ p.calls < MaxCalls
    /\ \/ /\ p.token = NoToken
          /\ client' = [client EXCEPT ![c].calls = i]
          /\ outcome' = [outcome EXCEPT ![c][i] = "rejected"]
          /\ UNCHANGED conn
       \/ /\ p.token # NoToken /\ p.state = "ready" /\ p.socket # 0
          /\ client' = [client EXCEPT ![c].calls = i, ![c].pending = @ \cup {i}]
          /\ conn' = [conn EXCEPT ![c][p.socket].up = Append(@, Invoke(i))]
          /\ outcome' = [outcome EXCEPT ![c][i] = "waiting"]
       \/ /\ p.token # NoToken /\ (p.state # "ready" \/ p.socket = 0)
          /\ client' = [client EXCEPT ![c].calls = i, ![c].queue = Append(@, i)]
          /\ outcome' = [outcome EXCEPT ![c][i] = "waiting"]
          /\ UNCHANGED conn
    /\ UNCHANGED <<serverVars, tasks, executed, adoptions, drops>>

(* The head of what comes in on the socket in use. *)
Incoming(c, type) ==
    /\ client[c].socket # 0
    /\ Current(c).down # <<>> /\ Head(Current(c).down).type = type
Consume(c) == [conn EXCEPT ![c][client[c].socket].down = Tail(@)]

(* handleChallenge: the proof is computed off the page's thread ... *)
ReceiveChallenge(c) ==
    /\ Incoming(c, "challenge")
    /\ conn' = [Consume(c) EXCEPT ![c][client[c].socket].negotiating = client[c].token]
    /\ UNCHANGED <<serverVars, client, callVars, adoptions, drops>>

(* Mutant of Negotiated: the answer goes out unasked, for the token of now. *)
NegotiatedUnasked(c, k) ==
    /\ k <= Len(conn[c]) /\ conn[c][k].negotiating # NoToken
    /\ conn' = [conn EXCEPT ![c][k].negotiating = NoToken,
                            ![c][k].up = Append(@, Auth(client[c].token))]
    /\ UNCHANGED <<serverVars, client, callVars, adoptions, drops>>

(* ... and sent on the socket it was computed for, if that is still in use.   *)
Negotiated(c, k) ==
    /\ k <= Len(conn[c]) /\ conn[c][k].negotiating # NoToken
    /\ conn' = [conn EXCEPT ![c][k].negotiating = NoToken,
                            ![c][k].up = IF client[c].socket = k
                                         THEN Append(@, Auth(conn[c][k].negotiating)) ELSE @]
    /\ UNCHANGED <<serverVars, client, callVars, adoptions, drops>>

(* Mutant of ReceiveReady: the queue waits for the next call. *)
ReceiveReadyUnflushed(c) ==
    /\ Incoming(c, "ready")
    /\ client' = [client EXCEPT ![c].state = "ready"]
    /\ conn' = Consume(c)
    /\ UNCHANGED <<serverVars, callVars, adoptions, drops>>

(* handleReady: the queue is flushed in order. *)
ReceiveReady(c) ==
    LET p == client[c] IN
    /\ Incoming(c, "ready")
    /\ client' = [client EXCEPT ![c].state = "ready", ![c].queue = <<>>,
                                ![c].pending = @ \cup InQueue(p)]
    /\ conn' = [Consume(c) EXCEPT
                  ![c][p.socket].up = @ \o [i \in 1..Len(p.queue) |-> Invoke(p.queue[i])]]
    /\ UNCHANGED <<serverVars, callVars, adoptions, drops>>

ReceiveAuthFailed(c) ==
    /\ Incoming(c, "auth-failed")
    /\ conn' = [conn EXCEPT ![c] = CloseSocket(c)]
    /\ GiveUp(c)
    /\ UNCHANGED <<serverVars, tasks, executed, adoptions, drops>>

(* settle *)
ReceiveResult(c) ==
    LET i == Head(Current(c).down).arg IN
    /\ Incoming(c, "result")
    /\ conn' = Consume(c)
    /\ client' = [client EXCEPT ![c].pending = @ \ {i}]
    /\ outcome' = IF i \in client[c].pending THEN [outcome EXCEPT ![c][i] = "resolved"]
                  ELSE outcome
    /\ UNCHANGED <<serverVars, tasks, executed, adoptions, drops>>

(* A page that cannot seal, where sealing is required, keeps its token: it    *)
(* gives up as if the token had been rejected.                                *)
InsecurePage(c) ==
    /\ Incoming(c, "challenge")
    /\ conn' = [conn EXCEPT ![c] = CloseSocket(c)]
    /\ GiveUp(c)
    /\ UNCHANGED <<serverVars, tasks, executed, adoptions, drops>>

(* handleDisconnect: everything that waits for an answer is rejected, and the *)
(* timer of the next attempt starts.                                          *)
Disconnect(c) ==
    /\ conn' = [conn EXCEPT ![c] = CloseSocket(c)]
    /\ client' = [client EXCEPT ![c] =
                    [AfterDrop(@) EXCEPT !.state = "connecting", !.timer = TRUE]]
    /\ outcome' = Reject(c, client[c].pending)
    /\ UNCHANGED <<serverVars, tasks, executed, adoptions>>

(* The stream has ended.  Frames are opened asynchronously, so a close        *)
(* overtakes what is still being opened, and that is lost.                    *)
ReceiveClose(c) ==
    /\ client[c].socket # 0 /\ Has(Current(c).down, "close")
    /\ Disconnect(c) /\ UNCHANGED drops

(* failSession: the proof cannot be computed for the socket in use, or a      *)
(* frame breaks the envelope.                                                 *)
FailSession(c) ==
    /\ adoptions + drops < MaxUpsets /\ drops' = drops + 1
    /\ client[c].socket # 0
    /\ Current(c).negotiating # NoToken \/ Current(c).down # <<>>
    /\ Disconnect(c)

(* The reconnect timer. *)
RetryTimer(c) ==
    /\ client[c].timer
    /\ Connect(c, client[c])
    /\ UNCHANGED <<serverVars, tasks, executed, adoptions, drops>>

-----------------------------------------------------------------------------
(* Server: one task per connection, RemoteAuth and its FailureThrottle. *)

(* Mutant of Ended: the task just returns. *)
EndedSilently(k) == [k EXCEPT !.stage = "closed"]

(* The task ends: a close frame goes out after what is queued, unless the     *)
(* browser is gone.                                                           *)
Ended(k) == [k EXCEPT !.stage = "closed", !.down = Append(@, Frame("close"))]
Refused(k) == [k EXCEPT !.stage = "closed",
                        !.down = @ \o <<Frame("auth-failed"), Frame("close")>>]

NextUp(c, k, type) ==
    /\ k <= Len(conn[c])
    /\ conn[c][k].up # <<>> /\ Head(conn[c][k].up).type = type
Read(c, k) == [conn[c][k] EXCEPT !.up = Tail(@)]

(* authorize_scoped_at, first half: the lockout, then the token. *)
CheckAuth(c, k) ==
    /\ NextUp(c, k, "auth") /\ conn[c][k].stage = "challenged"
    /\ LET r == [Read(c, k) EXCEPT !.used = Head(conn[c][k].up).arg] IN
       conn' = [conn EXCEPT ![c][k] =
                  IF locked THEN Refused(r) ELSE [r EXCEPT !.stage = "checking", !.read = token]]
    /\ UNCHANGED <<serverVars, client, callVars, adoptions, drops>>

(* handle_connection's receiver: a clone of the context's, which has seen     *)
(* nothing.  Mutant: one that starts at what was sent last.                   *)
SubscribedSeen == version
ClonedSeen == 0

(* ... second half: the verdict on the token as it was read. *)
Verdict(c, k) ==
    /\ k <= Len(conn[c]) /\ conn[c][k].stage = "checking"
    /\ IF conn[c][k].used = conn[c][k].read
       THEN /\ failures' = 0 /\ locked' = FALSE
            /\ conn' = [conn EXCEPT ![c][k].stage = "open", ![c][k].seen = ClonedSeen,
                                    ![c][k].down = Append(@, Frame("ready"))]
       ELSE /\ failures' = failures + 1
            /\ locked' = (failures + 1 >= MaxFailures)
            /\ conn' = [conn EXCEPT ![c][k] = Refused(@)]
    /\ UNCHANGED <<token, rotation, version, client, callVars, adoptions, drops>>

(* AUTH_TIMEOUT, IDLE_TIMEOUT: the server gives the connection up. *)
ServerTimeout(c, k) ==
    /\ k <= Len(conn[c]) /\ conn[c][k].stage \in {"challenged", "open"}
    /\ adoptions + drops < MaxUpsets /\ drops' = drops + 1
    /\ conn' = [conn EXCEPT ![c][k] = Ended(@)]
    /\ UNCHANGED <<serverVars, client, callVars, adoptions>>

(* Mutant of ReceiveInvoke: a call is answered when it is accepted. *)
ReceiveInvokeEagerly(c, k) ==
    LET i == Head(conn[c][k].up).arg IN
    /\ NextUp(c, k, "invoke") /\ conn[c][k].stage = "open"
    /\ conn' = [conn EXCEPT ![c][k] = [Read(c, k) EXCEPT !.down = Append(@, Result(i))]]
    /\ tasks' = tasks \cup {[client |-> c, conn |-> k, call |-> i]}
    /\ UNCHANGED <<serverVars, client, executed, outcome, adoptions, drops>>

(* handle_client_frame: an invoke runs as a task of its own. *)
ReceiveInvoke(c, k) ==
    /\ NextUp(c, k, "invoke") /\ conn[c][k].stage = "open"
    /\ conn' = [conn EXCEPT ![c][k] = Read(c, k)]
    /\ tasks' = tasks \cup {[client |-> c, conn |-> k, call |-> Head(conn[c][k].up).arg]}
    /\ UNCHANGED <<serverVars, client, executed, outcome, adoptions, drops>>

(* spawn_invoke: the answer of a connection that ended goes nowhere. *)
RunTask(t) ==
    /\ t \in tasks
    /\ tasks' = tasks \ {t}
    /\ executed' = [executed EXCEPT ![t.client][t.call] = @ + 1]
    /\ conn' = IF conn[t.client][t.conn].stage = "open"
               THEN [conn EXCEPT ![t.client][t.conn].down = Append(@, Result(t.call))]
               ELSE conn
    /\ UNCHANGED <<serverVars, client, outcome, adoptions, drops>>

(* The command channel changed: Reauthenticate closes the connection. *)
ReceiveCommand(c, k) ==
    /\ k <= Len(conn[c]) /\ conn[c][k].stage = "open" /\ version # conn[c][k].seen
    /\ conn' = [conn EXCEPT ![c][k] = [Ended(@) EXCEPT !.seen = version]]
    /\ UNCHANGED <<serverVars, client, callVars, adoptions, drops>>

(* The browser's end of the stream. *)
ReceiveEnd(c, k) ==
    /\ NextUp(c, k, "close") /\ conn[c][k].stage \in {"challenged", "open"}
    /\ conn' = [conn EXCEPT ![c][k] = Ended(Read(c, k))]
    /\ UNCHANGED <<serverVars, client, callVars, adoptions, drops>>

(* regenerate_token: replace_token writes the token, then resets the table;   *)
(* then every connection is told.                                             *)
RotateWrite ==
    /\ rotation = "none" /\ token < MaxTokens
    /\ token' = token + 1 /\ rotation' = "written"
    /\ UNCHANGED <<version, failures, locked, client, conn, callVars, adoptions, drops>>
RotateReset ==
    /\ rotation = "written" /\ rotation' = "reset"
    /\ failures' = 0 /\ locked' = FALSE
    /\ UNCHANGED <<token, version, client, conn, callVars, adoptions, drops>>
RotateTell ==
    /\ rotation = "reset" /\ rotation' = "none"
    /\ version' = version + 1
    /\ UNCHANGED <<token, failures, locked, client, conn, callVars, adoptions, drops>>

(* FAILURE_WINDOW and LOCKOUT_DURATION pass. *)
WindowPasses ==
    /\ failures > 0
    /\ failures' = 0 /\ locked' = FALSE
    /\ UNCHANGED <<token, rotation, version, client, conn, callVars, adoptions, drops>>

(* The network, or either idle timeout: what is on its way may be lost, and   *)
(* both ends find the stream closed.                                          *)
Cut(frames, n) == Append(SubSeq(frames, 1, n), Frame("close"))
Break(c, k) ==
    /\ k <= Len(conn[c]) /\ adoptions + drops < MaxUpsets /\ drops' = drops + 1
    /\ client[c].socket = k /\ ~Has(conn[c][k].down, "close")
    /\ \E n \in 0..Len(conn[c][k].up), m \in 0..Len(conn[c][k].down) :
          conn' = [conn EXCEPT ![c][k].up = Cut(@, n), ![c][k].down = Cut(@, m)]
    /\ UNCHANGED <<serverVars, client, callVars, adoptions>>
-----------------------------------------------------------------------------
Browser ==
    \E c \in Clients :
       \/ ReceiveChallenge(c) \/ InsecurePage(c)
       \/ ReceiveReady(c) \/ ReceiveAuthFailed(c)
       \/ ReceiveResult(c) \/ ReceiveClose(c) \/ RetryTimer(c)
       \/ \E k \in ConnIds : Negotiated(c, k)

Server ==
    \/ \E c \in Clients, k \in ConnIds :
          \/ CheckAuth(c, k) \/ Verdict(c, k) \/ ReceiveInvoke(c, k)
          \/ ReceiveCommand(c, k) \/ ReceiveEnd(c, k)
    \/ \E t \in tasks : RunTask(t)
    \/ RotateReset \/ RotateTell

Environment ==
    \/ \E c \in Clients : Forget(c) \/ InvokeCall(c) \/ FailSession(c) \/ \E t \in Tokens : SetToken(c, t)
    \/ \E c \in Clients, k \in ConnIds : ServerTimeout(c, k) \/ Break(c, k)
    \/ RotateWrite \/ WindowPasses

Next == Browser \/ Server \/ Environment
Spec == Init /\ [][Next]_vars

(* A page's callbacks and timers fire, and the runtime runs its tasks. *)
FairSpec == Spec /\ WF_vars(Browser) /\ WF_vars(Server)

-----------------------------------------------------------------------------
(* Properties *)

(* The frame of call i, its task or its answer is on the connection in use,   *)
(* or that connection's end is.                                               *)
AnswerOnItsWay(c, i) ==
    LET k == Current(c) IN
    \/ Has(k.down, "close")
    \/ \E n \in 1..Len(k.up) : k.up[n] = Invoke(i) /\ k.stage = "open"
    \/ \E t \in tasks : t = [client |-> c, conn |-> client[c].socket, call |-> i]
    \/ \E n \in 1..Len(k.down) : k.down[n] = Result(i)

(* Every promise a browser was handed is in one place: still queued, or       *)
(* waiting for an answer on the socket in use, or settled (dispatch,          *)
(* flushQueue, rejectPending, rejectQueue); and none waits for an answer that *)
(* cannot come.                                                               *)
CallsAccounted ==
    \A c \in Clients :
       LET p == client[c] IN
       /\ InQueue(p) \cap p.pending = {}
       /\ \A i \in CallIds : outcome[c][i] = "waiting" <=> i \in InQueue(p) \cup p.pending
       /\ p.pending # {} => p.state = "ready" /\ p.socket # 0
       /\ \A i \in p.pending : AnswerOnItsWay(c, i)

(* A call runs at most once, whatever is lost and retried (rejectPending): one *)
(* that was answered did run, one that never left the queue did not.           *)
RunsAtMostOnce ==
    \A c \in Clients, i \in CallIds :
       /\ executed[c][i] <= 1
       /\ outcome[c][i] = "resolved" => executed[c][i] = 1
       /\ i \in InQueue(client[c]) => executed[c][i] = 0

(* Every call is settled in the end, answered or rejected, unless the bound   *)
(* leaves the browser no connection to come back on.                          *)
CallsSettle ==
    []<>(\A c \in Clients : (\E i \in CallIds : outcome[c][i] = "waiting") =>
            client[c].timer /\ Len(conn[c]) = MaxConns)

(* Rotating the token ends every session opened with an older one, also one   *)
(* that was being authenticated meanwhile (regenerate_token).                 *)
OldSessionsEnd ==
    []<>(\A c \in Clients : \A k \in 1..Len(conn[c]) :
            conn[c][k].stage = "open" => conn[c][k].used = token)

(* Whatever is lost, refused or closed on the way, both happen in the end.    *)
Settles == CallsSettle /\ OldSessionsEnd

(* "The token was rotated, so every client has to present the new one": a     *)
(* connection that presented it is not closed for that.                       *)
NewSessionsStay ==
    [][\A c \in Clients, k \in ConnIds :
         ReceiveCommand(c, k) => conn[c][k].used < token]_vars
=============================================================================
