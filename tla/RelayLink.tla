------------------------------ MODULE RelayLink ------------------------------
(***************************************************************************)
(* The desktop's tunnel to a relay: the manager's operations on settings,  *)
(* credential and link, the supervisor that runs one session after         *)
(* another, and the relay's revocation, which calls back into the manager. *)
(*                                                                         *)
(* There is one relay.  A credential is the number of its enrollment.      *)
(* Cancelling a supervisor takes effect at its next await, so that stop()  *)
(* waits for it only while it acts on the end of a session.                *)
(***************************************************************************)
EXTENDS Naturals, FiniteSets

CONSTANTS
    MaxOps,          (* bound: operations the user ever begins                 *)
    MaxRevocations,  (* bound: credentials the relay revokes                   *)
    MaxRefusals,     (* bound: sessions the relay refuses                      *)
    MaxBreaks        (* bound: sessions that break or never come up            *)

ASSUME RelayLinkAssumption ==
    /\ MaxOps \in Nat \ {0} /\ MaxRevocations \in Nat /\ MaxRefusals \in Nat
    /\ MaxBreaks \in Nat

VARIABLES
    enabled,     (* settings.relay.enabled                                    *)
    credential,  (* what the credential store holds                           *)
    holder,      (* the operation that holds the manager's state lock         *)
    ops,         (* per operation: its kind, where it is, what it read        *)
    begun,       (* operations the user began                                 *)
    link,        (* RelayLink.running and its supervisor                      *)
    status,      (* LinkStatus                                                *)
    issued,      (* the relay: credentials it issued                          *)
    revoked,     (* ... and those it revoked                                  *)
    refusals, breaks,
    crossed      (* ghost: a disconnect_relay ran beside another operation    *)

vars == <<enabled, credential, holder, ops, begun, link, status, issued, revoked,
          refusals, breaks, crossed>>
relayVars == <<issued, revoked, refusals, breaks>>
userVars == <<begun, crossed>>

(* Every operation of the user, and the start of the application, brings up   *)
(* at most one link, and every link ends in at most one forget.               *)
OpIds == 1..(2 * MaxOps + 2)
Credentials == 1..(MaxOps + 1)
NoCredential == 0
Nobody == 0

Kinds == {"none", "update", "enroll", "disconnect", "forget"}
Steps == {"begin", "locked", "stopping", "applying", "starting", "clearing", "switching", "done"}
Sessions == {"none", "connecting", "connected", "waiting", "revoked", "refused"}
Statuses == {"disabled", "connecting", "connected", "revoked", "error"}

Alive == link.session # "none"
Running(o) == ops[o].step # "done"
ByUser(o) == ops[o].kind \in {"update", "enroll", "disconnect"}
At(o, kind, step) == ops[o].kind = kind /\ ops[o].step = step

TypeOK ==
    /\ enabled \in BOOLEAN
    /\ credential \in Credentials \cup {NoCredential}
    /\ holder \in {Nobody} \cup {o \in OpIds : Running(o)}
    /\ ops \in [OpIds -> [kind : Kinds, step : Steps, on : BOOLEAN,
                          cred : Credentials \cup {NoCredential}]]
    /\ begun \in 0..MaxOps
    /\ link \in [session : Sessions, cred : Credentials \cup {NoCredential}]
    /\ status \in Statuses
    /\ issued \in 0..(MaxOps + 1) /\ revoked \subseteq Credentials
    /\ refusals \in Nat /\ breaks \in Nat /\ crossed \in BOOLEAN

NoOp == [kind |-> "none", step |-> "done", on |-> FALSE, cred |-> NoCredential]
StartUp == [kind |-> "update", step |-> "applying", on |-> TRUE, cred |-> NoCredential]
NoLink == [session |-> "none", cred |-> NoCredential]

(* The application starts: the device was never enrolled, or it was, and      *)
(* start_if_enabled holds the lock and is about to apply the settings.        *)
Init ==
    /\ \/ /\ enabled = FALSE /\ credential = NoCredential /\ issued = 0
          /\ holder = Nobody /\ ops = [o \in OpIds |-> NoOp]
       \/ /\ enabled = TRUE /\ credential = 1 /\ issued = 1
          /\ holder = 1
          /\ ops = [o \in OpIds |-> IF o = 1 THEN StartUp ELSE NoOp]
    /\ begun = 0
    /\ link = NoLink /\ status = "disabled"
    /\ revoked = {} /\ refusals = 0 /\ breaks = 0 /\ crossed = FALSE

Goto(o, step) == ops' = [ops EXCEPT ![o].step = step]
Done(o) == ops' = [ops EXCEPT ![o] = NoOp]

-----------------------------------------------------------------------------
(* RelayLink *)

(* The supervisor acts on how a session ended, up to the end of its task. *)
Acting == link.session \in {"revoked", "refused"}

(* stop_running: cancel, and wait for the task. *)
Stop == ~Acting /\ link' = NoLink

(* Mutant of StopLink: it does not wait for the supervisor. *)
StopLinkAtOnce ==
    /\ status' = "disabled"
    /\ link' = IF Acting THEN link ELSE NoLink

(* stop, start and report_unavailable, each under the lock of running. *)
StopLink == Stop /\ status' = "disabled"
ReportUnavailable == Stop /\ status' = "error"
StartLink(cred) ==
    \/ Alive /\ UNCHANGED <<link, status>>
    \/ /\ ~Alive
       /\ link' = [session |-> "connecting", cred |-> cred]
       /\ status' = "connecting"

-----------------------------------------------------------------------------
(* RemoteAccessManager *)

(* A task of its own, in the first free slot. *)
Begin(op) ==
    \E o \in OpIds :
        /\ ~Running(o) /\ \A p \in 1..(o - 1) : Running(p)
        /\ ops' = [ops EXCEPT ![o] = op]

BeginByUser(op) ==
    /\ begun < MaxOps /\ begun' = begun + 1
    /\ Begin(op)
    /\ crossed' = (\/ crossed
                   \/ \E o \in OpIds : /\ ByUser(o)
                                       /\ "disconnect" \in {op.kind, ops[o].kind})

(* The user saves the settings, joins the relay or leaves it. *)
BeginUpdate(on) ==
    /\ BeginByUser([kind |-> "update", step |-> "begin", on |-> on, cred |-> NoCredential])
    /\ UNCHANGED <<enabled, credential, holder, link, status, relayVars>>

BeginDisconnect ==
    /\ BeginByUser([kind |-> "disconnect", step |-> "stopping", on |-> FALSE, cred |-> NoCredential])
    /\ UNCHANGED <<enabled, credential, holder, link, status, relayVars>>

(* enroll_relay_device up to the relay's answer. *)
BeginEnroll ==
    /\ issued <= MaxOps /\ issued' = issued + 1
    /\ BeginByUser([kind |-> "enroll", step |-> "begin", on |-> TRUE, cred |-> issued'])
    /\ UNCHANGED <<enabled, credential, holder, link, status, revoked, refusals, breaks>>

(* The new credential is stored before the lock is taken. *)
StoreCredential(o) ==
    /\ At(o, "enroll", "begin") /\ Goto(o, "locked")
    /\ credential' = ops[o].cred
    /\ UNCHANGED <<enabled, holder, userVars, link, status, relayVars>>

(* The settings are saved under the lock. *)
SaveSettings(o) ==
    /\ At(o, "update", "begin") \/ At(o, "enroll", "locked")
    /\ holder = Nobody /\ holder' = o
    /\ enabled' = ops[o].on
    /\ Goto(o, IF ops[o].kind = "enroll" THEN "stopping" ELSE "applying")
    /\ UNCHANGED <<credential, userVars, link, status, relayVars>>

(* Mutant of StopRelay: enrolling trusts start() to replace the link. *)
StopRelayUnlessEnrolling(o) ==
    \/ /\ At(o, "disconnect", "stopping") /\ StopLink /\ Goto(o, "clearing")
       /\ UNCHANGED <<enabled, credential, holder, userVars, relayVars>>
    \/ /\ At(o, "enroll", "stopping") /\ Goto(o, "applying")
       /\ UNCHANGED <<enabled, credential, holder, userVars, link, status, relayVars>>

(* relay.stop(): enrolling stops the previous link, disconnecting the last. *)
StopRelay(o) ==
    /\ ops[o].step = "stopping"
    /\ StopLink
    /\ Goto(o, IF ops[o].kind = "enroll" THEN "applying" ELSE "clearing")
    /\ UNCHANGED <<enabled, credential, holder, userVars, relayVars>>

(* apply_relay: the link is stopped, or started with the credential as read. *)
ApplyRelay(o) ==
    /\ ops[o].step = "applying"
    /\ \/ /\ ~enabled /\ StopLink
          /\ Done(o) /\ holder' = Nobody
       \/ /\ enabled /\ credential = NoCredential /\ ReportUnavailable
          /\ Done(o) /\ holder' = Nobody
       \/ /\ enabled /\ credential # NoCredential
          /\ ops' = [ops EXCEPT ![o].step = "starting", ![o].cred = credential]
          /\ UNCHANGED <<holder, link, status>>
    /\ UNCHANGED <<enabled, credential, userVars, relayVars>>

(* Mutant of StartRelay: the lock is not released. *)
StartRelayKeepsLock(o) ==
    /\ ops[o].step = "starting" /\ StartLink(ops[o].cred) /\ Done(o)
    /\ UNCHANGED <<enabled, credential, holder, userVars, relayVars>>

StartRelay(o) ==
    /\ ops[o].step = "starting"
    /\ StartLink(ops[o].cred)
    /\ Done(o) /\ holder' = Nobody
    /\ UNCHANGED <<enabled, credential, userVars, relayVars>>

(* disconnect_relay and forget_relay_device: the credential goes first, then, *)
(* under the lock, the setting.                                               *)
ClearCredential(o) ==
    /\ ops[o].step = "clearing" /\ Goto(o, "switching")
    /\ credential' = NoCredential
    /\ UNCHANGED <<enabled, holder, userVars, link, status, relayVars>>

SwitchOff(o) ==
    /\ ops[o].step = "switching" /\ Done(o)
    /\ holder = Nobody
    /\ enabled' = FALSE
    /\ UNCHANGED <<credential, holder, userVars, link, status, relayVars>>

-----------------------------------------------------------------------------
(* supervise and run_session *)

(* The hello is answered with a welcome. *)
Welcome ==
    /\ link.session = "connecting" /\ link.cred \notin revoked
    /\ link' = [link EXCEPT !.session = "connected"] /\ status' = "connected"
    /\ UNCHANGED <<enabled, credential, holder, ops, userVars, relayVars>>

(* The session ends with a revocation: a frame, or close code 4403. *)
SessionRevoked ==
    /\ link.session \in {"connecting", "connected"} /\ link.cred \in revoked
    /\ link' = [link EXCEPT !.session = "revoked"]
    /\ UNCHANGED <<enabled, credential, holder, ops, userVars, status, relayVars>>

SessionRefused ==
    /\ link.session \in {"connecting", "connected"} /\ refusals < MaxRefusals
    /\ refusals' = refusals + 1
    /\ link' = [link EXCEPT !.session = "refused"]
    /\ UNCHANGED <<enabled, credential, holder, ops, userVars, status, issued, revoked, breaks>>

(* ... or breaks: RetryAfter. *)
SessionBreaks ==
    /\ link.session \in {"connecting", "connected"} /\ breaks < MaxBreaks
    /\ breaks' = breaks + 1
    /\ link' = [link EXCEPT !.session = "waiting"] /\ status' = "error"
    /\ UNCHANGED <<enabled, credential, holder, ops, userVars, issued, revoked, refusals>>

Retry ==
    /\ link.session = "waiting"
    /\ link' = [link EXCEPT !.session = "connecting"] /\ status' = "connecting"
    /\ UNCHANGED <<enabled, credential, holder, ops, userVars, relayVars>>

(* Mutant: the callback waits for the lock and forgets the device in place. *)
SupervisorForgets ==
    /\ link.session = "revoked" /\ holder = Nobody
    /\ enabled' = FALSE /\ credential' = NoCredential
    /\ link' = NoLink /\ status' = "revoked"
    /\ UNCHANGED <<holder, ops, userVars, relayVars>>

(* Mutant: a revocation is treated as a refusal. *)
SupervisorKeepsCredential ==
    /\ link.session = "revoked"
    /\ link' = NoLink /\ status' = "error"
    /\ UNCHANGED <<enabled, credential, holder, ops, userVars, relayVars>>

(* Revoked: the status, then the callback, which spawns the manager's part    *)
(* rather than waiting for it.                                                *)
SupervisorRevoked ==
    /\ link.session = "revoked"
    /\ Begin([kind |-> "forget", step |-> "clearing", on |-> FALSE, cred |-> link.cred])
    /\ link' = NoLink /\ status' = "revoked"
    /\ UNCHANGED <<enabled, credential, holder, userVars, relayVars>>

SupervisorStops ==
    /\ link.session = "refused"
    /\ link' = NoLink /\ status' = "error"
    /\ UNCHANGED <<enabled, credential, holder, ops, userVars, relayVars>>

(* The relay withdraws the newest credential, or an older one. *)
Revoke(cred) ==
    /\ cred \in 1..issued /\ cred \notin revoked /\ Cardinality(revoked) < MaxRevocations
    /\ revoked' = revoked \cup {cred}
    /\ UNCHANGED <<enabled, credential, holder, ops, userVars, link, status, issued, refusals, breaks>>
-----------------------------------------------------------------------------
Step(o) == StoreCredential(o) \/ SaveSettings(o) \/ StopRelay(o)
              \/ ApplyRelay(o) \/ StartRelay(o) \/ ClearCredential(o) \/ SwitchOff(o)
Supervisor == Welcome \/ SessionRevoked \/ Retry \/ SupervisorRevoked \/ SupervisorStops
Environment ==
    \/ \E on \in BOOLEAN : BeginUpdate(on)
    \/ BeginDisconnect \/ BeginEnroll
    \/ SessionRefused \/ SessionBreaks
    \/ \E cred \in Credentials : Revoke(cred)

Next == (\E o \in OpIds : Step(o)) \/ Supervisor \/ Environment
Spec == Init /\ [][Next]_vars

(* The runtime runs its tasks, and every operation is a task of its own.      *)
FairSpec ==
    Spec /\ WF_vars(Supervisor) /\ \A o \in OpIds : WF_vars(Step(o))

-----------------------------------------------------------------------------
(* Properties *)

Quiet ==
    /\ \A o \in OpIds : ~Running(o)
    /\ link.session \in {"none", "connected"} /\ link.cred \notin revoked

(* The panel is not told of a link that is not there, nor the other way       *)
(* round, whatever stops, starts and ends of sessions overlap (LinkStatus,    *)
(* stop_running).                                                             *)
StatusTrue ==
    /\ link.session = "connected" => status = "connected"
    /\ status \in {"disabled", "revoked"} => ~Alive
    /\ status = "connected" => link.session \in {"connected", "revoked", "refused"}

(* Once nothing is under way, a link that is up is the one the settings ask   *)
(* for, with the credential that is stored, and a link that is missing is one *)
(* the settings do not ask for or one the panel explains: whatever overlaps,  *)
(* but for a disconnect_relay, which does not take the lock to stop the link, *)
(* and a revocation (apply_relay, enroll_relay_device).                       *)
LinkMatchesSettings ==
    Quiet /\ ~crossed /\ revoked = {} =>
        IF Alive THEN enabled /\ link.cred = credential
                 ELSE enabled => status = "error"

(* Every operation ends: what holds the state lock while it waits for the     *)
(* link is never waited for by the link (on_revoked spawns).                  *)
OpsFinish == \A o \in OpIds : Running(o) ~> ~Running(o)

(* A revoked device stops trying, and its setting goes off, unless the user   *)
(* does something about it (forget_relay_device).                             *)
RevocationApplied ==
    link.session = "revoked"
        ~> \/ ~enabled /\ credential \notin revoked
           \/ \E o \in OpIds : ByUser(o)

(* Both together: neither an operation nor the news of a revocation is held   *)
(* up by the other.                                                           *)
Settles == OpsFinish /\ RevocationApplied
=============================================================================
