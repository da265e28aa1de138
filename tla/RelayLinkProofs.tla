--------------------------- MODULE RelayLinkProofs ---------------------------
(***************************************************************************)
(* Proofs about RelayLink: its types, the truth of the status, and that    *)
(* the link ends up as the settings ask.                                   *)
(***************************************************************************)
EXTENDS RelayLink, TLAPS

(* Where each kind of operation can be. *)
KindSteps ==
    \A o \in OpIds :
        /\ ops[o].kind = "none" <=> ops[o].step = "done"
        /\ ops[o].kind = "update" => ops[o].step \in {"begin", "applying", "starting"}
        /\ ops[o].kind = "enroll" =>
              ops[o].step \in {"begin", "locked", "stopping", "applying", "starting"}
        /\ ops[o].kind = "disconnect" => ops[o].step \in {"stopping", "clearing", "switching"}
        /\ ops[o].kind = "forget" => ops[o].step \in {"clearing", "switching"}
        /\ ops[o].kind = "enroll" => ops[o].on

(* The operations that are past SaveSettings, and not done, hold the lock. *)
Inside(o) ==
    \/ ops[o].step \in {"applying", "starting"}
    \/ At(o, "enroll", "stopping")
LockHeld == \A o \in OpIds : Inside(o) => holder = o

(* Nothing was revoked, and no disconnect_relay ran beside another operation. *)
Plain == ~crossed /\ revoked = {}

EnrollAhead == \E e \in OpIds : At(e, "enroll", "locked") \/ At(e, "enroll", "stopping")

(* The link and the settings agree, but for what an operation that is under *)
(* way is about to do.                                                      *)
Matching ==
    /\ \A o \in OpIds : ops[o].kind # "forget"
    /\ link.session # "revoked"
    /\ \A o, p \in OpIds : ops[o].kind = "disconnect" /\ Running(p) => o = p
    /\ Alive /\ link.cred # credential => EnrollAhead
    /\ Alive /\ ~enabled => \E o \in OpIds : ops[o].step = "applying"
    /\ ~Alive /\ enabled /\ status # "error"
          => \E o \in OpIds : Inside(o) \/ ops[o].step \in {"clearing", "switching"}
    /\ \A o \in OpIds :
          /\ ops[o].kind = "enroll" /\ ops[o].step \in {"applying", "starting"} => ~Alive
          /\ ops[o].step \in {"clearing", "switching"} => ~Alive
          /\ ops[o].step = "starting" => enabled
          /\ ops[o].step = "starting" /\ ops[o].cred # credential
                => \E e \in OpIds : At(e, "enroll", "locked")
          /\ At(o, "enroll", "stopping") => enabled

IInv == TypeOK /\ StatusTrue /\ KindSteps /\ LockHeld /\ (Plain => Matching)

-----------------------------------------------------------------------------
(* No operation has the number of nobody. *)
LEMMA NobodyIsNoOp == Nobody \notin OpIds
BY RelayLinkAssumption DEF OpIds, Nobody

(* Every step keeps the types; the holder of the lock is under way. *)
LEMMA TypeStep ==
    TypeOK /\ [Next]_vars => TypeOK'
<1> SUFFICES ASSUME TypeOK, [Next]_vars
             PROVE  TypeOK'
  OBVIOUS
<1> USE DEF TypeOK, Running, Nobody, Kinds, Steps, Sessions, Statuses,
    NoCredential, Credentials
<1>1. ASSUME NEW o \in OpIds, StoreCredential(o) PROVE TypeOK'
  BY <1>1, RelayLinkAssumption DEF StoreCredential, Goto, At, relayVars,
      userVars
<1>2. ASSUME NEW o \in OpIds, SaveSettings(o) PROVE TypeOK'
  BY <1>2, RelayLinkAssumption DEF SaveSettings, Goto, At, relayVars, userVars
<1>3. ASSUME NEW o \in OpIds, StopRelay(o) PROVE TypeOK'
  BY <1>3, RelayLinkAssumption DEF StopRelay, Goto, StopLink, Stop, NoLink,
      Alive, relayVars, userVars
<1>4. ASSUME NEW o \in OpIds, ApplyRelay(o) PROVE TypeOK'
  <2>1. CASE ~enabled \/ credential = NoCredential
    <3>1. Done(o) /\ holder' = Nobody /\ (StopLink \/ ReportUnavailable)
      BY <1>4, <2>1 DEF ApplyRelay
    <3>2. link' = NoLink /\ status' \in {"disabled", "error"}
      BY <3>1 DEF StopLink, ReportUnavailable, Stop
    <3> QED
      BY <1>4, <3>1, <3>2 DEF ApplyRelay, Done, NoOp, NoLink, relayVars,
          userVars
  <2>2. CASE enabled /\ credential # NoCredential
    BY <1>4, <2>2 DEF ApplyRelay, relayVars, userVars
  <2> QED
    BY <2>1, <2>2
<1>5. ASSUME NEW o \in OpIds, StartRelay(o) PROVE TypeOK'
  BY <1>5, RelayLinkAssumption DEF StartRelay, Done, NoOp, StartLink, Alive,
      relayVars, userVars
<1>6. ASSUME NEW o \in OpIds, ClearCredential(o) PROVE TypeOK'
  BY <1>6, RelayLinkAssumption DEF ClearCredential, Goto, relayVars, userVars
<1>7. ASSUME NEW o \in OpIds, SwitchOff(o) PROVE TypeOK'
  BY <1>7, RelayLinkAssumption DEF SwitchOff, Done, NoOp, relayVars, userVars
<1>8. CASE Welcome
  BY <1>8, RelayLinkAssumption DEF Welcome, relayVars, userVars
<1>9. CASE SessionRevoked
  BY <1>9, RelayLinkAssumption DEF SessionRevoked, relayVars, userVars
<1>10. CASE Retry
  BY <1>10, RelayLinkAssumption DEF Retry, relayVars, userVars
<1>11. CASE SupervisorRevoked
  BY <1>11, RelayLinkAssumption DEF SupervisorRevoked, Begin, NoLink, relayVars,
      userVars
<1>12. CASE SupervisorStops
  BY <1>12, RelayLinkAssumption DEF SupervisorStops, NoLink, relayVars, userVars
<1>13. ASSUME NEW on \in BOOLEAN, BeginUpdate(on) PROVE TypeOK'
  BY <1>13, RelayLinkAssumption DEF BeginUpdate, BeginByUser, Begin, relayVars,
      userVars
<1>14. CASE BeginDisconnect
  BY <1>14, RelayLinkAssumption DEF BeginDisconnect, BeginByUser, Begin,
      relayVars, userVars
<1>15. CASE BeginEnroll
  BY <1>15, RelayLinkAssumption DEF BeginEnroll, BeginByUser, Begin, relayVars,
      userVars
<1>16. CASE SessionRefused
  BY <1>16, RelayLinkAssumption DEF SessionRefused, relayVars, userVars
<1>17. CASE SessionBreaks
  BY <1>17, RelayLinkAssumption DEF SessionBreaks, relayVars, userVars
<1>18. ASSUME NEW cred \in Credentials, Revoke(cred) PROVE TypeOK'
  BY <1>18, RelayLinkAssumption DEF Revoke, relayVars, userVars
<1>19. CASE UNCHANGED vars
  BY <1>19 DEF vars, relayVars, userVars
<1> QED
  BY <1>1, <1>2, <1>3, <1>4, <1>5, <1>6, <1>7, <1>8, <1>9, <1>10, <1>11, <1>12,
      <1>13, <1>14, <1>15, <1>16, <1>17, <1>18, <1>19 DEF Next, Step,
      Supervisor, Environment

(* The status follows the link: LinkStatus is written where the link changes. *)
LEMMA StatusStep ==
    TypeOK /\ StatusTrue /\ [Next]_vars => StatusTrue'
<1> SUFFICES ASSUME TypeOK, StatusTrue, [Next]_vars
             PROVE  StatusTrue'
  OBVIOUS
<1> USE DEF TypeOK, StatusTrue, Alive, Sessions, Statuses
<1>1. ASSUME NEW o \in OpIds, StoreCredential(o) PROVE StatusTrue'
  BY <1>1 DEF StoreCredential, Goto, At, relayVars, userVars
<1>2. ASSUME NEW o \in OpIds, SaveSettings(o) PROVE StatusTrue'
  BY <1>2 DEF SaveSettings, Goto, At, relayVars, userVars
<1>3. ASSUME NEW o \in OpIds, StopRelay(o) PROVE StatusTrue'
  BY <1>3 DEF StopRelay, Goto, StopLink, Stop, NoLink, NoCredential, relayVars,
      userVars
<1>4. ASSUME NEW o \in OpIds, ApplyRelay(o) PROVE StatusTrue'
  BY <1>4 DEF ApplyRelay, Done, NoOp, StopLink, ReportUnavailable, Stop, NoLink,
      NoCredential, relayVars, userVars
<1>5. ASSUME NEW o \in OpIds, StartRelay(o) PROVE StatusTrue'
  BY <1>5 DEF StartRelay, Done, NoOp, StartLink, NoCredential, relayVars,
      userVars
<1>6. ASSUME NEW o \in OpIds, ClearCredential(o) PROVE StatusTrue'
  BY <1>6 DEF ClearCredential, Goto, NoCredential, relayVars, userVars
<1>7. ASSUME NEW o \in OpIds, SwitchOff(o) PROVE StatusTrue'
  BY <1>7 DEF SwitchOff, Done, NoOp, NoCredential, relayVars, userVars
<1>8. CASE Welcome
  BY <1>8 DEF Welcome, relayVars, userVars
<1>9. CASE SessionRevoked
  BY <1>9 DEF SessionRevoked, relayVars, userVars
<1>10. CASE Retry
  BY <1>10 DEF Retry, relayVars, userVars
<1>11. CASE SupervisorRevoked
  BY <1>11 DEF SupervisorRevoked, Begin, NoLink, NoCredential, relayVars,
      userVars
<1>12. CASE SupervisorStops
  BY <1>12 DEF SupervisorStops, NoLink, NoCredential, relayVars, userVars
<1>13. ASSUME NEW on \in BOOLEAN, BeginUpdate(on) PROVE StatusTrue'
  BY <1>13 DEF BeginUpdate, BeginByUser, Begin, NoCredential, relayVars,
      userVars
<1>14. CASE BeginDisconnect
  BY <1>14 DEF BeginDisconnect, BeginByUser, Begin, NoCredential, relayVars,
      userVars
<1>15. CASE BeginEnroll
  BY <1>15 DEF BeginEnroll, BeginByUser, Begin, Credentials, NoCredential,
      relayVars, userVars
<1>16. CASE SessionRefused
  BY <1>16 DEF SessionRefused, relayVars, userVars
<1>17. CASE SessionBreaks
  BY <1>17 DEF SessionBreaks, relayVars, userVars
<1>18. ASSUME NEW cred \in Credentials, Revoke(cred) PROVE StatusTrue'
  BY <1>18 DEF Revoke, relayVars, userVars
<1>19. CASE UNCHANGED vars
  BY <1>19 DEF vars, relayVars, userVars
<1> QED
  BY <1>1, <1>2, <1>3, <1>4, <1>5, <1>6, <1>7, <1>8, <1>9, <1>10, <1>11, <1>12,
      <1>13, <1>14, <1>15, <1>16, <1>17, <1>18, <1>19 DEF Next, Step,
      Supervisor, Environment

(* An operation goes from step to step as its kind does. *)
LEMMA KindStepsStep ==
    TypeOK /\ KindSteps /\ [Next]_vars => KindSteps'
<1> SUFFICES ASSUME TypeOK, KindSteps, [Next]_vars
             PROVE  KindSteps'
  OBVIOUS
<1> USE DEF TypeOK, KindSteps
<1>1. ASSUME NEW o \in OpIds, StoreCredential(o) PROVE KindSteps'
  BY <1>1 DEF StoreCredential, Goto, At, relayVars, userVars
<1>2. ASSUME NEW o \in OpIds, SaveSettings(o) PROVE KindSteps'
  BY <1>2 DEF SaveSettings, Goto, At, relayVars, userVars
<1>3. ASSUME NEW o \in OpIds, StopRelay(o) PROVE KindSteps'
  BY <1>3 DEF StopRelay, Goto, StopLink, Stop, NoLink, Alive, NoCredential,
      relayVars, userVars
<1>4. ASSUME NEW o \in OpIds, ApplyRelay(o) PROVE KindSteps'
  BY <1>4 DEF ApplyRelay, Done, NoOp, StopLink, ReportUnavailable, Stop, NoLink,
      NoCredential, Alive, relayVars, userVars
<1>5. ASSUME NEW o \in OpIds, StartRelay(o) PROVE KindSteps'
  BY <1>5 DEF StartRelay, Done, NoOp, StartLink, NoCredential, Alive, relayVars,
      userVars
<1>6. ASSUME NEW o \in OpIds, ClearCredential(o) PROVE KindSteps'
  BY <1>6 DEF ClearCredential, Goto, NoCredential, relayVars, userVars
<1>7. ASSUME NEW o \in OpIds, SwitchOff(o) PROVE KindSteps'
  BY <1>7 DEF SwitchOff, Done, NoOp, NoCredential, relayVars, userVars
<1>8. CASE Welcome
  BY <1>8 DEF Welcome, relayVars, userVars
<1>9. CASE SessionRevoked
  BY <1>9 DEF SessionRevoked, relayVars, userVars
<1>10. CASE Retry
  BY <1>10 DEF Retry, relayVars, userVars
<1>11. CASE SupervisorRevoked
  BY <1>11 DEF SupervisorRevoked, Begin, NoLink, NoCredential, relayVars,
      userVars
<1>12. CASE SupervisorStops
  BY <1>12 DEF SupervisorStops, NoLink, NoCredential, relayVars, userVars
<1>13. ASSUME NEW on \in BOOLEAN, BeginUpdate(on) PROVE KindSteps'
  BY <1>13 DEF BeginUpdate, BeginByUser, Begin, NoCredential, relayVars,
      userVars
<1>14. CASE BeginDisconnect
  BY <1>14 DEF BeginDisconnect, BeginByUser, Begin, NoCredential, relayVars,
      userVars
<1>15. CASE BeginEnroll
  BY <1>15 DEF BeginEnroll, BeginByUser, Begin, Credentials, NoCredential,
      relayVars, userVars
<1>16. CASE SessionRefused
  BY <1>16 DEF SessionRefused, relayVars, userVars
<1>17. CASE SessionBreaks
  BY <1>17 DEF SessionBreaks, relayVars, userVars
<1>18. ASSUME NEW cred \in Credentials, Revoke(cred) PROVE KindSteps'
  BY <1>18 DEF Revoke, relayVars, userVars
<1>19. CASE UNCHANGED vars
  BY <1>19 DEF vars, relayVars, userVars
<1> QED
  BY <1>1, <1>2, <1>3, <1>4, <1>5, <1>6, <1>7, <1>8, <1>9, <1>10, <1>11, <1>12,
      <1>13, <1>14, <1>15, <1>16, <1>17, <1>18, <1>19 DEF Next, Step,
      Supervisor, Environment

(* The lock excludes: what is past SaveSettings holds it. *)
LEMMA LockStep ==
    TypeOK /\ KindSteps /\ LockHeld /\ [Next]_vars => LockHeld'
<1> SUFFICES ASSUME TypeOK, KindSteps, LockHeld, [Next]_vars
             PROVE  LockHeld'
  OBVIOUS
<1> USE DEF TypeOK, KindSteps, LockHeld, Inside, At, Running
<1>1. ASSUME NEW o \in OpIds, StoreCredential(o) PROVE LockHeld'
  BY <1>1 DEF StoreCredential, Goto, relayVars, userVars
<1>2. ASSUME NEW o \in OpIds, SaveSettings(o) PROVE LockHeld'
  BY <1>2, NobodyIsNoOp DEF SaveSettings, Goto
<1>3. ASSUME NEW o \in OpIds, StopRelay(o) PROVE LockHeld'
  BY <1>3 DEF StopRelay, Goto, StopLink, Stop, NoLink, Alive, NoCredential,
      relayVars, userVars
<1>4. ASSUME NEW o \in OpIds, ApplyRelay(o) PROVE LockHeld'
  BY <1>4 DEF ApplyRelay, Done, NoOp, StopLink, ReportUnavailable, Stop, NoLink,
      NoCredential, Alive, relayVars, userVars
<1>5. ASSUME NEW o \in OpIds, StartRelay(o) PROVE LockHeld'
  BY <1>5 DEF StartRelay, Done, NoOp, StartLink, NoCredential, Alive, relayVars,
      userVars
<1>6. ASSUME NEW o \in OpIds, ClearCredential(o) PROVE LockHeld'
  BY <1>6 DEF ClearCredential, Goto, NoCredential, relayVars, userVars
<1>7. ASSUME NEW o \in OpIds, SwitchOff(o) PROVE LockHeld'
  BY <1>7 DEF SwitchOff, Done, NoOp, NoCredential, relayVars, userVars
<1>8. CASE Welcome
  BY <1>8 DEF Welcome, relayVars, userVars
<1>9. CASE SessionRevoked
  BY <1>9 DEF SessionRevoked, relayVars, userVars
<1>10. CASE Retry
  BY <1>10 DEF Retry, relayVars, userVars
<1>11. CASE SupervisorRevoked
  BY <1>11 DEF SupervisorRevoked, Begin, NoLink, NoCredential, relayVars,
      userVars
<1>12. CASE SupervisorStops
  BY <1>12 DEF SupervisorStops, NoLink, NoCredential, relayVars, userVars
<1>13. ASSUME NEW on \in BOOLEAN, BeginUpdate(on) PROVE LockHeld'
  BY <1>13 DEF BeginUpdate, BeginByUser, Begin, NoCredential, relayVars,
      userVars
<1>14. CASE BeginDisconnect
  BY <1>14 DEF BeginDisconnect, BeginByUser, Begin, NoCredential, relayVars,
      userVars
<1>15. CASE BeginEnroll
  BY <1>15 DEF BeginEnroll, BeginByUser, Begin, Credentials, NoCredential,
      relayVars, userVars
<1>16. CASE SessionRefused
  BY <1>16 DEF SessionRefused, relayVars, userVars
<1>17. CASE SessionBreaks
  BY <1>17 DEF SessionBreaks, relayVars, userVars
<1>18. ASSUME NEW cred \in Credentials, Revoke(cred) PROVE LockHeld'
  BY <1>18 DEF Revoke, relayVars, userVars
<1>19. CASE UNCHANGED vars
  BY <1>19 DEF vars, relayVars, userVars
<1> QED
  BY <1>1, <1>2, <1>3, <1>4, <1>5, <1>6, <1>7, <1>8, <1>9, <1>10, <1>11, <1>12,
      <1>13, <1>14, <1>15, <1>16, <1>17, <1>18, <1>19 DEF Next, Step,
      Supervisor, Environment

(* The link and the settings keep agreeing. *)
LEMMA MatchingStep ==
    TypeOK /\ KindSteps /\ LockHeld /\ (Plain => Matching) /\ [Next]_vars => (Plain => Matching)'
<1> SUFFICES ASSUME TypeOK, KindSteps, LockHeld, Plain => Matching, [Next]_vars
             PROVE  (Plain => Matching)'
  OBVIOUS
<1> USE DEF TypeOK, KindSteps, LockHeld, Plain, Matching, Inside, EnrollAhead,
    At, Running, Alive, ByUser
<1>1. ASSUME NEW o \in OpIds, StoreCredential(o) PROVE (Plain => Matching)'
  BY <1>1 DEF StoreCredential, Goto, relayVars, userVars
<1>2. ASSUME NEW o \in OpIds, SaveSettings(o) PROVE (Plain => Matching)'
  <2> SUFFICES ASSUME Plain' PROVE Matching'
    OBVIOUS
  <2>1. Matching
    BY <1>2 DEF SaveSettings, userVars, relayVars
  <2>2. \A p \in OpIds : ~Inside(p)
    BY <1>2, NobodyIsNoOp DEF SaveSettings
  <2>3. Alive /\ link.cred # credential => \E e \in OpIds : At(e, "enroll", "locked")
    BY <2>1, <2>2
  <2>4. \A p \in OpIds : p # o => ops'[p] = ops[p]
    BY <1>2 DEF SaveSettings, Goto
  <2>5. Alive' = Alive /\ UNCHANGED <<link, status, credential>>
    BY <1>2 DEF SaveSettings
  <2>6. CASE At(o, "update", "begin")
    <3>1. /\ ops'[o].kind = "update" /\ ops'[o].step = "applying" /\ ops'[o].cred = ops[o].cred
      BY <1>2, <2>6 DEF SaveSettings, Goto
    <3> QED
      BY <2>1, <2>2, <2>3, <2>4, <2>5, <2>6, <3>1
  <2>7. CASE At(o, "enroll", "locked")
    <3>1. /\ ops'[o].kind = "enroll" /\ ops'[o].step = "stopping" /\ enabled'
      BY <1>2, <2>7 DEF SaveSettings, Goto
    <3> QED
      BY <2>1, <2>2, <2>3, <2>4, <2>5, <2>7, <3>1
  <2> QED
    BY <1>2, <2>6, <2>7 DEF SaveSettings
<1>3. ASSUME NEW o \in OpIds, StopRelay(o) PROVE (Plain => Matching)'
  BY <1>3 DEF StopRelay, Goto, StopLink, Stop, NoLink, NoCredential, relayVars,
      userVars
<1>4. ASSUME NEW o \in OpIds, ApplyRelay(o) PROVE (Plain => Matching)'
  BY <1>4 DEF ApplyRelay, Done, NoOp, StopLink, ReportUnavailable, Stop, NoLink,
      NoCredential, relayVars, userVars
<1>5. ASSUME NEW o \in OpIds, StartRelay(o) PROVE (Plain => Matching)'
  <2> SUFFICES ASSUME Plain' PROVE Matching'
    OBVIOUS
  <2>1. Matching
    BY <1>5 DEF StartRelay, userVars, relayVars
  <2>2. enabled /\ (ops[o].cred # credential => \E e \in OpIds : e # o /\ At(e, "enroll", "locked"))
    BY <1>5, <2>1 DEF StartRelay
  <2>3. \A p \in OpIds : p # o => ~Inside(p) /\ ops'[p] = ops[p]
    BY <1>5 DEF StartRelay, Done
  <2>4. ops'[o] = NoOp /\ UNCHANGED <<enabled, credential>>
    BY <1>5 DEF StartRelay, Done
  <2>5. \A p \in OpIds : ops[p].step \notin {"clearing", "switching"}
    <3>1. \A p \in OpIds : ops[p].step \in {"clearing", "switching"} => ops[p].kind = "disconnect"
      BY <2>1 DEF Kinds
    <3> QED
      BY <1>5, <2>1, <3>1 DEF StartRelay
  <2>6. CASE Alive /\ UNCHANGED <<link, status>>
    <3>1. link.cred # credential => \E e \in OpIds : e # o /\ At(e, "enroll", "locked")
      BY <1>5, <2>1, <2>3, <2>6 DEF StartRelay
    <3> QED
      BY <2>1, <2>2, <2>3, <2>4, <2>5, <2>6, <3>1 DEF NoOp
  <2>7. CASE link' = [session |-> "connecting", cred |-> ops[o].cred]
    BY <2>1, <2>2, <2>3, <2>4, <2>5, <2>7 DEF NoOp
  <2> QED
    BY <1>5, <2>6, <2>7 DEF StartRelay, StartLink
<1>6. ASSUME NEW o \in OpIds, ClearCredential(o) PROVE (Plain => Matching)'
  <2> SUFFICES ASSUME Plain' PROVE Matching'
    OBVIOUS
  <2>1. Matching
    BY <1>6 DEF ClearCredential, userVars, relayVars
  <2>2. ops[o].kind = "disconnect" /\ ~Alive
    BY <1>6, <2>1 DEF ClearCredential, Kinds
  <2>3. \A p \in OpIds : p # o => ops[p].step = "done" /\ ops'[p] = ops[p]
    BY <1>6, <2>1, <2>2 DEF ClearCredential, Goto
  <2>4. ops'[o].kind = "disconnect" /\ ops'[o].step = "switching" /\ UNCHANGED <<enabled, link, status>>
    BY <1>6, <2>2 DEF ClearCredential, Goto
  <2> QED
    BY <2>1, <2>2, <2>3, <2>4
<1>7. ASSUME NEW o \in OpIds, SwitchOff(o) PROVE (Plain => Matching)'
  <2> SUFFICES ASSUME Plain' PROVE Matching'
    OBVIOUS
  <2>1. Matching
    BY <1>7 DEF SwitchOff, userVars, relayVars
  <2>2. ops[o].kind = "disconnect" /\ ~Alive
    BY <1>7, <2>1 DEF SwitchOff, Kinds
  <2>3. \A p \in OpIds : p # o => ops[p].step = "done" /\ ops'[p] = ops[p]
    BY <1>7, <2>1, <2>2 DEF SwitchOff, Done
  <2>4. ops'[o] = NoOp /\ ~enabled' /\ UNCHANGED <<credential, link, status>>
    BY <1>7 DEF SwitchOff, Done
  <2> QED
    BY <2>1, <2>2, <2>3, <2>4 DEF NoOp
<1>8. CASE Welcome
  BY <1>8 DEF Welcome, relayVars, userVars
<1>9. CASE SessionRevoked
  BY <1>9 DEF SessionRevoked, relayVars, userVars
<1>10. CASE Retry
  BY <1>10 DEF Retry, relayVars, userVars
<1>11. CASE SupervisorRevoked
  BY <1>11 DEF SupervisorRevoked, Begin, NoLink, NoCredential, relayVars,
      userVars
<1>12. CASE SupervisorStops
  BY <1>12 DEF SupervisorStops, NoLink, NoCredential, relayVars, userVars
<1>13. ASSUME NEW on \in BOOLEAN, BeginUpdate(on) PROVE (Plain => Matching)'
  BY <1>13 DEF BeginUpdate, BeginByUser, Begin, NoCredential, relayVars,
      userVars
<1>14. CASE BeginDisconnect
  <2> SUFFICES ASSUME Plain' PROVE Matching'
    OBVIOUS
  <2>1. Matching /\ ~crossed
    BY <1>14 DEF BeginDisconnect, BeginByUser, relayVars
  <2>2. \A p \in OpIds : ops[p].kind = "none"
    <3>1. \A p \in OpIds : ~ByUser(p)
      BY <1>14 DEF BeginDisconnect, BeginByUser
    <3> QED
      BY <2>1, <3>1 DEF Kinds
  <2>3. \A p \in OpIds : ops[p].step = "done"
    BY <2>2
  <2>4. PICK o \in OpIds : ops' = [ops EXCEPT ![o] =
            [kind |-> "disconnect", step |-> "stopping", on |-> FALSE, cred |-> NoCredential]]
    BY <1>14 DEF BeginDisconnect, BeginByUser, Begin
  <2>5. UNCHANGED <<enabled, credential, link, status>>
    BY <1>14 DEF BeginDisconnect
  <2> QED
    BY <2>1, <2>2, <2>3, <2>4, <2>5
<1>15. CASE BeginEnroll
  BY <1>15 DEF BeginEnroll, BeginByUser, Begin, Credentials, NoCredential,
      relayVars, userVars
<1>16. CASE SessionRefused
  BY <1>16 DEF SessionRefused, relayVars, userVars
<1>17. CASE SessionBreaks
  BY <1>17 DEF SessionBreaks, relayVars, userVars
<1>18. ASSUME NEW cred \in Credentials, Revoke(cred) PROVE (Plain => Matching)'
  BY <1>18 DEF Revoke, relayVars, userVars
<1>19. CASE UNCHANGED vars
  BY <1>19 DEF vars, relayVars, userVars
<1> QED
  BY <1>1, <1>2, <1>3, <1>4, <1>5, <1>6, <1>7, <1>8, <1>9, <1>10, <1>11, <1>12,
      <1>13, <1>14, <1>15, <1>16, <1>17, <1>18, <1>19 DEF Next, Step,
      Supervisor, Environment

-----------------------------------------------------------------------------
LEMMA InitIInv == Init => IInv
<1> SUFFICES ASSUME Init PROVE IInv
  OBVIOUS
<1>1. TypeOK
  <2>1. \/ ops = [o \in OpIds |-> NoOp] /\ holder = Nobody
        \/ ops = [o \in OpIds |-> IF o = 1 THEN StartUp ELSE NoOp] /\ holder = 1 /\ 1 \in OpIds
    BY RelayLinkAssumption DEF Init, OpIds
  <2>2. {NoOp, StartUp} \subseteq [kind : Kinds, step : Steps, on : BOOLEAN,
                                  cred : Credentials \cup {NoCredential}]
    BY DEF NoOp, StartUp, Kinds, Steps
  <2>3. ops \in [OpIds -> [kind : Kinds, step : Steps, on : BOOLEAN,
                          cred : Credentials \cup {NoCredential}]]
    BY <2>1, <2>2
  <2>4. holder \in {Nobody} \cup {o \in OpIds : Running(o)}
    BY <2>1 DEF Running, StartUp
  <2>5. issued \in 0..(MaxOps + 1) /\ begun \in 0..MaxOps /\ credential \in Credentials \cup {NoCredential}
    BY RelayLinkAssumption DEF Init, Credentials, NoCredential
  <2> QED
    BY <2>3, <2>4, <2>5 DEF Init, TypeOK, NoLink, Sessions, Statuses
<1>2. StatusTrue
  BY DEF Init, StatusTrue, NoLink, Alive
<1>3. KindSteps /\ LockHeld
  BY DEF Init, KindSteps, LockHeld, Inside, At, NoOp, StartUp
<1>4. Matching
  BY RelayLinkAssumption
  DEF Init, Matching, NoOp, NoLink, StartUp, Alive, Running, Inside, At, OpIds
<1> QED
  BY <1>1, <1>2, <1>3, <1>4 DEF IInv

LEMMA StepIInv == IInv /\ [Next]_vars => IInv'
BY TypeStep, StatusStep, KindStepsStep, LockStep, MatchingStep DEF IInv

(* Once every operation is done there is nothing left that could excuse a    *)
(* link that differs from the settings.                                      *)
LEMMA IInvMatches == IInv => LinkMatchesSettings
<1> SUFFICES ASSUME IInv, Quiet, Plain
             PROVE  IF Alive THEN enabled /\ link.cred = credential
                             ELSE enabled => status = "error"
  BY DEF LinkMatchesSettings, Plain
<1>1. \A o \in OpIds : ops[o].step = "done"
  BY DEF Quiet, Running
<1> QED
  BY <1>1 DEF IInv, Matching, EnrollAhead, Inside, At

(* The types, and that whoever holds the state lock is an operation that has *)
(* yet to finish: no path of update_settings, enroll_relay_device or         *)
(* apply_relay returns with the lock held.                                   *)
THEOREM TypeCorrect == Spec => []TypeOK
<1>1. IInv => TypeOK
  BY DEF IInv
<1> QED
  BY <1>1, InitIInv, StepIInv, PTL DEF Spec

(* The status the panel shows never claims a link that is not there, and     *)
(* never hides one that is, for any number of operations, revocations,       *)
(* refusals and breaks.                                                      *)
THEOREM StatusIsTrue == Spec => []StatusTrue
<1>1. IInv => StatusTrue
  BY DEF IInv
<1> QED
  BY <1>1, InitIInv, StepIInv, PTL DEF Spec

(* Whatever update_settings and enroll_relay_device overlap, the link that   *)
(* is up in the end is the one the settings ask for, with the credential     *)
(* that is stored.                                                           *)
THEOREM LinkAsSettingsAsk == Spec => []LinkMatchesSettings
BY InitIInv, StepIInv, IInvMatches, PTL DEF Spec
=============================================================================
