-------------------------- MODULE TerminalGridProofs ---------------------------
(***************************************************************************)
(* What is proved about TerminalGrid, for any number of windows, browsers  *)
(* and grids: a quiet view has the PTY's grid and a screen drawn for it,   *)
(* but for the views the ghosts name.                                      *)
(***************************************************************************)
EXTENDS TerminalGrid, TLAPS

-----------------------------------------------------------------------------
(* The invariant.                                                           *)

CallFits(c) ==
    /\ c.kind # "read" => c.grid \in Grids
    /\ c.kind = "read" => c.id <= opens
    /\ c.link <= link[c.viewer].number
    /\ link[c.viewer].up => c.link # 0

AnswerFits(a) ==
    /\ a.kind = "start" => pty.running /\ a.grid \in Grids
    /\ a.kind = "read" => a.id <= opens
    /\ link[a.viewer].up

Typed ==
    /\ TypeOK
    /\ pty.running => pty.grid \in Grids
    /\ \A c \in calls : CallFits(c)
    /\ \A a \in answers : AnswerFits(a)
    /\ \A c \in Range(turns) : c.kind \in Claims \cup {"report"} /\ c.grid \in Grids

(* The reads of a view that will be answered to it.                         *)
Current(v) == IF link[v].up THEN link[v].number ELSE 0
ReadsOf(v) ==
    {c \in calls : c.viewer = v /\ c.kind = "read" /\ c.id = panel[v].id /\ c.link = Current(v)}

(* A panel that reads has one read on its way, or its answer.               *)
OneRead(v) ==
    IF panel[v].reading
    THEN \/ Answers(v, "read") = {} /\ \E c : ReadsOf(v) = {c}
         \/ ReadsOf(v) = {} /\ \E a : Answers(v, "read") = {a}
    ELSE ReadsOf(v) = {} /\ Answers(v, "read") = {}

Opened(v) ==
    /\ Open(v) => panel[v].id \in 1 .. opens /\ OneRead(v)
    /\ ~Open(v) => ~panel[v].reading

(* The last event a view will see names the PTY's grid, or is a Resync in   *)
(* its place.                                                               *)
Heading(v) ==
    /\ resized[v] # <<>> => pty.running /\ resized[v][Len(resized[v])] \in {pty.grid, None}
    /\ ~link[v].up => resized[v] = <<>>
Following(v) ==
    Ready(v) => /\ pty.running
                /\ v \in astray \/ resized[v] # <<>> \/ panel[v].emulator = pty.grid

(* The grids the emulator has and will have.  Whatever the screen on show,  *)
(* or the one about to be shown, was drawn for is one of them; if they are  *)
(* not all the same, the next change draws it again, or joins.  A Resync    *)
(* that is still to come draws it again as well.                            *)
Path(v) == {panel[v].emulator} \cup Range(resized[v])
Lost(v) == None \in Range(resized[v])
Drawn(v) ==
    panel[v].stage \in {"drawing", "live"} /\ v \notin astray \cup joined /\ ~Lost(v) =>
        IF panel[v].reading THEN \A a \in Answers(v, "read") : a.grid \in Path(v)
        ELSE link[v].up /\ v \notin undrawn => panel[v].drawnFor \in Path(v)

ViewFits(v) == Opened(v) /\ Heading(v) /\ Following(v) /\ Drawn(v)

IInv == Typed /\ \A v \in Viewers : ViewFits(v)

-----------------------------------------------------------------------------
(* Sequences.                                                               *)

LEMMA Appended ==
    ASSUME NEW S, NEW s, s \in Seq(S), NEW x, NEW z, z = Append(s, x)
    PROVE  z # <<>> /\ z[Len(z)] = x /\ Range(z) = Range(s) \cup {x}
<1>1. /\ Len(z) = Len(s) + 1 /\ Len(s) \in Nat /\ z[Len(s) + 1] = x
      /\ \A i \in 1 .. Len(s) : z[i] = s[i]
      /\ DOMAIN z = 1 .. Len(s) + 1 /\ DOMAIN s = 1 .. Len(s)
  <2>1. s \in Seq(S \cup {x}) /\ x \in S \cup {x}
    OBVIOUS
  <2> QED
    BY <2>1
<1>2. Range(z) = Range(s) \cup {x}
  BY <1>1 DEF Range
<1>3. z # <<>>
  <2>1. Len(<<>>) = 0
    OBVIOUS
  <2> QED
    BY <1>1, <2>1
<1> QED
  BY <1>1, <1>2, <1>3

LEMMA Taken ==
    ASSUME NEW S, NEW s, s \in Seq(S), s # <<>>, NEW z, z = Tail(s)
    PROVE  /\ Head(s) \in S /\ Range(s) = Range(z) \cup {Head(s)}
           /\ IF z = <<>> THEN Head(s) = s[Len(s)] ELSE z[Len(z)] = s[Len(s)]
<1>1. /\ Len(s) \in Nat \ {0} /\ Len(z) = Len(s) - 1 /\ Head(s) = s[1]
      /\ \A i \in 1 .. Len(z) : z[i] = s[i + 1]
      /\ DOMAIN z = 1 .. Len(z) /\ DOMAIN s = 1 .. Len(s)
      /\ Head(s) \in S
  OBVIOUS
<1>2. Range(s) = Range(z) \cup {Head(s)}
  <2>1. ASSUME NEW i \in 1 .. Len(s)
        PROVE  s[i] \in Range(z) \cup {Head(s)}
    <3>1. CASE i = 1
      BY <1>1, <3>1
    <3>2. CASE i # 1
      <4>1. i - 1 \in 1 .. Len(z) /\ (i - 1) + 1 = i
        BY <1>1, <2>1, <3>2
      <4>2. s[i] = z[i - 1]
        BY <1>1, <4>1
      <4> QED
        BY <1>1, <4>1, <4>2 DEF Range
    <3> QED
      BY <3>1, <3>2
  <2>2. ASSUME NEW j \in 1 .. Len(z)
        PROVE  z[j] \in Range(s)
    <3>1. j + 1 \in 1 .. Len(s) /\ z[j] = s[j + 1]
      BY <1>1, <2>2
    <3> QED
      BY <1>1, <3>1 DEF Range
  <2>3. Head(s) \in Range(s)
    BY <1>1 DEF Range
  <2> QED
    BY <1>1, <2>1, <2>2, <2>3 DEF Range
<1>3. CASE z = <<>>
  <2>1. Len(<<>>) = 0
    OBVIOUS
  <2>2. Len(z) = 0
    BY <1>3, <2>1
  <2>3. PICK n \in Nat : n = Len(s)
    BY <1>1
  <2>4. n = 1
    <3>1. Len(z) = n - 1
      BY <1>1, <2>3
    <3> QED
      BY <2>2, <3>1
  <2> QED
    BY <1>1, <1>2, <1>3, <2>3, <2>4
<1>4. CASE z # <<>>
  <2>1. Len(z) \in 1 .. Len(z) /\ Len(z) + 1 = Len(s)
    <3>1. Len(z) \in Nat /\ Len(z) # 0
      BY <1>1, <1>4
    <3> QED
      BY <1>1, <3>1
  <2> QED
    BY <1>1, <1>2, <1>4, <2>1
<1> QED
  BY <1>3, <1>4

-----------------------------------------------------------------------------
(* What a view does leaves the others alone.                                *)

Same(o) ==
    /\ panel'[o] = panel[o] /\ link'[o] = link[o] /\ resized'[o] = resized[o]
    /\ o \in astray' <=> o \in astray
    /\ o \in joined' <=> o \in joined
    /\ o \in undrawn' <=> o \in undrawn
    /\ \A c \in calls \cup calls' : c.viewer = o => c \in calls /\ c \in calls'
    /\ \A a \in answers \cup answers' : a.viewer = o => a \in answers /\ a \in answers'

LEMMA SameView ==
    ASSUME NEW o \in Viewers, ViewFits(o), Same(o), pty'.grid = pty.grid, pty'.running = pty.running,
           opens \in Nat, opens' \in Nat, opens <= opens'
    PROVE  ViewFits(o)'
<1>1. ReadsOf(o)' = ReadsOf(o) /\ Answers(o, "read")' = Answers(o, "read")
  BY DEF Same, ReadsOf, Answers, Current
<1>2. OneRead(o)' <=> OneRead(o)
  BY <1>1 DEF OneRead, Same
<1>3. Open(o)' <=> Open(o)
  BY DEF Open, Same
<1>4. Opened(o)'
  BY <1>2, <1>3 DEF ViewFits, Opened, Same
<1>5. Heading(o)'
  BY DEF ViewFits, Heading, Same
<1>6. Following(o)'
  BY DEF ViewFits, Following, Ready, Same
<1>7. Drawn(o)'
  BY <1>1 DEF ViewFits, Drawn, Lost, Path, Same
<1> QED
  BY <1>4, <1>5, <1>6, <1>7 DEF ViewFits

(* The calls a view sends.                                                  *)
LEMMA Sending ==
    ASSUME TypeOK, NEW sent \in SUBSET Calls, Send(sent)
    PROVE  /\ calls \subseteq calls' /\ calls' \subseteq calls \cup sent
           /\ \A c \in sent : c.kind \in {"start", "read"} => c \in calls'
           /\ turns' \in Seq(Calls)
           /\ \A c \in Range(turns') : c \in Range(turns) \/ (c \in sent /\ c.kind \in Claims \cup {"report"})
<1>1. calls' = calls \cup {c \in sent : ~InTurn(c)}
  BY DEF Send
<1>2. \A c \in sent : c.kind \in {"start", "read"} => ~InTurn(c)
  BY DEF InTurn, Claims
<1>3. CASE turns' = turns
  BY <1>1, <1>2, <1>3 DEF TypeOK
<1>4. ASSUME NEW c \in sent, InTurn(c), turns' = Append(turns, c)
      PROVE  /\ turns' \in Seq(Calls)
             /\ \A d \in Range(turns') : d \in Range(turns) \/ (d \in sent /\ d.kind \in Claims \cup {"report"})
  <2>1. turns \in Seq(Calls) /\ c \in Calls
    BY DEF TypeOK
  <2>2. PICK ts : ts = Append(turns, c)
    OBVIOUS
  <2>3. Range(ts) = Range(turns) \cup {c}
    BY <2>1, <2>2, Appended
  <2>4. ts \in Seq(Calls)
    BY <2>1, <2>2
  <2> QED
    BY <1>4, <2>2, <2>3, <2>4 DEF InTurn
<1> QED
  BY <1>1, <1>2, <1>3, <1>4 DEF Send

LEMMA NewCall ==
    ASSUME TypeOK, NEW v \in Viewers, NEW kind \in Kinds, NEW id \in Nat, NEW grid \in Grids \cup {None},
           NEW c, c = Call(v, kind, id, grid)
    PROVE  /\ c \in Calls /\ c.viewer = v /\ c.kind = kind /\ c.id = id /\ c.grid = grid
           /\ c.link = Current(v) /\ c.link <= link[v].number /\ (link[v].up => c.link # 0)
<1>1. link[v].number \in Nat \ {0} /\ link[v].up \in BOOLEAN
  BY DEF TypeOK
<1>2. Current(v) \in Nat /\ Current(v) <= link[v].number /\ (link[v].up => Current(v) # 0)
  BY <1>1 DEF Current
<1>3. c = [viewer |-> v, link |-> Current(v), kind |-> kind, id |-> id, grid |-> grid]
  BY DEF Call, Current
<1> QED
  BY <1>2, <1>3 DEF Calls

(* What a view sends: calls of its own, with grids to apply or ids to read. *)
Sends(v, sent) ==
    /\ \A c \in sent : /\ c \in Calls /\ c.viewer = v /\ c.link = Current(v)
                       /\ c.kind # "read" => c.grid \in Grids
                       /\ c.kind = "read" => c.id <= opens'

(* A step of one view: what is left to show is that the view itself fits.   *)
LEMMA ViewActs ==
    ASSUME IInv, NEW v \in Viewers, NEW q \in Panels, NEW sent, Sends(v, sent),
           calls' \subseteq calls \cup sent, \A c \in calls : c.viewer # v => c \in calls',
           turns' \in Seq(Calls),
           \A c \in Range(turns') : c \in Range(turns) \/ (c \in sent /\ c.kind \in Claims \cup {"report"}),
           panel' = [panel EXCEPT ![v] = q],
           answers' \subseteq answers,
           \A a \in answers : a.viewer # v => a \in answers',
           UNCHANGED <<pty, link, guards>>,
           resized' \in [Viewers -> Seq(Grids \cup {None})], \A o \in Viewers \ {v} : resized'[o] = resized[o],
           astray' \in {astray, astray \ {v}, astray \cup {v}},
           joined' \in {joined, joined \ {v}, joined \cup {v}},
           undrawn' \in {undrawn, undrawn \ {v}, undrawn \cup {v}},
           opens' \in Nat, opens <= opens', moves' \in Nat, drops' \in Nat,
           ViewFits(v)'
    PROVE  IInv'
<1>1. TypeOK /\ Typed /\ sent \in SUBSET Calls
  BY DEF IInv, Typed, Sends
<1>2. /\ calls' \subseteq calls \cup sent
      /\ turns' \in Seq(Calls)
      /\ \A c \in Range(turns') : c \in Range(turns) \/ (c \in sent /\ c.kind \in Claims \cup {"report"})
  OBVIOUS
<1>3. panel' \in [Viewers -> Panels] /\ \A o \in Viewers \ {v} : panel'[o] = panel[o]
  BY <1>1 DEF TypeOK
<1>4. TypeOK'
  BY <1>1, <1>2, <1>3 DEF TypeOK
<1>5. ASSUME NEW c \in calls'
      PROVE  CallFits(c)'
  <2>1. CASE c \in calls
    <3>1. CallFits(c) /\ c.id \in Nat
      BY <1>1, <2>1 DEF Typed, TypeOK, Calls
    <3> QED
      BY <1>1, <3>1 DEF CallFits, TypeOK
  <2>2. CASE c \in sent
    <3>1. link[v].number \in Nat \ {0} /\ link[v].up \in BOOLEAN
      BY <1>1 DEF TypeOK
    <3>2. Current(v) <= link[v].number /\ (link[v].up => Current(v) # 0)
      BY <3>1 DEF Current
    <3> QED
      BY <2>2, <3>2 DEF Sends, CallFits
  <2> QED
    BY <1>2, <2>1, <2>2
<1>6. ASSUME NEW a \in answers'
      PROVE  AnswerFits(a)'
  <2>1. AnswerFits(a) /\ a.id \in Nat
    BY <1>1, <1>6 DEF Typed, TypeOK, Calls
  <2> QED
    BY <1>1, <2>1 DEF AnswerFits, TypeOK
<1>7. \A c \in Range(turns') : c.kind \in Claims \cup {"report"} /\ c.grid \in Grids
  BY <1>1, <1>2 DEF Typed, Sends, Claims
<1>8. Typed'
  BY <1>1, <1>4, <1>5, <1>6, <1>7 DEF Typed
<1>9. ASSUME NEW o \in Viewers, o # v
      PROVE  ViewFits(o)'
  <2>1. \A c \in calls \cup calls' : c.viewer = o => c \in calls /\ c \in calls'
    BY <1>2, <1>9 DEF Sends
  <2>2. \A a \in answers \cup answers' : a.viewer = o => a \in answers /\ a \in answers'
    BY <1>9
  <2>3. /\ o \in astray' <=> o \in astray
        /\ o \in joined' <=> o \in joined
        /\ o \in undrawn' <=> o \in undrawn
    BY <1>9
  <2>4. Same(o)
    BY <1>3, <1>9, <2>1, <2>2, <2>3 DEF Same
  <2> QED
    BY <1>1, <2>4, SameView DEF IInv, TypeOK
<1> QED
  BY <1>8, <1>9 DEF IInv

LEMMA ViewMoves ==
    ASSUME IInv, NEW v \in Viewers, NEW q \in Panels, NEW sent, Sends(v, sent), Send(sent),
           panel' = [panel EXCEPT ![v] = q],
           answers' \subseteq answers,
           \A a \in answers : a.viewer # v => a \in answers',
           UNCHANGED <<pty, link, guards>>,
           resized' \in [Viewers -> Seq(Grids \cup {None})], \A o \in Viewers \ {v} : resized'[o] = resized[o],
           astray' \in {astray, astray \ {v}, astray \cup {v}},
           joined' \in {joined, joined \ {v}, joined \cup {v}},
           undrawn' \in {undrawn, undrawn \ {v}, undrawn \cup {v}},
           opens' \in Nat, opens <= opens', moves' \in Nat, drops' \in Nat,
           ViewFits(v)'
    PROVE  IInv'
<1>1. TypeOK /\ sent \in SUBSET Calls
  BY DEF IInv, Typed, Sends
<1>2. /\ calls \subseteq calls' /\ calls' \subseteq calls \cup sent
      /\ turns' \in Seq(Calls)
      /\ \A c \in Range(turns') : c \in Range(turns) \/ (c \in sent /\ c.kind \in Claims \cup {"report"})
  BY <1>1, Sending
<1> QED
  BY <1>2, ViewActs

LEMMA SentCalls ==
    ASSUME Typed, NEW v \in Viewers, NEW sent, Sends(v, sent), Send(sent)
    PROVE  /\ calls \subseteq calls' /\ calls' \subseteq calls \cup sent
           /\ \A c \in sent : c.kind \in {"start", "read"} => c \in calls'
<1>1. sent \in SUBSET Calls
  BY DEF Sends
<1> QED
  BY <1>1, Sending DEF Typed

(* The reads of a view are what they were.                                  *)
LEMMA ReadsStay ==
    ASSUME Typed, NEW v \in Viewers, NEW sent, Sends(v, sent), Send(sent),
           \A c \in sent : c.kind # "read",
           panel'[v].id = panel[v].id, link' = link
    PROVE  ReadsOf(v)' = ReadsOf(v)
<1>1. calls \subseteq calls' /\ calls' \subseteq calls \cup sent
  BY SentCalls
<1> QED
  BY <1>1 DEF ReadsOf, Current

(* A view that neither moves nor reads.                                     *)
LEMMA StillFits ==
    ASSUME IInv, NEW v \in Viewers, NEW sent, Sends(v, sent), Send(sent),
           \A c \in sent : c.kind # "read",
           panel'[v].id = panel[v].id, panel'[v].stage = panel[v].stage,
           panel[v].reading => panel'[v].reading, panel'[v].reading => panel[v].reading,
           Ready(v) => panel'[v].emulator = panel[v].emulator,
           panel'[v].drawnFor = panel[v].drawnFor,
           Answers(v, "read")' = Answers(v, "read"),
           UNCHANGED <<link, pty, resized, astray, joined, undrawn>>, opens' = opens
    PROVE  ViewFits(v)'
<1>1. Typed /\ ViewFits(v)
  BY DEF IInv
<1>2. ReadsOf(v)' = ReadsOf(v)
  BY <1>1, ReadsStay
<1>3. OneRead(v) => OneRead(v)'
  BY <1>2 DEF OneRead
<1>4. Opened(v)'
  BY <1>1, <1>3 DEF ViewFits, Opened, Open
<1>5. Heading(v)' /\ Following(v)'
  BY <1>1 DEF ViewFits, Heading, Following, Ready
<1>6. Drawn(v)'
  BY <1>1 DEF ViewFits, Drawn, Lost, Path, Ready
<1> QED
  BY <1>4, <1>5, <1>6 DEF ViewFits

LEMMA OpenViewStep ==
    ASSUME IInv, NEW v \in Viewers, OpenView(v)
    PROVE  IInv'
<1>1. TypeOK /\ Typed /\ ViewFits(v)
  BY DEF IInv, Typed
<1>2. /\ opens' = opens + 1 /\ Send({Call(v, "start", opens', panel[v].window)})
      /\ panel' = [panel EXCEPT ![v] = [Away(panel[v].window) EXCEPT !.id = opens', !.stage = "starting"]]
      /\ astray' = astray \ {v} /\ joined' = joined \ {v} /\ undrawn' = undrawn \ {v}
      /\ UNCHANGED <<pty, link, guards, answers, resized, moves, drops>>
  BY DEF OpenView
<1>3. panel[v] \in Panels /\ panel[v].window \in Grids /\ opens \in Nat /\ opens' \in Nat
  BY <1>1, <1>2 DEF TypeOK, Panels
<1>4. PICK q : q = [Away(panel[v].window) EXCEPT !.id = opens', !.stage = "starting"]
  OBVIOUS
<1>5. q \in Panels /\ q.id = opens' /\ q.stage = "starting" /\ ~q.reading
  BY <1>3, <1>4 DEF Away, Panels, Stages
<1>6. panel' = [panel EXCEPT ![v] = q] /\ panel'[v] = q
  BY <1>1, <1>2, <1>4 DEF TypeOK
<1>7. PICK k : k = "start"
  OBVIOUS
<1>8. PICK c : c = Call(v, k, opens', panel[v].window)
  OBVIOUS
<1>9. k \in Kinds
  BY <1>7 DEF Kinds
<1>10. c \in Calls /\ c.viewer = v /\ c.kind = k /\ c.grid = panel[v].window /\ c.link = Current(v)
  BY <1>1, <1>3, <1>8, <1>9, NewCall
<1>11. Sends(v, {c}) /\ Send({c})
  BY <1>2, <1>3, <1>7, <1>8, <1>10 DEF Sends
<1>12. calls' \subseteq calls \cup {c}
  BY <1>1, <1>11, SentCalls
<1>13. ReadsOf(v)' = {} /\ Answers(v, "read")' = {}
  <2>1. \A d \in calls \cup answers : d.kind = "read" => d.id <= opens /\ d.id \in Nat
    BY <1>1 DEF Typed, TypeOK, CallFits, AnswerFits, Calls
  <2>2. \A d \in calls' \cup answers' : d.kind = "read" => d.id # opens'
    BY <1>2, <1>3, <1>7, <1>10, <1>12, <2>1
  <2> QED
    BY <1>5, <1>6, <2>2 DEF ReadsOf, Answers
<1>14. ViewFits(v)'
  <2>1. Opened(v)'
    <3>1. opens' \in 1 .. opens'
      BY <1>2, <1>3
    <3>2. OneRead(v)' /\ ~panel'[v].reading
      BY <1>5, <1>6, <1>13 DEF OneRead
    <3> QED
      BY <1>5, <1>6, <3>1, <3>2 DEF Opened
  <2>2. Heading(v)'
    BY <1>1, <1>2 DEF ViewFits, Heading
  <2>3. Following(v)' /\ Drawn(v)'
    BY <1>5, <1>6 DEF Following, Ready, Drawn
  <2> QED
    BY <2>1, <2>2, <2>3 DEF ViewFits
<1>15. opens <= opens' /\ moves' \in Nat /\ drops' \in Nat /\ resized' \in [Viewers -> Seq(Grids \cup {None})]
  BY <1>1, <1>2, <1>3 DEF TypeOK
<1> QED
  BY <1>2, <1>3, <1>5, <1>6, <1>11, <1>14, <1>15, ViewMoves

LEMMA NothingSent ==
    ASSUME NEW v
    PROVE  Sends(v, {}) /\ (UNCHANGED <<calls, turns>> <=> Send({}))
  BY DEF Sends, Send

LEMMA CloseViewStep ==
    ASSUME IInv, NEW v \in Viewers, CloseView(v)
    PROVE  IInv'
<1>1. TypeOK /\ Typed /\ ViewFits(v)
  BY DEF IInv, Typed
<1>2. /\ panel' = [panel EXCEPT ![v] = Away(panel[v].window)]
      /\ answers' = {a \in answers : a.viewer # v}
      /\ UNCHANGED <<pty, link, guards, calls, turns, resized, astray, joined, undrawn, opens, moves, drops>>
  BY DEF CloseView, boundVars
<1>3. PICK q : q = Away(panel[v].window)
  OBVIOUS
<1>4. q \in Panels /\ q.stage = "away" /\ ~q.reading
  BY <1>1, <1>3 DEF TypeOK, Away, Panels, Stages
<1>5. panel' = [panel EXCEPT ![v] = q] /\ panel'[v] = q
  BY <1>1, <1>2, <1>3 DEF TypeOK
<1>6. ViewFits(v)'
  <2>1. Opened(v)' /\ Following(v)' /\ Drawn(v)'
    BY <1>4, <1>5 DEF Opened, Open, Following, Ready, Drawn
  <2>2. Heading(v)'
    BY <1>1, <1>2 DEF ViewFits, Heading
  <2> QED
    BY <2>1, <2>2 DEF ViewFits
<1>7. Sends(v, {}) /\ Send({})
  BY <1>2, NothingSent
<1>8. opens' = opens /\ opens \in Nat /\ opens <= opens'
  BY <1>1, <1>2 DEF TypeOK
<1> QED
  BY <1>1, <1>2, <1>4, <1>5, <1>6, <1>7, <1>8, ViewMoves DEF TypeOK

LEMMA FocusStep ==
    ASSUME IInv, NEW v \in Viewers, Focus(v)
    PROVE  IInv'
<1>1. TypeOK /\ Typed /\ ViewFits(v)
  BY DEF IInv, Typed
<1>2. /\ moves' = moves + 1 /\ Send({Call(v, "focus", moves', panel[v].window)})
      /\ UNCHANGED <<pty, link, guards, answers, resized, panel, astray, joined, undrawn, opens, drops>>
  BY DEF Focus
<1>3. panel[v] \in Panels /\ panel[v].window \in Grids /\ moves' \in Nat /\ opens \in Nat
  BY <1>1, <1>2 DEF TypeOK, Panels
<1>4. PICK k : k = "focus"
  OBVIOUS
<1>5. PICK c : c = Call(v, k, moves', panel[v].window)
  OBVIOUS
<1>6. k \in Kinds
  BY <1>4 DEF Kinds
<1>7. c \in Calls /\ c.viewer = v /\ c.kind = k /\ c.grid = panel[v].window /\ c.link = Current(v)
  BY <1>1, <1>3, <1>5, <1>6, NewCall
<1>8. Sends(v, {c}) /\ Send({c}) /\ \A d \in {c} : d.kind # "read"
  BY <1>2, <1>3, <1>4, <1>5, <1>7 DEF Sends
<1>9. Answers(v, "read")' = Answers(v, "read")
  BY <1>2 DEF Answers
<1>10. ViewFits(v)'
  BY <1>2, <1>8, <1>9, StillFits
<1>11. PICK q : q = panel[v]
  OBVIOUS
<1>12. panel' = [panel EXCEPT ![v] = q] /\ q \in Panels
  BY <1>1, <1>2, <1>11 DEF TypeOK
<1>13. /\ opens <= opens' /\ opens' \in Nat /\ moves' \in Nat /\ drops' \in Nat
       /\ resized' \in [Viewers -> Seq(Grids \cup {None})]
  BY <1>1, <1>2, <1>3 DEF TypeOK
<1> QED
  BY <1>2, <1>8, <1>10, <1>12, <1>13, ViewMoves

LEMMA ScheduledPanel ==
    ASSUME NEW p \in Panels, NEW grid \in Grids, NEW q, q = Scheduled(p, grid)
    PROVE  /\ q \in Panels /\ q.id = p.id /\ q.stage = p.stage /\ q.emulator = p.emulator
           /\ q.drawnFor = p.drawnFor
           /\ (p.reading => q.reading) /\ (q.reading => p.reading)
<1>1. CASE q = p
  BY <1>1
<1>2. CASE q # p
  <2>1. q = [p EXCEPT !.pending = grid, !.timer = TRUE]
    BY <1>2 DEF Scheduled
  <2> QED
    BY <2>1 DEF Panels
<1> QED
  BY <1>1, <1>2

LEMMA ReshapeStep ==
    ASSUME IInv, NEW v \in Viewers, NEW grid \in Grids, Reshape(v, grid)
    PROVE  IInv'
<1>1. TypeOK /\ Typed /\ ViewFits(v)
  BY DEF IInv, Typed
<1>2. PICK p : p = [panel[v] EXCEPT !.window = grid]
  OBVIOUS
<1>3. PICK q : q = IF Ready(v) THEN Scheduled(p, grid) ELSE [p EXCEPT !.emulator = grid]
  OBVIOUS
<1>4. /\ moves' = moves + 1 /\ panel' = [panel EXCEPT ![v] = q]
      /\ UNCHANGED <<pty, link, guards, calls, turns, answers, resized, astray, joined, undrawn, opens, drops>>
  BY <1>2, <1>3 DEF Reshape
<1>5. /\ p \in Panels /\ p.id = panel[v].id /\ p.stage = panel[v].stage
      /\ p.emulator = panel[v].emulator /\ p.drawnFor = panel[v].drawnFor
      /\ (p.reading => panel[v].reading) /\ (panel[v].reading => p.reading)
  <2>1. panel[v] \in Panels
    BY <1>1 DEF TypeOK
  <2> QED
    BY <1>2, <2>1 DEF Panels
<1>6. /\ q \in Panels /\ q.id = panel[v].id /\ q.stage = panel[v].stage
      /\ q.drawnFor = panel[v].drawnFor
      /\ (panel[v].reading => q.reading) /\ (q.reading => panel[v].reading)
      /\ (Ready(v) => q.emulator = panel[v].emulator)
  <2>1. CASE Ready(v)
    BY <1>3, <1>5, <2>1, ScheduledPanel
  <2>2. CASE ~Ready(v)
    <3>1. q = [p EXCEPT !.emulator = grid]
      BY <1>3, <2>2
    <3> QED
      BY <1>5, <2>2, <3>1 DEF Panels
  <2> QED
    BY <2>1, <2>2
<1>7. panel'[v] = q
  BY <1>1, <1>4 DEF TypeOK
<1>8. Sends(v, {}) /\ Send({}) /\ \A d \in {} : d.kind # "read"
  BY <1>4, NothingSent
<1>9. Answers(v, "read")' = Answers(v, "read")
  BY <1>4, <1>6, <1>7 DEF Answers
<1>10. ViewFits(v)'
  BY <1>4, <1>6, <1>7, <1>8, <1>9, StillFits
<1>11. opens' = opens /\ opens \in Nat /\ opens <= opens' /\ moves' \in Nat
  BY <1>1, <1>4 DEF TypeOK
<1> QED
  BY <1>1, <1>4, <1>6, <1>8, <1>10, <1>11, ViewMoves DEF TypeOK

(* The next report of the coordinator: a panel that differs in what it      *)
(* applies, and the call for it.                                            *)
LEMMA Reporting ==
    ASSUME TypeOK, NEW v \in Viewers, NEW p \in Panels
    PROVE  /\ NextToApply(p) \in Grids \cup {None}
           /\ Sends(v, ReportOf(v, p)) /\ \A c \in ReportOf(v, p) : c.kind # "read"
           /\ \A c \in ReportOf(v, p) : c.kind = "report"
<1>1. NextToApply(p) \in Grids \cup {None} /\ p.id \in Nat
  BY DEF NextToApply, Panels
<1>2. CASE NextToApply(p) = None
  BY <1>1, <1>2 DEF ReportOf, Sends
<1>3. CASE NextToApply(p) # None
  <2>1. PICK k : k = "report"
    OBVIOUS
  <2>2. PICK c : c = Call(v, k, p.id, NextToApply(p))
    OBVIOUS
  <2>3. k \in Kinds
    BY <2>1 DEF Kinds
  <2>4. c \in Calls /\ c.viewer = v /\ c.kind = k /\ c.grid = NextToApply(p) /\ c.link = Current(v)
    BY <1>1, <2>2, <2>3, NewCall
  <2>5. ReportOf(v, p) = {c}
    BY <1>3, <2>1, <2>2 DEF ReportOf
  <2>6. c.kind = "report" /\ c.kind # "read" /\ c.grid \in Grids
    BY <1>1, <1>3, <2>1, <2>4
  <2> QED
    BY <1>1, <2>4, <2>5, <2>6 DEF Sends
<1> QED
  BY <1>2, <1>3

LEMMA FlushedPanel ==
    ASSUME TypeOK, NEW p \in Panels, NEW q, q = Flushed(p)
    PROVE  /\ q \in Panels /\ q.id = p.id /\ q.stage = p.stage /\ q.emulator = p.emulator
           /\ q.drawnFor = p.drawnFor /\ q.window = p.window
           /\ (p.reading => q.reading) /\ (q.reading => p.reading)
<1>1. PICK n : n = NextToApply(p)
  OBVIOUS
<1>2. n \in Grids \cup {None}
  BY <1>1 DEF NextToApply, Panels
<1>3. q = [p EXCEPT !.applying = n, !.pending = None]
  BY <1>1 DEF Flushed
<1> QED
  BY <1>2, <1>3 DEF Panels

LEMMA TimerFiresStep ==
    ASSUME IInv, NEW v \in Viewers, TimerFires(v)
    PROVE  IInv'
<1>1. TypeOK /\ Typed /\ ViewFits(v)
  BY DEF IInv, Typed
<1>2. PICK p : p = [panel[v] EXCEPT !.timer = FALSE]
  OBVIOUS
<1>3. /\ p \in Panels /\ p.id = panel[v].id /\ p.stage = panel[v].stage
      /\ p.emulator = panel[v].emulator /\ p.drawnFor = panel[v].drawnFor
      /\ (p.reading => panel[v].reading) /\ (panel[v].reading => p.reading)
  <2>1. panel[v] \in Panels
    BY <1>1 DEF TypeOK
  <2> QED
    BY <1>2, <2>1 DEF Panels
<1>4. UNCHANGED <<pty, link, guards, answers, resized, astray, joined, undrawn, opens, moves, drops>>
  BY DEF TimerFires, boundVars
<1>5. \/ panel' = [panel EXCEPT ![v] = p] /\ Send({})
      \/ panel' = [panel EXCEPT ![v] = Flushed(p)] /\ Send(ReportOf(v, p))
  BY <1>2 DEF TimerFires
<1>6. PICK q, sent :
        /\ panel' = [panel EXCEPT ![v] = q] /\ Send(sent)
        /\ \/ q = p /\ sent = {}
           \/ q = Flushed(p) /\ sent = ReportOf(v, p)
  BY <1>5
<1>7. /\ q \in Panels /\ q.id = panel[v].id /\ q.stage = panel[v].stage
      /\ q.emulator = panel[v].emulator /\ q.drawnFor = panel[v].drawnFor
      /\ (q.reading => panel[v].reading) /\ (panel[v].reading => q.reading)
  <2>1. CASE q = p
    BY <1>3, <2>1
  <2>2. CASE q = Flushed(p)
    BY <1>1, <1>3, <2>2, FlushedPanel
  <2> QED
    BY <1>6, <2>1, <2>2
<1>8. Sends(v, sent) /\ \A c \in sent : c.kind # "read"
  <2>1. CASE sent = {}
    BY <2>1 DEF Sends
  <2>2. CASE sent = ReportOf(v, p)
    BY <1>1, <1>3, <2>2, Reporting
  <2> QED
    BY <1>6, <2>1, <2>2
<1>9. panel'[v] = q
  BY <1>1, <1>6 DEF TypeOK
<1>10. Answers(v, "read")' = Answers(v, "read")
  BY <1>4, <1>7, <1>9 DEF Answers
<1>11. ViewFits(v)'
  BY <1>4, <1>6, <1>7, <1>8, <1>9, <1>10, StillFits
<1>12. /\ opens \in Nat /\ opens <= opens' /\ opens' \in Nat /\ moves' \in Nat /\ drops' \in Nat
       /\ resized' \in [Viewers -> Seq(Grids \cup {None})]
  BY <1>1, <1>4 DEF TypeOK
<1> QED
  BY <1>4, <1>6, <1>7, <1>8, <1>11, <1>12, ViewMoves

LEMMA ReceiveAppliedStep ==
    ASSUME IInv, NEW v \in Viewers, ReceiveApplied(v)
    PROVE  IInv'
<1>1. TypeOK /\ Typed /\ ViewFits(v)
  BY DEF IInv, Typed
<1>2. PICK p : p = [panel[v] EXCEPT !.lastApplied = panel[v].applying]
  OBVIOUS
<1>3. /\ p \in Panels /\ p.id = panel[v].id /\ p.stage = panel[v].stage
      /\ p.emulator = panel[v].emulator /\ p.drawnFor = panel[v].drawnFor
      /\ (p.reading => panel[v].reading) /\ (panel[v].reading => p.reading)
  <2>1. panel[v] \in Panels
    BY <1>1 DEF TypeOK
  <2> QED
    BY <1>2, <2>1 DEF Panels
<1>4. UNCHANGED <<pty, link, guards, resized, astray, joined, undrawn, opens, moves, drops>>
  BY DEF ReceiveApplied, boundVars
<1>5. panel' = [panel EXCEPT ![v] = Flushed(p)] /\ Send(ReportOf(v, p))
  BY <1>2 DEF ReceiveApplied
<1>6. PICK a \in Answers(v, "report") : answers' = answers \ {a}
  BY DEF ReceiveApplied
<1>7. a.kind = "report" /\ a.viewer = v
  BY DEF Answers
<1>8. PICK q : q = Flushed(p)
  OBVIOUS
<1>9. /\ q \in Panels /\ q.id = panel[v].id /\ q.stage = panel[v].stage
      /\ q.emulator = panel[v].emulator /\ q.drawnFor = panel[v].drawnFor
      /\ (q.reading => panel[v].reading) /\ (panel[v].reading => q.reading)
  BY <1>1, <1>3, <1>8, FlushedPanel
<1>10. PICK sent : sent = ReportOf(v, p)
  OBVIOUS
<1>11. Sends(v, sent) /\ (\A c \in sent : c.kind # "read") /\ Send(sent)
  BY <1>1, <1>3, <1>5, <1>10, Reporting
<1>12. panel' = [panel EXCEPT ![v] = q] /\ panel'[v] = q
  BY <1>1, <1>5, <1>8 DEF TypeOK
<1>13. Answers(v, "read")' = Answers(v, "read")
  BY <1>6, <1>7, <1>9, <1>12 DEF Answers
<1>14. ViewFits(v)'
  BY <1>4, <1>9, <1>11, <1>12, <1>13, StillFits
<1>15. /\ opens \in Nat /\ opens <= opens' /\ opens' \in Nat /\ moves' \in Nat /\ drops' \in Nat
       /\ resized' \in [Viewers -> Seq(Grids \cup {None})]
  BY <1>1, <1>4 DEF TypeOK
<1>16. answers' \subseteq answers /\ \A b \in answers : b.viewer # v => b \in answers'
  BY <1>6, <1>7
<1> QED
  BY <1>4, <1>9, <1>11, <1>12, <1>14, <1>15, <1>16, ViewMoves

(* The redraw of a view whose link is up: one read is on its way, and none  *)
(* was answered already unless the redraw joined it.                        *)
LEMMA Redrawing ==
    ASSUME TypeOK, Typed, NEW v \in Viewers, ViewFits(v), Open(v), link[v].up,
           NEW p \in Panels, p.id = panel[v].id, p.reading => panel[v].reading,
           panel[v].reading => p.reading,
           NEW sent, sent = ReadOf(v, p), Send(sent), joined' = JoinedBy(v, p),
           panel'[v].id = panel[v].id, panel'[v].reading, link' = link, opens' = opens,
           Answers(v, "read")' = Answers(v, "read")
    PROVE  /\ Sends(v, sent) /\ OneRead(v)'
           /\ v \in joined' \/ Answers(v, "read")' = {}
           /\ joined' \in {joined, joined \ {v}, joined \cup {v}}
<1>1. OneRead(v) /\ panel[v].id \in 1 .. opens
  BY DEF ViewFits, Opened
<1>2. joined' \in {joined, joined \ {v}, joined \cup {v}}
  BY DEF JoinedBy
<1>3. CASE p.reading
  <2>1. sent = {}
    BY <1>3 DEF ReadOf
  <2>2. Sends(v, sent) /\ \A c \in sent : c.kind # "read"
    BY <2>1 DEF Sends
  <2>3. ReadsOf(v)' = ReadsOf(v)
    BY <2>2, ReadsStay
  <2>4. OneRead(v)'
    BY <1>1, <1>3, <2>3 DEF OneRead
  <2>5. v \in joined' \/ Answers(v, "read")' = {}
    BY <1>3 DEF JoinedBy, ReadSent
  <2> QED
    BY <1>2, <2>2, <2>4, <2>5
<1>4. CASE ~p.reading
  <2>1. ReadsOf(v) = {} /\ Answers(v, "read") = {}
    BY <1>1, <1>4 DEF OneRead
  <2>2. PICK k : k = "read"
    OBVIOUS
  <2>3. PICK c : c = Call(v, k, p.id, None)
    OBVIOUS
  <2>4. k \in Kinds /\ p.id \in Nat /\ None \in Grids \cup {None} /\ opens \in Nat
    BY <2>2 DEF Kinds, Panels, TypeOK
  <2>5. c \in Calls /\ c.viewer = v /\ c.kind = k /\ c.id = p.id /\ c.link = Current(v)
    BY <2>3, <2>4, NewCall
  <2>6. sent = {c}
    BY <1>4, <2>2, <2>3 DEF ReadOf
  <2>7. c.kind = "read" /\ c.id = panel[v].id /\ c.id <= opens'
    BY <1>1, <2>2, <2>4, <2>5
  <2>8. Sends(v, sent)
    BY <2>5, <2>6, <2>7 DEF Sends
  <2>9. c \in calls' /\ calls \subseteq calls' /\ calls' \subseteq calls \cup {c}
    BY <2>6, <2>7, <2>8, SentCalls
  <2>10. ReadsOf(v)' = {c}
    BY <2>1, <2>5, <2>7, <2>9 DEF ReadsOf, Current
  <2>11. OneRead(v)' /\ Answers(v, "read")' = {}
    BY <2>1, <2>10 DEF OneRead
  <2> QED
    BY <1>2, <2>8, <2>11
<1> QED
  BY <1>3, <1>4

(* The end of a redraw.                                                     *)
LEMMA EndedPanel ==
    ASSUME NEW p \in Panels, NEW q, q = Ended(p)
    PROVE  /\ q \in Panels /\ q.id = p.id /\ q.emulator = p.emulator /\ q.drawnFor = p.drawnFor
           /\ ~q.reading
           /\ \/ q.stage = p.stage
              \/ p.stage = "drawing" /\ q.stage = "live"
              \/ p.stage = "failing" /\ q.stage \in {"starting", "failed"}
<1>1. PICK r : r = [p EXCEPT !.reading = FALSE]
  OBVIOUS
<1>2. /\ r \in Panels /\ r.id = p.id /\ r.stage = p.stage /\ r.emulator = p.emulator
      /\ r.drawnFor = p.drawnFor /\ ~r.reading
  BY <1>1 DEF Panels
<1>3. CASE p.stage = "drawing"
  <2>1. PICK l : l = [r EXCEPT !.stage = "live"]
    OBVIOUS
  <2>2. /\ l \in Panels /\ l.id = p.id /\ l.stage = "live" /\ l.emulator = p.emulator
        /\ l.drawnFor = p.drawnFor /\ ~l.reading /\ r.window \in Grids
    BY <1>2, <2>1 DEF Panels, Stages
  <2>3. q = Scheduled(l, r.window)
    BY <1>1, <1>3, <2>1 DEF Ended
  <2> QED
    BY <1>3, <2>2, <2>3, ScheduledPanel
<1>4. CASE p.stage = "failing"
  <2>1. PICK stage : stage = IF p.retry THEN "starting" ELSE "failed"
    OBVIOUS
  <2>2. q = [r EXCEPT !.stage = stage, !.retry = FALSE]
    BY <1>1, <1>4, <2>1 DEF Ended
  <2>3. stage \in {"starting", "failed"} /\ stage \in Stages
    BY <2>1 DEF Stages
  <2> QED
    BY <1>2, <1>4, <2>2, <2>3 DEF Panels
<1>5. CASE p.stage \notin {"drawing", "failing"}
  <2>1. q = r
    BY <1>1, <1>5 DEF Ended
  <2> QED
    BY <1>2, <1>5, <2>1
<1> QED
  BY <1>3, <1>4, <1>5

(* A call of start, as every panel makes it that starts again.              *)
LEMMA Starting ==
    ASSUME TypeOK, NEW v \in Viewers, NEW p \in Panels,
           NEW c, c = Call(v, "start", p.id, p.emulator)
    PROVE  /\ c \in Calls /\ c.viewer = v /\ c.kind = "start" /\ c.id = p.id /\ c.grid \in Grids
           /\ Sends(v, {c})
<1>1. PICK k : k = "start"
  OBVIOUS
<1>2. PICK d : d = Call(v, k, p.id, p.emulator)
  OBVIOUS
<1>3. k \in Kinds /\ p.id \in Nat /\ p.emulator \in Grids
  BY <1>1 DEF Kinds, Panels
<1>4. d \in Calls /\ d.viewer = v /\ d.kind = k /\ d.id = p.id /\ d.grid = p.emulator /\ d.link = Current(v)
  BY <1>2, <1>3, NewCall
<1>5. c = d
  BY <1>1, <1>2
<1> QED
  BY <1>1, <1>3, <1>4, <1>5 DEF Sends

LEMMA StartsAgain ==
    ASSUME TypeOK, NEW v \in Viewers, NEW p \in Panels, NEW sent, sent = StartAgain(v, p)
    PROVE  /\ Sends(v, sent)
           /\ \A c \in sent : c \in Calls /\ c.viewer = v /\ c.kind = "start" /\ c.grid \in Grids
<1>1. CASE p.stage = "failing" /\ p.retry
  <2>1. PICK c : c = Call(v, "start", p.id, p.emulator)
    OBVIOUS
  <2>2. sent = {c}
    BY <1>1, <2>1 DEF StartAgain
  <2> QED
    BY <2>1, <2>2, Starting
<1>2. CASE ~(p.stage = "failing" /\ p.retry)
  <2>1. sent = {}
    BY <1>2 DEF StartAgain
  <2> QED
    BY <2>1 DEF Sends
<1> QED
  BY <1>1, <1>2

(* A view whose redraw ended, with nothing more on its way to it.           *)
LEMMA EndedView ==
    ASSUME IInv, NEW v \in Viewers, panel[v].reading, NEW q \in Panels, panel'[v] = q,
           q.id = panel[v].id, q.emulator = panel[v].emulator, ~q.reading,
           \/ q.stage = panel[v].stage
           \/ panel[v].stage = "drawing" /\ q.stage = "live"
           \/ panel[v].stage = "failing" /\ q.stage \in {"starting", "failed"},
           ReadsOf(v)' = {}, Answers(v, "read")' = {},
           UNCHANGED <<link, pty, resized, astray, joined>>, opens' = opens,
           v \in undrawn' \/ \E a \in Answers(v, "read") : q.drawnFor = a.grid
    PROVE  ViewFits(v)'
<1>1. ViewFits(v) /\ Open(v)
  BY DEF IInv, ViewFits, Opened
<1>2. Opened(v)'
  <2>1. OneRead(v)'
    BY DEF OneRead
  <2>2. panel'[v].id \in 1 .. opens'
    BY <1>1 DEF ViewFits, Opened
  <2> QED
    BY <2>1, <2>2 DEF Opened
<1>3. Heading(v)'
  BY <1>1 DEF ViewFits, Heading
<1>4. Following(v)'
  BY <1>1 DEF ViewFits, Following, Ready
<1>5. Drawn(v)'
  <2>1. Path(v)' = Path(v) /\ (Lost(v)' <=> Lost(v))
    BY DEF Path, Lost
  <2>2. ASSUME NEW a \in Answers(v, "read"), q.stage \in {"drawing", "live"},
               v \notin (astray \cup joined)', ~Lost(v)
        PROVE  a.grid \in Path(v)
    <3>1. panel[v].stage \in {"drawing", "live"}
      BY <2>2
    <3> QED
      BY <1>1, <2>2, <3>1 DEF ViewFits, Drawn
  <2> QED
    BY <2>1, <2>2 DEF Drawn
<1> QED
  BY <1>2, <1>3, <1>4, <1>5 DEF ViewFits

LEMMA ReceiveScreenStep ==
    ASSUME IInv, NEW v \in Viewers, ReceiveScreen(v)
    PROVE  IInv'
<1>1. TypeOK /\ Typed /\ ViewFits(v) /\ panel[v] \in Panels
  BY DEF IInv, Typed, TypeOK
<1>2. /\ panel[v].reading /\ Send(StartAgain(v, panel[v]))
      /\ UNCHANGED <<pty, link, guards, resized, astray, joined, opens, moves>>
  BY DEF ReceiveScreen
<1>3. PICK a \in Answers(v, "read") :
        /\ answers' = answers \ {a}
        /\ \/ /\ panel' = [panel EXCEPT ![v] = [Ended(panel[v]) EXCEPT !.drawnFor = a.grid]]
              /\ undrawn' = undrawn \ {v} /\ drops' = drops
           \/ /\ panel' = [panel EXCEPT ![v] = Ended(panel[v])]
              /\ undrawn' = undrawn \cup {v} /\ drops' = drops + 1
  BY DEF ReceiveScreen
<1>4. a \in answers /\ a.viewer = v /\ a.kind = "read" /\ a.grid \in Grids \cup {None}
  BY <1>1 DEF Answers, TypeOK, Calls
<1>5. PICK r : r = Ended(panel[v])
  OBVIOUS
<1>6. /\ r \in Panels /\ r.id = panel[v].id /\ r.emulator = panel[v].emulator /\ ~r.reading
      /\ \/ r.stage = panel[v].stage
         \/ panel[v].stage = "drawing" /\ r.stage = "live"
         \/ panel[v].stage = "failing" /\ r.stage \in {"starting", "failed"}
  BY <1>1, <1>5, EndedPanel
<1>7. PICK d : d = [r EXCEPT !.drawnFor = a.grid]
  OBVIOUS
<1>8. PICK q : /\ panel' = [panel EXCEPT ![v] = q]
               /\ \/ q = d /\ undrawn' = undrawn \ {v}
                  \/ q = r /\ undrawn' = undrawn \cup {v}
  BY <1>3, <1>5, <1>7
<1>9. /\ d \in Panels /\ d.id = r.id /\ d.emulator = r.emulator /\ ~d.reading
      /\ d.stage = r.stage /\ d.drawnFor = a.grid
  BY <1>4, <1>6, <1>7 DEF Panels
<1>10. /\ q \in Panels /\ q.id = panel[v].id /\ q.emulator = panel[v].emulator /\ ~q.reading
       /\ q.stage = r.stage /\ (q.drawnFor = a.grid \/ v \in undrawn') /\ panel'[v] = q
  BY <1>1, <1>6, <1>8, <1>9 DEF TypeOK
<1>11. PICK sent : sent = StartAgain(v, panel[v])
  OBVIOUS
<1>12. Sends(v, sent) /\ Send(sent) /\ \A c \in sent : c.kind = "start"
  BY <1>1, <1>2, <1>11, StartsAgain
<1>13. ReadsOf(v) = {} /\ Answers(v, "read") = {a}
  <2>1. OneRead(v) /\ Answers(v, "read") # {}
    BY <1>1, <1>2, <1>3 DEF ViewFits, Opened
  <2> QED
    BY <1>2, <1>3, <2>1 DEF OneRead
<1>14. ReadsOf(v)' = {} /\ Answers(v, "read")' = {}
  <2>1. ReadsOf(v)' = ReadsOf(v)
    BY <1>1, <1>2, <1>10, <1>12, ReadsStay
  <2>2. Answers(v, "read")' = Answers(v, "read") \ {a}
    BY <1>3, <1>10 DEF Answers
  <2> QED
    BY <1>13, <2>1, <2>2
<1>15. ViewFits(v)'
  BY <1>2, <1>6, <1>10, <1>14, EndedView
<1>16. /\ opens \in Nat /\ opens <= opens' /\ opens' \in Nat /\ moves' \in Nat /\ drops' \in Nat
       /\ resized' \in [Viewers -> Seq(Grids \cup {None})]
  BY <1>1, <1>2, <1>3 DEF TypeOK
<1>17. /\ answers' \subseteq answers /\ \A b \in answers : b.viewer # v => b \in answers'
       /\ undrawn' \in {undrawn, undrawn \ {v}, undrawn \cup {v}}
  BY <1>3, <1>4
<1> QED
  BY <1>2, <1>8, <1>10, <1>12, <1>15, <1>16, <1>17, ViewMoves

LEMMA GiveUpStep ==
    ASSUME IInv, NEW v \in Viewers, GiveUp(v)
    PROVE  IInv'
<1>1. TypeOK /\ Typed /\ ViewFits(v) /\ panel[v] \in Panels
  BY DEF IInv, Typed, TypeOK
<1>2. PICK sent : sent = StartAgain(v, panel[v])
  OBVIOUS
<1>3. /\ panel[v].reading /\ drops' \in {drops, drops + 1}
      /\ panel' = [panel EXCEPT ![v] = Ended(panel[v])]
      /\ calls' = {c \in calls : ~(c.viewer = v /\ c.kind = "read" /\ c.id = panel[v].id)} \cup sent
      /\ answers' = {a \in answers : ~(a.viewer = v /\ a.kind = "read" /\ a.id = panel[v].id)}
      /\ undrawn' = undrawn \cup {v}
      /\ UNCHANGED <<pty, link, guards, turns, resized, astray, joined, opens, moves>>
  BY <1>2 DEF GiveUp
<1>4. PICK q : q = Ended(panel[v])
  OBVIOUS
<1>5. /\ q \in Panels /\ q.id = panel[v].id /\ q.emulator = panel[v].emulator /\ ~q.reading
      /\ \/ q.stage = panel[v].stage
         \/ panel[v].stage = "drawing" /\ q.stage = "live"
         \/ panel[v].stage = "failing" /\ q.stage \in {"starting", "failed"}
  BY <1>1, <1>4, EndedPanel
<1>6. panel' = [panel EXCEPT ![v] = q] /\ panel'[v] = q
  BY <1>1, <1>3, <1>4 DEF TypeOK
<1>7. Sends(v, sent) /\ \A c \in sent : c.kind = "start"
  BY <1>1, <1>2, StartsAgain
<1>8. ReadsOf(v)' = {} /\ Answers(v, "read")' = {}
  BY <1>3, <1>5, <1>6, <1>7 DEF ReadsOf, Answers
<1>9. ViewFits(v)'
  BY <1>3, <1>5, <1>6, <1>8, EndedView
<1>10. /\ opens \in Nat /\ opens <= opens' /\ opens' \in Nat /\ moves' \in Nat /\ drops' \in Nat
       /\ resized' \in [Viewers -> Seq(Grids \cup {None})]
  BY <1>1, <1>3 DEF TypeOK
<1>11. /\ answers' \subseteq answers /\ \A b \in answers : b.viewer # v => b \in answers'
       /\ undrawn' \in {undrawn, undrawn \ {v}, undrawn \cup {v}}
       /\ calls' \subseteq calls \cup sent /\ \A c \in calls : c.viewer # v => c \in calls'
       /\ turns' \in Seq(Calls) /\ Range(turns') = Range(turns)
  BY <1>1, <1>3 DEF TypeOK
<1> QED
  BY <1>3, <1>5, <1>6, <1>7, <1>9, <1>10, <1>11, ViewActs

LEMMA RetryStep ==
    ASSUME IInv, NEW v \in Viewers, Retry(v)
    PROVE  IInv'
<1>1. TypeOK /\ Typed /\ ViewFits(v) /\ panel[v] \in Panels
  BY DEF IInv, Typed, TypeOK
<1>2. PICK c : c = Call(v, "start", panel[v].id, panel[v].emulator)
  OBVIOUS
<1>3. /\ panel[v].stage = "failed" /\ Send({c})
      /\ panel' = [panel EXCEPT ![v].stage = "starting"]
      /\ UNCHANGED <<pty, link, guards, answers, resized, astray, joined, undrawn, opens, moves, drops>>
  BY <1>2 DEF Retry, boundVars
<1>4. PICK q : q = [panel[v] EXCEPT !.stage = "starting"]
  OBVIOUS
<1>5. /\ q \in Panels /\ q.id = panel[v].id /\ q.stage = "starting"
      /\ (q.reading => panel[v].reading) /\ (panel[v].reading => q.reading)
  BY <1>1, <1>4 DEF Panels, Stages
<1>6. panel' = [panel EXCEPT ![v] = q] /\ panel'[v] = q
  BY <1>1, <1>3, <1>4 DEF TypeOK
<1>7. Sends(v, {c}) /\ \A d \in {c} : d.kind # "read"
  BY <1>1, <1>2, Starting
<1>8. ReadsOf(v)' = ReadsOf(v)
  BY <1>1, <1>3, <1>5, <1>6, <1>7, ReadsStay
<1>9. Answers(v, "read")' = Answers(v, "read")
  BY <1>3, <1>5, <1>6 DEF Answers
<1>10. ViewFits(v)'
  <2>1. Opened(v)'
    <3>1. OneRead(v) /\ panel[v].id \in 1 .. opens
      BY <1>1, <1>3 DEF ViewFits, Opened, Open
    <3>2. OneRead(v)'
      BY <1>5, <1>6, <1>8, <1>9, <3>1 DEF OneRead
    <3> QED
      BY <1>3, <1>5, <1>6, <3>1, <3>2 DEF Opened, Open
  <2>2. Heading(v)'
    BY <1>1, <1>3 DEF ViewFits, Heading
  <2>3. Following(v)' /\ Drawn(v)'
    BY <1>5, <1>6 DEF Following, Ready, Drawn
  <2> QED
    BY <2>1, <2>2, <2>3 DEF ViewFits
<1>11. /\ opens \in Nat /\ opens <= opens' /\ opens' \in Nat /\ moves' \in Nat /\ drops' \in Nat
       /\ resized' \in [Viewers -> Seq(Grids \cup {None})]
  BY <1>1, <1>3 DEF TypeOK
<1> QED
  BY <1>3, <1>5, <1>6, <1>7, <1>10, <1>11, ViewMoves

LEMMA ReceiveSettledStep ==
    ASSUME IInv, NEW v \in Viewers, ReceiveSettled(v)
    PROVE  IInv'
<1>1. TypeOK /\ Typed /\ ViewFits(v) /\ panel[v] \in Panels
  BY DEF IInv, Typed, TypeOK
<1>2. /\ panel[v].stage = "claiming"
      /\ Send(ReadOf(v, panel[v])) /\ joined' = JoinedBy(v, panel[v])
      /\ UNCHANGED <<pty, link, guards, resized, astray, undrawn, opens, moves, drops>>
  BY DEF ReceiveSettled, boundVars
<1>3. PICK a \in Answers(v, "settle") : answers' = answers \ {a}
  BY DEF ReceiveSettled
<1>4. a \in answers /\ a.viewer = v /\ a.kind = "settle" /\ link[v].up
  BY <1>1 DEF Answers, Typed, AnswerFits
<1>5. PICK q : q = Drawing(panel[v])
  OBVIOUS
<1>6. /\ q \in Panels /\ q.id = panel[v].id /\ q.emulator = panel[v].emulator /\ q.reading
      /\ q.stage = "drawing"
  BY <1>1, <1>5 DEF Drawing, Panels, Stages
<1>7. panel' = [panel EXCEPT ![v] = q] /\ panel'[v] = q
  BY <1>1, <1>5 DEF TypeOK, ReceiveSettled
<1>8. Open(v) /\ Ready(v)
  BY <1>2 DEF Open, Ready
<1>9. Answers(v, "read")' = Answers(v, "read")
  BY <1>3, <1>4, <1>6, <1>7 DEF Answers
<1>10. PICK sent : sent = ReadOf(v, panel[v])
  OBVIOUS
<1>11. /\ Sends(v, sent) /\ OneRead(v)' /\ (v \in joined' \/ Answers(v, "read")' = {})
       /\ joined' \in {joined, joined \ {v}, joined \cup {v}} /\ Send(sent)
  BY <1>1, <1>2, <1>4, <1>6, <1>7, <1>8, <1>9, <1>10, Redrawing
<1>12. ViewFits(v)'
  <2>1. Opened(v)'
    <3>1. panel'[v].id \in 1 .. opens' /\ panel'[v].stage # "away"
      BY <1>1, <1>2, <1>6, <1>7, <1>8 DEF ViewFits, Opened
    <3> QED
      BY <1>11, <3>1 DEF Opened, Open
  <2>2. Heading(v)'
    BY <1>1, <1>2 DEF ViewFits, Heading
  <2>3. Following(v)'
    BY <1>1, <1>2, <1>6, <1>7, <1>8 DEF ViewFits, Following
  <2>4. Drawn(v)'
    BY <1>6, <1>7, <1>11 DEF Drawn
  <2> QED
    BY <2>1, <2>2, <2>3, <2>4 DEF ViewFits
<1>13. /\ opens \in Nat /\ opens <= opens' /\ opens' \in Nat /\ moves' \in Nat /\ drops' \in Nat
       /\ resized' \in [Viewers -> Seq(Grids \cup {None})]
  BY <1>1, <1>2 DEF TypeOK
<1>14. answers' \subseteq answers /\ \A b \in answers : b.viewer # v => b \in answers'
  BY <1>3, <1>4
<1> QED
  BY <1>2, <1>6, <1>7, <1>11, <1>12, <1>13, <1>14, ViewMoves

LEMMA ReceiveStartStep ==
    ASSUME IInv, NEW v \in Viewers, ReceiveStart(v)
    PROVE  IInv'
<1>1. TypeOK /\ Typed /\ ViewFits(v) /\ panel[v] \in Panels
  BY DEF IInv, Typed, TypeOK
<1>2. panel[v].stage = "starting" /\ UNCHANGED <<pty, link, guards, resized, undrawn, opens, moves, drops>>
  BY DEF ReceiveStart, boundVars
<1>3. PICK a \in Answers(v, "start") :
       LET p == [panel[v] EXCEPT !.emulator = a.grid, !.retry = FALSE] IN
       /\ answers' = answers \ {a}
       /\ \/ /\ panel' = [panel EXCEPT ![v] = [p EXCEPT !.stage = "claiming"]]
             /\ Send({Call(v, "settle", p.id, p.window)})
             /\ UNCHANGED joined
          \/ /\ panel' = [panel EXCEPT ![v] = [p EXCEPT !.stage = "drawing", !.reading = TRUE]]
             /\ Send(ReadOf(v, p))
             /\ joined' = JoinedBy(v, p)
  BY DEF ReceiveStart
<1>4. astray' = IF panel'[v].emulator = pty.grid \/ resized[v] # <<>>
                THEN astray \ {v} ELSE astray \cup {v}
  BY DEF ReceiveStart
<1>5. /\ a \in answers /\ a.viewer = v /\ a.kind = "start"
      /\ link[v].up /\ pty.running /\ a.grid \in Grids
  BY <1>1 DEF Answers, Typed, AnswerFits
<1>6. PICK p : p = [panel[v] EXCEPT !.emulator = a.grid, !.retry = FALSE]
  OBVIOUS
<1>7. /\ p \in Panels /\ p.id = panel[v].id /\ p.stage = panel[v].stage /\ p.emulator = a.grid
      /\ p.window \in Grids /\ p.id \in Nat
      /\ (p.reading => panel[v].reading) /\ (panel[v].reading => p.reading)
  BY <1>1, <1>5, <1>6 DEF Panels
<1>8. PICK q, sent :
        /\ panel' = [panel EXCEPT ![v] = q] /\ Send(sent)
        /\ \/ /\ q = [p EXCEPT !.stage = "claiming"] /\ sent = {Call(v, "settle", p.id, p.window)}
              /\ UNCHANGED joined
           \/ /\ q = [p EXCEPT !.stage = "drawing", !.reading = TRUE] /\ sent = ReadOf(v, p)
              /\ joined' = JoinedBy(v, p)
  BY <1>3, <1>6
<1>9. panel'[v] = q
  BY <1>1, <1>8 DEF TypeOK
<1>10. Open(v)
  BY <1>2 DEF Open
<1>11. answers' = answers \ {a}
  BY <1>3
<1>12. q \in Panels /\ q.id = panel[v].id /\ q.stage \in {"claiming", "drawing"}
  BY <1>7, <1>8 DEF Panels, Stages
<1>13. Answers(v, "read")' = Answers(v, "read")
  BY <1>5, <1>9, <1>11, <1>12 DEF Answers
<1>14. /\ Sends(v, sent) /\ OneRead(v)'
       /\ q.stage = "drawing" => q.reading /\ (v \in joined' \/ Answers(v, "read")' = {})
       /\ joined' \in {joined, joined \ {v}, joined \cup {v}}
  <2>1. CASE /\ q = [p EXCEPT !.stage = "claiming"] /\ sent = {Call(v, "settle", p.id, p.window)}
             /\ UNCHANGED joined
    <3>1. PICK k : k = "settle"
      OBVIOUS
    <3>2. PICK c : c = Call(v, k, p.id, p.window)
      OBVIOUS
    <3>3. k \in Kinds
      BY <3>1 DEF Kinds
    <3>4. c \in Calls /\ c.viewer = v /\ c.kind = k /\ c.grid = p.window /\ c.link = Current(v)
      BY <1>1, <1>7, <3>2, <3>3, NewCall
    <3>5. sent = {c}
      BY <2>1, <3>1, <3>2
    <3>6. Sends(v, sent) /\ \A d \in sent : d.kind # "read"
      BY <1>7, <3>1, <3>4, <3>5 DEF Sends
    <3>7. ReadsOf(v)' = ReadsOf(v)
      BY <1>1, <1>2, <1>8, <1>9, <1>12, <3>6, ReadsStay
    <3>8. /\ q.reading => panel[v].reading
          /\ panel[v].reading => q.reading
          /\ q.stage = "claiming"
      BY <1>7, <2>1 DEF Panels
    <3>9. OneRead(v)
      BY <1>1, <1>10 DEF ViewFits, Opened
    <3>10. OneRead(v)'
      BY <1>9, <1>13, <3>7, <3>8, <3>9 DEF OneRead
    <3> QED
      BY <2>1, <3>6, <3>8, <3>10
  <2>2. CASE /\ q = [p EXCEPT !.stage = "drawing", !.reading = TRUE] /\ sent = ReadOf(v, p)
             /\ joined' = JoinedBy(v, p)
    <3>1. q.reading
      BY <1>7, <2>2 DEF Panels
    <3> QED
      BY <1>1, <1>2, <1>5, <1>7, <1>8, <1>9, <1>10, <1>12, <1>13, <2>2, <3>1, Redrawing
  <2> QED
    BY <1>8, <2>1, <2>2
<1>15. ViewFits(v)'
  <2>1. Opened(v)'
    <3>1. panel'[v].id \in 1 .. opens' /\ panel'[v].stage # "away"
      BY <1>1, <1>2, <1>9, <1>10, <1>12 DEF ViewFits, Opened
    <3> QED
      BY <1>14, <3>1 DEF Opened, Open
  <2>2. Heading(v)'
    BY <1>1, <1>2 DEF ViewFits, Heading
  <2>3. Following(v)'
    BY <1>2, <1>4, <1>5 DEF Following
  <2>4. Drawn(v)'
    BY <1>9, <1>12, <1>14 DEF Drawn
  <2> QED
    BY <2>1, <2>2, <2>3, <2>4 DEF ViewFits
<1>16. /\ opens \in Nat /\ opens <= opens' /\ opens' \in Nat /\ moves' \in Nat /\ drops' \in Nat
       /\ resized' \in [Viewers -> Seq(Grids \cup {None})]
  BY <1>1, <1>2 DEF TypeOK
<1>17. /\ answers' \subseteq answers /\ \A b \in answers : b.viewer # v => b \in answers'
       /\ astray' \in {astray, astray \ {v}, astray \cup {v}}
  BY <1>4, <1>5, <1>11
<1> QED
  BY <1>2, <1>8, <1>12, <1>14, <1>15, <1>16, <1>17, ViewMoves

LEMMA ReceiveResizedStep ==
    ASSUME IInv, NEW v \in Viewers, ReceiveResized(v)
    PROVE  IInv'
<1>1. TypeOK /\ Typed /\ ViewFits(v) /\ panel[v] \in Panels /\ resized[v] \in Seq(Grids \cup {None})
  BY DEF IInv, Typed, TypeOK
<1>2. PICK grid : grid = Head(resized[v])
  OBVIOUS
<1>3. PICK p : p = [panel[v] EXCEPT !.emulator = grid]
  OBVIOUS
<1>4. PICK z : z = Tail(resized[v])
  OBVIOUS
<1>5. /\ resized[v] # <<>> /\ grid # None /\ resized' = [resized EXCEPT ![v] = z]
      /\ UNCHANGED <<pty, link, guards, answers, undrawn, opens, moves, drops>>
  BY <1>2, <1>4 DEF ReceiveResized, boundVars
<1>6. /\ grid \in Grids /\ Range(resized[v]) = Range(z) \cup {grid}
      /\ IF z = <<>> THEN grid = resized[v][Len(resized[v])]
         ELSE z[Len(z)] = resized[v][Len(resized[v])]
  <2>1. PICK S : S = Grids \cup {None}
    OBVIOUS
  <2>2. resized[v] \in Seq(S)
    BY <1>1, <2>1
  <2>3. /\ Head(resized[v]) \in S /\ Range(resized[v]) = Range(z) \cup {Head(resized[v])}
        /\ IF z = <<>> THEN Head(resized[v]) = resized[v][Len(resized[v])]
           ELSE z[Len(z)] = resized[v][Len(resized[v])]
    BY <1>4, <1>5, <2>2, Taken
  <2> QED
    BY <1>2, <1>5, <2>1, <2>3
<1>7. z \in Seq(Grids \cup {None})
  BY <1>1, <1>4, <1>5
<1>8. /\ resized' \in [Viewers -> Seq(Grids \cup {None})] /\ resized'[v] = z
      /\ \A o \in Viewers \ {v} : resized'[o] = resized[o]
  BY <1>1, <1>5, <1>7 DEF TypeOK
<1>9. /\ link[v].up /\ pty.running /\ resized[v][Len(resized[v])] \in {pty.grid, None}
      /\ (z = <<>> => grid = pty.grid)
  BY <1>1, <1>5, <1>6 DEF ViewFits, Heading
<1>10. Heading(v)'
  BY <1>5, <1>6, <1>8, <1>9 DEF Heading
<1>11. /\ p \in Panels /\ p.id = panel[v].id /\ p.stage = panel[v].stage /\ p.emulator = grid
       /\ (p.reading => panel[v].reading) /\ (panel[v].reading => p.reading)
  BY <1>1, <1>3, <1>6 DEF Panels
<1>12. /\ opens \in Nat /\ opens <= opens' /\ opens' \in Nat /\ moves' \in Nat /\ drops' \in Nat
  BY <1>1, <1>5 DEF TypeOK
<1>13. CASE ~(Connected(v) /\ panel[v].emulator # grid)
  <2>1. panel' = panel /\ Send({}) /\ joined' = joined /\ astray' = astray
    BY <1>2, <1>13 DEF ReceiveResized
  <2>2. calls' = calls /\ turns' = turns
    BY <2>1, NothingSent
  <2>3. ReadsOf(v)' = ReadsOf(v) /\ Answers(v, "read")' = Answers(v, "read")
    BY <1>5, <2>1, <2>2 DEF ReadsOf, Answers, Current
  <2>4. Opened(v)'
    <3>1. OneRead(v) => OneRead(v)'
      BY <2>1, <2>3 DEF OneRead
    <3> QED
      BY <1>1, <1>5, <2>1, <3>1 DEF ViewFits, Opened, Open
  <2>5. Following(v)'
    <3>1. ASSUME Ready(v)
          PROVE  panel[v].emulator = grid
      BY <1>13, <3>1 DEF Ready, Connected
    <3> QED
      BY <1>5, <1>8, <1>9, <2>1, <3>1 DEF Following, Ready
  <2>6. Drawn(v)'
    <3>1. ASSUME panel[v].stage \in {"drawing", "live"}
          PROVE  Path(v)' = Path(v) /\ (Lost(v)' <=> Lost(v))
      <4>1. panel[v].emulator = grid
        BY <1>13, <3>1 DEF Connected
      <4> QED
        BY <1>5, <1>6, <1>8, <2>1, <4>1 DEF Path, Lost
    <3> QED
      BY <1>1, <1>5, <2>1, <2>3, <3>1 DEF ViewFits, Drawn
  <2>7. ViewFits(v)'
    BY <1>10, <2>4, <2>5, <2>6 DEF ViewFits
  <2>8. PICK q : q = panel[v]
    OBVIOUS
  <2>9. panel' = [panel EXCEPT ![v] = q] /\ q \in Panels
    BY <1>1, <2>1, <2>8 DEF TypeOK
  <2> QED
    BY <1>5, <1>8, <1>12, <2>1, <2>7, <2>9, NothingSent, ViewMoves
<1>14. CASE Connected(v) /\ panel[v].emulator # grid /\ ~Ready(v)
  <2>1. panel' = [panel EXCEPT ![v] = p] /\ Send({}) /\ joined' = joined /\ astray' = astray \ {v}
    BY <1>2, <1>3, <1>14 DEF ReceiveResized
  <2>2. calls' = calls /\ turns' = turns /\ panel'[v] = p
    BY <1>1, <2>1, NothingSent DEF TypeOK
  <2>3. ReadsOf(v)' = ReadsOf(v) /\ Answers(v, "read")' = Answers(v, "read")
    BY <1>5, <1>11, <2>2 DEF ReadsOf, Answers, Current
  <2>4. OneRead(v)' /\ panel'[v].id \in 1 .. opens'
    BY <1>1, <1>5, <1>11, <1>14, <2>2, <2>3 DEF ViewFits, Opened, OneRead, Open, Connected
  <2>5. Opened(v)'
    BY <1>11, <1>14, <2>2, <2>4 DEF Opened, Open, Connected
  <2>6. Following(v)' /\ Drawn(v)'
    BY <1>11, <1>14, <2>2 DEF Following, Ready, Drawn
  <2>7. ViewFits(v)'
    BY <1>10, <2>5, <2>6 DEF ViewFits
  <2> QED
    BY <1>5, <1>8, <1>11, <1>12, <2>1, <2>7, NothingSent, ViewMoves
<1>15. CASE Connected(v) /\ panel[v].emulator # grid /\ Ready(v)
  <2>0. Open(v)
    BY <1>15 DEF Connected, Open
  <2>1. /\ panel' = [panel EXCEPT ![v] = [p EXCEPT !.reading = TRUE]]
        /\ Send(ReadOf(v, p)) /\ joined' = JoinedBy(v, p) /\ astray' = astray \ {v}
    BY <1>2, <1>3, <1>15 DEF ReceiveResized
  <2>2. PICK q : q = [p EXCEPT !.reading = TRUE]
    OBVIOUS
  <2>3. q \in Panels /\ q.id = panel[v].id /\ q.stage = panel[v].stage /\ q.emulator = grid /\ q.reading
    BY <1>11, <2>2 DEF Panels
  <2>4. panel' = [panel EXCEPT ![v] = q] /\ panel'[v] = q
    BY <1>1, <2>1, <2>2 DEF TypeOK
  <2>5. Answers(v, "read")' = Answers(v, "read")
    BY <1>5, <2>3, <2>4 DEF Answers
  <2>6. PICK sent : sent = ReadOf(v, p)
    OBVIOUS
  <2>7. /\ Sends(v, sent) /\ OneRead(v)' /\ (v \in joined' \/ Answers(v, "read")' = {})
        /\ joined' \in {joined, joined \ {v}, joined \cup {v}} /\ Send(sent)
    BY <1>1, <1>5, <1>9, <1>11, <2>0, <2>1, <2>3, <2>4, <2>5, <2>6, Redrawing
  <2>8. ViewFits(v)'
    <3>1. Opened(v)'
      <4>1. panel'[v].id \in 1 .. opens' /\ panel'[v].stage # "away"
        BY <1>1, <1>5, <2>0, <2>3, <2>4 DEF ViewFits, Opened, Open
      <4> QED
        BY <2>7, <4>1 DEF Opened, Open
    <3>2. Following(v)'
      BY <1>5, <1>8, <1>9, <2>3, <2>4 DEF Following
    <3>3. Drawn(v)'
      BY <2>3, <2>4, <2>7 DEF Drawn
    <3> QED
      BY <1>10, <3>1, <3>2, <3>3 DEF ViewFits
  <2> QED
    BY <1>5, <1>8, <1>12, <2>1, <2>3, <2>4, <2>7, <2>8, ViewMoves
<1> QED
  BY <1>13, <1>14, <1>15

LEMMA ReceiveResyncStep ==
    ASSUME IInv, NEW v \in Viewers, ReceiveResync(v)
    PROVE  IInv'
<1>1. /\ TypeOK /\ Typed /\ ViewFits(v) /\ panel[v] \in Panels
      /\ resized[v] \in Seq(Grids \cup {None})
  BY DEF IInv, Typed, TypeOK
<1>2. PICK p \in Panels : p = panel[v]
  BY <1>1
<1>3. PICK z : z = Tail(resized[v])
  OBVIOUS
<1>4. /\ resized[v] # <<>> /\ resized' = [resized EXCEPT ![v] = z]
      /\ UNCHANGED <<pty, link, guards, answers, undrawn, opens, moves, drops>>
  BY <1>3 DEF ReceiveResync, boundVars
<1>5. IF z = <<>> THEN TRUE ELSE z[Len(z)] = resized[v][Len(resized[v])]
  BY <1>1, <1>3, <1>4, Taken
<1>6. z \in Seq(Grids \cup {None})
  BY <1>1, <1>3, <1>4
<1>7. /\ resized' \in [Viewers -> Seq(Grids \cup {None})] /\ resized'[v] = z
      /\ \A o \in Viewers \ {v} : resized'[o] = resized[o]
  BY <1>1, <1>4, <1>6 DEF TypeOK
<1>8. astray' = IF p.emulator = pty.grid \/ z # <<>> THEN astray ELSE astray \cup {v}
  BY <1>2, <1>7 DEF ReceiveResync
<1>9. link[v].up /\ pty.running /\ resized[v][Len(resized[v])] \in {pty.grid, None}
  BY <1>1, <1>4 DEF ViewFits, Heading
<1>10. Heading(v)'
  BY <1>4, <1>5, <1>7, <1>9 DEF Heading
<1>11. ASSUME panel'[v].emulator = p.emulator
       PROVE  Following(v)'
  BY <1>4, <1>7, <1>8, <1>9, <1>11 DEF Following
<1>12. /\ opens \in Nat /\ opens <= opens' /\ opens' \in Nat /\ moves' \in Nat /\ drops' \in Nat
  BY <1>1, <1>4 DEF TypeOK
<1>13. CASE Connected(v)
  <2>1. /\ panel' = [panel EXCEPT ![v].reading = TRUE]
        /\ Send(ReadOf(v, p)) /\ joined' = JoinedBy(v, p)
    BY <1>2, <1>13 DEF ReceiveResync
  <2>2. PICK q : q = [p EXCEPT !.reading = TRUE]
    OBVIOUS
  <2>3. q \in Panels /\ q.id = p.id /\ q.stage = p.stage /\ q.emulator = p.emulator /\ q.reading
    BY <2>2 DEF Panels
  <2>4. panel' = [panel EXCEPT ![v] = q] /\ panel'[v] = q
    BY <1>1, <1>2, <2>1, <2>2 DEF TypeOK
  <2>5. Answers(v, "read")' = Answers(v, "read")
    BY <1>2, <1>4, <2>3, <2>4 DEF Answers
  <2>6. PICK sent : sent = ReadOf(v, p)
    OBVIOUS
  <2>7. Open(v)
    BY <1>13 DEF Open, Connected
  <2>8. /\ Sends(v, sent) /\ OneRead(v)' /\ (v \in joined' \/ Answers(v, "read")' = {})
        /\ joined' \in {joined, joined \ {v}, joined \cup {v}} /\ Send(sent)
    BY <1>1, <1>2, <1>4, <1>9, <2>1, <2>3, <2>4, <2>5, <2>6, <2>7, Redrawing
  <2>9. ViewFits(v)'
    <3>1. Opened(v)'
      <4>1. panel'[v].id \in 1 .. opens' /\ panel'[v].stage # "away"
        BY <1>1, <1>2, <1>4, <2>3, <2>4, <2>7 DEF ViewFits, Opened, Open
      <4> QED
        BY <2>8, <4>1 DEF Opened, Open
    <3>2. Following(v)'
      BY <1>11, <2>3, <2>4
    <3>3. Drawn(v)'
      BY <2>3, <2>4, <2>8 DEF Drawn
    <3> QED
      BY <1>10, <3>1, <3>2, <3>3 DEF ViewFits
  <2> QED
    BY <1>4, <1>7, <1>8, <1>12, <2>3, <2>4, <2>8, <2>9, ViewMoves
<1>14. CASE ~Connected(v)
  <2>1. Send({}) /\ panel' = panel /\ joined' = joined
    BY <1>14 DEF ReceiveResync
  <2>2. calls' = calls /\ turns' = turns
    BY <2>1, NothingSent
  <2>3. ReadsOf(v)' = ReadsOf(v) /\ Answers(v, "read")' = Answers(v, "read")
    BY <1>4, <2>1, <2>2 DEF ReadsOf, Answers, Current
  <2>4. Opened(v)'
    <3>1. OneRead(v) => OneRead(v)'
      BY <2>1, <2>3 DEF OneRead
    <3> QED
      BY <1>1, <1>4, <2>1, <3>1 DEF ViewFits, Opened, Open
  <2>5. Following(v)'
    BY <1>2, <1>11, <2>1
  <2>6. Drawn(v)'
    BY <1>14, <2>1 DEF Connected, Drawn
  <2>7. ViewFits(v)'
    BY <1>10, <2>4, <2>5, <2>6 DEF ViewFits
  <2>8. panel' = [panel EXCEPT ![v] = p]
    BY <1>1, <1>2, <2>1 DEF TypeOK
  <2> QED
    BY <1>4, <1>7, <1>8, <1>12, <2>1, <2>7, <2>8, NothingSent, ViewMoves
<1> QED
  BY <1>13, <1>14

-----------------------------------------------------------------------------
(* The backend.                                                             *)

Ptys == [running : BOOLEAN, grid : Grids \cup {None}, owner : Viewers \cup {None}]

Widened(v) == Path(v) \subseteq Path(v)' /\ (Lost(v) => Lost(v)')

(* What a handled call does to the PTY and to the events on their way:      *)
(* every view still ends at the PTY's grid.                                 *)
LEMMA Handled ==
    ASSUME IInv, NEW c \in Calls, c.kind # "read" => c.grid \in Grids,
           HandleResize(c) \/ HandleStart(c) \/ HandleRead(c),
           link' = link, panel' = panel
    PROVE  /\ pty' \in Ptys /\ pty'.grid \in Grids \cup {None}
           /\ pty'.running => pty'.grid \in Grids
           /\ pty.running => pty'.running
           /\ c.kind = "start" => pty'.running
           /\ resized' \in [Viewers -> Seq(Grids \cup {None})]
           /\ astray \subseteq astray' /\ astray' \subseteq Viewers
           /\ c.kind = "read" => UNCHANGED <<pty, resized, astray>>
           /\ \A v \in Viewers : Heading(v)' /\ Following(v)' /\ Widened(v)
<1>1. /\ TypeOK /\ pty \in Ptys /\ (pty.running => pty.grid \in Grids)
      /\ pty.running \in BOOLEAN /\ pty.grid \in Grids \cup {None}
      /\ resized \in [Viewers -> Seq(Grids \cup {None})] /\ astray \subseteq Viewers
      /\ \A v \in Viewers : Heading(v) /\ Following(v)
  BY DEF IInv, Typed, TypeOK, ViewFits, Ptys
<1>2. ASSUME UNCHANGED <<pty, resized, astray>>
      PROVE  \A v \in Viewers : Heading(v)' /\ Following(v)' /\ Widened(v)
  BY <1>1, <1>2 DEF Heading, Following, Widened, Path, Lost, Ready
<1>3. CASE HandleRead(c)
  <2>1. c.kind = "read" /\ UNCHANGED <<pty, resized, astray>>
    BY <1>3 DEF HandleRead
  <2> QED
    BY <1>1, <1>2, <2>1
<1>4. CASE HandleStart(c)
  <2>1. c.kind = "start" /\ c.grid \in Grids /\ c.viewer \in Viewers /\ UNCHANGED <<resized, astray>>
    BY <1>4 DEF HandleStart, Calls
  <2>2. CASE pty.running
    <3>1. pty' = pty
      BY <1>4, <2>2 DEF HandleStart
    <3> QED
      BY <1>1, <1>2, <2>1, <2>2, <3>1
  <2>3. CASE ~pty.running
    <3>1. pty' = [running |-> TRUE, grid |-> c.grid, owner |-> c.viewer]
      BY <1>4, <2>3 DEF HandleStart
    <3>2. pty' \in Ptys /\ pty'.running /\ pty'.grid = c.grid
      BY <2>1, <3>1 DEF Ptys
    <3>3. \A v \in Viewers : resized[v] = <<>> /\ ~Ready(v)
      BY <1>1, <2>3 DEF Heading, Following
    <3>4. \A v \in Viewers : Heading(v)' /\ Following(v)' /\ Widened(v)
      BY <2>1, <3>3 DEF Heading, Following, Widened, Path, Lost, Ready
    <3> QED
      BY <1>1, <2>1, <2>3, <3>2, <3>4
  <2> QED
    BY <2>2, <2>3
<1>5. CASE HandleResize(c)
  <2>1. c.kind \in Claims \cup {"report"} /\ c.kind # "start" /\ c.kind # "read"
    BY <1>5 DEF HandleResize, Claims
  <2>2. c.grid \in Grids /\ c.viewer \in Viewers
    BY <2>1 DEF Calls
  <2>3. CASE UNCHANGED <<pty, resized, astray>>
    BY <1>1, <1>2, <2>1, <2>3
  <2>4. CASE pty.running /\ ApplyViewport(c.viewer, c.grid)
    <3>1. PICK g \in Grids : g = c.grid
      BY <2>2
    <3>2. /\ pty' = [pty EXCEPT !.owner = c.viewer, !.grid = g]
          /\ resized' = [w \in Viewers |-> IF link[w].up THEN Append(resized[w], g) ELSE resized[w]]
          /\ astray' = astray \cup {w \in Viewers : ~link[w].up}
      BY <2>4, <3>1 DEF ApplyViewport
    <3>3. pty' \in Ptys /\ pty'.running /\ pty'.grid = g
      BY <1>1, <2>2, <2>4, <3>2 DEF Ptys
    <3>4. ASSUME NEW v \in Viewers
          PROVE  resized'[v] \in Seq(Grids \cup {None}) /\ Heading(v)' /\ Following(v)' /\ Widened(v)
      <4>1. CASE link[v].up
        <5>1. PICK z : z = Append(resized[v], g)
          OBVIOUS
        <5>2. resized[v] \in Seq(Grids \cup {None})
          BY <1>1
        <5>3. z # <<>> /\ z[Len(z)] = g /\ Range(z) = Range(resized[v]) \cup {g}
          <6>1. PICK S : S = Grids \cup {None}
            OBVIOUS
          <6>2. resized[v] \in Seq(S)
            BY <5>2, <6>1
          <6> QED
            BY <5>1, <6>2, Appended
        <5>4. z \in Seq(Grids \cup {None})
          BY <5>1, <5>2
        <5>5. resized'[v] = z
          BY <3>2, <4>1, <5>1
        <5>6. Heading(v)'
          BY <3>3, <4>1, <5>3, <5>5 DEF Heading
        <5>7. Following(v)'
          BY <3>3, <5>3, <5>5 DEF Following
        <5>8. Widened(v)
          BY <5>3, <5>5 DEF Widened, Path, Lost
        <5> QED
          BY <5>4, <5>5, <5>6, <5>7, <5>8
      <4>2. CASE ~link[v].up
        <5>1. resized'[v] = resized[v] /\ resized[v] \in Seq(Grids \cup {None}) /\ resized[v] = <<>> /\ v \in astray'
          BY <1>1, <3>2, <4>2 DEF Heading
        <5>2. Heading(v)'
          BY <5>1 DEF Heading
        <5>3. Following(v)'
          BY <3>3, <5>1 DEF Following
        <5>4. Widened(v)
          BY <5>1 DEF Widened, Path, Lost
        <5> QED
          BY <5>1, <5>2, <5>3, <5>4
      <4> QED
        BY <4>1, <4>2
    <3>5. resized' \in [Viewers -> Seq(Grids \cup {None})]
      <4>1. PICK f : f = resized'
        OBVIOUS
      <4>2. f = [w \in Viewers |-> f[w]] /\ \A w \in Viewers : f[w] \in Seq(Grids \cup {None})
        BY <3>2, <3>4, <4>1
      <4> QED
        BY <4>1, <4>2
    <3>6. astray \subseteq astray' /\ astray' \subseteq Viewers
      BY <1>1, <3>2
    <3> QED
      BY <2>1, <3>1, <3>3, <3>4, <3>5, <3>6
  <2> QED
    BY <1>5, <2>3, <2>4 DEF HandleResize
<1> QED
  BY <1>3, <1>4, <1>5

LEMMA HandleCallStep ==
    ASSUME IInv, NEW c, HandleCall(c)
    PROVE  IInv'
<1>1. /\ Typed /\ TypeOK /\ turns \in Seq(Calls)
      /\ \A v \in Viewers : ViewFits(v)
  BY DEF IInv, Typed, TypeOK
<1>2. UNCHANGED <<link, guards, panel, joined, undrawn, opens, moves, drops>>
  BY DEF HandleCall, boundVars
<1>3. HandleResize(c) \/ HandleStart(c) \/ HandleRead(c)
  BY DEF HandleCall
<1>4. PICK g : g = IF c.kind = "report" THEN c.grid ELSE pty'.grid
  OBVIOUS
<1>5. PICK a : a = [c EXCEPT !.grid = g]
  OBVIOUS
<1>6. answers' = IF Awaited(c) THEN answers \cup {a} ELSE answers
  BY <1>4, <1>5 DEF HandleCall
<1>7. /\ c \in Calls /\ calls' \subseteq calls /\ turns' \in Seq(Calls) /\ Range(turns') \subseteq Range(turns)
      /\ c.kind # "read" => c.grid \in Grids
      /\ c.kind = "read" => c.id <= opens /\ c \in calls /\ c.link # 0
      /\ \A d \in calls : d = c \/ d \in calls'
      /\ c.kind = "read" => calls' = calls \ {c}
  <2>1. CASE c \in calls /\ c.link # 0 /\ calls' = calls \ {c} /\ UNCHANGED turns
    <3>1. c \in Calls /\ CallFits(c)
      BY <1>1, <2>1 DEF Typed, TypeOK
    <3> QED
      BY <1>1, <2>1, <3>1 DEF CallFits
  <2>2. CASE turns # <<>> /\ c = Head(turns) /\ turns' = Tail(turns) /\ UNCHANGED calls
    <3>1. PICK z : z = Tail(turns)
      OBVIOUS
    <3>2. c \in Calls /\ Range(turns) = Range(z) \cup {c}
      BY <1>1, <2>2, <3>1, Taken
    <3>3. z \in Seq(Calls)
      BY <1>1, <2>2, <3>1
    <3>4. c.kind \in Claims \cup {"report"} /\ c.grid \in Grids
      BY <1>1, <3>2 DEF Typed
    <3>5. c.kind # "read"
      BY <3>4 DEF Claims
    <3> QED
      BY <2>2, <3>1, <3>2, <3>3, <3>4, <3>5
  <2> QED
    BY <2>1, <2>2 DEF HandleCall
<1>8. /\ pty' \in Ptys /\ pty'.grid \in Grids \cup {None}
      /\ pty'.running => pty'.grid \in Grids
      /\ pty.running => pty'.running
      /\ c.kind = "start" => pty'.running
      /\ resized' \in [Viewers -> Seq(Grids \cup {None})]
      /\ astray \subseteq astray' /\ astray' \subseteq Viewers
      /\ c.kind = "read" => UNCHANGED <<pty, resized, astray>>
      /\ \A v \in Viewers : Heading(v)' /\ Following(v)' /\ Widened(v)
  BY <1>2, <1>3, <1>7, Handled
<1>9. /\ a \in Calls /\ a.viewer = c.viewer /\ a.kind = c.kind /\ a.id = c.id /\ a.link = c.link
      /\ a.grid = g /\ (c.kind # "report" => g = pty'.grid)
  <2>1. g \in Grids \cup {None}
    BY <1>4, <1>7, <1>8 DEF Calls
  <2> QED
    BY <1>4, <1>5, <1>7, <2>1 DEF Calls
<1>10. Typed'
  <2>1. TypeOK'
    <3>1. calls' \subseteq Calls /\ answers' \subseteq Calls
      BY <1>1, <1>6, <1>7, <1>9 DEF TypeOK
    <3> QED
      BY <1>1, <1>2, <1>7, <1>8, <3>1 DEF TypeOK, Ptys
  <2>2. \A d \in calls' : CallFits(d)'
    BY <1>1, <1>2, <1>7 DEF Typed, CallFits
  <2>3. ASSUME NEW d \in answers'
        PROVE  AnswerFits(d)'
    <3>1. CASE d \in answers
      BY <1>1, <1>2, <1>8, <3>1 DEF Typed, AnswerFits
    <3>2. CASE d = a /\ Awaited(c)
      BY <1>2, <1>7, <1>8, <1>9, <3>2 DEF AnswerFits, Awaited
    <3> QED
      BY <1>6, <2>3, <3>1, <3>2
  <2>4. \A d \in Range(turns') : d.kind \in Claims \cup {"report"} /\ d.grid \in Grids
    BY <1>1, <1>7 DEF Typed
  <2> QED
    BY <1>8, <2>1, <2>2, <2>3, <2>4 DEF Typed
<1>11. ASSUME NEW v \in Viewers
       PROVE  ViewFits(v)'
  <2>1. ViewFits(v) /\ panel'[v] = panel[v] /\ link'[v] = link[v]
    BY <1>1, <1>2
  <2>2. CASE c \in ReadsOf(v)
    <3>1. c.viewer = v /\ c.kind = "read" /\ c.id = panel[v].id /\ c.link = Current(v) /\ c.link # 0
      BY <1>7, <2>2 DEF ReadsOf
    <3>2. Awaited(c)
      BY <3>1 DEF Awaited, Current
    <3>3. calls' = calls \ {c} /\ answers' = answers \cup {a} /\ UNCHANGED <<pty, resized, astray>>
      BY <1>6, <1>7, <1>8, <3>1, <3>2
    <3>4. ReadsOf(v)' = ReadsOf(v) \ {c}
      BY <1>2, <3>3 DEF ReadsOf, Current
    <3>5. Answers(v, "read")' = Answers(v, "read") \cup {a}
      BY <1>9, <2>1, <3>1, <3>3 DEF Answers
    <3>6. ASSUME Open(v)
          PROVE  /\ ReadsOf(v)' = {} /\ Answers(v, "read")' = {a} /\ panel[v].reading
                 /\ panel[v].id \in 1 .. opens
      <4>1. OneRead(v) /\ panel[v].id \in 1 .. opens
        BY <2>1, <3>6 DEF ViewFits, Opened
      <4>2. panel[v].reading /\ Answers(v, "read") = {} /\ ReadsOf(v) = {c}
        BY <2>2, <4>1 DEF OneRead
      <4> QED
        BY <3>4, <3>5, <4>1, <4>2
    <3>7. Opened(v)'
      BY <1>2, <2>1, <3>6 DEF ViewFits, Opened, Open, OneRead
    <3>8. Drawn(v)'
      <4>1. ASSUME panel[v].stage \in {"drawing", "live"}, v \notin astray, ~Lost(v)'
            PROVE  a.grid \in Path(v)'
        <5>1. Ready(v) /\ a.grid = pty.grid
          BY <1>9, <3>1, <3>3, <4>1 DEF Ready
        <5>2. resized[v] # <<>> \/ panel[v].emulator = pty.grid
          BY <2>1, <4>1, <5>1 DEF ViewFits, Following
        <5>3. resized[v] # <<>> => pty.grid \in Range(resized[v])
          <6>1. resized[v] \in Seq(Grids \cup {None}) /\ (resized[v] # <<>> => resized[v][Len(resized[v])] \in {pty.grid, None})
            BY <1>1, <2>1 DEF TypeOK, ViewFits, Heading
          <6>2. resized[v] # <<>> => Len(resized[v]) \in DOMAIN resized[v]
            BY <6>1
          <6> QED
            BY <3>3, <4>1, <6>1, <6>2 DEF Range, Lost
        <5> QED
          BY <1>8, <5>1, <5>2, <5>3 DEF Widened, Path
      <4>2. panel[v].stage \in {"drawing", "live"} => Open(v)
        BY DEF Open
      <4> QED
        BY <1>2, <2>1, <3>3, <3>6, <4>1, <4>2 DEF Drawn
    <3> QED
      BY <1>8, <3>7, <3>8 DEF ViewFits
  <2>3. CASE c \notin ReadsOf(v)
    <3>1. ReadsOf(v)' = ReadsOf(v)
      BY <1>2, <1>7, <2>3 DEF ReadsOf, Current
    <3>2. Answers(v, "read")' = Answers(v, "read")
      <4>1. ASSUME Awaited(c), c.viewer = v, c.kind = "read", c.id = panel[v].id
            PROVE  FALSE
        <5>1. c.link = Current(v) /\ c \in calls
          BY <1>7, <4>1 DEF Awaited, Current
        <5> QED
          BY <2>3, <4>1, <5>1 DEF ReadsOf
      <4> QED
        BY <1>6, <1>9, <2>1, <4>1 DEF Answers
    <3>3. OneRead(v) => OneRead(v)'
      BY <2>1, <3>1, <3>2 DEF OneRead
    <3>4. Opened(v)'
      BY <1>2, <2>1, <3>3 DEF ViewFits, Opened, Open
    <3>5. Drawn(v)'
      BY <1>2, <1>8, <2>1, <3>2 DEF ViewFits, Drawn, Widened
    <3> QED
      BY <1>8, <3>4, <3>5 DEF ViewFits
  <2> QED
    BY <2>2, <2>3
<1> QED
  BY <1>10, <1>11 DEF IInv

LEMMA GuardDropStep ==
    ASSUME IInv, NEW v \in Remote, NEW n, GuardDrop(v, n)
    PROVE  IInv'
<1>1. TypeOK /\ Typed /\ \A o \in Viewers : ViewFits(o)
  BY DEF IInv, Typed
<1>2. /\ guards' = [guards EXCEPT ![v] = @ \ {n}]
      /\ pty' = IF pty.owner = v THEN [pty EXCEPT !.owner = None] ELSE pty
      /\ UNCHANGED <<link, calls, turns, answers, resized, panel, astray, joined, undrawn, opens, moves, drops>>
  BY DEF GuardDrop, boundVars
<1>3. pty' \in Ptys /\ pty'.grid = pty.grid /\ pty'.running = pty.running
  <2>1. pty \in Ptys
    BY <1>1 DEF TypeOK, Ptys
  <2> QED
    BY <1>2, <2>1 DEF Ptys
<1>4. guards' \in [Viewers -> SUBSET Nat]
  BY <1>1, <1>2 DEF TypeOK
<1>5. TypeOK'
  BY <1>1, <1>2, <1>3, <1>4 DEF TypeOK, Ptys
<1>6. Typed'
  BY <1>1, <1>2, <1>3, <1>5 DEF Typed, CallFits, AnswerFits
<1>7. ASSUME NEW o \in Viewers
      PROVE  ViewFits(o)'
  <2>1. Same(o)
    BY <1>2 DEF Same
  <2>2. opens \in Nat /\ opens' = opens /\ opens <= opens'
    BY <1>1, <1>2 DEF TypeOK
  <2> QED
    BY <1>1, <1>3, <2>1, <2>2, SameView
<1> QED
  BY <1>6, <1>7 DEF IInv

-----------------------------------------------------------------------------
(* The links.                                                               *)

(* The panel of a lost connection: its redraw ends, and a panel whose start *)
(* or claim is rejected draws, unless a redraw is just ending.              *)
LEMMA RejectedPanel ==
    ASSUME TypeOK, NEW p \in Panels, NEW q, q = Rejected(p)
    PROVE  /\ q \in Panels /\ q.id = p.id /\ q.emulator = p.emulator
           /\ (q.reading => DrawsNext(p)) /\ (DrawsNext(p) => q.reading)
           /\ (q.stage \in {"claiming", "drawing", "live"} => p.stage \in {"claiming", "drawing", "live"})
           /\ (q.stage = "away" => p.stage = "away") /\ (p.stage = "away" => q.stage = "away")
           /\ AfterRejection(p) \in Panels
<1>1. PICK f : f = IF p.applying # None THEN Flushed(p) ELSE p
  OBVIOUS
<1>2. f \in Panels /\ f.id = p.id /\ f.stage = p.stage /\ f.emulator = p.emulator
  <2>1. CASE p.applying # None
    BY <1>1, <2>1, FlushedPanel
  <2>2. CASE p.applying = None
    BY <1>1, <2>2
  <2> QED
    BY <2>1, <2>2
<1>3. PICK stage : stage = IF p.stage = "starting" THEN "failing"
                           ELSE IF p.stage = "claiming" THEN "drawing" ELSE p.stage
  OBVIOUS
<1>4. PICK g : g = AfterRejection(p)
  OBVIOUS
<1>5. g = [f EXCEPT !.stage = stage]
  BY <1>1, <1>2, <1>3, <1>4 DEF AfterRejection
<1>6. stage \in Stages
  <2>1. p.stage \in Stages
    BY DEF Panels
  <2> QED
    BY <1>3, <2>1 DEF Stages
<1>7. g \in Panels /\ g.id = p.id /\ g.stage = stage /\ g.emulator = p.emulator
  BY <1>2, <1>5, <1>6 DEF Panels
<1>8. CASE p.reading
  <2>1. q = Ended(g) /\ ~DrawsNext(p)
    BY <1>4, <1>8 DEF Rejected, DrawsNext
  <2>2. /\ q \in Panels /\ q.id = g.id /\ q.emulator = g.emulator /\ ~q.reading
        /\ \/ q.stage = g.stage
           \/ g.stage = "drawing" /\ q.stage = "live"
           \/ g.stage = "failing" /\ q.stage \in {"starting", "failed"}
    BY <1>7, <2>1, EndedPanel
  <2> QED
    BY <1>3, <1>4, <1>7, <2>1, <2>2
<1>9. CASE ~p.reading
  <2>1. PICK b \in BOOLEAN : b = DrawsNext(p)
    BY DEF DrawsNext
  <2>2. q = [g EXCEPT !.reading = b]
    BY <1>4, <1>9, <2>1 DEF Rejected
  <2>3. q \in Panels /\ q.id = g.id /\ q.stage = g.stage /\ q.emulator = g.emulator /\ q.reading = b
    BY <1>7, <2>2 DEF Panels
  <2> QED
    BY <1>3, <1>4, <1>7, <2>1, <2>3
<1> QED
  BY <1>8, <1>9

LEMMA DropStep ==
    ASSUME IInv, NEW v \in Viewers, Drop(v)
    PROVE  IInv'
<1>1. /\ TypeOK /\ Typed /\ ViewFits(v) /\ panel[v] \in Panels
      /\ link[v].number \in Nat \ {0}
  BY DEF IInv, Typed, TypeOK
<1>2. PICK p \in Panels : p = panel[v]
  BY <1>1
<1>3. PICK rc : rc = Call(v, "read", p.id, None)
  OBVIOUS
<1>4. PICK base : base = SentOnRejection(v, p)
  OBVIOUS
<1>5. PICK added : added = {[c EXCEPT !.link = 0] : c \in base}
  OBVIOUS
<1>6. /\ link[v].up /\ drops' = drops + 1
      /\ link' = [link EXCEPT ![v].up = FALSE]
      /\ guards' = [guards EXCEPT ![v] = @ \cup {link[v].number}]
      /\ answers' = {a \in answers : a.viewer # v}
      /\ resized' = [resized EXCEPT ![v] = <<>>]
      /\ astray' = IF resized[v] # <<>> THEN astray \cup {v} ELSE astray
      /\ UNCHANGED <<pty, turns, joined, undrawn, opens, moves>>
  BY DEF Drop
<1>7. \E lost \in SUBSET calls :
        (\A c \in lost : c.viewer = v) /\ calls' = (calls \ lost) \cup added
  BY <1>2, <1>4, <1>5 DEF Drop
<1>8. PICK q : q = Rejected(p)
  OBVIOUS
<1>9. /\ q \in Panels /\ q.id = p.id /\ q.emulator = p.emulator
      /\ (q.reading => DrawsNext(p)) /\ (DrawsNext(p) => q.reading)
      /\ (q.stage \in {"claiming", "drawing", "live"} => p.stage \in {"claiming", "drawing", "live"})
      /\ (q.stage = "away" => p.stage = "away") /\ (p.stage = "away" => q.stage = "away")
      /\ AfterRejection(p) \in Panels
  BY <1>1, <1>8, RejectedPanel
<1>10. panel' = [panel EXCEPT ![v] = q] /\ panel'[v] = q
  BY <1>1, <1>2, <1>8 DEF TypeOK, Drop
<1>11. /\ link'[v].number = link[v].number /\ ~link'[v].up
       /\ \A o \in Viewers \ {v} : link'[o] = link[o] /\ resized'[o] = resized[o] /\ panel'[o] = panel[o]
       /\ resized'[v] = <<>>
  BY <1>1, <1>6, <1>10 DEF TypeOK
<1>12. link' \in [Viewers -> [number : Nat \ {0}, up : BOOLEAN]]
  BY <1>1, <1>6 DEF TypeOK
<1>13. /\ rc \in Calls /\ rc.viewer = v /\ rc.kind = "read" /\ rc.id = p.id /\ p.id \in Nat
  <2>1. PICK k : k = "read"
    OBVIOUS
  <2>2. k \in Kinds /\ p.id \in Nat /\ None \in Grids \cup {None}
    BY <2>1 DEF Kinds, Panels
  <2>3. rc = Call(v, k, p.id, None)
    BY <1>3, <2>1
  <2>4. rc \in Calls /\ rc.viewer = v /\ rc.kind = k /\ rc.id = p.id
    BY <1>1, <2>2, <2>3, NewCall
  <2> QED
    BY <2>1, <2>2, <2>4
<1>14. \A c \in base : /\ c \in Calls /\ c.viewer = v
                       /\ c.kind # "read" => c.grid \in Grids
                       /\ c.kind = "read" => c = rc /\ DrawsNext(p)
  <2>1. Sends(v, ReportOf(v, p)) /\ \A c \in ReportOf(v, p) : c.kind # "read"
    BY <1>1, Reporting
  <2>2. \A c \in ReportOf(v, p) : c \in Calls /\ c.viewer = v /\ c.grid \in Grids
    BY <2>1 DEF Sends
  <2>3. PICK again : again = StartAgain(v, AfterRejection(p))
    OBVIOUS
  <2>4. \A c \in again : c \in Calls /\ c.viewer = v /\ c.kind = "start" /\ c.grid \in Grids
    BY <1>1, <1>9, <2>3, StartsAgain
  <2>5. ASSUME NEW c \in base
        PROVE  c \in ReportOf(v, p) \/ c \in again \/ (c = rc /\ DrawsNext(p))
    BY <1>3, <1>4, <2>3 DEF SentOnRejection
  <2> QED
    BY <1>13, <2>1, <2>2, <2>4, <2>5
<1>15. PICK r0 : r0 = [rc EXCEPT !.link = 0]
  OBVIOUS
<1>16. r0 \in Calls /\ r0.viewer = v /\ r0.kind = "read" /\ r0.id = p.id /\ r0.link = 0
  BY <1>13, <1>15 DEF Calls
<1>17. \A d \in added : /\ d \in Calls /\ d.viewer = v /\ d.link = 0
                        /\ d.kind # "read" => d.grid \in Grids
                        /\ d.kind = "read" => d = r0 /\ DrawsNext(p)
  <2>1. ASSUME NEW c \in base, NEW d, d = [c EXCEPT !.link = 0]
        PROVE  /\ d \in Calls /\ d.viewer = v /\ d.link = 0
               /\ d.kind # "read" => d.grid \in Grids
               /\ d.kind = "read" => d = r0 /\ DrawsNext(p)
    <3>1. /\ c \in Calls /\ c.viewer = v
          /\ c.kind # "read" => c.grid \in Grids
          /\ c.kind = "read" => c = rc /\ DrawsNext(p)
      BY <1>14
    <3>2. d \in Calls /\ d.viewer = v /\ d.link = 0 /\ d.kind = c.kind /\ d.grid = c.grid
      BY <2>1, <3>1 DEF Calls
    <3> QED
      BY <1>15, <2>1, <3>1, <3>2
  <2> QED
    BY <1>5, <2>1
<1>18. DrawsNext(p) => r0 \in added
  BY <1>3, <1>4, <1>5, <1>15 DEF SentOnRejection
<1>19. /\ \A d \in calls' : d \in calls \/ d \in added
       /\ \A d \in added : d \in calls'
       /\ \A d \in calls : d.viewer # v => d \in calls'
  BY <1>7
<1>20. Typed'
  <2>1. TypeOK'
    <3>1. calls' \subseteq Calls /\ answers' \subseteq Calls
      BY <1>1, <1>6, <1>17, <1>19 DEF TypeOK
    <3>2. guards' \in [Viewers -> SUBSET Nat] /\ panel' \in [Viewers -> Panels]
      BY <1>1, <1>6, <1>9, <1>10 DEF TypeOK
    <3>3. resized' \in [Viewers -> Seq(Grids \cup {None})]
      <4>1. PICK e : e = <<>>
        OBVIOUS
      <4>2. e \in Seq(Grids \cup {None})
        BY <4>1
      <4> QED
        BY <1>1, <1>6, <4>1, <4>2 DEF TypeOK
    <3> QED
      BY <1>1, <1>6, <1>12, <3>1, <3>2, <3>3 DEF TypeOK
  <2>2. ASSUME NEW d \in calls'
        PROVE  CallFits(d)'
    <3>1. CASE d \in calls
      <4>1. CallFits(d) /\ d.viewer \in Viewers
        BY <1>1, <3>1 DEF Typed, TypeOK, Calls
      <4>2. link'[d.viewer].number = link[d.viewer].number /\ (link'[d.viewer].up => link[d.viewer].up)
        BY <1>11, <4>1
      <4> QED
        BY <1>6, <4>1, <4>2 DEF CallFits
    <3>2. CASE d \in added
      <4>1. d.kind = "read" => d.id <= opens'
        <5>1. ASSUME d.kind = "read"
              PROVE  p.id <= opens
          <6>1. DrawsNext(p)
            BY <1>17, <3>2, <5>1
          <6>2. panel[v].id \in 1 .. opens
            BY <1>1, <1>2, <6>1 DEF ViewFits, Opened, Open, DrawsNext
          <6> QED
            BY <1>1, <1>2, <6>2 DEF TypeOK
        <5> QED
          BY <1>6, <1>16, <1>17, <3>2, <5>1
      <4>2. 0 <= link'[v].number
        BY <1>1, <1>11
      <4> QED
        BY <1>11, <1>17, <3>2, <4>1, <4>2 DEF CallFits
    <3> QED
      BY <1>19, <3>1, <3>2
  <2>3. ASSUME NEW a \in answers'
        PROVE  AnswerFits(a)'
    <3>1. a \in answers /\ a.viewer # v /\ a.viewer \in Viewers /\ AnswerFits(a)
      BY <1>1, <1>6 DEF Typed, TypeOK, Calls
    <3> QED
      BY <1>6, <1>11, <3>1 DEF AnswerFits
  <2> QED
    BY <1>1, <1>6, <2>1, <2>2, <2>3 DEF Typed
<1>21. Answers(v, "read")' = {}
  BY <1>6 DEF Answers
<1>22. ReadsOf(v)' = IF DrawsNext(p) THEN {r0} ELSE {}
  <2>1. \A d \in calls : d.viewer = v => d.link # 0
    BY <1>1, <1>6 DEF Typed, CallFits
  <2>2. ReadsOf(v)' = {d \in calls' : d.viewer = v /\ d.kind = "read" /\ d.id = q.id /\ d.link = 0}
    BY <1>10, <1>11 DEF ReadsOf, Current
  <2>3. ASSUME NEW d \in calls', d.viewer = v, d.kind = "read", d.link = 0
        PROVE  d = r0 /\ DrawsNext(p)
    BY <1>17, <1>19, <2>1, <2>3
  <2>4. DrawsNext(p) => r0 \in calls' /\ r0.id = q.id
    BY <1>9, <1>16, <1>18, <1>19
  <2> QED
    BY <1>16, <2>2, <2>3, <2>4
<1>23. ViewFits(v)'
  <2>1. Heading(v)'
    BY <1>11 DEF Heading
  <2>2. OneRead(v)'
    <3>1. CASE DrawsNext(p)
      BY <1>9, <1>10, <1>21, <1>22, <3>1 DEF OneRead
    <3>2. CASE ~DrawsNext(p)
      BY <1>9, <1>10, <1>21, <1>22, <3>2 DEF OneRead
    <3> QED
      BY <3>1, <3>2
  <2>3. Opened(v)'
    <3>1. DrawsNext(p) => Open(v)
      BY <1>2 DEF DrawsNext, Open
    <3> QED
      BY <1>1, <1>2, <1>6, <1>9, <1>10, <2>2, <3>1 DEF ViewFits, Opened, Open
  <2>4. Following(v)'
    <3>1. Ready(v)' => Ready(v)
      BY <1>2, <1>9, <1>10 DEF Ready
    <3>2. Following(v)
      BY <1>1 DEF ViewFits
    <3> QED
      BY <1>2, <1>6, <1>9, <1>10, <3>1, <3>2 DEF Following
  <2>5. Drawn(v)'
    BY <1>11, <1>21 DEF Drawn
  <2> QED
    BY <2>1, <2>3, <2>4, <2>5 DEF ViewFits
<1>24. ASSUME NEW o \in Viewers, o # v
       PROVE  ViewFits(o)'
  <2>1. \A c \in calls \cup calls' : c.viewer = o => c \in calls /\ c \in calls'
    BY <1>17, <1>19, <1>24
  <2>2. \A a \in answers \cup answers' : a.viewer = o => a \in answers /\ a \in answers'
    BY <1>6, <1>24
  <2>3. /\ o \in astray' <=> o \in astray
        /\ o \in joined' <=> o \in joined
        /\ o \in undrawn' <=> o \in undrawn
    BY <1>6, <1>24
  <2>4. Same(o)
    BY <1>11, <1>24, <2>1, <2>2, <2>3 DEF Same
  <2>5. opens \in Nat /\ opens' = opens /\ opens <= opens' /\ pty' = pty /\ ViewFits(o)
    BY <1>1, <1>6 DEF IInv, TypeOK
  <2> QED
    BY <2>4, <2>5, SameView
<1> QED
  BY <1>20, <1>23, <1>24 DEF IInv

LEMMA LagStep ==
    ASSUME IInv, NEW v \in Viewers, Lag(v)
    PROVE  IInv'
<1>1. /\ TypeOK /\ Typed /\ ViewFits(v) /\ panel[v] \in Panels
      /\ resized[v] \in Seq(Grids \cup {None})
  BY DEF IInv, Typed, TypeOK
<1>2. PICK i \in DOMAIN resized[v] : resized' = [resized EXCEPT ![v][i] = None]
  BY DEF Lag
<1>3. /\ drops' = drops + 1
      /\ UNCHANGED <<pty, link, guards, calls, turns, answers, panel, astray, joined, undrawn,
                     opens, moves>>
  BY DEF Lag
<1>4. PICK z : z = [resized[v] EXCEPT ![i] = None]
  OBVIOUS
<1>5. /\ z \in Seq(Grids \cup {None}) /\ Len(z) = Len(resized[v]) /\ i \in DOMAIN z /\ z[i] = None
      /\ \A k \in DOMAIN resized[v] : z[k] \in {resized[v][k], None}
      /\ Len(z) \in DOMAIN resized[v]
  BY <1>1, <1>2, <1>4
<1>6. z # <<>> /\ resized[v] # <<>>
  BY <1>5
<1>7. /\ resized' \in [Viewers -> Seq(Grids \cup {None})] /\ resized'[v] = z
      /\ \A o \in Viewers \ {v} : resized'[o] = resized[o]
  BY <1>1, <1>2, <1>4, <1>5 DEF TypeOK
<1>8. ViewFits(v)'
  <2>1. Opened(v)'
    <3>1. ReadsOf(v)' = ReadsOf(v) /\ Answers(v, "read")' = Answers(v, "read")
      BY <1>3 DEF ReadsOf, Answers, Current
    <3>2. OneRead(v) => OneRead(v)'
      BY <1>3, <3>1 DEF OneRead
    <3> QED
      BY <1>1, <1>3, <3>2 DEF ViewFits, Opened, Open
  <2>2. Heading(v)'
    <3>1. z[Len(z)] \in {resized[v][Len(resized[v])], None}
      BY <1>5
    <3> QED
      BY <1>1, <1>3, <1>6, <1>7, <3>1 DEF ViewFits, Heading
  <2>3. Following(v)'
    BY <1>1, <1>3, <1>6, <1>7 DEF ViewFits, Following, Ready
  <2>4. Lost(v)'
    BY <1>5, <1>7 DEF Lost, Range
  <2>5. Drawn(v)'
    BY <2>4 DEF Drawn
  <2> QED
    BY <2>1, <2>2, <2>3, <2>5 DEF ViewFits
<1>9. PICK q : q = panel[v]
  OBVIOUS
<1>10. panel' = [panel EXCEPT ![v] = q] /\ q \in Panels
  BY <1>1, <1>3, <1>9 DEF TypeOK
<1>11. opens \in Nat /\ opens <= opens' /\ opens' \in Nat /\ moves' \in Nat /\ drops' \in Nat
  BY <1>1, <1>3 DEF TypeOK
<1> QED
  BY <1>3, <1>7, <1>8, <1>10, <1>11, NothingSent, ViewMoves

LEMMA ReconnectStep ==
    ASSUME IInv, NEW v \in Remote, Reconnect(v)
    PROVE  IInv'
<1>1. /\ TypeOK /\ Typed /\ ViewFits(v) /\ panel[v] \in Panels /\ v \in Viewers
      /\ link[v].number \in Nat \ {0} /\ None \in Grids \cup {None}
  BY DEF IInv, Typed, TypeOK, Viewers
<1>2. PICK p \in Panels : p = panel[v]
  BY <1>1
<1>3. PICK n \in Nat : n = link[v].number + 1
  BY <1>1
<1>4. PICK r : r = Call(v, "read", p.id, None)
  OBVIOUS
<1>5. PICK sent : sent = SentOnReturn(v, p)
  OBVIOUS
<1>6. /\ ~link[v].up
      /\ link' = [link EXCEPT ![v] = [number |-> n, up |-> TRUE]]
      /\ calls' = {IF c.viewer = v /\ c.link = 0 THEN [c EXCEPT !.link = n] ELSE c : c \in calls \cup sent}
      /\ joined' = joined \ {v}
      /\ UNCHANGED <<pty, guards, turns, answers, resized, astray, undrawn, opens, moves, drops>>
  BY <1>2, <1>3, <1>5 DEF Reconnect, boundVars
<1>7. /\ r \in Calls /\ r.viewer = v /\ r.kind = "read" /\ r.id = p.id /\ r.link = 0
      /\ Current(v) = 0
  <2>1. PICK k : k = "read"
    OBVIOUS
  <2>2. k \in Kinds /\ p.id \in Nat
    BY <2>1 DEF Kinds, Panels
  <2>3. PICK d : d = Call(v, k, p.id, None)
    OBVIOUS
  <2>4. d \in Calls /\ d.viewer = v /\ d.kind = k /\ d.id = p.id /\ d.link = Current(v)
    BY <1>1, <2>2, <2>3, NewCall
  <2>5. Current(v) = 0 /\ r = d
    BY <1>4, <1>6, <2>1, <2>3 DEF Current
  <2> QED
    BY <2>1, <2>4, <2>5
<1>8. PICK q : q = Returned(p)
  OBVIOUS
<1>9. /\ q \in Panels /\ q.id = p.id /\ q.emulator = p.emulator
      /\ (q.reading => panel[v].reading \/ Connected(v)) /\ (panel[v].reading => q.reading)
      /\ Connected(v) => q.reading
      /\ q.stage = p.stage \/ (p.stage = "failed" /\ q.stage = "starting")
  <2>1. CASE p.stage = "away"
    BY <1>2, <1>8, <2>1 DEF Returned, Connected
  <2>2. CASE p.stage = "failed"
    BY <1>2, <1>8, <2>2 DEF Returned, Connected, Panels, Stages
  <2>3. CASE p.stage \notin {"away", "failed"}
    <3>1. PICK retry \in BOOLEAN : retry = StartsLater(p)
      BY DEF StartsLater
    <3>2. q = [p EXCEPT !.reading = TRUE, !.retry = retry]
      BY <1>8, <2>3, <3>1 DEF Returned
    <3> QED
      BY <1>2, <2>3, <3>2 DEF Connected, Panels
  <2> QED
    BY <2>1, <2>2, <2>3
<1>10. panel' = [panel EXCEPT ![v] = q] /\ panel'[v] = q
  BY <1>1, <1>2, <1>8 DEF TypeOK, Reconnect
<1>11. /\ link'[v].number = n /\ link'[v].up
       /\ \A o \in Viewers \ {v} : link'[o] = link[o] /\ panel'[o] = panel[o]
       /\ link' \in [Viewers -> [number : Nat \ {0}, up : BOOLEAN]]
  <2>1. PICK l : l = [number |-> n, up |-> TRUE]
    OBVIOUS
  <2>2. l.number = n /\ l.up /\ l \in [number : Nat \ {0}, up : BOOLEAN]
    BY <1>1, <1>3, <2>1
  <2> QED
    BY <1>1, <1>6, <1>10, <2>1, <2>2 DEF TypeOK
<1>12. /\ \A c \in sent :
             /\ c \in Calls /\ c.viewer = v /\ c.link = 0
             /\ c.kind # "read" => c.grid \in Grids
             /\ c.kind = "read" => (c = r /\ Connected(v) /\ ~p.reading)
       /\ (Connected(v) /\ ~p.reading) => r \in sent
  <2>1. CASE p.stage = "away"
    BY <1>2, <1>5, <2>1 DEF SentOnReturn, Connected
  <2>2. CASE p.stage = "failed"
    <3>1. PICK c : c = Call(v, "start", p.id, p.emulator)
      OBVIOUS
    <3>2. /\ c \in Calls /\ c.viewer = v /\ c.kind = "start" /\ c.grid \in Grids
          /\ Sends(v, {c})
      BY <1>1, <3>1, Starting
    <3>3. sent = {c} /\ c.link = 0
      BY <1>5, <1>7, <2>2, <3>1, <3>2 DEF SentOnReturn, Sends
    <3> QED
      BY <1>2, <2>2, <3>2, <3>3 DEF Connected
  <2>3. CASE p.stage \notin {"away", "failed"}
    <3>1. sent = IF p.reading THEN {} ELSE {r}
      BY <1>4, <1>5, <2>3 DEF SentOnReturn, ReadOf
    <3> QED
      BY <1>2, <1>7, <2>3, <3>1 DEF Connected
  <2> QED
    BY <2>1, <2>2, <2>3
<1>13. ASSUME NEW c \in calls \cup sent, NEW d,
              d = IF c.viewer = v /\ c.link = 0 THEN [c EXCEPT !.link = n] ELSE c
       PROVE  /\ d \in Calls /\ d.viewer = c.viewer /\ d.kind = c.kind /\ d.id = c.id /\ d.grid = c.grid
              /\ d.link = IF c.viewer = v /\ c.link = 0 THEN n ELSE c.link
              /\ c.viewer # v => d = c
  <2>1. c \in Calls
    BY <1>1, <1>12 DEF TypeOK
  <2> QED
    BY <1>3, <1>13, <2>1 DEF Calls
<1>14. \A d \in calls' : \E c \in calls \cup sent :
          d = IF c.viewer = v /\ c.link = 0 THEN [c EXCEPT !.link = n] ELSE c
  BY <1>6
<1>15. \A c \in calls \cup sent : \E d \in calls' :
          d = IF c.viewer = v /\ c.link = 0 THEN [c EXCEPT !.link = n] ELSE c
  BY <1>6
<1>16. Typed'
  <2>1. calls' \subseteq Calls
    BY <1>13, <1>14
  <2>2. TypeOK'
    <3>1. panel' \in [Viewers -> Panels] /\ joined' \subseteq Viewers
      BY <1>1, <1>6, <1>9, <1>10 DEF TypeOK
    <3> QED
      BY <1>1, <1>6, <1>11, <2>1, <3>1 DEF TypeOK
  <2>3. ASSUME NEW d \in calls'
        PROVE  CallFits(d)'
    <3>1. PICK c \in calls \cup sent : d = IF c.viewer = v /\ c.link = 0 THEN [c EXCEPT !.link = n] ELSE c
      BY <1>14
    <3>2. /\ d.viewer = c.viewer /\ d.kind = c.kind /\ d.id = c.id /\ d.grid = c.grid
          /\ d.link = IF c.viewer = v /\ c.link = 0 THEN n ELSE c.link
      BY <1>13, <3>1
    <3>3. CASE c \in sent
      <4>1. d.viewer = v /\ d.link = n /\ (d.kind # "read" => d.grid \in Grids)
        BY <1>12, <3>2, <3>3
      <4>2. d.kind = "read" => d.id <= opens'
        <5>1. ASSUME d.kind = "read"
              PROVE  d.id = p.id /\ Connected(v)
          BY <1>7, <1>12, <3>2, <3>3, <5>1
        <5>2. ASSUME Connected(v)
              PROVE  p.id <= opens
          <6>1. panel[v].id \in 1 .. opens
            BY <1>1, <5>2 DEF ViewFits, Opened, Open, Connected
          <6> QED
            BY <1>1, <1>2, <6>1 DEF TypeOK
        <5> QED
          BY <1>6, <5>1, <5>2
      <4> QED
        BY <1>1, <1>3, <1>11, <4>1, <4>2 DEF CallFits
    <3>4. CASE c \in calls
      <4>2. CallFits(c) /\ c.viewer \in Viewers /\ c.link \in Nat
        BY <1>1, <3>4 DEF Typed, TypeOK, Calls
      <4>3. CASE c.viewer = v
        <5>1. c.link <= link[v].number /\ link'[d.viewer].number = n
          BY <1>11, <3>2, <4>2, <4>3 DEF CallFits
        <5>2. d.link <= n /\ d.link # 0
          BY <1>1, <1>3, <3>2, <4>2, <4>3, <5>1
        <5> QED
          BY <1>6, <3>2, <4>2, <5>1, <5>2 DEF CallFits
      <4>4. CASE c.viewer # v
        <5>1. link'[c.viewer] = link[c.viewer]
          BY <1>11, <4>2, <4>4
        <5> QED
          BY <1>6, <3>2, <4>2, <4>4, <5>1 DEF CallFits
      <4> QED
        BY <4>3, <4>4
    <3> QED
      BY <3>3, <3>4
  <2>4. ASSUME NEW a \in answers'
        PROVE  AnswerFits(a)'
    <3>1. a \in answers /\ a.viewer \in Viewers /\ AnswerFits(a)
      BY <1>1, <1>6 DEF Typed, TypeOK, Calls
    <3> QED
      BY <1>6, <1>11, <3>1 DEF AnswerFits
  <2> QED
    BY <1>1, <1>6, <2>2, <2>3, <2>4 DEF Typed
<1>17. Answers(v, "read")' = {} /\ Answers(v, "read") = {}
  BY <1>1, <1>6 DEF Typed, AnswerFits, Answers
<1>18. ReadsOf(v) = {c \in calls : c.viewer = v /\ c.kind = "read" /\ c.id = p.id /\ c.link = 0}
  BY <1>2, <1>6 DEF ReadsOf, Current
<1>19. ReadsOf(v)' = {d \in calls' : d.viewer = v /\ d.kind = "read" /\ d.id = p.id /\ d.link = n}
  BY <1>9, <1>10, <1>11 DEF ReadsOf, Current
<1>20. PICK waiting : waiting = {c \in calls \cup sent :
                                   c.viewer = v /\ c.kind = "read" /\ c.id = p.id /\ c.link = 0}
  OBVIOUS
<1>21. waiting = IF Connected(v) /\ ~p.reading THEN ReadsOf(v) \cup {r} ELSE ReadsOf(v)
  BY <1>7, <1>12, <1>18, <1>20
<1>22. ASSUME NEW d \in ReadsOf(v)'
       PROVE  \E c \in waiting : d = [c EXCEPT !.link = n]
  <2>1. d \in calls' /\ d.viewer = v /\ d.kind = "read" /\ d.id = p.id /\ d.link = n
    BY <1>19
  <2>2. PICK c \in calls \cup sent : d = IF c.viewer = v /\ c.link = 0 THEN [c EXCEPT !.link = n] ELSE c
    BY <1>14, <2>1
  <2>3. /\ d.viewer = c.viewer /\ d.kind = c.kind /\ d.id = c.id
        /\ d.link = IF c.viewer = v /\ c.link = 0 THEN n ELSE c.link
    BY <1>13, <2>2
  <2>4. c.link = 0
    <3>1. CASE c \in sent
      BY <1>12, <3>1
    <3>2. CASE c \in calls
      <4>1. c.link <= link[v].number /\ c.link \in Nat
        BY <1>1, <2>1, <2>3, <3>2 DEF Typed, TypeOK, CallFits, Calls
      <4> QED
        BY <1>1, <1>3, <2>1, <2>3, <4>1
    <3> QED
      BY <3>1, <3>2
  <2> QED
    BY <1>20, <2>1, <2>2, <2>3, <2>4
<1>23. ASSUME NEW c \in waiting, NEW d, d = [c EXCEPT !.link = n]
       PROVE  d \in ReadsOf(v)'
  <2>1. c \in calls \cup sent /\ c.viewer = v /\ c.kind = "read" /\ c.id = p.id /\ c.link = 0
    BY <1>20
  <2>2. d = IF c.viewer = v /\ c.link = 0 THEN [c EXCEPT !.link = n] ELSE c
    BY <1>23, <2>1
  <2>3. d \in calls'
    BY <1>15, <2>1, <2>2
  <2>4. d.viewer = v /\ d.kind = "read" /\ d.id = p.id /\ d.link = n
    BY <1>13, <2>1, <2>2
  <2> QED
    BY <1>19, <2>3, <2>4
<1>24. Open(v) => OneRead(v)' /\ panel'[v].id \in 1 .. opens'
  <2> SUFFICES ASSUME Open(v)
               PROVE  OneRead(v)' /\ panel'[v].id \in 1 .. opens'
    OBVIOUS
  <2>1. OneRead(v) /\ panel[v].id \in 1 .. opens
    BY <1>1 DEF ViewFits, Opened
  <2>2. CASE p.reading \/ Connected(v)
    <3>1. PICK c : waiting = {c}
      <4>1. CASE p.reading
        <5>1. \E c : ReadsOf(v) = {c}
          BY <1>2, <1>17, <2>1, <4>1 DEF OneRead
        <5> QED
          BY <1>21, <4>1, <5>1
      <4>2. CASE ~p.reading
        <5>1. ReadsOf(v) = {} /\ Connected(v)
          BY <1>2, <2>1, <2>2, <4>2 DEF OneRead
        <5> QED
          BY <1>21, <4>2, <5>1
      <4> QED
        BY <4>1, <4>2
    <3>2. PICK d : d = [c EXCEPT !.link = n]
      OBVIOUS
    <3>3. ReadsOf(v)' = {d}
      BY <1>22, <1>23, <3>1, <3>2
    <3>4. panel'[v].reading
      BY <1>2, <1>9, <1>10, <2>2
    <3> QED
      BY <1>2, <1>6, <1>9, <1>10, <1>17, <2>1, <3>3, <3>4 DEF OneRead
  <2>3. CASE ~(p.reading \/ Connected(v))
    <3>1. waiting = {}
      BY <1>2, <1>21, <2>1, <2>3 DEF OneRead
    <3>2. ReadsOf(v)' = {} /\ ~panel'[v].reading
      BY <1>2, <1>9, <1>10, <1>22, <2>3, <3>1
    <3> QED
      BY <1>2, <1>6, <1>9, <1>10, <1>17, <2>1, <3>2 DEF OneRead
  <2> QED
    BY <2>2, <2>3
<1>25. ViewFits(v)'
  <2>1. Opened(v)'
    <3>1. /\ panel'[v].stage # "away" => Open(v)
          /\ Open(v) => panel'[v].stage # "away"
      BY <1>2, <1>9, <1>10 DEF Open
    <3>2. ~Open(v) => ~panel'[v].reading
      BY <1>1, <1>2, <1>9, <1>10 DEF ViewFits, Opened, Open, Connected
    <3> QED
      BY <1>24, <3>1, <3>2 DEF Opened, Open
  <2>2. Heading(v)'
    BY <1>1, <1>6, <1>11 DEF ViewFits, Heading
  <2>3. Following(v)'
    BY <1>1, <1>2, <1>6, <1>9, <1>10 DEF ViewFits, Following, Ready
  <2>4. Drawn(v)'
    <3>1. panel'[v].stage \in {"drawing", "live"} => panel'[v].reading
      BY <1>2, <1>9, <1>10 DEF Connected
    <3> QED
      BY <1>17, <3>1 DEF Drawn
  <2> QED
    BY <2>1, <2>2, <2>3, <2>4 DEF ViewFits
<1>26. ASSUME NEW o \in Viewers, o # v
       PROVE  ViewFits(o)'
  <2>1. \A c \in calls \cup calls' : c.viewer = o => c \in calls /\ c \in calls'
    <3>1. ASSUME NEW c \in calls, c.viewer = o
          PROVE  c \in calls'
      BY <1>15, <1>26, <3>1
    <3>2. ASSUME NEW d \in calls', d.viewer = o
          PROVE  d \in calls
      <4>1. PICK c \in calls \cup sent : d = IF c.viewer = v /\ c.link = 0 THEN [c EXCEPT !.link = n] ELSE c
        BY <1>14, <3>2
      <4>2. d.viewer = c.viewer /\ (c.viewer # v => d = c)
        BY <1>13, <4>1
      <4> QED
        BY <1>12, <1>26, <3>2, <4>2
    <3> QED
      BY <3>1, <3>2
  <2>2. /\ o \in astray' <=> o \in astray
        /\ o \in joined' <=> o \in joined
        /\ o \in undrawn' <=> o \in undrawn
    BY <1>6, <1>26
  <2>3. Same(o)
    BY <1>6, <1>11, <1>26, <2>1, <2>2 DEF Same
  <2>4. opens \in Nat /\ opens' = opens /\ opens <= opens' /\ pty' = pty /\ ViewFits(o)
    BY <1>1, <1>6 DEF IInv, TypeOK
  <2> QED
    BY <2>3, <2>4, SameView
<1> QED
  BY <1>16, <1>25, <1>26 DEF IInv

-----------------------------------------------------------------------------
(* The theorems.                                                            *)

LEMMA InitStep ==
    ASSUME Init
    PROVE  IInv
<1>1. PICK window \in [Viewers -> Grids] : panel = [v \in Viewers |-> Away(window[v])]
  BY DEF Init
<1>2. /\ pty = [running |-> FALSE, grid |-> None, owner |-> None]
      /\ link = [v \in Viewers |-> [number |-> 1, up |-> TRUE]]
      /\ guards = [v \in Viewers |-> {}]
      /\ calls = {} /\ answers = {} /\ turns = <<>>
      /\ resized = [v \in Viewers |-> <<>>]
      /\ astray = {} /\ joined = {} /\ undrawn = {}
      /\ opens = 0 /\ moves = 0 /\ drops = 0
  BY DEF Init
<1>3. ASSUME NEW v \in Viewers, NEW p, p = Away(window[v])
      PROVE  p \in Panels /\ p.stage = "away" /\ ~p.reading
  <2>1. window[v] \in Grids
    BY <1>1
  <2> QED
    BY <1>3, <2>1 DEF Away, Panels, Stages
<1>4. panel \in [Viewers -> Panels]
  BY <1>1, <1>3
<1>5. \A v \in Viewers : panel[v].stage = "away" /\ ~panel[v].reading
  BY <1>1, <1>3
<1>6. pty \in Ptys /\ ~pty.running
  BY <1>2 DEF Ptys
<1>7. link \in [Viewers -> [number : Nat \ {0}, up : BOOLEAN]] /\ \A v \in Viewers : link[v].up
  <2>1. PICK l : l = [number |-> 1, up |-> TRUE]
    OBVIOUS
  <2>2. l \in [number : Nat \ {0}, up : BOOLEAN] /\ l.up
    BY <2>1
  <2> QED
    BY <1>2, <2>1, <2>2
<1>8. resized \in [Viewers -> Seq(Grids \cup {None})] /\ turns \in Seq(Calls) /\ Range(turns) = {}
  <2>1. PICK e : e = <<>>
    OBVIOUS
  <2>2. e \in Seq(Grids \cup {None}) /\ e \in Seq(Calls) /\ DOMAIN e = {}
    BY <2>1
  <2>3. Range(e) = {}
    BY <2>2 DEF Range
  <2> QED
    BY <1>2, <2>1, <2>2, <2>3
<1>9. TypeOK
  BY <1>2, <1>4, <1>6, <1>7, <1>8 DEF TypeOK, Ptys
<1>10. Typed
  BY <1>2, <1>6, <1>8, <1>9 DEF Typed
<1>11. ASSUME NEW v \in Viewers
       PROVE  ViewFits(v)
  <2>1. resized[v] = <<>>
    BY <1>2
  <2> QED
    BY <1>5, <1>7, <2>1 DEF ViewFits, Opened, Open, Heading, Following, Ready, Drawn
<1> QED
  BY <1>10, <1>11 DEF IInv

LEMMA NextStep ==
    ASSUME IInv, [Next]_vars
    PROVE  IInv'
<1>1. ASSUME Backend
      PROVE  IInv'
  <2>1. CASE \E c \in calls \cup Range(turns) : HandleCall(c)
    BY <2>1, HandleCallStep
  <2>2. CASE \E v \in Remote : \E n \in guards[v] : GuardDrop(v, n)
    BY <2>2, GuardDropStep
  <2> QED
    BY <1>1, <2>1, <2>2 DEF Backend
<1>2. ASSUME View
      PROVE  IInv'
  <2>1. ASSUME NEW v \in Viewers,
               ReceiveStart(v) \/ ReceiveSettled(v) \/ ReceiveScreen(v) \/ ReceiveResized(v)
                 \/ ReceiveResync(v) \/ TimerFires(v) \/ ReceiveApplied(v)
        PROVE  IInv'
    BY <2>1, ReceiveStartStep, ReceiveSettledStep, ReceiveScreenStep, ReceiveResizedStep,
       ReceiveResyncStep, TimerFiresStep, ReceiveAppliedStep
  <2>2. ASSUME NEW v \in Remote, Reconnect(v)
        PROVE  IInv'
    BY <2>2, ReconnectStep
  <2> QED
    BY <1>2, <2>1, <2>2 DEF View
<1>3. ASSUME User
      PROVE  IInv'
  <2>1. ASSUME NEW v \in Viewers,
               \/ OpenView(v) \/ CloseView(v) \/ Retry(v) \/ Focus(v)
               \/ GiveUp(v) \/ Drop(v) \/ Lag(v)
        PROVE  IInv'
    BY <2>1, OpenViewStep, CloseViewStep, RetryStep, FocusStep, GiveUpStep, DropStep, LagStep
  <2>2. ASSUME NEW v \in Viewers, NEW grid \in Grids, Reshape(v, grid)
        PROVE  IInv'
    BY <2>2, ReshapeStep
  <2> QED
    BY <1>3, <2>1, <2>2 DEF User
<1>4. ASSUME UNCHANGED vars
      PROVE  IInv'
  <2>1. UNCHANGED <<pty, link, guards, calls, turns, answers, resized, panel, astray, joined,
                    undrawn, opens, moves, drops>>
    BY <1>4 DEF vars, boundVars
  <2>2. TypeOK /\ Typed
    BY DEF IInv, Typed
  <2>3. TypeOK'
    BY <2>1, <2>2 DEF TypeOK
  <2>4. Typed'
    BY <2>1, <2>2, <2>3 DEF Typed, CallFits, AnswerFits
  <2>5. ASSUME NEW v \in Viewers
        PROVE  ViewFits(v)'
    <3>1. Same(v) /\ ViewFits(v)
      BY <2>1 DEF Same, IInv
    <3>2. opens \in Nat /\ opens' = opens /\ opens <= opens'
      BY <2>1, <2>2 DEF TypeOK
    <3> QED
      BY <2>1, <3>1, <3>2, SameView
  <2> QED
    BY <2>4, <2>5 DEF IInv
<1> QED
  BY <1>1, <1>2, <1>3, <1>4 DEF Next

THEOREM Invariant == Spec => []IInv
<1>1. Init => IInv
  BY InitStep
<1>2. IInv /\ [Next]_vars => IInv'
  BY NextStep
<1> QED
  BY <1>1, <1>2, PTL DEF Spec

(* The state of the PTY, the links and the panels keeps its types.          *)
THEOREM TypeCorrect == Spec => []TypeOK
<1>1. IInv => TypeOK
  BY DEF IInv, Typed
<1> QED
  BY <1>1, Invariant, PTL

(* Once everything has arrived, the emulator of a live view has the PTY's   *)
(* grid, or the view missed an event and is named for it: the last event of *)
(* a view's stream, or its emulator, always has that grid.                  *)
THEOREM ViewsFollow == Spec => []FollowsUnlessAstray
<1>1. IInv => FollowsUnlessAstray
  <2> SUFFICES ASSUME IInv, Quiet, NEW v \in Viewers, Live(v)
               PROVE  v \in astray \/ panel[v].emulator = pty.grid
    BY DEF FollowsUnlessAstray
  <2>1. Following(v) /\ Ready(v) /\ resized[v] = <<>>
    BY DEF IInv, ViewFits, Quiet, Live, Ready
  <2> QED
    BY <2>1 DEF Following
<1> QED
  BY <1>1, Invariant, PTL

(* Once everything has arrived, a live view shows a screen laid out for its *)
(* emulator's grid, or its redraw joined a read that was already sent, or   *)
(* its last redraw drew nothing: what it shows, or is about to, was laid    *)
(* out for a grid that lies on the emulator's way, and every change of that *)
(* grid, and every Resync, draws again.                                     *)
THEOREM ViewsAreRedrawn == Spec => []RedrawnOrNamed
<1>1. IInv => RedrawnOrNamed
  <2> SUFFICES ASSUME IInv, Quiet, NEW v \in Viewers, Live(v)
               PROVE  v \in astray \cup joined \cup undrawn \/ panel[v].drawnFor = panel[v].emulator
    BY DEF RedrawnOrNamed
  <2>1. Drawn(v) /\ resized[v] = <<>> /\ ~panel[v].reading /\ link[v].up /\ panel[v].stage = "live"
    BY DEF IInv, ViewFits, Quiet, Live
  <2>2. Path(v) = {panel[v].emulator} /\ ~Lost(v)
    <3>1. PICK e : e = <<>>
      OBVIOUS
    <3>2. DOMAIN e = {}
      BY <3>1
    <3>3. Range(e) = {}
      BY <3>2 DEF Range
    <3> QED
      BY <2>1, <3>1, <3>3 DEF Path, Lost
  <2> QED
    BY <2>1, <2>2 DEF Drawn
<1> QED
  BY <1>1, Invariant, PTL
=============================================================================
