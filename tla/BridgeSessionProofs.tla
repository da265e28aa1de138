------------------------ MODULE BridgeSessionProofs ------------------------
(***************************************************************************)
(* Proofs about BridgeSession: its types, that a call runs at most once    *)
(* whatever is lost and retried, and that every promise a browser was      *)
(* handed is in one place and none waits for an answer that cannot come.   *)
(*                                                                         *)
(* A step concerns at most one browser, and most steps one connection of   *)
(* it.  So the invariant is a conjunction over the browsers of what is     *)
(* true of one browser's state, stated of the values alone (Placed and     *)
(* Promised, below), and the lemmas say what a change of one value keeps.  *)
(***************************************************************************)
EXTENDS BridgeSession, SequenceTheorems, TLAPS

Outcomes == {"none", "waiting", "resolved", "rejected"}
Tasks == [client : Clients, conn : ConnIds, call : CallIds]

(* The calls and the answers among frames on their way. *)
Asked(frames) == {i \in CallIds : \E n \in 1..Len(frames) : frames[n] = Invoke(i)}
Answered(frames) == {i \in CallIds : \E n \in 1..Len(frames) : frames[n] = Result(i)}

(* No call is sent twice. *)
Once(frames) ==
    \A m, n \in 1..Len(frames) : frames[m].type = "invoke" /\ frames[m] = frames[n] => m = n
Distinct(queue) == \A m, n \in 1..Len(queue) : queue[m] = queue[n] => m = n

(* A connection's task says goodbye, and greets only whom it has let in. *)
Sound(r) ==
    /\ Once(r.up)
    /\ r.stage = "closed" => Has(r.down, "close")
    /\ Has(r.down, "ready") => r.stage \in {"open", "closed"}

(* A call that waits for its answer on this connection will get it, or the    *)
(* connection's end.                                                          *)
Reaches(r, i) ==
    Has(r.down, "close") \/ (i \in Asked(r.up) /\ r.stage = "open") \/ i \in Answered(r.down)

(* In what follows p is a browser, cs its connections, ts the tasks that run  *)
(* for it, ex how often each of its calls ran, and out their outcomes.        *)

Typed(p, cs, ts, ex, out) ==
    /\ p \in BrowserStates /\ cs \in Seq(Conns) /\ ts \subseteq Tasks
    /\ ex \in [CallIds -> Nat] /\ out \in [CallIds -> Outcomes]

Connected(p, cs, ts) ==
    /\ Len(cs) <= MaxConns /\ p.socket <= Len(cs)
    /\ \A k \in 1..Len(cs) : Sound(cs[k])
    /\ p.socket # 0 /\ p.state = "ready" => cs[p.socket].stage \in {"open", "closed"}
    /\ \A t \in ts : t.conn <= Len(cs) /\ cs[t.conn].stage \in {"open", "closed"}

Unsent(cs, ts, ex, i) ==
    /\ ex[i] = 0
    /\ \A k \in 1..Len(cs) : i \notin Asked(cs[k].up)
    /\ \A t \in ts : t.call # i

(* A call is in the queue, or on its way in one connection, or run by one     *)
(* task, or has run, once.                                                    *)
Placed(p, cs, ts, ex) ==
    /\ Distinct(p.queue)
    /\ \A i \in InQueue(p) : i <= p.calls /\ Unsent(cs, ts, ex, i)
    /\ \A i \in CallIds : i > p.calls => Unsent(cs, ts, ex, i)
    /\ \A k \in 1..Len(cs) : \A i \in Asked(cs[k].up) :
         /\ ex[i] = 0 /\ \A t \in ts : t.call # i
         /\ \A l \in 1..Len(cs) : i \in Asked(cs[l].up) => l = k
    /\ \A t \in ts : ex[t.call] = 0
    /\ \A s, t \in ts : s.call = t.call => s = t
    /\ \A i \in CallIds : ex[i] <= 1

Promised(p, cs, ts, ex, out) ==
    /\ InQueue(p) \cap p.pending = {}
    /\ \A i \in CallIds : out[i] = "waiting" <=> i \in InQueue(p) \cup p.pending
    /\ \A i \in CallIds : out[i] = "resolved" => ex[i] = 1
    /\ \A i \in CallIds : i > p.calls => out[i] = "none"
    /\ p.pending # {} => p.state = "ready" /\ p.socket # 0
    /\ \A i \in p.pending :
         Reaches(cs[p.socket], i) \/ \E t \in ts : t.conn = p.socket /\ t.call = i
    /\ \A k \in 1..Len(cs) : \A i \in Answered(cs[k].down) : ex[i] = 1

Whole(p, cs, ts, ex, out) ==
    /\ Typed(p, cs, ts, ex, out) /\ Connected(p, cs, ts)
    /\ Placed(p, cs, ts, ex) /\ Promised(p, cs, ts, ex, out)

TasksOf(c) == {t \in tasks : t.client = c}
WholeClient(c) == Whole(client[c], conn[c], TasksOf(c), executed[c], outcome[c])

IInv == TypeOK /\ \A c \in Clients : WholeClient(c)

-----------------------------------------------------------------------------
(* Frames and queues. *)

(* A frame that carries a token or a call is known by what it carries. *)
LEMMA ClientFrameFacts ==
    /\ Frame("close") \in ClientFrames
    /\ \A t \in Tokens : Auth(t) \in ClientFrames
    /\ \A i \in CallIds : Invoke(i) \in ClientFrames /\ Invoke(i).type = "invoke"
    /\ \A i, j \in CallIds : Invoke(i) = Invoke(j) => i = j
    /\ \A f \in ClientFrames :
         /\ f.type = "auth" => f.arg \in Tokens
         /\ f.type = "invoke" => f.arg \in CallIds /\ f = Invoke(f.arg)
<1>1. \A i, j \in CallIds : Invoke(i) = Invoke(j) => i = j
  <2> SUFFICES ASSUME NEW i \in CallIds, NEW j \in CallIds, Invoke(i) = Invoke(j) PROVE i = j
    OBVIOUS
  <2>1. Invoke(i).arg = i /\ Invoke(j).arg = j
    BY DEF Invoke
  <2> QED
    BY <2>1
<1>2. ASSUME NEW f \in ClientFrames
      PROVE  /\ f.type = "auth" => f.arg \in Tokens
             /\ f.type = "invoke" => f.arg \in CallIds /\ f = Invoke(f.arg)
  <2>1. CASE f = Frame("close")
    BY <2>1 DEF Frame
  <2>2. CASE \E t \in Tokens : f = Auth(t)
    BY <2>2 DEF Auth
  <2>3. CASE \E i \in CallIds : f = Invoke(i)
    BY <2>3 DEF Invoke
  <2> QED
    BY <2>1, <2>2, <2>3 DEF ClientFrames
<1>3. \A i \in CallIds : Invoke(i) \in ClientFrames /\ Invoke(i).type = "invoke"
  BY DEF ClientFrames, Invoke
<1>4. Frame("close") \in ClientFrames /\ \A t \in Tokens : Auth(t) \in ClientFrames
  BY DEF ClientFrames
<1> QED
  BY <1>1, <1>2, <1>3, <1>4

(* The same of the frames of the server. *)
LEMMA ServerFrameFacts ==
    /\ \A k \in {"challenge", "ready", "auth-failed", "close"} :
         Frame(k) \in ServerFrames /\ Frame(k).type = k
    /\ \A i \in CallIds : Result(i) \in ServerFrames /\ Result(i).type = "result"
    /\ \A i, j \in CallIds : Result(i) = Result(j) => i = j
    /\ \A f \in ServerFrames : f.type = "result" => f.arg \in CallIds /\ f = Result(f.arg)
<1>1. \A i, j \in CallIds : Result(i) = Result(j) => i = j
  <2> SUFFICES ASSUME NEW i \in CallIds, NEW j \in CallIds, Result(i) = Result(j) PROVE i = j
    OBVIOUS
  <2>1. Result(i).arg = i /\ Result(j).arg = j
    BY DEF Result
  <2> QED
    BY <2>1
<1>2. ASSUME NEW f \in ServerFrames, f.type = "result" PROVE f.arg \in CallIds /\ f = Result(f.arg)
  <2>1. CASE \E k \in {"challenge", "ready", "auth-failed", "close"} : f = Frame(k)
    BY <1>2, <2>1 DEF Frame
  <2>2. CASE \E i \in CallIds : f = Result(i)
    BY <2>2 DEF Result
  <2> QED
    BY <2>1, <2>2 DEF ServerFrames
<1>3. \A i \in CallIds : Result(i) \in ServerFrames /\ Result(i).type = "result"
  BY DEF ServerFrames, Result
<1>4. \A k \in {"challenge", "ready", "auth-failed", "close"} :
        Frame(k) \in ServerFrames /\ Frame(k).type = k
  BY DEF ServerFrames, Frame
<1> QED
  BY <1>1, <1>2, <1>3, <1>4

(* Every frame a browser sends is asked for once if its call is a new one. *)
LEMMA UpAppend ==
    ASSUME NEW s \in Seq(ClientFrames), NEW f \in ClientFrames
    PROVE  /\ Append(s, f) \in Seq(ClientFrames)
           /\ Asked(Append(s, f)) = Asked(s) \cup {i \in CallIds : f = Invoke(i)}
           /\ Once(s) /\ (f.type = "invoke" => f.arg \notin Asked(s)) => Once(Append(s, f))
<1> DEFINE t == Append(s, f)
<1>1. /\ t \in Seq(ClientFrames) /\ Len(t) = Len(s) + 1
      /\ \A i \in 1..Len(s) : t[i] = s[i]
      /\ t[Len(s) + 1] = f
  BY AppendProperties
<1>2. Len(s) \in Nat /\ \A n \in 1..Len(s) : s[n] \in ClientFrames
  BY LenProperties, ElementOfSeq
<1> HIDE DEF t
<1>3. Asked(t) = Asked(s) \cup {i \in CallIds : f = Invoke(i)}
  <2>1. ASSUME NEW i \in Asked(t) PROVE i \in Asked(s) \/ f = Invoke(i)
    BY <1>1, <1>2, <2>1 DEF Asked
  <2>2. ASSUME NEW i \in Asked(s) PROVE i \in Asked(t)
    BY <1>1, <1>2, <2>2 DEF Asked
  <2>3. ASSUME NEW i \in CallIds, f = Invoke(i) PROVE i \in Asked(t)
    BY <1>1, <1>2, <2>3 DEF Asked
  <2> QED
    BY <2>1, <2>2, <2>3 DEF Asked
<1>4. ASSUME Once(s), f.type = "invoke" => f.arg \notin Asked(s) PROVE Once(t)
  <2> SUFFICES ASSUME NEW m \in 1..Len(t), NEW n \in 1..Len(t), t[m].type = "invoke", t[m] = t[n]
               PROVE  m = n
    BY DEF Once
  <2>1. \A n1 \in 1..Len(s) : s[n1] = f => f.type # "invoke"
    <3> SUFFICES ASSUME NEW n1 \in 1..Len(s), s[n1] = f, f.type = "invoke" PROVE FALSE
      OBVIOUS
    <3>1. f.arg \in CallIds /\ f = Invoke(f.arg)
      BY ClientFrameFacts
    <3> QED
      BY <1>4, <3>1 DEF Asked
  <2> QED
    BY <1>1, <1>2, <1>4, <2>1 DEF Once
<1> QED
  BY <1>1, <1>3, <1>4 DEF t

(* Reading a frame takes its call off the way, and no other. *)
LEMMA UpTail ==
    ASSUME NEW s \in Seq(ClientFrames), s # <<>>
    PROVE  /\ Head(s) \in ClientFrames /\ Tail(s) \in Seq(ClientFrames)
           /\ Asked(Tail(s)) \subseteq Asked(s)
           /\ \A i \in Asked(s) : Head(s) = Invoke(i) \/ i \in Asked(Tail(s))
           /\ \A i \in CallIds : Head(s) = Invoke(i) => i \in Asked(s)
           /\ Once(s) => Once(Tail(s)) /\ \A i \in Asked(Tail(s)) : Head(s) # Invoke(i)
<1> DEFINE t == Tail(s)
<1>1. /\ Head(s) \in ClientFrames /\ t \in Seq(ClientFrames)
      /\ Len(t) = Len(s) - 1 /\ \A i \in 1..Len(t) : t[i] = s[i + 1]
  BY HeadTailProperties
<1>2. Len(s) \in Nat \ {0} /\ Head(s) = s[1]
  BY EmptySeq
<1> HIDE DEF t
<1>3. Asked(t) \subseteq Asked(s)
  BY <1>1, <1>2 DEF Asked
<1>4. ASSUME NEW i \in Asked(s) PROVE Head(s) = Invoke(i) \/ i \in Asked(t)
  <2>1. PICK n \in 1..Len(s) : s[n] = Invoke(i)
    BY <1>4 DEF Asked
  <2>2. CASE n = 1
    BY <1>2, <2>1, <2>2
  <2>3. CASE n # 1
    <3>1. n - 1 \in 1..Len(t) /\ t[n - 1] = s[n]
      BY <1>1, <1>2, <2>3
    <3> QED
      BY <2>1, <3>1, <1>4 DEF Asked
  <2> QED
    BY <2>2, <2>3
<1>5. \A i \in CallIds : Head(s) = Invoke(i) => i \in Asked(s)
  BY <1>2 DEF Asked
<1>6. ASSUME Once(s) PROVE Once(t)
  BY <1>1, <1>2, <1>6 DEF Once
<1>7. ASSUME Once(s), NEW i \in Asked(t), Head(s) = Invoke(i) PROVE FALSE
  <2>1. PICK n \in 1..Len(t) : t[n] = Invoke(i)
    BY <1>7 DEF Asked
  <2>2. n + 1 \in 1..Len(s) /\ 1 \in 1..Len(s) /\ s[n + 1] = s[1] /\ n + 1 # 1
    BY <1>1, <1>2, <1>7, <2>1
  <2>3. s[1].type = "invoke"
    BY <1>2, <1>7, ClientFrameFacts DEF Invoke
  <2> QED
    BY <1>7, <2>2, <2>3 DEF Once
<1> QED
  BY <1>1, <1>3, <1>4, <1>5, <1>6, <1>7 DEF t

(* What is lost of the frames on their way takes nothing but them along. *)
LEMMA UpCut ==
    ASSUME NEW s \in Seq(ClientFrames), NEW n \in 0..Len(s)
    PROVE  /\ Cut(s, n) \in Seq(ClientFrames)
           /\ Asked(Cut(s, n)) \subseteq Asked(s)
           /\ Once(s) => Once(Cut(s, n))
<1> DEFINE t == SubSeq(s, 1, n)
<1>1. Len(s) \in Nat /\ \A m \in 1..Len(s) : s[m] \in ClientFrames
  BY LenProperties, ElementOfSeq
<1>2. t \in Seq(ClientFrames) /\ Len(t) = n /\ \A m \in 1..n : t[m] = s[m]
  <2>1. \A m \in 1..n : s[m] \in ClientFrames
    BY <1>1
  <2>2. /\ t \in Seq(ClientFrames) /\ Len(t) = (IF 1 <= n THEN n - 1 + 1 ELSE 0)
        /\ \A m \in 1..n - 1 + 1 : t[m] = s[1 + m - 1]
    BY <1>1, <2>1, SubSeqProperties
  <2> QED
    BY <1>1, <2>2
<1> HIDE DEF t
<1>3. Asked(t) \subseteq Asked(s)
  BY <1>1, <1>2 DEF Asked
<1>4. Once(s) => Once(t)
  BY <1>1, <1>2 DEF Once
<1>5. Frame("close").type # "invoke" /\ \A i \in CallIds : Frame("close") # Invoke(i)
  BY ClientFrameFacts DEF Frame
<1>6. /\ Append(t, Frame("close")) \in Seq(ClientFrames)
      /\ Asked(Append(t, Frame("close"))) = Asked(t)
      /\ Once(t) => Once(Append(t, Frame("close")))
  <2> DEFINE f == Frame("close")
  <2>1. f \in ClientFrames /\ f.type # "invoke" /\ \A i \in CallIds : f # Invoke(i)
    BY <1>5, ClientFrameFacts
  <2> HIDE DEF f
  <2>2. /\ Append(t, f) \in Seq(ClientFrames)
        /\ Asked(Append(t, f)) = Asked(t) \cup {i \in CallIds : f = Invoke(i)}
        /\ Once(t) /\ (f.type = "invoke" => f.arg \notin Asked(t)) => Once(Append(t, f))
    BY <1>2, <2>1, UpAppend
  <2> QED
    BY <2>1, <2>2 DEF f
<1> QED
  BY <1>3, <1>4, <1>6 DEF Cut, t

(* Flushing a queue sends each of its calls. *)
LEMMA UpFlush ==
    ASSUME NEW s \in Seq(ClientFrames), Once(s), NEW q \in Seq(CallIds), Distinct(q),
           \A n \in 1..Len(q) : q[n] \notin Asked(s)
    PROVE  LET t == s \o [i \in 1..Len(q) |-> Invoke(q[i])]
           IN  /\ t \in Seq(ClientFrames) /\ Once(t)
               /\ Asked(t) = Asked(s) \cup {q[n] : n \in 1..Len(q)}
<1> DEFINE r == [i \in 1..Len(q) |-> Invoke(q[i])]
           t == s \o r
<1>1. Len(q) \in Nat /\ \A n \in 1..Len(q) : q[n] \in CallIds
  BY LenProperties, ElementOfSeq
<1>2. r \in Seq(ClientFrames) /\ Len(r) = Len(q) /\ \A n \in 1..Len(q) : r[n] = Invoke(q[n])
  <2>1. r \in [1..Len(q) -> ClientFrames]
    BY <1>1, ClientFrameFacts
  <2> QED
    BY <1>1, <2>1
<1>3. Len(s) \in Nat /\ \A n \in 1..Len(s) : s[n] \in ClientFrames
  BY LenProperties, ElementOfSeq
<1> HIDE DEF r
<1>4. /\ t \in Seq(ClientFrames) /\ Len(t) = Len(s) + Len(q)
      /\ \A i \in 1..Len(s) + Len(q) : t[i] = IF i <= Len(s) THEN s[i] ELSE r[i - Len(s)]
  <2>1. /\ t \in Seq(ClientFrames) /\ Len(t) = Len(s) + Len(r)
        /\ \A i \in 1..Len(s) + Len(r) : t[i] = IF i <= Len(s) THEN s[i] ELSE r[i - Len(s)]
    BY <1>2, ConcatProperties
  <2> QED
    BY <1>2, <2>1
<1> HIDE DEF t
<1>5. \A i \in 1..Len(s) : i \in 1..Len(t) /\ t[i] = s[i]
  BY <1>1, <1>3, <1>4
<1>6. \A n \in 1..Len(q) : Len(s) + n \in 1..Len(t) /\ t[Len(s) + n] = Invoke(q[n])
  BY <1>1, <1>2, <1>3, <1>4
<1>7. \A i \in 1..Len(t) : i \in 1..Len(s) \/ (i - Len(s) \in 1..Len(q) /\ t[i] = Invoke(q[i - Len(s)]))
  BY <1>1, <1>2, <1>3, <1>4
<1>8. Asked(t) = Asked(s) \cup {q[n] : n \in 1..Len(q)}
  <2>1. ASSUME NEW i \in Asked(t) PROVE i \in Asked(s) \cup {q[n] : n \in 1..Len(q)}
    <3>1. PICK m \in 1..Len(t) : t[m] = Invoke(i)
      BY <2>1 DEF Asked
    <3>2. i \in CallIds
      BY <2>1 DEF Asked
    <3>3. CASE m \in 1..Len(s)
      BY <1>5, <3>1, <3>2, <3>3 DEF Asked
    <3>4. CASE m - Len(s) \in 1..Len(q) /\ t[m] = Invoke(q[m - Len(s)])
      BY <1>1, <3>1, <3>2, <3>4, ClientFrameFacts
    <3> QED
      BY <1>7, <3>3, <3>4
  <2>2. Asked(s) \subseteq Asked(t)
    BY <1>5 DEF Asked
  <2>3. \A n \in 1..Len(q) : q[n] \in Asked(t)
    BY <1>1, <1>6 DEF Asked
  <2> QED
    BY <2>1, <2>2, <2>3
<1>9. Once(t)
  <2> SUFFICES ASSUME NEW m \in 1..Len(t), NEW n \in 1..Len(t), t[m].type = "invoke", t[m] = t[n]
               PROVE  m = n
    BY DEF Once
  <2>1. ASSUME NEW a \in 1..Len(s), NEW b \in 1..Len(q), s[a] = Invoke(q[b]) PROVE FALSE
    BY <1>1, <2>1 DEF Asked
  <2>2. \A a, b \in 1..Len(q) : Invoke(q[a]) = Invoke(q[b]) => a = b
    BY <1>1, ClientFrameFacts DEF Distinct
  <2>3. CASE m \in 1..Len(s) /\ n \in 1..Len(s)
    BY <1>5, <2>3 DEF Once
  <2>4. CASE m \in 1..Len(s) /\ n \notin 1..Len(s)
    BY <1>5, <1>7, <2>1, <2>4
  <2>5. CASE m \notin 1..Len(s) /\ n \in 1..Len(s)
    BY <1>5, <1>7, <2>1, <2>5
  <2>6. CASE m \notin 1..Len(s) /\ n \notin 1..Len(s)
    <3>1. m - Len(s) = n - Len(s)
      BY <1>7, <2>2, <2>6
    <3> QED
      BY <1>3, <1>4, <1>1, <3>1
  <2> QED
    BY <2>3, <2>4, <2>5, <2>6
<1> QED
  BY <1>4, <1>8, <1>9 DEF r, t

(* A frame of the server comes to those on their way. *)
LEMMA DownAppend ==
    ASSUME NEW s \in Seq(ServerFrames), NEW f \in ServerFrames
    PROVE  /\ Append(s, f) \in Seq(ServerFrames)
           /\ Answered(Append(s, f)) = Answered(s) \cup {i \in CallIds : f = Result(i)}
           /\ \A type : Has(Append(s, f), type) <=> Has(s, type) \/ f.type = type
<1> DEFINE t == Append(s, f)
<1>1. /\ t \in Seq(ServerFrames) /\ Len(t) = Len(s) + 1
      /\ \A i \in 1..Len(s) : t[i] = s[i]
      /\ t[Len(s) + 1] = f
  BY AppendProperties
<1>2. Len(s) \in Nat
  BY LenProperties
<1> HIDE DEF t
<1>3. Answered(t) = Answered(s) \cup {i \in CallIds : f = Result(i)}
  <2>1. ASSUME NEW i \in Answered(t) PROVE i \in Answered(s) \/ f = Result(i)
    BY <1>1, <1>2, <2>1 DEF Answered
  <2>2. ASSUME NEW i \in Answered(s) PROVE i \in Answered(t)
    BY <1>1, <1>2, <2>2 DEF Answered
  <2>3. ASSUME NEW i \in CallIds, f = Result(i) PROVE i \in Answered(t)
    BY <1>1, <1>2, <2>3 DEF Answered
  <2> QED
    BY <2>1, <2>2, <2>3 DEF Answered
<1>4. ASSUME NEW type PROVE Has(t, type) <=> Has(s, type) \/ f.type = type
  BY <1>1, <1>2 DEF Has
<1> QED
  BY <1>1, <1>3, <1>4 DEF t

(* Reading a frame of the server takes it off the way, and no other. *)
LEMMA DownTail ==
    ASSUME NEW s \in Seq(ServerFrames), s # <<>>
    PROVE  /\ Head(s) \in ServerFrames /\ Tail(s) \in Seq(ServerFrames)
           /\ Answered(Tail(s)) \subseteq Answered(s)
           /\ \A i \in Answered(s) : Head(s) = Result(i) \/ i \in Answered(Tail(s))
           /\ \A i \in CallIds : Head(s) = Result(i) => i \in Answered(s)
           /\ Has(s, Head(s).type)
           /\ \A type : Has(Tail(s), type) => Has(s, type)
           /\ \A type : Has(s, type) => Head(s).type = type \/ Has(Tail(s), type)
<1> DEFINE t == Tail(s)
<1>1. /\ Head(s) \in ServerFrames /\ t \in Seq(ServerFrames)
      /\ Len(t) = Len(s) - 1 /\ \A i \in 1..Len(t) : t[i] = s[i + 1]
  BY HeadTailProperties
<1>2. Len(s) \in Nat \ {0} /\ Head(s) = s[1]
  BY EmptySeq
<1>3. \A n \in 1..Len(s) : n # 1 => n - 1 \in 1..Len(t) /\ t[n - 1] = s[n]
  BY <1>1, <1>2
<1> HIDE DEF t
<1>4. Answered(t) \subseteq Answered(s)
  BY <1>1, <1>2 DEF Answered
<1>5. ASSUME NEW i \in Answered(s) PROVE Head(s) = Result(i) \/ i \in Answered(t)
  <2>1. PICK n \in 1..Len(s) : s[n] = Result(i)
    BY <1>5 DEF Answered
  <2> QED
    BY <1>2, <1>3, <1>5, <2>1 DEF Answered
<1>6. \A i \in CallIds : Head(s) = Result(i) => i \in Answered(s)
  BY <1>2 DEF Answered
<1>7. Has(s, Head(s).type)
  BY <1>2 DEF Has
<1>8. ASSUME NEW type, Has(t, type) PROVE Has(s, type)
  <2>1. PICK n \in 1..Len(t) : t[n].type = type
    BY <1>8 DEF Has
  <2>2. n + 1 \in 1..Len(s) /\ s[n + 1] = t[n]
    BY <1>1, <1>2
  <2> QED
    BY <2>1, <2>2 DEF Has
<1>9. \A type : Has(s, type) => Head(s).type = type \/ Has(t, type)
  BY <1>2, <1>3 DEF Has
<1> QED
  BY <1>1, <1>4, <1>5, <1>6, <1>7, <1>8, <1>9 DEF t

(* What is lost of the server's frames leaves the end of the stream. *)
LEMMA DownCut ==
    ASSUME NEW s \in Seq(ServerFrames), NEW n \in 0..Len(s)
    PROVE  /\ Cut(s, n) \in Seq(ServerFrames)
           /\ Answered(Cut(s, n)) \subseteq Answered(s)
           /\ Has(Cut(s, n), "close")
           /\ Has(Cut(s, n), "ready") => Has(s, "ready")
<1> DEFINE t == SubSeq(s, 1, n)
           f == Frame("close")
<1>1. Len(s) \in Nat /\ \A m \in 1..Len(s) : s[m] \in ServerFrames
  BY LenProperties, ElementOfSeq
<1>2. t \in Seq(ServerFrames) /\ Len(t) = n /\ \A m \in 1..n : t[m] = s[m]
  <2>1. \A m \in 1..n : s[m] \in ServerFrames
    BY <1>1
  <2>2. /\ t \in Seq(ServerFrames) /\ Len(t) = (IF 1 <= n THEN n - 1 + 1 ELSE 0)
        /\ \A m \in 1..n - 1 + 1 : t[m] = s[1 + m - 1]
    BY <1>1, <2>1, SubSeqProperties
  <2> QED
    BY <1>1, <2>2
<1>3. f \in ServerFrames /\ f.type = "close"
  BY ServerFrameFacts
<1>4. \A i \in CallIds : f # Result(i)
  BY <1>3, ServerFrameFacts
<1> HIDE DEF t, f
<1>5. Answered(t) \subseteq Answered(s) /\ (Has(t, "ready") => Has(s, "ready"))
  BY <1>1, <1>2 DEF Answered, Has
<1>6. /\ Append(t, f) \in Seq(ServerFrames)
      /\ Answered(Append(t, f)) = Answered(t) \cup {i \in CallIds : f = Result(i)}
      /\ \A type : Has(Append(t, f), type) <=> Has(t, type) \/ f.type = type
  BY <1>2, <1>3, DownAppend
<1>7. Answered(Append(t, f)) \subseteq Answered(s)
  BY <1>4, <1>5, <1>6
<1> QED
  BY <1>3, <1>5, <1>6, <1>7 DEF Cut, t, f

(* A refusal is followed by the end of the stream. *)
LEMMA DownRefuse ==
    ASSUME NEW s \in Seq(ServerFrames)
    PROVE  LET t == s \o <<Frame("auth-failed"), Frame("close")>>
           IN  /\ t \in Seq(ServerFrames) /\ Answered(t) = Answered(s)
               /\ Has(t, "close") /\ (Has(t, "ready") => Has(s, "ready"))
<1> DEFINE a == Frame("auth-failed")
           b == Frame("close")
           t == s \o <<a, b>>
<1>1. a \in ServerFrames /\ b \in ServerFrames /\ a.type = "auth-failed" /\ b.type = "close"
  BY ServerFrameFacts
<1> HIDE DEF a, b
<1>2. <<a, b>> \in Seq(ServerFrames) /\ Len(<<a, b>>) = 2 /\ <<a, b>>[1] = a /\ <<a, b>>[2] = b
  BY <1>1
<1>3. Len(s) \in Nat
  BY LenProperties
<1>4. /\ t \in Seq(ServerFrames) /\ Len(t) = Len(s) + 2
      /\ \A i \in 1..Len(s) + 2 : t[i] = IF i <= Len(s) THEN s[i] ELSE <<a, b>>[i - Len(s)]
  BY <1>2, ConcatProperties
<1> HIDE DEF t
<1>5. /\ \A i \in 1..Len(s) : i \in 1..Len(t) /\ t[i] = s[i]
      /\ \A i \in 1..Len(t) : i \in 1..Len(s) \/ t[i] = a \/ t[i] = b
      /\ Len(s) + 2 \in 1..Len(t) /\ t[Len(s) + 2] = b
  BY <1>2, <1>3, <1>4
<1>6. Answered(t) = Answered(s)
  <2>1. \A i \in CallIds : a # Result(i) /\ b # Result(i)
    BY <1>1, ServerFrameFacts
  <2> QED
    BY <1>5, <2>1 DEF Answered
<1>7. Has(t, "close") /\ (Has(t, "ready") => Has(s, "ready"))
  BY <1>1, <1>5 DEF Has
<1> QED
  BY <1>4, <1>6, <1>7 DEF t, a, b

-----------------------------------------------------------------------------
(* What a browser, its connections and its calls may change to. *)

(* One connection changes, and what is on its way there becomes no more.      *)
LEMMA ConnChanges ==
    ASSUME NEW p, NEW cs, NEW ts, NEW ex, NEW out, Whole(p, cs, ts, ex, out),
           NEW k \in 1..Len(cs), NEW r \in Conns, Sound(r),
           Asked(r.up) \subseteq Asked(cs[k].up),
           cs[k].stage \in {"open", "closed"} => r.stage \in {"open", "closed"},
           \A i \in Answered(r.down) : ex[i] = 1,
           k = p.socket => \A i \in p.pending : Reaches(cs[k], i) => Reaches(r, i)
    PROVE  Whole(p, [cs EXCEPT ![k] = r], ts, ex, out)
<1> DEFINE ds == [cs EXCEPT ![k] = r]
<1>1. cs \in Seq(Conns)
  BY DEF Whole, Typed
<1>2. /\ ds \in Seq(Conns) /\ Len(ds) = Len(cs)
      /\ \A j \in 1..Len(cs) : ds[j] = IF j = k THEN r ELSE cs[j]
  BY <1>1, ExceptSeq
<1>3. p.socket \in Nat /\ \A t \in ts : t.conn \in Nat \ {0}
  BY DEF Whole, Typed, BrowserStates, Tasks, ConnIds
<1>4. Len(cs) \in Nat
  BY <1>1, LenProperties
<1> HIDE DEF ds
<1>5. Typed(p, ds, ts, ex, out)
  BY <1>2 DEF Whole, Typed
<1>6. Connected(p, ds, ts)
  <2>1. \A j \in 1..Len(ds) : Sound(ds[j])
    BY <1>2 DEF Whole, Connected
  <2>2. p.socket # 0 /\ p.state = "ready" => ds[p.socket].stage \in {"open", "closed"}
    BY <1>2, <1>3, <1>4 DEF Whole, Connected
  <2>3. \A t \in ts : t.conn <= Len(ds) /\ ds[t.conn].stage \in {"open", "closed"}
    BY <1>2, <1>3, <1>4 DEF Whole, Connected
  <2> QED
    BY <1>2, <2>1, <2>2, <2>3 DEF Whole, Connected
<1>7. \A j \in 1..Len(cs) : Asked(ds[j].up) \subseteq Asked(cs[j].up)
  BY <1>2
<1>8. Placed(p, ds, ts, ex)
  <2>1. ASSUME NEW i \in CallIds, Unsent(cs, ts, ex, i) PROVE Unsent(ds, ts, ex, i)
    BY <1>2, <1>7, <2>1 DEF Unsent
  <2>2. \A i \in InQueue(p) : i <= p.calls /\ Unsent(ds, ts, ex, i)
    <3>1. InQueue(p) \subseteq CallIds
      BY LenProperties, ElementOfSeq DEF InQueue, Whole, Typed, BrowserStates
    <3> QED
      BY <2>1, <3>1 DEF Whole, Placed
  <2>3. \A j \in 1..Len(ds) : \A i \in Asked(ds[j].up) :
          /\ ex[i] = 0 /\ \A t \in ts : t.call # i
          /\ \A l \in 1..Len(ds) : i \in Asked(ds[l].up) => l = j
    BY <1>2, <1>7 DEF Whole, Placed
  <2> QED
    BY <2>1, <2>2, <2>3 DEF Whole, Placed
<1>9. Promised(p, ds, ts, ex, out)
  <2>1. \A j \in 1..Len(ds) : \A i \in Answered(ds[j].down) : ex[i] = 1
    BY <1>2 DEF Whole, Promised
  <2>2. ASSUME NEW i \in p.pending
        PROVE  Reaches(ds[p.socket], i) \/ \E t \in ts : t.conn = p.socket /\ t.call = i
    <3>1. p.socket \in 1..Len(cs)
      BY <1>3, <1>4, <2>2 DEF Whole, Promised, Connected
    <3>2. Reaches(cs[p.socket], i) \/ \E t \in ts : t.conn = p.socket /\ t.call = i
      BY <2>2 DEF Whole, Promised
    <3>3. CASE p.socket = k
      BY <1>2, <2>2, <3>2, <3>3
    <3>4. CASE p.socket # k
      BY <1>2, <3>1, <3>2, <3>4
    <3> QED
      BY <3>3, <3>4
  <2> QED
    BY <2>1, <2>2 DEF Whole, Promised
<1> QED
  BY <1>5, <1>6, <1>8, <1>9 DEF Whole, ds

(* A new connection, which the browser does not use yet. *)
LEMMA ConnOpens ==
    ASSUME NEW p, NEW cs, NEW ts, NEW ex, NEW out, Whole(p, cs, ts, ex, out), Len(cs) < MaxConns
    PROVE  Whole(p, Append(cs, Challenged), ts, ex, out)
<1> DEFINE ds == Append(cs, Challenged)
<1>1. cs \in Seq(Conns)
  BY DEF Whole, Typed
<1>2. Challenged \in Conns
  <2>1. <<>> \in Seq(ClientFrames)
    OBVIOUS
  <2>2. <<Frame("challenge")>> \in Seq(ServerFrames)
    BY ServerFrameFacts
  <2> QED
    BY <2>1, <2>2 DEF Challenged, Conns, Stages
<1>3. /\ ds \in Seq(Conns) /\ Len(ds) = Len(cs) + 1
      /\ \A j \in 1..Len(cs) : ds[j] = cs[j]
      /\ ds[Len(cs) + 1] = Challenged
  BY <1>1, <1>2, AppendProperties
<1>4. /\ Len(cs) \in Nat /\ p.socket \in Nat
      /\ \A t \in ts : t.conn \in Nat \ {0}
  BY <1>1, LenProperties DEF Whole, Typed, BrowserStates, Tasks, ConnIds
<1>5. Asked(Challenged.up) = {} /\ Answered(Challenged.down) = {}
  BY DEF Challenged, Asked, Answered, Frame, Result
<1>6. Sound(Challenged)
  BY DEF Challenged, Sound, Once, Has, Frame
<1> HIDE DEF ds
<1>7. \A j \in 1..Len(ds) : j \in 1..Len(cs) \/ (j = Len(cs) + 1 /\ ds[j] = Challenged)
  BY <1>3, <1>4
<1>8. Typed(p, ds, ts, ex, out)
  BY <1>3 DEF Whole, Typed
<1>9. Connected(p, ds, ts)
  <2>1. Len(ds) <= MaxConns
    BY <1>3, <1>4, BridgeSessionAssumption
  <2>2. \A j \in 1..Len(ds) : Sound(ds[j])
    BY <1>3, <1>6, <1>7 DEF Whole, Connected
  <2>3. /\ p.socket <= Len(ds)
        /\ p.socket # 0 /\ p.state = "ready" => ds[p.socket].stage \in {"open", "closed"}
        /\ \A t \in ts : t.conn <= Len(ds) /\ ds[t.conn].stage \in {"open", "closed"}
    BY <1>3, <1>4 DEF Whole, Connected
  <2> QED
    BY <2>1, <2>2, <2>3 DEF Connected
<1>10. Placed(p, ds, ts, ex)
  <2>1. ASSUME NEW i, Unsent(cs, ts, ex, i) PROVE Unsent(ds, ts, ex, i)
    BY <1>3, <1>5, <1>7, <2>1 DEF Unsent
  <2>2. \A j \in 1..Len(ds) : \A i \in Asked(ds[j].up) :
          j \in 1..Len(cs) /\ i \in Asked(cs[j].up)
    BY <1>3, <1>5, <1>7
  <2>3. \A j \in 1..Len(ds) : \A i \in Asked(ds[j].up) :
          /\ ex[i] = 0 /\ \A t \in ts : t.call # i
          /\ \A l \in 1..Len(ds) : i \in Asked(ds[l].up) => l = j
    BY <2>2 DEF Whole, Placed
  <2> QED
    BY <2>1, <2>3 DEF Whole, Placed
<1>11. Promised(p, ds, ts, ex, out)
  <2>1. \A j \in 1..Len(ds) : \A i \in Answered(ds[j].down) : ex[i] = 1
    BY <1>3, <1>5, <1>7 DEF Whole, Promised
  <2>2. ASSUME NEW i \in p.pending
        PROVE  Reaches(ds[p.socket], i) \/ \E t \in ts : t.conn = p.socket /\ t.call = i
    <3>1. p.socket \in 1..Len(cs)
      BY <1>4, <2>2 DEF Whole, Promised, Connected
    <3> QED
      BY <1>3, <2>2, <3>1 DEF Whole, Promised
  <2> QED
    BY <2>1, <2>2 DEF Whole, Promised
<1> QED
  BY <1>8, <1>9, <1>10, <1>11 DEF Whole, ds

(* What a queue holds. *)
LEMMA QueueFacts ==
    ASSUME NEW p \in BrowserStates
    PROVE  /\ p.queue \in Seq(CallIds) /\ InQueue(p) \subseteq CallIds
           /\ p.pending \subseteq CallIds /\ p.calls \in 0..MaxCalls /\ p.socket \in ConnIds \cup {0}
           /\ InQueue(p) = {p.queue[n] : n \in 1..Len(p.queue)}
           /\ \A q : q.queue = p.queue => InQueue(q) = InQueue(p)
<1>1. /\ p.queue \in Seq(CallIds) /\ p.pending \subseteq CallIds
      /\ p.calls \in 0..MaxCalls /\ p.socket \in ConnIds \cup {0}
  BY DEF BrowserStates
<1>2. \A n \in 1..Len(p.queue) : p.queue[n] \in CallIds
  BY <1>1, ElementOfSeq
<1> QED
  BY <1>1, <1>2 DEF InQueue

(* Calls that wait for an answer are answered or rejected. *)
SettledTo(p, q, ex, out, res) ==
    /\ q \in BrowserStates /\ q.pending \subseteq p.pending /\ q.queue = p.queue
    /\ q.socket = p.socket /\ q.state = p.state /\ q.calls = p.calls
    /\ res \in [CallIds -> Outcomes]
    /\ \A i \in CallIds : i \notin p.pending \ q.pending => res[i] = out[i]
    /\ \A i \in p.pending \ q.pending :
         res[i] = "rejected" \/ (res[i] = "resolved" /\ ex[i] = 1)

LEMMA PendingSettled ==
    ASSUME NEW p, NEW cs, NEW ts, NEW ex, NEW out, Whole(p, cs, ts, ex, out),
           NEW q, NEW res, SettledTo(p, q, ex, out, res)
    PROVE  Whole(q, cs, ts, ex, res)
<1> USE DEF SettledTo
<1>1. p \in BrowserStates
  BY DEF Whole, Typed
<1>2. InQueue(q) = InQueue(p) /\ p.pending \subseteq CallIds
  BY <1>1, QueueFacts
<1>3. Typed(q, cs, ts, ex, res)
  BY DEF Whole, Typed
<1>4. Connected(q, cs, ts)
  BY DEF Whole, Connected
<1>5. Placed(q, cs, ts, ex)
  BY <1>2 DEF Whole, Placed
<1>6. Promised(q, cs, ts, ex, res)
  <2>1. InQueue(p) \cap p.pending = {}
    BY DEF Whole, Promised
  <2>2. \A i \in CallIds : res[i] = "waiting" <=> i \in InQueue(q) \cup q.pending
    BY <1>2, <2>1 DEF Whole, Promised
  <2>3. \A i \in CallIds : res[i] = "resolved" => ex[i] = 1
    BY DEF Whole, Promised
  <2>4. \A i \in CallIds : i > q.calls => res[i] = "none"
    BY DEF Whole, Promised
  <2>5. \A i \in q.pending :
          Reaches(cs[q.socket], i) \/ \E t \in ts : t.conn = q.socket /\ t.call = i
    BY DEF Whole, Promised
  <2> QED
    BY <1>2, <2>1, <2>2, <2>3, <2>4, <2>5 DEF Whole, Promised
<1> QED
  BY <1>3, <1>4, <1>5, <1>6 DEF Whole

(* The queue is given up. *)
LEMMA QueueRejected ==
    ASSUME NEW p, NEW cs, NEW ts, NEW ex, NEW out, Whole(p, cs, ts, ex, out),
           NEW q \in BrowserStates, q.pending = p.pending, q.queue = <<>>,
           q.socket = p.socket, q.state = p.state, q.calls = p.calls,
           NEW res \in [CallIds -> Outcomes],
           \A i \in CallIds : res[i] = IF i \in InQueue(p) THEN "rejected" ELSE out[i]
    PROVE  Whole(q, cs, ts, ex, res)
<1>1. p \in BrowserStates
  BY DEF Whole, Typed
<1>2. InQueue(q) = {} /\ Distinct(q.queue)
  BY DEF InQueue, Distinct
<1>3. Typed(q, cs, ts, ex, res)
  BY DEF Whole, Typed
<1>4. Connected(q, cs, ts)
  BY DEF Whole, Connected
<1>5. Placed(q, cs, ts, ex)
  BY <1>2 DEF Whole, Placed
<1>6. Promised(q, cs, ts, ex, res)
  <2>1. InQueue(p) \cap p.pending = {} /\ p.pending \subseteq CallIds
    BY <1>1, QueueFacts DEF Whole, Promised
  <2>2. \A i \in CallIds : res[i] = "waiting" <=> i \in InQueue(q) \cup q.pending
    BY <1>2, <2>1 DEF Whole, Promised
  <2>3. \A i \in CallIds : res[i] = "resolved" => ex[i] = 1
    BY DEF Whole, Promised
  <2>4. \A i \in CallIds : i > q.calls => res[i] = "none"
    <3>1. \A i \in InQueue(p) : i <= p.calls
      BY DEF Whole, Placed
    <3> QED
      BY <1>1, <3>1, QueueFacts DEF Whole, Promised, CallIds
  <2>5. \A i \in q.pending :
          Reaches(cs[q.socket], i) \/ \E t \in ts : t.conn = q.socket /\ t.call = i
    BY DEF Whole, Promised
  <2> QED
    BY <1>2, <2>2, <2>3, <2>4, <2>5 DEF Whole, Promised
<1> QED
  BY <1>3, <1>4, <1>5, <1>6 DEF Whole

(* A browser that waits for no answer turns to another socket or state. *)
LEMMA BrowserTurns ==
    ASSUME NEW p, NEW cs, NEW ts, NEW ex, NEW out, Whole(p, cs, ts, ex, out), p.pending = {},
           NEW q \in BrowserStates, q.queue = p.queue, q.calls = p.calls, q.pending = {},
           q.socket <= Len(cs),
           q.socket # 0 /\ q.state = "ready" => cs[q.socket].stage \in {"open", "closed"}
    PROVE  Whole(q, cs, ts, ex, out)
<1>1. p \in BrowserStates
  BY DEF Whole, Typed
<1>2. InQueue(q) = InQueue(p)
  BY <1>1, QueueFacts
<1>3. Typed(q, cs, ts, ex, out)
  BY DEF Whole, Typed
<1>4. Connected(q, cs, ts)
  BY DEF Whole, Connected
<1>5. Placed(q, cs, ts, ex)
  BY <1>2 DEF Whole, Placed
<1>6. Promised(q, cs, ts, ex, out)
  BY <1>2 DEF Whole, Promised
<1> QED
  BY <1>3, <1>4, <1>5, <1>6 DEF Whole

(* The server takes a call off the way and runs it as a task. *)
LEMMA TaskStarts ==
    ASSUME NEW p, NEW cs, NEW ts, NEW ex, NEW out, Whole(p, cs, ts, ex, out),
           NEW k \in 1..Len(cs), cs[k].up # <<>>, cs[k].stage = "open",
           NEW i \in CallIds, Head(cs[k].up) = Invoke(i),
           NEW t \in Tasks, t.conn = k, t.call = i
    PROVE  Whole(p, [cs EXCEPT ![k] = [cs[k] EXCEPT !.up = Tail(cs[k].up)]], ts \cup {t}, ex, out)
<1> DEFINE r == [cs[k] EXCEPT !.up = Tail(cs[k].up)]
           ds == [cs EXCEPT ![k] = r]
<1>1. cs \in Seq(Conns) /\ Len(cs) \in Nat /\ cs[k] \in Conns
  BY LenProperties, ElementOfSeq DEF Whole, Typed
<1>2. cs[k].up \in Seq(ClientFrames) /\ Sound(cs[k])
  BY <1>1 DEF Conns, Whole, Connected
<1>3. /\ Tail(cs[k].up) \in Seq(ClientFrames) /\ Asked(Tail(cs[k].up)) \subseteq Asked(cs[k].up)
      /\ \A j \in Asked(cs[k].up) : j = i \/ j \in Asked(Tail(cs[k].up))
      /\ i \in Asked(cs[k].up) /\ i \notin Asked(Tail(cs[k].up)) /\ Once(Tail(cs[k].up))
  <2>1. Asked(cs[k].up) \subseteq CallIds
    BY DEF Asked
  <2> QED
    BY <1>2, <2>1, UpTail, ClientFrameFacts DEF Sound
<1>4. /\ r \in Conns /\ r.up = Tail(cs[k].up) /\ r.down = cs[k].down /\ r.stage = "open"
  BY <1>1, <1>3 DEF Conns
<1> HIDE DEF r
<1>5. /\ ds \in Seq(Conns) /\ Len(ds) = Len(cs)
      /\ \A j \in 1..Len(cs) : ds[j] = IF j = k THEN r ELSE cs[j]
  BY <1>1, <1>4, ExceptSeq
<1>6. p.socket \in Nat /\ p \in BrowserStates /\ \A s \in ts : s.conn \in Nat \ {0}
  BY DEF Whole, Typed, BrowserStates, Tasks, ConnIds
<1> HIDE DEF ds
<1>7. Typed(p, ds, ts \cup {t}, ex, out)
  BY <1>5 DEF Whole, Typed
<1>8. Sound(r)
  BY <1>2, <1>3, <1>4 DEF Sound
<1>9. Connected(p, ds, ts \cup {t})
  <2>1. \A j \in 1..Len(ds) : Sound(ds[j])
    BY <1>5, <1>8 DEF Whole, Connected
  <2>2. p.socket # 0 /\ p.state = "ready" => ds[p.socket].stage \in {"open", "closed"}
    BY <1>1, <1>4, <1>5, <1>6 DEF Whole, Connected
  <2>3. \A s \in ts : s.conn <= Len(ds) /\ ds[s.conn].stage \in {"open", "closed"}
    BY <1>1, <1>4, <1>5, <1>6 DEF Whole, Connected
  <2> QED
    BY <1>1, <1>4, <1>5, <2>1, <2>2, <2>3 DEF Whole, Connected
<1>10. \A j \in 1..Len(cs) : Asked(ds[j].up) \subseteq Asked(cs[j].up) /\ i \notin Asked(ds[j].up)
  <2>1. ASSUME NEW j \in 1..Len(cs), j # k PROVE i \notin Asked(cs[j].up)
    BY <1>3, <2>1 DEF Whole, Placed
  <2> QED
    BY <1>3, <1>4, <1>5, <2>1
<1>11. ex[i] = 0 /\ (\A s \in ts : s.call # i) /\ i \notin InQueue(p) /\ ~(i > p.calls)
  BY <1>3 DEF Whole, Placed, Unsent
<1>12. Placed(p, ds, ts \cup {t}, ex)
  <2>1. ASSUME NEW j, j # i, Unsent(cs, ts, ex, j) PROVE Unsent(ds, ts \cup {t}, ex, j)
    BY <1>5, <1>10, <2>1 DEF Unsent
  <2>2. \A j \in InQueue(p) : j <= p.calls /\ Unsent(ds, ts \cup {t}, ex, j)
    BY <1>11, <2>1 DEF Whole, Placed
  <2>3. \A j \in CallIds : j > p.calls => Unsent(ds, ts \cup {t}, ex, j)
    BY <1>11, <2>1 DEF Whole, Placed
  <2>4. \A j \in 1..Len(ds) : \A h \in Asked(ds[j].up) :
          /\ ex[h] = 0 /\ \A s \in ts \cup {t} : s.call # h
          /\ \A l \in 1..Len(ds) : h \in Asked(ds[l].up) => l = j
    <3> SUFFICES ASSUME NEW j \in 1..Len(ds), NEW h \in Asked(ds[j].up)
                 PROVE  /\ ex[h] = 0 /\ \A s \in ts \cup {t} : s.call # h
                        /\ \A l \in 1..Len(ds) : h \in Asked(ds[l].up) => l = j
      OBVIOUS
    <3>1. j \in 1..Len(cs) /\ h \in Asked(cs[j].up) /\ h # i
      BY <1>5, <1>10
    <3>2. ex[h] = 0 /\ \A s \in ts : s.call # h
      BY <3>1 DEF Whole, Placed
    <3>3. \A l \in 1..Len(cs) : h \in Asked(cs[l].up) => l = j
      BY <3>1 DEF Whole, Placed
    <3> QED
      BY <1>5, <1>10, <3>1, <3>2, <3>3
  <2>5. \A s \in ts \cup {t} : ex[s.call] = 0
    BY <1>11 DEF Whole, Placed
  <2>6. \A s, u \in ts \cup {t} : s.call = u.call => s = u
    BY <1>11 DEF Whole, Placed
  <2> QED
    BY <2>2, <2>3, <2>4, <2>5, <2>6 DEF Whole, Placed
<1>13. Promised(p, ds, ts \cup {t}, ex, out)
  <2>1. \A j \in 1..Len(ds) : \A h \in Answered(ds[j].down) : ex[h] = 1
    BY <1>4, <1>5 DEF Whole, Promised
  <2>2. ASSUME NEW h \in p.pending
        PROVE  Reaches(ds[p.socket], h) \/ \E s \in ts \cup {t} : s.conn = p.socket /\ s.call = h
    <3>1. p.socket \in 1..Len(cs)
      BY <1>1, <1>6, <2>2 DEF Whole, Promised, Connected
    <3>2. Reaches(cs[p.socket], h) \/ \E s \in ts : s.conn = p.socket /\ s.call = h
      BY <2>2 DEF Whole, Promised
    <3>3. CASE p.socket = k /\ Reaches(cs[k], h)
      BY <1>3, <1>4, <1>5, <3>3 DEF Reaches
    <3>4. CASE p.socket # k
      BY <1>5, <3>1, <3>2, <3>4
    <3> QED
      BY <3>2, <3>3, <3>4
  <2> QED
    BY <2>1, <2>2 DEF Whole, Promised
<1> QED
  BY <1>7, <1>9, <1>12, <1>13 DEF Whole, ds, r

(* A task runs its call, and answers unless its connection has ended. *)
LEMMA TaskEnds ==
    ASSUME NEW p, NEW cs, NEW ts, NEW ex, NEW out, Whole(p, cs, ts, ex, out), NEW t \in ts
    PROVE  LET k == t.conn
               down == Append(cs[k].down, Result(t.call))
               ds == IF cs[k].stage = "open" THEN [cs EXCEPT ![k] = [cs[k] EXCEPT !.down = down]] ELSE cs
           IN  k \in 1..Len(cs) /\ Whole(p, ds, ts \ {t}, [ex EXCEPT ![t.call] = ex[t.call] + 1], out)
<1> DEFINE k == t.conn
           i == t.call
           r == [cs[k] EXCEPT !.down = Append(cs[k].down, Result(i))]
           ds == IF cs[k].stage = "open" THEN [cs EXCEPT ![k] = r] ELSE cs
           fx == [ex EXCEPT ![i] = ex[i] + 1]
<1>1. cs \in Seq(Conns) /\ Len(cs) \in Nat /\ p \in BrowserStates /\ p.socket \in Nat
  BY LenProperties DEF Whole, Typed, BrowserStates, ConnIds
<1>2. /\ \A s \in ts : s.conn \in Nat \ {0} /\ s.call \in CallIds
      /\ k \in 1..Len(cs) /\ cs[k].stage \in {"open", "closed"}
  BY <1>1 DEF Whole, Typed, Connected, Tasks, ConnIds
<1>3. cs[k] \in Conns /\ Sound(cs[k])
  BY <1>1, <1>2, ElementOfSeq DEF Whole, Connected
<1>4. /\ r \in Conns /\ r.up = cs[k].up /\ r.stage = cs[k].stage
      /\ Answered(r.down) = Answered(cs[k].down) \cup {i}
      /\ \A type : Has(r.down, type) <=> Has(cs[k].down, type) \/ type = "result"
  <2> DEFINE f == Result(i)
  <2>1. f \in ServerFrames /\ f.type = "result" /\ \A j \in CallIds : f = Result(j) => j = i
    BY <1>2, ServerFrameFacts
  <2>2. f = Result(i)
    OBVIOUS
  <2>3. cs[k].down \in Seq(ServerFrames)
    BY <1>3 DEF Conns
  <2> HIDE DEF f
  <2>4. /\ Append(cs[k].down, f) \in Seq(ServerFrames)
        /\ Answered(Append(cs[k].down, f)) = Answered(cs[k].down) \cup {j \in CallIds : f = Result(j)}
        /\ \A type : Has(Append(cs[k].down, f), type) <=> Has(cs[k].down, type) \/ f.type = type
    BY <2>1, <2>3, DownAppend
  <2>5. {j \in CallIds : f = Result(j)} = {i}
    BY <1>2, <2>1, <2>2
  <2>6. r = [cs[k] EXCEPT !.down = Append(cs[k].down, f)]
    BY <2>2
  <2>7. r \in Conns /\ r.up = cs[k].up /\ r.stage = cs[k].stage /\ r.down = Append(cs[k].down, f)
    BY <1>3, <2>4, <2>6 DEF Conns
  <2> QED
    BY <2>1, <2>4, <2>5, <2>7
<1>5. Sound(r)
  BY <1>3, <1>4 DEF Sound
<1> HIDE DEF r
<1>6. /\ ds \in Seq(Conns) /\ Len(ds) = Len(cs)
      /\ \A j \in 1..Len(cs) : ds[j] = cs[j] \/ (j = k /\ cs[k].stage = "open" /\ ds[j] = r)
      /\ cs[k].stage = "open" => ds[k] = r
  <2>1. /\ [cs EXCEPT ![k] = r] \in Seq(Conns) /\ Len([cs EXCEPT ![k] = r]) = Len(cs)
        /\ \A j \in 1..Len(cs) : [cs EXCEPT ![k] = r][j] = IF j = k THEN r ELSE cs[j]
    BY <1>1, <1>2, <1>4, ExceptSeq
  <2> QED
    BY <1>1, <1>2, <2>1
<1> HIDE DEF ds
<1>7. \A j \in 1..Len(cs) : /\ ds[j].up = cs[j].up /\ ds[j].stage = cs[j].stage
                            /\ \A type : type # "result" => (Has(ds[j].down, type) <=> Has(cs[j].down, type))
                            /\ Answered(cs[j].down) \subseteq Answered(ds[j].down)
                            /\ Answered(ds[j].down) \subseteq Answered(cs[j].down) \cup {i}
  BY <1>4, <1>6
<1>8. ex[i] = 0 /\ ex \in [CallIds -> Nat]
  BY DEF Whole, Typed, Placed
<1>9. fx \in [CallIds -> Nat] /\ fx[i] = 1 /\ \A j \in CallIds : j # i => fx[j] = ex[j]
  BY <1>2, <1>8
<1> HIDE DEF fx
<1>10. /\ i \notin InQueue(p) /\ ~(i > p.calls) /\ (\A j \in 1..Len(cs) : i \notin Asked(cs[j].up))
       /\ \A s \in ts \ {t} : s.call # i
  BY <1>2 DEF Whole, Placed, Unsent
<1>11. Typed(p, ds, ts \ {t}, fx, out)
  BY <1>6, <1>9 DEF Whole, Typed
<1>12. Connected(p, ds, ts \ {t})
  <2>1. \A j \in 1..Len(ds) : Sound(ds[j])
    BY <1>5, <1>6 DEF Whole, Connected
  <2>2. p.socket # 0 /\ p.state = "ready" => ds[p.socket].stage \in {"open", "closed"}
    BY <1>1, <1>7 DEF Whole, Connected
  <2>3. \A s \in ts : s.conn <= Len(ds) /\ ds[s.conn].stage \in {"open", "closed"}
    BY <1>1, <1>2, <1>6, <1>7 DEF Whole, Connected
  <2> QED
    BY <1>6, <2>1, <2>2, <2>3 DEF Whole, Connected
<1>13. Placed(p, ds, ts \ {t}, fx)
  <2>1. ASSUME NEW j \in CallIds, j # i, Unsent(cs, ts, ex, j) PROVE Unsent(ds, ts \ {t}, fx, j)
    BY <1>6, <1>7, <1>9, <2>1 DEF Unsent
  <2>2. \A j \in InQueue(p) : j <= p.calls /\ Unsent(ds, ts \ {t}, fx, j)
    BY <1>1, <1>10, <2>1, QueueFacts DEF Whole, Placed
  <2>3. \A j \in CallIds : j > p.calls => Unsent(ds, ts \ {t}, fx, j)
    BY <1>10, <2>1 DEF Whole, Placed
  <2>4. ASSUME NEW j \in 1..Len(ds), NEW h \in Asked(ds[j].up)
        PROVE  /\ fx[h] = 0 /\ \A s \in ts \ {t} : s.call # h
               /\ \A l \in 1..Len(ds) : h \in Asked(ds[l].up) => l = j
    <3>1. h \in CallIds /\ h # i /\ j \in 1..Len(cs) /\ h \in Asked(cs[j].up)
      BY <1>6, <1>7, <1>10 DEF Asked
    <3>2. ex[h] = 0 /\ (\A s \in ts : s.call # h) /\ \A l \in 1..Len(cs) : h \in Asked(cs[l].up) => l = j
      BY <3>1 DEF Whole, Placed
    <3> QED
      BY <1>6, <1>7, <1>9, <3>1, <3>2
  <2>5. \A s \in ts \ {t} : fx[s.call] = 0
    BY <1>2, <1>9, <1>10 DEF Whole, Placed
  <2>6. \A j \in CallIds : fx[j] <= 1
    BY <1>9 DEF Whole, Placed
  <2> QED
    BY <2>2, <2>3, <2>4, <2>5, <2>6 DEF Whole, Placed
<1>14. Promised(p, ds, ts \ {t}, fx, out)
  <2>1. ASSUME NEW j \in 1..Len(ds), NEW h \in Answered(ds[j].down) PROVE fx[h] = 1
    <3>1. h \in CallIds /\ j \in 1..Len(cs) /\ (h = i \/ h \in Answered(cs[j].down))
      BY <1>6, <1>7 DEF Answered
    <3> QED
      BY <1>9, <3>1 DEF Whole, Promised
  <2>2. \A j \in CallIds : out[j] = "resolved" => fx[j] = 1
    BY <1>9 DEF Whole, Promised
  <2>3. ASSUME NEW h \in p.pending
        PROVE  Reaches(ds[p.socket], h) \/ \E s \in ts \ {t} : s.conn = p.socket /\ s.call = h
    <3>1. p.socket \in 1..Len(cs)
      BY <1>1, <2>3 DEF Whole, Promised, Connected
    <3>2. Reaches(cs[p.socket], h) \/ \E s \in ts : s.conn = p.socket /\ s.call = h
      BY <2>3 DEF Whole, Promised
    <3>3. CASE Reaches(cs[p.socket], h)
      BY <1>7, <3>1, <3>3 DEF Reaches
    <3>4. CASE t.conn = p.socket /\ t.call = h /\ cs[k].stage = "open"
      BY <1>4, <1>6, <3>4 DEF Reaches
    <3>5. CASE t.conn = p.socket /\ t.call = h /\ cs[k].stage = "closed"
      BY <1>3, <1>7, <3>1, <3>5 DEF Reaches, Sound
    <3> QED
      BY <1>2, <3>2, <3>3, <3>4, <3>5
  <2> QED
    BY <2>1, <2>2, <2>3 DEF Whole, Promised
<1> QED
  BY <1>2, <1>11, <1>12, <1>13, <1>14 DEF Whole, ds, fx, r

(* Calls N that never left are sent on the socket in use, which is ready.     *)
SentBy(p, cs, ts, ex, out, N, up, q, res) ==
    /\ N \subseteq CallIds /\ q \in BrowserStates /\ res \in [CallIds -> Outcomes]
    /\ up \in Seq(ClientFrames) /\ Once(up)
    /\ p.socket # 0 /\ cs[p.socket].stage \in {"open", "closed"}
    /\ Asked(up) = Asked(cs[p.socket].up) \cup N
    /\ \A i \in N : Unsent(cs, ts, ex, i) /\ i <= q.calls
    /\ p.calls <= q.calls /\ q.socket = p.socket /\ q.state = "ready"
    /\ Distinct(q.queue) /\ InQueue(q) = InQueue(p) \ N /\ q.pending = p.pending \cup N
    /\ \A i \in CallIds : res[i] = IF i \in N THEN "waiting" ELSE out[i]

LEMMA CallsSent ==
    ASSUME NEW p, NEW cs, NEW ts, NEW ex, NEW out, Whole(p, cs, ts, ex, out),
           NEW N, NEW up, NEW q, NEW res, SentBy(p, cs, ts, ex, out, N, up, q, res)
    PROVE  Whole(q, [cs EXCEPT ![p.socket] = [cs[p.socket] EXCEPT !.up = up]], ts, ex, res)
<1> USE DEF SentBy
<1> DEFINE k == p.socket
           r == [cs[k] EXCEPT !.up = up]
           ds == [cs EXCEPT ![k] = r]
<1>1. /\ cs \in Seq(Conns) /\ Len(cs) \in Nat /\ p \in BrowserStates
      /\ \A t \in ts : t.conn \in Nat \ {0}
  BY LenProperties DEF Whole, Typed, Tasks, ConnIds
<1>2. k \in 1..Len(cs) /\ cs[k] \in Conns /\ Sound(cs[k])
  <2>1. p.socket \in Nat
    BY <1>1 DEF BrowserStates, ConnIds
  <2>2. p.socket \in 1..Len(cs)
    BY <1>1, <2>1 DEF Whole, Connected
  <2> QED
    BY <1>1, <2>2, ElementOfSeq DEF Whole, Connected
<1>3. r \in Conns /\ r.up = up /\ r.down = cs[k].down /\ r.stage = cs[k].stage
  BY <1>2 DEF Conns
<1> HIDE DEF r
<1>4. /\ ds \in Seq(Conns) /\ Len(ds) = Len(cs)
      /\ \A j \in 1..Len(cs) : ds[j] = IF j = k THEN r ELSE cs[j]
  BY <1>1, <1>2, <1>3, ExceptSeq
<1>5. Sound(r)
  BY <1>2, <1>3 DEF Sound
<1> HIDE DEF ds
<1>6. Typed(q, ds, ts, ex, res)
  BY <1>4 DEF Whole, Typed
<1>7. Connected(q, ds, ts)
  <2>1. \A j \in 1..Len(ds) : Sound(ds[j])
    BY <1>4, <1>5 DEF Whole, Connected
  <2>2. \A t \in ts : t.conn <= Len(ds) /\ ds[t.conn].stage \in {"open", "closed"}
    BY <1>1, <1>3, <1>4 DEF Whole, Connected
  <2> QED
    BY <1>2, <1>3, <1>4, <2>1, <2>2 DEF Whole, Connected
<1>8. \A j \in 1..Len(cs) : Asked(ds[j].up) = Asked(cs[j].up) \cup (IF j = k THEN N ELSE {})
  BY <1>3, <1>4
<1>9. Placed(q, ds, ts, ex)
  <2>1. ASSUME NEW i \in CallIds \ N, Unsent(cs, ts, ex, i) PROVE Unsent(ds, ts, ex, i)
    BY <1>4, <1>8, <2>1 DEF Unsent
  <2>2. p.calls \in Nat /\ q.calls \in Nat /\ InQueue(p) \subseteq CallIds
    BY <1>1, QueueFacts DEF BrowserStates
  <2>3. \A i \in InQueue(q) : i <= q.calls /\ Unsent(ds, ts, ex, i)
    BY <2>1, <2>2 DEF Whole, Placed, CallIds
  <2>4. \A i \in CallIds : i > q.calls => Unsent(ds, ts, ex, i)
    BY <2>1, <2>2 DEF Whole, Placed, CallIds
  <2>5. ASSUME NEW j \in 1..Len(ds), NEW i \in Asked(ds[j].up)
        PROVE  /\ ex[i] = 0 /\ \A t \in ts : t.call # i
               /\ \A l \in 1..Len(ds) : i \in Asked(ds[l].up) => l = j
    <3>1. CASE i \in N
      BY <1>4, <1>8, <3>1 DEF Unsent
    <3>2. CASE i \notin N
      <4>1. j \in 1..Len(cs) /\ i \in Asked(cs[j].up)
        BY <1>4, <1>8, <3>2
      <4>2. /\ ex[i] = 0 /\ \A t \in ts : t.call # i
            /\ \A l \in 1..Len(cs) : i \in Asked(cs[l].up) => l = j
        BY <4>1 DEF Whole, Placed
      <4> QED
        BY <1>4, <1>8, <3>2, <4>2
    <3> QED
      BY <3>1, <3>2
  <2> QED
    BY <2>3, <2>4, <2>5 DEF Whole, Placed
<1>10. Promised(q, ds, ts, ex, res)
  <2>1. \A j \in 1..Len(ds) : \A i \in Answered(ds[j].down) : ex[i] = 1
    BY <1>3, <1>4 DEF Whole, Promised
  <2>2. ASSUME NEW i \in q.pending
        PROVE  Reaches(ds[k], i) \/ \E t \in ts : t.conn = k /\ t.call = i
    <3>1. CASE i \in N
      BY <1>2, <1>3, <1>4, <3>1 DEF Reaches, Sound
    <3>2. CASE i \in p.pending
      <4>1. Reaches(cs[k], i) \/ \E t \in ts : t.conn = k /\ t.call = i
        BY <3>2 DEF Whole, Promised
      <4> QED
        BY <1>2, <1>3, <1>4, <4>1 DEF Reaches
    <3> QED
      BY <3>1, <3>2
  <2>3. InQueue(q) \cap q.pending = {}
    BY DEF Whole, Promised
  <2>4. \A i \in CallIds : res[i] = "waiting" <=> i \in InQueue(q) \cup q.pending
    BY DEF Whole, Promised
  <2>5. \A i \in CallIds : res[i] = "resolved" => ex[i] = 1
    BY DEF Whole, Promised
  <2>6. \A i \in CallIds : i > q.calls => res[i] = "none"
    <3>1. p.calls \in Nat /\ q.calls \in Nat
      BY <1>1, QueueFacts DEF BrowserStates
    <3> QED
      BY <3>1 DEF Whole, Promised, CallIds
  <2> QED
    BY <2>1, <2>2, <2>3, <2>4, <2>5, <2>6 DEF Promised
<1> QED
  BY <1>6, <1>7, <1>9, <1>10 DEF Whole, ds, r

(* A new call is refused, or queued.                                          *)
NotSentBy(p, out, q, res) ==
    /\ q \in BrowserStates /\ q.calls = p.calls + 1 /\ q.pending = p.pending
    /\ q.socket = p.socket /\ q.state = p.state /\ res \in [CallIds -> Outcomes]
    /\ \A i \in CallIds : i # q.calls => res[i] = out[i]
    /\ \/ q.queue = p.queue /\ res[q.calls] = "rejected"
       \/ q.queue = Append(p.queue, q.calls) /\ res[q.calls] = "waiting"

LEMMA CallNotSent ==
    ASSUME NEW p, NEW cs, NEW ts, NEW ex, NEW out, Whole(p, cs, ts, ex, out), p.calls < MaxCalls,
           NEW q, NEW res, NotSentBy(p, out, q, res)
    PROVE  Whole(q, cs, ts, ex, res)
<1> USE DEF NotSentBy
<1> DEFINE i == p.calls + 1
           o == res[q.calls]
<1>1. /\ p \in BrowserStates /\ out \in [CallIds -> Outcomes] /\ p.queue \in Seq(CallIds)
      /\ p.calls \in Nat /\ i \in CallIds /\ InQueue(p) \subseteq CallIds
  <2>1. p \in BrowserStates /\ out \in [CallIds -> Outcomes]
    BY DEF Whole, Typed
  <2> QED
    BY <2>1, QueueFacts, BridgeSessionAssumption DEF CallIds
<1>2. /\ res \in [CallIds -> Outcomes] /\ res[i] = o
      /\ \A j \in CallIds : j # i => res[j] = out[j]
  OBVIOUS
<1>3. /\ i \notin InQueue(p) /\ out[i] = "none" /\ i \notin p.pending /\ Unsent(cs, ts, ex, i)
      /\ Distinct(p.queue)
  BY <1>1 DEF Whole, Placed, Promised
<1>4. /\ Distinct(q.queue)
      /\ InQueue(q) = IF o = "waiting" THEN InQueue(p) \cup {i} ELSE InQueue(p)
  <2>1. CASE q.queue = p.queue /\ o = "rejected"
    BY <1>1, <1>3, <2>1, QueueFacts
  <2>2. CASE q.queue = Append(p.queue, i) /\ o = "waiting"
    <3>1. /\ Len(q.queue) = Len(p.queue) + 1 /\ q.queue[Len(p.queue) + 1] = i
          /\ \A n \in 1..Len(p.queue) : q.queue[n] = p.queue[n]
      BY <1>1, <2>2, AppendProperties
    <3>2. Len(p.queue) \in Nat /\ \A n \in 1..Len(p.queue) : p.queue[n] # i
      BY <1>1, <1>3, LenProperties DEF InQueue
    <3> HIDE DEF NotSentBy, i
    <3>3. Distinct(q.queue)
      BY <1>3, <3>1, <3>2 DEF Distinct
    <3>4. InQueue(q) \subseteq InQueue(p) \cup {i}
      BY <3>1, <3>2 DEF InQueue
    <3>5. InQueue(p) \subseteq InQueue(q) /\ i \in InQueue(q)
      BY <3>1, <3>2 DEF InQueue
    <3> QED
      BY <2>2, <3>3, <3>4, <3>5
  <2> QED
    BY <2>1, <2>2
<1> HIDE DEF o, i
<1>5. q.calls = i /\ i = p.calls + 1
  BY DEF i
<1>6. Typed(q, cs, ts, ex, res)
  BY <1>2 DEF Whole, Typed
<1>7. Connected(q, cs, ts)
  BY DEF Whole, Connected
<1>8. Placed(q, cs, ts, ex)
  <2>1. \A j \in InQueue(q) : j <= q.calls /\ Unsent(cs, ts, ex, j)
    BY <1>1, <1>3, <1>4, <1>5 DEF Whole, Placed, CallIds
  <2>2. \A j \in CallIds : j > q.calls => Unsent(cs, ts, ex, j)
    BY <1>1, <1>5 DEF Whole, Placed, CallIds
  <2> QED
    BY <1>4, <2>1, <2>2 DEF Whole, Placed
<1>9. Promised(q, cs, ts, ex, res)
  <2>1. InQueue(q) \cap q.pending = {}
    BY <1>3, <1>4 DEF Whole, Promised
  <2>2. \A j \in CallIds : res[j] = "waiting" <=> j \in InQueue(q) \cup q.pending
    <3>1. res[i] = "waiting" <=> i \in InQueue(q) \cup q.pending
      BY <1>1, <1>2, <1>3, <1>4 DEF o
    <3>2. \A j \in CallIds : j # i => (res[j] = "waiting" <=> j \in InQueue(q) \cup q.pending)
      BY <1>2, <1>4 DEF Whole, Promised
    <3> QED
      BY <3>1, <3>2
  <2>3. \A j \in CallIds : res[j] = "resolved" => ex[j] = 1
    BY <1>2 DEF Whole, Promised
  <2>4. \A j \in CallIds : j > q.calls => res[j] = "none"
    BY <1>1, <1>2, <1>5 DEF Whole, Promised, CallIds
  <2> QED
    BY <2>1, <2>2, <2>3, <2>4 DEF Whole, Promised
<1> QED
  BY <1>6, <1>7, <1>8, <1>9 DEF Whole

(* A ready browser sends what is queued, in order.                            *)
LEMMA Flushed ==
    ASSUME NEW p, NEW cs, NEW ts, NEW ex, NEW out, Whole(p, cs, ts, ex, out),
           p.socket # 0, cs[p.socket].stage \in {"open", "closed"}
    PROVE  LET k == p.socket
               up == cs[k].up \o [i \in 1..Len(p.queue) |-> Invoke(p.queue[i])]
               q == [p EXCEPT !.state = "ready", !.queue = <<>>, !.pending = p.pending \cup InQueue(p)]
           IN  /\ q \in BrowserStates
               /\ Whole(q, [cs EXCEPT ![k] = [cs[k] EXCEPT !.up = up]], ts, ex, out)
<1> DEFINE k == p.socket
           up == cs[k].up \o [i \in 1..Len(p.queue) |-> Invoke(p.queue[i])]
           q == [p EXCEPT !.state = "ready", !.queue = <<>>, !.pending = p.pending \cup InQueue(p)]
<1>1. /\ p \in BrowserStates /\ cs \in Seq(Conns) /\ out \in [CallIds -> Outcomes]
      /\ InQueue(p) \subseteq CallIds /\ p.queue \in Seq(CallIds) /\ p.pending \subseteq CallIds
      /\ InQueue(p) = {p.queue[n] : n \in 1..Len(p.queue)}
  <2>1. p \in BrowserStates /\ cs \in Seq(Conns) /\ out \in [CallIds -> Outcomes]
    BY DEF Whole, Typed
  <2> QED
    BY <2>1, QueueFacts
<1>2. k \in 1..Len(cs)
  <2>1. p.socket \in Nat /\ Len(cs) \in Nat
    BY <1>1, LenProperties DEF BrowserStates, ConnIds
  <2> QED
    BY <2>1 DEF Whole, Connected
<1>3. cs[k].up \in Seq(ClientFrames) /\ Once(cs[k].up)
  <2>1. cs[k] \in Conns
    BY <1>1, <1>2, ElementOfSeq
  <2> QED
    BY <1>2, <2>1 DEF Conns, Sound, Whole, Connected
<1>4. Distinct(p.queue) /\ \A i \in InQueue(p) : i <= p.calls /\ Unsent(cs, ts, ex, i)
  BY DEF Whole, Placed
<1>5. \A n \in 1..Len(p.queue) : p.queue[n] \notin Asked(cs[k].up)
  BY <1>1, <1>2, <1>4 DEF Unsent
<1>6. up \in Seq(ClientFrames) /\ Once(up) /\ Asked(up) = Asked(cs[k].up) \cup InQueue(p)
  <2>1. /\ up \in Seq(ClientFrames) /\ Once(up)
        /\ Asked(up) = Asked(cs[k].up) \cup {p.queue[n] : n \in 1..Len(p.queue)}
    BY <1>1, <1>3, <1>4, <1>5, UpFlush
  <2> QED
    BY <1>1, <2>1
<1> HIDE DEF up
<1>7. /\ q \in BrowserStates /\ q.calls = p.calls /\ q.socket = p.socket /\ q.state = "ready"
      /\ q.queue = <<>> /\ q.pending = p.pending \cup InQueue(p)
  <2>1. <<>> \in Seq(CallIds)
    OBVIOUS
  <2> QED
    BY <1>1, <2>1 DEF BrowserStates, States
<1> HIDE DEF q
<1>8. InQueue(q) = InQueue(p) \ InQueue(p) /\ Distinct(q.queue) /\ p.calls <= q.calls
  <2>1. p.calls \in Nat
    BY <1>1 DEF BrowserStates
  <2> QED
    BY <1>7, <2>1 DEF InQueue, Distinct
<1>9. \A i \in CallIds : out[i] = IF i \in InQueue(p) THEN "waiting" ELSE out[i]
  BY DEF Whole, Promised
<1>10. Whole(q, [cs EXCEPT ![k] = [cs[k] EXCEPT !.up = up]], ts, ex, out)
  <2>1. SentBy(p, cs, ts, ex, out, InQueue(p), up, q, out)
    BY <1>1, <1>4, <1>6, <1>7, <1>8, <1>9 DEF SentBy
  <2> QED
    BY <2>1, CallsSent
<1> QED
  BY <1>7, <1>10 DEF up, q

(* What the connections are once the browser has closed its socket.           *)
Closed(p, cs) ==
    IF p.socket = 0 THEN cs
    ELSE [cs EXCEPT ![p.socket] =
            [cs[p.socket] EXCEPT !.up = Append(cs[p.socket].up, Frame("close"))]]

LEMMA SocketCloses ==
    ASSUME NEW p, NEW cs, NEW ts, NEW ex, NEW out, Whole(p, cs, ts, ex, out)
    PROVE  /\ Whole(p, Closed(p, cs), ts, ex, out)
           /\ Len(Closed(p, cs)) = Len(cs)
<1>1. CASE p.socket = 0
  BY <1>1 DEF Closed
<1>2. CASE p.socket # 0
  <2> DEFINE k == p.socket
             f == Frame("close")
             r == [cs[k] EXCEPT !.up = Append(cs[k].up, f)]
  <2>1. k \in 1..Len(cs) /\ cs \in Seq(Conns)
    <3>1. p.socket \in Nat /\ Len(cs) \in Nat /\ cs \in Seq(Conns)
      BY LenProperties DEF Whole, Typed, BrowserStates, ConnIds
    <3> QED
      BY <1>2, <3>1 DEF Whole, Connected
  <2>2. cs[k] \in Conns /\ Sound(cs[k]) /\ cs[k].up \in Seq(ClientFrames)
    <3>1. cs[k] \in Conns
      BY <2>1, ElementOfSeq
    <3> QED
      BY <2>1, <3>1 DEF Conns, Whole, Connected
  <2>3. f \in ClientFrames /\ f.type # "invoke" /\ \A i \in CallIds : f # Invoke(i)
    BY ClientFrameFacts DEF Frame
  <2> HIDE DEF f
  <2>4. /\ Append(cs[k].up, f) \in Seq(ClientFrames) /\ Once(Append(cs[k].up, f))
        /\ Asked(Append(cs[k].up, f)) = Asked(cs[k].up)
    <3>1. /\ Append(cs[k].up, f) \in Seq(ClientFrames)
          /\ Asked(Append(cs[k].up, f)) = Asked(cs[k].up) \cup {i \in CallIds : f = Invoke(i)}
          /\ Once(cs[k].up) /\ (f.type = "invoke" => f.arg \notin Asked(cs[k].up))
                => Once(Append(cs[k].up, f))
      BY <2>2, <2>3, UpAppend
    <3> QED
      BY <2>2, <2>3, <3>1 DEF Sound
  <2>5. /\ r \in Conns /\ r.up = Append(cs[k].up, f) /\ r.down = cs[k].down
        /\ r.stage = cs[k].stage
    BY <2>2, <2>4 DEF Conns
  <2> HIDE DEF r
  <2>6. Sound(r) /\ \A i : Reaches(cs[k], i) => Reaches(r, i)
    BY <2>2, <2>4, <2>5 DEF Sound, Reaches
  <2>7. \A i \in Answered(r.down) : ex[i] = 1
    BY <2>1, <2>5 DEF Whole, Promised
  <2>8. Whole(p, [cs EXCEPT ![k] = r], ts, ex, out)
    BY <2>1, <2>4, <2>5, <2>6, <2>7, ConnChanges
  <2>9. Len([cs EXCEPT ![k] = r]) = Len(cs)
    BY <2>1, <2>5, ExceptSeq
  <2>10. Closed(p, cs) = [cs EXCEPT ![k] = r]
    BY <1>2 DEF Closed, r, f
  <2> QED
    BY <2>8, <2>9, <2>10
<1> QED
  BY <1>1, <1>2

(* The connection is dropped: what waits on it is rejected.                   *)
LEMMA ConnDropped ==
    ASSUME NEW p, NEW cs, NEW ts, NEW ex, NEW out, Whole(p, cs, ts, ex, out),
           NEW q \in BrowserStates, q.queue = p.queue, q.calls = p.calls, q.pending = {},
           q.socket = 0, NEW res \in [CallIds -> Outcomes],
           \A i \in CallIds : res[i] = IF i \in p.pending THEN "rejected" ELSE out[i]
    PROVE  Whole(q, Closed(p, cs), ts, ex, res)
<1> DEFINE ds == Closed(p, cs)
           p1 == [p EXCEPT !.pending = {}]
<1>1. Whole(p, ds, ts, ex, out) /\ Len(ds) = Len(cs)
  BY SocketCloses
<1>2. /\ p1 \in BrowserStates /\ p1.pending = {} /\ p1.queue = p.queue
      /\ p1.calls = p.calls /\ p1.socket = p.socket /\ p1.state = p.state
  BY DEF Whole, Typed, BrowserStates
<1> HIDE DEF ds, p1
<1>3. Whole(p1, ds, ts, ex, res)
  <2>1. p.pending \subseteq CallIds
    BY DEF Whole, Typed, BrowserStates
  <2> QED
    BY <1>1, <1>2, <2>1, PendingSettled DEF SettledTo
<1>4. q.socket <= Len(ds)
  BY <1>1, LenProperties DEF Whole, Typed
<1>5. Whole(q, ds, ts, ex, res)
  BY <1>2, <1>3, <1>4, BrowserTurns
<1> QED
  BY <1>5 DEF ds

(* The connection is dropped for a new one.                                   *)
LEMMA ConnReplaced ==
    ASSUME NEW p, NEW cs, NEW ts, NEW ex, NEW out, Whole(p, cs, ts, ex, out), Len(cs) < MaxConns,
           NEW q \in BrowserStates, q.queue = p.queue, q.calls = p.calls, q.pending = {},
           q.socket = Len(cs) + 1, q.state = "connecting", NEW res \in [CallIds -> Outcomes],
           \A i \in CallIds : res[i] = IF i \in p.pending THEN "rejected" ELSE out[i]
    PROVE  Whole(q, Append(Closed(p, cs), Challenged), ts, ex, res)
<1> DEFINE ds == Closed(p, cs)
           es == Append(ds, Challenged)
           q1 == [q EXCEPT !.socket = 0]
<1>1. q1 \in BrowserStates /\ q1.queue = q.queue /\ q1.calls = q.calls /\ q1.pending = {} /\ q1.socket = 0
  BY DEF BrowserStates
<1> HIDE DEF q1
<1>2. Whole(q1, ds, ts, ex, res)
  BY <1>1, ConnDropped
<1>3. Len(ds) = Len(cs)
  BY SocketCloses
<1> HIDE DEF ds
<1>4. Whole(q1, es, ts, ex, res)
  BY <1>2, <1>3, ConnOpens
<1>5. Len(es) = Len(cs) + 1
  <2>1. ds \in Seq(Conns)
    BY <1>2 DEF Whole, Typed
  <2> QED
    BY <1>3, <2>1, AppendProperties
<1> HIDE DEF es
<1>6. q.socket <= Len(es)
  <2>1. es \in Seq(Conns)
    BY <1>4 DEF Whole, Typed
  <2> QED
    BY <1>5, <2>1, LenProperties
<1>7. Whole(q, es, ts, ex, res)
  BY <1>1, <1>4, <1>6, BrowserTurns
<1> QED
  BY <1>7 DEF es, ds

(* Everything that waits is given up.                                         *)
LEMMA AllRejected ==
    ASSUME NEW p, NEW cs, NEW ts, NEW ex, NEW out, Whole(p, cs, ts, ex, out),
           NEW q \in BrowserStates, q.queue = <<>>, q.calls = p.calls, q.pending = {},
           q.socket = 0, NEW res \in [CallIds -> Outcomes],
           \A i \in CallIds :
             res[i] = IF i \in p.pending \cup InQueue(p) THEN "rejected" ELSE out[i]
    PROVE  Whole(q, Closed(p, cs), ts, ex, res)
<1> DEFINE ds == Closed(p, cs)
           q1 == [q EXCEPT !.queue = p.queue]
           res1 == [i \in CallIds |-> IF i \in p.pending THEN "rejected" ELSE out[i]]
<1>1. p \in BrowserStates /\ p.queue \in Seq(CallIds) /\ out \in [CallIds -> Outcomes]
  BY DEF Whole, Typed, BrowserStates
<1>2. /\ q1 \in BrowserStates /\ q1.queue = p.queue /\ q1.calls = p.calls /\ q1.pending = {}
      /\ q1.socket = 0 /\ q1.state = q.state
  BY <1>1 DEF BrowserStates
<1>3. /\ res1 \in [CallIds -> Outcomes]
      /\ \A i \in CallIds : res1[i] = IF i \in p.pending THEN "rejected" ELSE out[i]
  BY <1>1 DEF Outcomes
<1> HIDE DEF q1, ds, res1
<1>4. Whole(q1, ds, ts, ex, res1)
  BY <1>2, <1>3, ConnDropped DEF ds
<1>5. InQueue(q1) = InQueue(p)
  BY <1>1, <1>2, QueueFacts
<1>6. \A i \in CallIds : res[i] = IF i \in InQueue(q1) THEN "rejected" ELSE res1[i]
  BY <1>3, <1>5
<1>7. Whole(q, ds, ts, ex, res)
  BY <1>2, <1>4, <1>6, QueueRejected
<1> QED
  BY <1>7 DEF ds

-----------------------------------------------------------------------------
(* Steps. *)

ServerTyped ==
    /\ token \in Tokens /\ version \in Nat /\ rotation \in {"none", "written", "reset"}
    /\ failures \in Nat /\ locked \in BOOLEAN /\ adoptions \in Nat /\ drops \in Nat

(* What the invariant says of one browser. *)
LEMMA ClientFacts ==
    ASSUME IInv, NEW c \in Clients
    PROVE  /\ client \in [Clients -> BrowserStates] /\ client[c] \in BrowserStates
           /\ conn \in [Clients -> Seq(Conns)] /\ conn[c] \in Seq(Conns) /\ Len(conn[c]) \in Nat
           /\ executed \in [Clients -> [CallIds -> Nat]] /\ executed[c] \in [CallIds -> Nat]
           /\ outcome \in [Clients -> [CallIds -> Outcomes]] /\ outcome[c] \in [CallIds -> Outcomes]
           /\ tasks \subseteq Tasks /\ ServerTyped
           /\ Whole(client[c], conn[c], TasksOf(c), executed[c], outcome[c])
<1>1. /\ client \in [Clients -> BrowserStates] /\ conn \in [Clients -> Seq(Conns)]
      /\ executed \in [Clients -> [CallIds -> Nat]]
      /\ outcome \in [Clients -> [CallIds -> Outcomes]]
      /\ tasks \subseteq Tasks
  BY DEF IInv, TypeOK, Outcomes, Tasks
<1>2. ServerTyped
  BY DEF IInv, TypeOK, ServerTyped
<1>3. Whole(client[c], conn[c], TasksOf(c), executed[c], outcome[c])
  BY DEF IInv, WholeClient
<1>4. conn[c] \in Seq(Conns)
  BY <1>1
<1>5. Len(conn[c]) \in Nat
  BY <1>4, LenProperties
<1> QED
  BY <1>1, <1>2, <1>3, <1>4, <1>5

(* A step that concerns one browser leaves the others as they are. *)
LEMMA OneBrowser ==
    ASSUME IInv, NEW c \in Clients, NEW p, NEW cs, NEW ex, NEW out,
           client' = [client EXCEPT ![c] = p], conn' = [conn EXCEPT ![c] = cs],
           executed' = [executed EXCEPT ![c] = ex], outcome' = [outcome EXCEPT ![c] = out],
           tasks' \subseteq Tasks, \A d \in Clients \ {c} : TasksOf(d)' = TasksOf(d),
           ServerTyped', Whole(p, cs, TasksOf(c)', ex, out)
    PROVE  IInv'
<1>1. /\ client \in [Clients -> BrowserStates] /\ conn \in [Clients -> Seq(Conns)]
      /\ executed \in [Clients -> [CallIds -> Nat]]
      /\ outcome \in [Clients -> [CallIds -> Outcomes]]
  BY ClientFacts
<1>2. p \in BrowserStates /\ cs \in Seq(Conns) /\ ex \in [CallIds -> Nat] /\ out \in [CallIds -> Outcomes]
  BY DEF Whole, Typed
<1>3. /\ client' \in [Clients -> BrowserStates] /\ client'[c] = p
      /\ \A d \in Clients \ {c} : client'[d] = client[d]
  BY <1>1, <1>2
<1>4. /\ conn' \in [Clients -> Seq(Conns)] /\ conn'[c] = cs
      /\ \A d \in Clients \ {c} : conn'[d] = conn[d]
  BY <1>1, <1>2
<1>5. /\ executed' \in [Clients -> [CallIds -> Nat]] /\ executed'[c] = ex
      /\ \A d \in Clients \ {c} : executed'[d] = executed[d]
  BY <1>1, <1>2
<1>6. /\ outcome' \in [Clients -> [CallIds -> Outcomes]] /\ outcome'[c] = out
      /\ \A d \in Clients \ {c} : outcome'[d] = outcome[d]
  BY <1>1, <1>2
<1>7. TypeOK'
  BY <1>3, <1>4, <1>5, <1>6 DEF TypeOK, ServerTyped, Outcomes, Tasks
<1>8. WholeClient(c)'
  BY <1>3, <1>4, <1>5, <1>6 DEF WholeClient
<1>9. ASSUME NEW d \in Clients \ {c} PROVE WholeClient(d)'
  <2>1. WholeClient(d)
    BY DEF IInv
  <2> QED
    BY <1>3, <1>4, <1>5, <1>6, <2>1 DEF WholeClient
<1> QED
  BY <1>7, <1>8, <1>9 DEF IInv

(* A step that starts or ends no task. *)
LEMMA BrowserSteps ==
    ASSUME IInv, NEW c \in Clients, NEW p, NEW cs, NEW out,
           client' = [client EXCEPT ![c] = p], conn' = [conn EXCEPT ![c] = cs],
           outcome' = [outcome EXCEPT ![c] = out],
           UNCHANGED <<tasks, executed>>, ServerTyped',
           Whole(p, cs, TasksOf(c), executed[c], out)
    PROVE  IInv'
<1>1. executed' = [executed EXCEPT ![c] = executed[c]] /\ tasks' \subseteq Tasks
  BY ClientFacts
<1>2. \A d : TasksOf(d)' = TasksOf(d)
  BY DEF TasksOf
<1>3. Whole(p, cs, TasksOf(c)', executed[c], out)
  BY <1>2
<1> QED
  BY <1>1, <1>2, <1>3, OneBrowser

(* A step of one connection, on which nothing new is asked. *)
LEMMA ConnSteps ==
    ASSUME IInv, NEW c \in Clients, NEW k \in ConnIds, k <= Len(conn[c]), NEW r \in Conns,
           conn' = [conn EXCEPT ![c] = [conn[c] EXCEPT ![k] = r]],
           UNCHANGED <<client, tasks, executed, outcome>>, ServerTyped',
           Sound(r), Asked(r.up) \subseteq Asked(conn[c][k].up),
           conn[c][k].stage \in {"open", "closed"} => r.stage \in {"open", "closed"},
           Answered(r.down) \subseteq Answered(conn[c][k].down),
           \A i \in client[c].pending :
             k = client[c].socket /\ Reaches(conn[c][k], i) => Reaches(r, i)
    PROVE  IInv'
<1> DEFINE p == client[c]
           cs == conn[c]
           ts == TasksOf(c)
           ex == executed[c]
           out == outcome[c]
<1>1. Whole(p, cs, ts, ex, out) /\ k \in 1..Len(cs)
  BY ClientFacts DEF ConnIds
<1>2. client' = [client EXCEPT ![c] = p] /\ outcome' = [outcome EXCEPT ![c] = out]
  BY ClientFacts
<1> HIDE DEF p, ts, ex, out
<1>3. \A i \in Answered(r.down) : ex[i] = 1
  BY <1>1 DEF Whole, Promised
<1>4. k = p.socket => \A i \in p.pending : Reaches(cs[k], i) => Reaches(r, i)
  BY DEF p
<1>5. Whole(p, [cs EXCEPT ![k] = r], ts, ex, out)
  BY <1>1, <1>3, <1>4, ConnChanges
<1> QED
  BY <1>2, <1>5, BrowserSteps DEF ts, ex

(* What the invariant says of one connection. *)
LEMMA ConnFacts ==
    ASSUME IInv, NEW c \in Clients, NEW k \in ConnIds, k <= Len(conn[c])
    PROVE  /\ conn[c][k] \in Conns /\ Sound(conn[c][k]) /\ k \in 1..Len(conn[c])
           /\ conn[c][k].up \in Seq(ClientFrames) /\ conn[c][k].down \in Seq(ServerFrames)
           /\ conn[c][k].stage \in Stages /\ client[c] \in BrowserStates
           /\ conn \in [Clients -> Seq(Conns)] /\ conn[c] \in Seq(Conns)
           /\ version \in Nat /\ token \in Tokens
           /\ ServerTyped
<1>1. conn[c] \in Seq(Conns) /\ Len(conn[c]) \in Nat /\ k \in 1..Len(conn[c])
  BY ClientFacts DEF ConnIds
<1>2. conn[c][k] \in Conns
  BY <1>1, ElementOfSeq
<1>3. Sound(conn[c][k])
  BY <1>1, ClientFacts DEF Whole, Connected
<1> QED
  BY <1>1, <1>2, <1>3, ClientFacts DEF Conns, ServerTyped

(* The server reads the proof of a token. *)
LEMMA CheckAuthKeeps ==
    ASSUME IInv, NEW c \in Clients, NEW k \in ConnIds, CheckAuth(c, k) PROVE IInv'
<1> DEFINE s == conn[c][k]
           r == [s EXCEPT !.up = Tail(s.up), !.used = Head(s.up).arg]
           u == IF locked THEN Refused(r) ELSE [r EXCEPT !.stage = "checking", !.read = token]
<1>1. k <= Len(conn[c]) /\ s.up # <<>> /\ Head(s.up).type = "auth" /\ s.stage = "challenged"
  BY DEF CheckAuth, NextUp
<1>2. /\ s \in Conns /\ Sound(s) /\ s.up \in Seq(ClientFrames) /\ s.down \in Seq(ServerFrames)
      /\ token \in Tokens /\ ServerTyped
  BY <1>1, ConnFacts
<1>3. conn' = [conn EXCEPT ![c] = [conn[c] EXCEPT ![k] = u]]
  BY DEF CheckAuth, Read
<1> HIDE DEF s
<1>4. /\ Tail(s.up) \in Seq(ClientFrames) /\ Asked(Tail(s.up)) \subseteq Asked(s.up)
      /\ Once(Tail(s.up)) /\ Head(s.up).arg \in Tokens
  BY <1>1, <1>2, UpTail, ClientFrameFacts DEF Sound
<1> DEFINE down == s.down \o <<Frame("auth-failed"), Frame("close")>>
<1>5. /\ down \in Seq(ServerFrames) /\ Answered(down) = Answered(s.down)
      /\ Has(down, "close") /\ (Has(down, "ready") => Has(s.down, "ready"))
  BY <1>2, DownRefuse
<1>6. ~Has(s.down, "ready")
  BY <1>1, <1>2 DEF Sound
<1>7. /\ r \in Conns /\ r.up = Tail(s.up) /\ r.down = s.down /\ r.stage = "challenged"
  BY <1>1, <1>2, <1>4 DEF Conns
<1>8. /\ u \in Conns /\ Sound(u) /\ u.up = Tail(s.up) /\ Answered(u.down) = Answered(s.down)
      /\ Has(s.down, "close") => Has(u.down, "close")
  <2>1. CASE locked
    <3>1. u = [r EXCEPT !.stage = "closed", !.down = down]
      BY <1>7, <2>1 DEF Refused
    <3> HIDE DEF down, r, u
    <3>2. u \in Conns /\ u.stage = "closed" /\ u.down = down /\ u.up = r.up
      BY <1>5, <1>7, <3>1 DEF Conns, Stages
    <3> QED
      BY <1>4, <1>5, <1>6, <1>7, <3>2 DEF Sound
  <2>2. CASE ~locked
    <3>1. u = [r EXCEPT !.stage = "checking", !.read = token]
      BY <2>2
    <3> HIDE DEF r, u
    <3>2. u \in Conns /\ u.stage = "checking" /\ u.down = s.down /\ u.up = r.up
      BY <1>2, <1>7, <3>1 DEF Conns, Stages
    <3> QED
      BY <1>4, <1>6, <1>7, <3>2 DEF Sound
  <2> QED
    BY <2>1, <2>2
<1>9. \A i : Reaches(s, i) => Reaches(u, i)
  <2> HIDE DEF u
  <2> QED
    BY <1>1, <1>8 DEF Reaches
<1>10. ServerTyped' /\ UNCHANGED <<client, tasks, executed, outcome>>
  BY <1>2 DEF CheckAuth, serverVars, callVars, ServerTyped
<1> HIDE DEF u
<1> QED
  BY <1>1, <1>3, <1>4, <1>8, <1>9, <1>10, ConnSteps DEF s

(* A task that ends says so. *)
LEMMA EndedFacts ==
    ASSUME NEW s \in Conns, Sound(s), NEW r \in {Ended(s), Refused(s)}
    PROVE  /\ r \in Conns /\ Sound(r) /\ r.stage = "closed" /\ r.up = s.up
           /\ Answered(r.down) = Answered(s.down) /\ \A i : Reaches(r, i)
<1> DEFINE f == Frame("close")
           a == Append(s.down, f)
           b == s.down \o <<Frame("auth-failed"), Frame("close")>>
<1>1. s.down \in Seq(ServerFrames)
  BY DEF Conns
<1>2. f \in ServerFrames /\ f.type = "close" /\ \A i \in CallIds : f # Result(i)
  BY ServerFrameFacts
<1>3. b \in Seq(ServerFrames) /\ Has(b, "close") /\ Answered(b) = Answered(s.down)
  BY <1>1, DownRefuse
<1> HIDE DEF f
<1>4. /\ a \in Seq(ServerFrames) /\ Answered(a) = Answered(s.down) \cup {i \in CallIds : f = Result(i)}
      /\ \A type : Has(a, type) <=> Has(s.down, type) \/ f.type = type
  BY <1>1, <1>2, DownAppend
<1>5. a \in Seq(ServerFrames) /\ Has(a, "close") /\ Answered(a) = Answered(s.down)
  BY <1>2, <1>4
<1>6. PICK down \in {a, b} : r = [s EXCEPT !.stage = "closed", !.down = down]
  BY DEF Ended, Refused, f
<1>7. down \in Seq(ServerFrames) /\ Has(down, "close") /\ Answered(down) = Answered(s.down)
  BY <1>3, <1>5, <1>6
<1>8. r \in Conns /\ r.stage = "closed" /\ r.up = s.up /\ r.down = down
  BY <1>6, <1>7 DEF Conns, Stages
<1> QED
  BY <1>7, <1>8 DEF Sound, Reaches

(* The server gives its verdict. *)
LEMMA VerdictKeeps ==
    ASSUME IInv, NEW c \in Clients, NEW k \in ConnIds, Verdict(c, k) PROVE IInv'
<1> DEFINE s == conn[c][k]
           f == Frame("ready")
           open == [s EXCEPT !.stage = "open", !.seen = ClonedSeen, !.down = Append(s.down, f)]
           u == IF s.used = s.read THEN open ELSE Refused(s)
<1>1. k <= Len(conn[c]) /\ s.stage = "checking"
  BY DEF Verdict
<1>2. s \in Conns /\ Sound(s) /\ s.down \in Seq(ServerFrames) /\ ServerTyped
  BY <1>1, ConnFacts
<1>3. conn' = [conn EXCEPT ![c] = [conn[c] EXCEPT ![k] = u]]
  <2>1. CASE s.used = s.read
    <3>1. conn' = [conn EXCEPT ![c][k].stage = "open", ![c][k].seen = ClonedSeen,
                               ![c][k].down = Append(@, f)]
      BY <2>1 DEF Verdict
    <3>2. conn' = [conn EXCEPT ![c] = [conn[c] EXCEPT ![k] = open]]
      BY <1>1, <3>1, ConnFacts
    <3> QED
      BY <2>1, <3>2
  <2>2. CASE s.used # s.read
    <3>1. conn' = [conn EXCEPT ![c] = [conn[c] EXCEPT ![k] = Refused(s)]]
      BY <2>2 DEF Verdict
    <3> QED
      BY <2>2, <3>1
  <2> QED
    BY <2>1, <2>2
<1> HIDE DEF s
<1>4. f \in ServerFrames /\ f.type = "ready" /\ \A i \in CallIds : f # Result(i)
  BY ServerFrameFacts
<1> HIDE DEF f
<1>5. /\ Append(s.down, f) \in Seq(ServerFrames) /\ Answered(Append(s.down, f)) = Answered(s.down)
      /\ \A type : Has(Append(s.down, f), type) <=> Has(s.down, type) \/ f.type = type
  <2>1. Answered(Append(s.down, f)) = Answered(s.down) \cup {i \in CallIds : f = Result(i)}
    BY <1>2, <1>4, DownAppend
  <2> QED
    BY <1>2, <1>4, <2>1, DownAppend
<1>6. /\ open \in Conns /\ open.up = s.up /\ open.stage = "open" /\ open.down = Append(s.down, f)
  BY <1>2, <1>5 DEF Conns, Stages, ClonedSeen
<1> HIDE DEF open
<1>7. Sound(open) /\ Answered(open.down) = Answered(s.down) /\ \A i : Reaches(s, i) => Reaches(open, i)
  BY <1>1, <1>2, <1>4, <1>5, <1>6 DEF Sound, Reaches
<1>8. /\ u \in Conns /\ Sound(u) /\ u.up = s.up /\ Answered(u.down) = Answered(s.down)
      /\ \A i : Reaches(s, i) => Reaches(u, i)
  <2>1. CASE s.used = s.read
    BY <1>6, <1>7, <2>1
  <2>2. CASE s.used # s.read
    <3>1. u = Refused(s) /\ u \in {Ended(s), Refused(s)}
      BY <2>2
    <3> HIDE DEF u
    <3> QED
      BY <1>2, <3>1, EndedFacts
  <2> QED
    BY <2>1, <2>2
<1>9. ServerTyped'
  <2>1. locked' \in BOOLEAN
    <3>1. locked' = FALSE \/ locked' = (failures + 1 >= MaxFailures)
      BY DEF Verdict
    <3>2. (failures + 1 >= MaxFailures) \in BOOLEAN
      OBVIOUS
    <3> QED
      BY <3>1, <3>2, Zenon
  <2>2. failures' \in Nat
    BY <1>2 DEF Verdict, ServerTyped
  <2> QED
    BY <1>2, <2>1, <2>2 DEF Verdict, ServerTyped
<1>10. UNCHANGED <<client, tasks, executed, outcome>>
  BY DEF Verdict, callVars
<1> HIDE DEF u
<1> QED
  BY <1>1, <1>3, <1>8, <1>9, <1>10, ConnSteps DEF s

(* The server gives a connection up, or its browser is gone, or the token     *)
(* was rotated.                                                               *)
LEMMA EndingsKeep ==
    ASSUME IInv, NEW c \in Clients, NEW k \in ConnIds,
           ServerTimeout(c, k) \/ ReceiveCommand(c, k) \/ ReceiveEnd(c, k)
    PROVE  IInv'
<1> DEFINE s == conn[c][k]
<1>1. k <= Len(conn[c])
  BY DEF ServerTimeout, ReceiveCommand, ReceiveEnd, NextUp
<1>2. s \in Conns /\ Sound(s) /\ s.up \in Seq(ClientFrames) /\ ServerTyped
  BY <1>1, ConnFacts
<1>3. ServerTyped' /\ UNCHANGED <<client, tasks, executed, outcome>>
  BY <1>2 DEF ServerTimeout, ReceiveCommand, ReceiveEnd, ServerTyped, callVars, serverVars
<1>4. CASE ServerTimeout(c, k)
  <2> DEFINE r == Ended(s)
  <2>1. conn' = [conn EXCEPT ![c] = [conn[c] EXCEPT ![k] = r]]
    BY <1>4 DEF ServerTimeout
  <2>2. /\ r \in Conns /\ Sound(r) /\ r.stage = "closed" /\ r.up = s.up
        /\ Answered(r.down) = Answered(s.down) /\ \A i : Reaches(r, i)
    BY <1>2, EndedFacts
  <2> HIDE DEF r
  <2> QED
    BY <1>1, <1>3, <2>1, <2>2, ConnSteps
<1>5. CASE ReceiveCommand(c, k)
  <2> DEFINE r == [Ended(s) EXCEPT !.seen = version]
  <2>1. conn' = [conn EXCEPT ![c] = [conn[c] EXCEPT ![k] = r]]
    BY <1>5 DEF ReceiveCommand
  <2>2. /\ Ended(s) \in Conns /\ Sound(Ended(s)) /\ Ended(s).stage = "closed" /\ Ended(s).up = s.up
        /\ Answered(Ended(s).down) = Answered(s.down) /\ \A i : Reaches(Ended(s), i)
    BY <1>2, EndedFacts
  <2>3. /\ r \in Conns /\ r.stage = Ended(s).stage /\ r.up = Ended(s).up /\ r.down = Ended(s).down
    BY <1>2, <2>2 DEF Conns, ServerTyped
  <2> HIDE DEF r
  <2>4. Sound(r) /\ \A i : Reaches(r, i)
    BY <2>2, <2>3 DEF Sound, Reaches
  <2> QED
    BY <1>1, <1>3, <2>1, <2>2, <2>3, <2>4, ConnSteps
<1>6. CASE ReceiveEnd(c, k)
  <2> DEFINE s1 == [s EXCEPT !.up = Tail(s.up)]
             r == Ended(s1)
  <2>1. conn' = [conn EXCEPT ![c] = [conn[c] EXCEPT ![k] = r]]
    BY <1>6 DEF ReceiveEnd, Read
  <2>2. /\ Tail(s.up) \in Seq(ClientFrames) /\ Asked(Tail(s.up)) \subseteq Asked(s.up)
        /\ Once(Tail(s.up))
    BY <1>2, <1>6, UpTail DEF ReceiveEnd, NextUp, Sound
  <2>3. s1 \in Conns /\ s1.up = Tail(s.up) /\ s1.down = s.down /\ s1.stage = s.stage
    BY <1>2, <2>2 DEF Conns
  <2> HIDE DEF s1
  <2>4. Sound(s1)
    BY <1>2, <2>2, <2>3 DEF Sound
  <2>5. /\ r \in Conns /\ Sound(r) /\ r.stage = "closed" /\ r.up = s1.up
        /\ Answered(r.down) = Answered(s1.down) /\ \A i : Reaches(r, i)
    BY <2>3, <2>4, EndedFacts
  <2> HIDE DEF r
  <2> QED
    BY <1>1, <1>3, <2>1, <2>2, <2>3, <2>5, ConnSteps
<1> QED
  BY <1>4, <1>5, <1>6

(* The network cuts what is on its way, in both directions. *)
LEMMA BreakKeeps ==
    ASSUME IInv, NEW c \in Clients, NEW k \in ConnIds, Break(c, k) PROVE IInv'
<1> DEFINE s == conn[c][k]
<1>1. k <= Len(conn[c])
  BY DEF Break
<1>2. PICK n \in 0..Len(s.up), m \in 0..Len(s.down) :
        conn' = [conn EXCEPT ![c][k].up = Cut(@, n), ![c][k].down = Cut(@, m)]
  BY DEF Break
<1> DEFINE r == [s EXCEPT !.up = Cut(s.up, n), !.down = Cut(s.down, m)]
<1>3. /\ s \in Conns /\ Sound(s) /\ s.up \in Seq(ClientFrames) /\ s.down \in Seq(ServerFrames)
      /\ conn \in [Clients -> Seq(Conns)] /\ conn[c] \in Seq(Conns) /\ k \in 1..Len(conn[c])
      /\ ServerTyped
  BY <1>1, ConnFacts
<1>4. conn' = [conn EXCEPT ![c] = [conn[c] EXCEPT ![k] = r]]
  BY <1>2, <1>3
<1> HIDE DEF s
<1>5. /\ Cut(s.up, n) \in Seq(ClientFrames) /\ Asked(Cut(s.up, n)) \subseteq Asked(s.up)
      /\ Once(Cut(s.up, n))
  BY <1>3, UpCut DEF Sound
<1>6. /\ Cut(s.down, m) \in Seq(ServerFrames) /\ Answered(Cut(s.down, m)) \subseteq Answered(s.down)
      /\ Has(Cut(s.down, m), "close") /\ (Has(Cut(s.down, m), "ready") => Has(s.down, "ready"))
  BY <1>3, DownCut
<1>7. r \in Conns /\ r.up = Cut(s.up, n) /\ r.down = Cut(s.down, m) /\ r.stage = s.stage
  BY <1>3, <1>5, <1>6 DEF Conns
<1> HIDE DEF r
<1>8. Sound(r) /\ \A i : Reaches(r, i)
  BY <1>3, <1>5, <1>6, <1>7 DEF Sound, Reaches
<1>9. ServerTyped' /\ UNCHANGED <<client, tasks, executed, outcome>>
  BY <1>3 DEF Break, ServerTyped, callVars, serverVars
<1> QED
  BY <1>1, <1>4, <1>5, <1>6, <1>7, <1>8, <1>9, ConnSteps DEF s

(* The connection a browser reads a frame on, afterwards. *)
Heard(c) == [Current(c) EXCEPT !.down = Tail(Current(c).down)]

LEMMA DownRead ==
    ASSUME IInv, NEW c \in Clients, NEW type, Incoming(c, type)
    PROVE  /\ client[c].socket \in 1..Len(conn[c]) /\ client[c].socket \in ConnIds
           /\ Current(c) \in Conns /\ Sound(Current(c)) /\ Heard(c) \in Conns
           /\ Heard(c).up = Current(c).up /\ Heard(c).stage = Current(c).stage
           /\ Head(Current(c).down) \in ServerFrames /\ Head(Current(c).down).type = type
           /\ Answered(Heard(c).down) \subseteq Answered(Current(c).down)
           /\ \A i \in CallIds : Head(Current(c).down) = Result(i) => i \in Answered(Current(c).down)
           /\ Has(Current(c).down, type)
           /\ type # "close" => Sound(Heard(c))
           /\ type # "close" => \A i \in CallIds : Reaches(Current(c), i) =>
                                   Reaches(Heard(c), i) \/ Head(Current(c).down) = Result(i)
           /\ type \notin {"close", "result"} =>
                \A i \in CallIds : Reaches(Current(c), i) => Reaches(Heard(c), i)
<1> DEFINE k == client[c].socket
           s == Current(c)
           r == [s EXCEPT !.down = Tail(s.down)]
<1>1. k # 0 /\ s.down # <<>> /\ Head(s.down).type = type
  BY DEF Incoming
<1>2. k \in 1..Len(conn[c]) /\ k \in ConnIds
  <2>1. k \in ConnIds /\ k <= Len(conn[c]) /\ Len(conn[c]) \in Nat
    BY <1>1, ClientFacts DEF BrowserStates, Whole, Connected
  <2> QED
    BY <2>1 DEF ConnIds
<1>3. s = conn[c][k]
  BY DEF Current
<1> HIDE DEF k, s
<1>4. s \in Conns /\ Sound(s) /\ s.down \in Seq(ServerFrames)
  BY <1>2, <1>3, ConnFacts, ClientFacts
<1>5. /\ Head(s.down) \in ServerFrames /\ Tail(s.down) \in Seq(ServerFrames)
      /\ Answered(Tail(s.down)) \subseteq Answered(s.down)
      /\ \A i \in Answered(s.down) : Head(s.down) = Result(i) \/ i \in Answered(Tail(s.down))
      /\ \A i \in CallIds : Head(s.down) = Result(i) => i \in Answered(s.down)
      /\ Has(s.down, Head(s.down).type)
      /\ \A x : Has(Tail(s.down), x) => Has(s.down, x)
      /\ \A x : Has(s.down, x) => Head(s.down).type = x \/ Has(Tail(s.down), x)
  BY <1>1, <1>4, DownTail
<1>6. r \in Conns /\ r.up = s.up /\ r.stage = s.stage /\ r.down = Tail(s.down)
  BY <1>4, <1>5 DEF Conns
<1> HIDE DEF r
<1>7. type # "close" => Sound(r)
  BY <1>1, <1>4, <1>5, <1>6 DEF Sound
<1>8. ASSUME type # "close", NEW i \in CallIds, Reaches(s, i)
      PROVE  Reaches(r, i) \/ Head(s.down) = Result(i)
  BY <1>1, <1>5, <1>6, <1>8 DEF Reaches
<1>9. \A i \in CallIds : Head(s.down) = Result(i) => type = "result"
  BY <1>1, ServerFrameFacts
<1> QED
  BY <1>1, <1>2, <1>4, <1>5, <1>6, <1>7, <1>8, <1>9 DEF k, s, r, Heard

(* The browser is challenged, and answers the challenge. *)
LEMMA ReceiveChallengeKeeps ==
    ASSUME IInv, NEW c \in Clients, ReceiveChallenge(c) PROVE IInv'
<1> DEFINE k == client[c].socket
           s == Current(c)
           s1 == Heard(c)
           r == [s EXCEPT !.down = Tail(s.down), !.negotiating = client[c].token]
<1>1. Incoming(c, "challenge")
  BY DEF ReceiveChallenge
<1>2. /\ k \in 1..Len(conn[c]) /\ k \in ConnIds
      /\ s \in Conns /\ Sound(s) /\ s1 \in Conns /\ s1.up = s.up /\ s1.stage = s.stage
      /\ Answered(s1.down) \subseteq Answered(s.down) /\ Sound(s1)
      /\ \A i \in CallIds : Reaches(s, i) => Reaches(s1, i)
  BY <1>1, DownRead
<1>3. /\ conn \in [Clients -> Seq(Conns)] /\ conn[c] \in Seq(Conns)
      /\ client[c] \in BrowserStates /\ ServerTyped /\ Len(conn[c]) \in Nat
  BY ClientFacts
<1>4. s = conn[c][k] /\ k <= Len(conn[c])
  BY <1>2, <1>3 DEF Current
<1>5. conn' = [conn EXCEPT ![c] = [conn[c] EXCEPT ![k] = r]]
  BY <1>2, <1>3, <1>4 DEF ReceiveChallenge, Consume
<1>6. r = [s1 EXCEPT !.negotiating = client[c].token]
  BY <1>2 DEF Heard, Conns
<1> HIDE DEF s1, s, r
<1>7. r \in Conns /\ r.up = s1.up /\ r.stage = s1.stage /\ r.down = s1.down
  BY <1>2, <1>3, <1>6 DEF Conns, BrowserStates
<1>8. Sound(r) /\ \A i \in CallIds : Reaches(s, i) => Reaches(r, i)
  BY <1>2, <1>7 DEF Sound, Reaches
<1>9. client[c].pending \subseteq CallIds
  BY <1>3 DEF BrowserStates
<1>10. ServerTyped' /\ UNCHANGED <<client, tasks, executed, outcome>>
  BY <1>3 DEF ReceiveChallenge, ServerTyped, callVars, serverVars
<1> QED
  BY <1>2, <1>4, <1>5, <1>7, <1>8, <1>9, <1>10, ConnSteps

LEMMA NegotiatedKeeps ==
    ASSUME IInv, NEW c \in Clients, NEW k \in ConnIds, Negotiated(c, k) PROVE IInv'
<1> DEFINE s == conn[c][k]
           f == Auth(s.negotiating)
           up == IF client[c].socket = k THEN Append(s.up, f) ELSE s.up
           r == [s EXCEPT !.negotiating = NoToken, !.up = up]
<1>1. k <= Len(conn[c]) /\ s.negotiating # NoToken
  BY DEF Negotiated
<1>2. /\ s \in Conns /\ Sound(s) /\ s.up \in Seq(ClientFrames) /\ k \in 1..Len(conn[c])
      /\ conn \in [Clients -> Seq(Conns)] /\ conn[c] \in Seq(Conns) /\ ServerTyped
  BY <1>1, ConnFacts
<1>3. conn' = [conn EXCEPT ![c] = [conn[c] EXCEPT ![k] = r]]
  <2>1. conn' = [conn EXCEPT ![c][k].negotiating = NoToken,
                             ![c][k].up = IF client[c].socket = k THEN Append(@, f) ELSE @]
    BY DEF Negotiated
  <2>2. CASE client[c].socket = k
    <3>1. conn' = [conn EXCEPT ![c][k].negotiating = NoToken, ![c][k].up = Append(@, f)]
      BY <2>1, <2>2
    <3> HIDE DEF f
    <3> QED
      BY <1>2, <2>2, <3>1
  <2>3. CASE client[c].socket # k
    <3>1. conn' = [conn EXCEPT ![c][k].negotiating = NoToken, ![c][k].up = @]
      BY <2>1, <2>3
    <3> HIDE DEF f
    <3> QED
      BY <1>2, <2>3, <3>1
  <2> QED
    BY <2>2, <2>3
<1> HIDE DEF s
<1>4. s.negotiating \in Tokens
  BY <1>1, <1>2 DEF Conns
<1>5. f \in ClientFrames /\ f.type # "invoke" /\ \A i \in CallIds : f # Invoke(i)
  BY <1>4, ClientFrameFacts DEF Auth
<1> HIDE DEF f
<1>6. /\ Append(s.up, f) \in Seq(ClientFrames)
      /\ Asked(Append(s.up, f)) = Asked(s.up) \cup {i \in CallIds : f = Invoke(i)}
      /\ Once(s.up) /\ (f.type = "invoke" => f.arg \notin Asked(s.up)) => Once(Append(s.up, f))
  BY <1>2, <1>5, UpAppend
<1>7. up \in Seq(ClientFrames) /\ Asked(up) = Asked(s.up) /\ Once(up)
  BY <1>2, <1>5, <1>6 DEF Sound
<1> HIDE DEF up
<1>8. r \in Conns /\ r.up = up /\ r.stage = s.stage /\ r.down = s.down
  BY <1>2, <1>7 DEF Conns
<1> HIDE DEF r
<1>9. Sound(r) /\ \A i : Reaches(s, i) => Reaches(r, i)
  BY <1>2, <1>7, <1>8 DEF Sound, Reaches
<1>10. ServerTyped' /\ UNCHANGED <<client, tasks, executed, outcome>>
  BY <1>2 DEF Negotiated, ServerTyped, callVars, serverVars
<1>11. k \in ConnIds /\ k <= Len(conn[c]) /\ Asked(r.up) = Asked(s.up)
       /\ Answered(r.down) = Answered(s.down)
  BY <1>1, <1>7, <1>8
<1> QED
  BY <1>3, <1>8, <1>9, <1>10, <1>11, ConnSteps DEF s

(* What rejecting the promises of some calls makes of the outcomes. *)
LEMMA RejectFacts ==
    ASSUME IInv, NEW c \in Clients, NEW calls
    PROVE  \E res \in [CallIds -> Outcomes] :
             /\ Reject(c, calls) = [outcome EXCEPT ![c] = res]
             /\ \A i \in CallIds : res[i] = IF i \in calls THEN "rejected" ELSE outcome[c][i]
<1> DEFINE res == [i \in CallIds |-> IF i \in calls THEN "rejected" ELSE outcome[c][i]]
<1>1. outcome[c] \in [CallIds -> Outcomes]
  BY ClientFacts
<1>2. res \in [CallIds -> Outcomes]
  BY <1>1 DEF Outcomes
<1>3. Reject(c, calls) = [outcome EXCEPT ![c] = res]
  BY DEF Reject
<1> QED
  BY <1>2, <1>3

LEMMA CloseSocketFacts ==
    ASSUME IInv, NEW c \in Clients PROVE CloseSocket(c) = Closed(client[c], conn[c])
BY DEF CloseSocket, Closed

(* The browser gives up: the user signs off, or the server has refused it. *)
LEMMA GiveUpKeeps ==
    ASSUME IInv, NEW c \in Clients, Forget(c) \/ ReceiveAuthFailed(c) \/ InsecurePage(c)
    PROVE  IInv'
<1> DEFINE p == client[c]
           q == [Dropped(p) EXCEPT !.state = "unauthorized", !.token = NoToken, !.timer = FALSE,
                                   !.queue = <<>>]
<1>1. /\ conn' = [conn EXCEPT ![c] = CloseSocket(c)]
      /\ client' = [client EXCEPT ![c] = q]
      /\ outcome' = Reject(c, p.pending \cup InQueue(p))
      /\ UNCHANGED <<tasks, executed>> /\ UNCHANGED <<serverVars, adoptions, drops>>
  BY DEF Forget, ReceiveAuthFailed, InsecurePage, GiveUp
<1>2. p \in BrowserStates /\ ServerTyped /\ Whole(p, conn[c], TasksOf(c), executed[c], outcome[c])
  BY ClientFacts
<1> HIDE DEF p
<1>3. /\ q \in BrowserStates /\ q.queue = <<>> /\ q.calls = p.calls /\ q.pending = {}
      /\ q.socket = 0
  <2>1. <<>> \in Seq(CallIds)
    OBVIOUS
  <2> QED
    BY <1>2, <2>1 DEF Dropped, BrowserStates, States, NoToken
<1> HIDE DEF q
<1>4. PICK res \in [CallIds -> Outcomes] :
        /\ outcome' = [outcome EXCEPT ![c] = res]
        /\ \A i \in CallIds :
             res[i] = IF i \in p.pending \cup InQueue(p) THEN "rejected" ELSE outcome[c][i]
  <2> DEFINE calls == p.pending \cup InQueue(p)
  <2>1. outcome' = Reject(c, calls)
    BY <1>1
  <2> HIDE DEF calls
  <2>2. \E res \in [CallIds -> Outcomes] :
          /\ Reject(c, calls) = [outcome EXCEPT ![c] = res]
          /\ \A i \in CallIds : res[i] = IF i \in calls THEN "rejected" ELSE outcome[c][i]
    BY RejectFacts
  <2> QED
    BY <2>1, <2>2 DEF calls
<1>5. Whole(q, Closed(p, conn[c]), TasksOf(c), executed[c], res)
  BY <1>2, <1>3, <1>4, AllRejected
<1>6. conn' = [conn EXCEPT ![c] = Closed(p, conn[c])]
  BY <1>1, CloseSocketFacts DEF p
<1>7. ServerTyped'
  BY <1>1, <1>2 DEF ServerTyped, serverVars
<1> QED
  BY <1>1, <1>4, <1>5, <1>6, <1>7, BrowserSteps

(* The stream has ended, or the session failed: the browser will retry. *)
LEMMA DisconnectKeeps ==
    ASSUME IInv, NEW c \in Clients, ReceiveClose(c) \/ FailSession(c) PROVE IInv'
<1> DEFINE p == client[c]
           q == [Dropped(p) EXCEPT !.state = "connecting", !.timer = TRUE]
<1>1. /\ conn' = [conn EXCEPT ![c] = CloseSocket(c)]
      /\ client' = [client EXCEPT ![c] = q]
      /\ outcome' = Reject(c, p.pending)
      /\ UNCHANGED <<tasks, executed>> /\ UNCHANGED <<serverVars, adoptions>>
      /\ drops' \in {drops, drops + 1}
  BY DEF ReceiveClose, FailSession, Disconnect, AfterDrop
<1>2. p \in BrowserStates /\ ServerTyped /\ Whole(p, conn[c], TasksOf(c), executed[c], outcome[c])
  BY ClientFacts
<1> HIDE DEF p
<1>3. /\ q \in BrowserStates /\ q.queue = p.queue /\ q.calls = p.calls /\ q.pending = {}
      /\ q.socket = 0
  BY <1>2 DEF Dropped, BrowserStates, States
<1> HIDE DEF q
<1>4. PICK res \in [CallIds -> Outcomes] :
        /\ outcome' = [outcome EXCEPT ![c] = res]
        /\ \A i \in CallIds : res[i] = IF i \in p.pending THEN "rejected" ELSE outcome[c][i]
  <2> DEFINE calls == p.pending
  <2>1. outcome' = Reject(c, calls)
    BY <1>1
  <2> HIDE DEF calls
  <2>2. \E res \in [CallIds -> Outcomes] :
          /\ Reject(c, calls) = [outcome EXCEPT ![c] = res]
          /\ \A i \in CallIds : res[i] = IF i \in calls THEN "rejected" ELSE outcome[c][i]
    BY RejectFacts
  <2> QED
    BY <2>1, <2>2 DEF calls
<1>5. Whole(q, Closed(p, conn[c]), TasksOf(c), executed[c], res)
  BY <1>2, <1>3, <1>4, ConnDropped
<1>6. conn' = [conn EXCEPT ![c] = Closed(p, conn[c])]
  BY <1>1, CloseSocketFacts DEF p
<1>7. ServerTyped'
  BY <1>1, <1>2 DEF ServerTyped, serverVars
<1> QED
  BY <1>1, <1>4, <1>5, <1>6, <1>7, BrowserSteps

(* A new socket is opened, for a token just given or for the one at hand. *)
LEMMA ConnectKeeps ==
    ASSUME IInv, NEW c \in Clients, NEW t \in Tokens \cup {NoToken},
           Connect(c, [client[c] EXCEPT !.token = t]),
           UNCHANGED <<tasks, executed>>, ServerTyped'
    PROVE  IInv'
<1> DEFINE p == client[c]
           cs == conn[c]
           q == [AfterDrop([p EXCEPT !.token = t]) EXCEPT
                   !.state = "connecting", !.timer = FALSE, !.socket = Len(cs) + 1]
<1>1. /\ Len(cs) < MaxConns
      /\ conn' = [conn EXCEPT ![c] = Append(CloseSocket(c), Challenged)]
      /\ client' = [client EXCEPT ![c] = q]
      /\ outcome' = Reject(c, p.pending)
  BY DEF Connect
<1>2. p \in BrowserStates /\ Len(cs) \in Nat /\ Whole(p, cs, TasksOf(c), executed[c], outcome[c])
  BY ClientFacts
<1>3. conn' = [conn EXCEPT ![c] = Append(Closed(p, cs), Challenged)]
  BY <1>1, CloseSocketFacts
<1> HIDE DEF p, cs
<1>4. /\ q \in BrowserStates /\ q.queue = p.queue /\ q.calls = p.calls /\ q.pending = {}
      /\ q.socket = Len(cs) + 1 /\ q.state = "connecting"
  <2>1. Len(cs) + 1 \in ConnIds
    BY <1>1, <1>2, BridgeSessionAssumption DEF ConnIds
  <2> QED
    BY <1>2, <2>1 DEF AfterDrop, Dropped, BrowserStates, States
<1> HIDE DEF q
<1>5. PICK res \in [CallIds -> Outcomes] :
        /\ outcome' = [outcome EXCEPT ![c] = res]
        /\ \A i \in CallIds : res[i] = IF i \in p.pending THEN "rejected" ELSE outcome[c][i]
  <2> DEFINE calls == p.pending
  <2>1. outcome' = Reject(c, calls)
    BY <1>1
  <2> HIDE DEF calls
  <2>2. \E res \in [CallIds -> Outcomes] :
          /\ Reject(c, calls) = [outcome EXCEPT ![c] = res]
          /\ \A i \in CallIds : res[i] = IF i \in calls THEN "rejected" ELSE outcome[c][i]
    BY RejectFacts
  <2> QED
    BY <2>1, <2>2 DEF calls
<1>6. Whole(q, Append(Closed(p, cs), Challenged), TasksOf(c), executed[c], res)
  BY <1>1, <1>2, <1>4, <1>5, ConnReplaced
<1> QED
  BY <1>1, <1>3, <1>5, <1>6, BrowserSteps

LEMMA ConnectsKeep ==
    ASSUME IInv, NEW c \in Clients, RetryTimer(c) \/ \E t \in Tokens : SetToken(c, t)
    PROVE  IInv'
<1>1. client[c] \in BrowserStates /\ ServerTyped
  BY ClientFacts
<1>2. CASE RetryTimer(c)
  <2>1. client[c] = [client[c] EXCEPT !.token = client[c].token] /\ client[c].token \in Tokens \cup {NoToken}
    BY <1>1 DEF BrowserStates
  <2>2. ServerTyped'
    BY <1>1, <1>2 DEF RetryTimer, ServerTyped, serverVars
  <2>3. Connect(c, [client[c] EXCEPT !.token = client[c].token])
    BY <1>2, <2>1 DEF RetryTimer
  <2>4. UNCHANGED <<tasks, executed>>
    BY <1>2 DEF RetryTimer
  <2> QED
    BY <2>1, <2>2, <2>3, <2>4, ConnectKeeps
<1>3. ASSUME NEW t \in Tokens, SetToken(c, t) PROVE IInv'
  <2>1. ServerTyped'
    BY <1>1, <1>3 DEF SetToken, ServerTyped, serverVars
  <2> QED
    BY <1>3, <2>1, ConnectKeeps DEF SetToken
<1> QED
  BY <1>2, <1>3

(* The browser is let in and flushes its queue. *)
LEMMA ReceiveReadyKeeps ==
    ASSUME IInv, NEW c \in Clients, ReceiveReady(c) PROVE IInv'
<1> DEFINE p == client[c]
           cs == conn[c]
           k == p.socket
           s == Current(c)
           ds == [cs EXCEPT ![k] = Heard(c)]
           up == ds[k].up \o [i \in 1..Len(p.queue) |-> Invoke(p.queue[i])]
           q == [p EXCEPT !.state = "ready", !.queue = <<>>, !.pending = p.pending \cup InQueue(p)]
           es == [ds EXCEPT ![k] = [ds[k] EXCEPT !.up = up]]
<1>1. Incoming(c, "ready")
  BY DEF ReceiveReady
<1>2. /\ k \in 1..Len(cs) /\ k \in ConnIds /\ s \in Conns /\ Sound(s) /\ Heard(c) \in Conns
      /\ Heard(c).up = s.up /\ Heard(c).stage = s.stage /\ Sound(Heard(c))
      /\ Answered(Heard(c).down) \subseteq Answered(s.down) /\ Has(s.down, "ready")
      /\ \A i \in CallIds : Reaches(s, i) => Reaches(Heard(c), i)
  BY <1>1, DownRead
<1>3. /\ p \in BrowserStates /\ cs \in Seq(Conns) /\ conn \in [Clients -> Seq(Conns)]
      /\ client \in [Clients -> BrowserStates] /\ outcome \in [Clients -> [CallIds -> Outcomes]]
      /\ ServerTyped /\ Whole(p, cs, TasksOf(c), executed[c], outcome[c])
  BY ClientFacts
<1>4. s = cs[k] /\ k # 0
  BY <1>2 DEF Current, ConnIds
<1>5. Whole(p, ds, TasksOf(c), executed[c], outcome[c])
  <2>1. \A i \in Answered(Heard(c).down) : executed[c][i] = 1
    BY <1>2, <1>3, <1>4 DEF Whole, Promised
  <2>2. p.pending \subseteq CallIds
    BY <1>3 DEF BrowserStates
  <2> HIDE DEF p, cs, k, s
  <2> QED
    BY <1>2, <1>3, <1>4, <2>1, <2>2, ConnChanges DEF k
<1>6. ds \in Seq(Conns) /\ ds[k] = Heard(c)
  BY <1>2, <1>3, ExceptSeq
<1>7. ds[k].stage \in {"open", "closed"}
  BY <1>2, <1>6 DEF Sound
<1>8. client' = [client EXCEPT ![c] = q]
  BY <1>3 DEF ReceiveReady
<1>9. conn' = [conn EXCEPT ![c] = es]
  <2>1. Consume(c) = [conn EXCEPT ![c] = ds]
    BY <1>3, <1>4 DEF Consume, Heard, Current
  <2>2. conn' = [Consume(c) EXCEPT
                   ![c][k].up = @ \o [i \in 1..Len(p.queue) |-> Invoke(p.queue[i])]]
    BY DEF ReceiveReady
  <2>3. conn' = [[conn EXCEPT ![c] = ds] EXCEPT
                   ![c][k].up = @ \o [i \in 1..Len(p.queue) |-> Invoke(p.queue[i])]]
    BY <2>1, <2>2
  <2> DEFINE a == [i \in 1..Len(p.queue) |-> Invoke(p.queue[i])]
  <2> HIDE DEF ds, a, k
  <2>4. conn' = [[conn EXCEPT ![c] = ds] EXCEPT ![c][k].up = @ \o a]
    BY <2>3 DEF a
  <2>5. conn' = [conn EXCEPT ![c] = [ds EXCEPT ![k] = [ds[k] EXCEPT !.up = ds[k].up \o a]]]
    BY <1>3, <2>4
  <2> QED
    BY <2>5 DEF a
<1> HIDE DEF ds, p
<1>10. q \in BrowserStates /\ Whole(q, es, TasksOf(c), executed[c], outcome[c])
  BY <1>4, <1>5, <1>7, Flushed
<1>11. outcome' = [outcome EXCEPT ![c] = outcome[c]]
  BY <1>3 DEF ReceiveReady, callVars
<1>12. UNCHANGED <<tasks, executed>> /\ ServerTyped'
  BY <1>3 DEF ReceiveReady, callVars, serverVars, ServerTyped
<1> HIDE DEF q, es
<1> QED
  BY <1>8, <1>9, <1>10, <1>11, <1>12, BrowserSteps

(* An answer comes in. *)
LEMMA ReceiveResultKeeps ==
    ASSUME IInv, NEW c \in Clients, ReceiveResult(c) PROVE IInv'
<1> DEFINE p == client[c]
           cs == conn[c]
           k == p.socket
           s == Current(c)
           i == Head(s.down).arg
           ex == executed[c]
           out == outcome[c]
           ds == [cs EXCEPT ![k] = Heard(c)]
           q == [p EXCEPT !.pending = p.pending \ {i}]
           res == IF i \in p.pending THEN [out EXCEPT ![i] = "resolved"] ELSE out
<1>1. Incoming(c, "result")
  BY DEF ReceiveResult
<1>2. /\ k \in 1..Len(cs) /\ k \in ConnIds /\ s \in Conns /\ Sound(s) /\ Heard(c) \in Conns
      /\ Heard(c).up = s.up /\ Heard(c).stage = s.stage /\ Sound(Heard(c))
      /\ Answered(Heard(c).down) \subseteq Answered(s.down)
      /\ Head(s.down) \in ServerFrames /\ Head(s.down).type = "result"
      /\ \A j \in CallIds : Head(s.down) = Result(j) => j \in Answered(s.down)
      /\ \A j \in CallIds : Reaches(s, j) => Reaches(Heard(c), j) \/ Head(s.down) = Result(j)
  BY <1>1, DownRead
<1>3. /\ p \in BrowserStates /\ cs \in Seq(Conns) /\ conn \in [Clients -> Seq(Conns)]
      /\ out \in [CallIds -> Outcomes]
      /\ client \in [Clients -> BrowserStates] /\ outcome \in [Clients -> [CallIds -> Outcomes]]
      /\ ServerTyped /\ Whole(p, cs, TasksOf(c), ex, out)
  BY ClientFacts
<1>4. s = cs[k] /\ k # 0
  BY <1>2 DEF Current, ConnIds
<1>5. i \in CallIds /\ Head(s.down) = Result(i)
  <2> DEFINE f == Head(s.down)
  <2>1. f \in ServerFrames /\ f.type = "result"
    BY <1>2
  <2> HIDE DEF f
  <2>2. f.arg \in CallIds /\ f = Result(f.arg)
    BY <2>1, ServerFrameFacts
  <2> QED
    BY <2>2 DEF f
<1>6. ex[i] = 1
  BY <1>2, <1>3, <1>4, <1>5 DEF Whole, Promised
<1>7. conn' = [conn EXCEPT ![c] = ds]
  BY <1>3, <1>4 DEF ReceiveResult, Consume, Heard, Current
<1>8. client' = [client EXCEPT ![c] = q]
  BY <1>3 DEF ReceiveResult
<1>9. outcome' = [outcome EXCEPT ![c] = res]
  BY <1>3 DEF ReceiveResult
<1>10. UNCHANGED <<tasks, executed>> /\ ServerTyped'
  BY <1>3 DEF ReceiveResult, callVars, serverVars, ServerTyped
<1>11. /\ q \in BrowserStates /\ q.pending = p.pending \ {i} /\ q.queue = p.queue
       /\ q.socket = p.socket /\ q.state = p.state /\ q.calls = p.calls
       /\ p.pending \subseteq CallIds
  BY <1>3 DEF BrowserStates
<1>12. /\ res \in [CallIds -> Outcomes]
       /\ \A j \in CallIds : res[j] = IF j = i /\ i \in p.pending THEN "resolved" ELSE out[j]
  BY <1>3, <1>5 DEF Outcomes
<1> HIDE DEF p, q, res, ds, i, ex, out, s
<1>13. Whole(q, cs, TasksOf(c), ex, res)
  <2>1. SettledTo(p, q, ex, out, res)
    BY <1>6, <1>11, <1>12 DEF SettledTo
  <2> QED
    BY <1>3, <2>1, PendingSettled
<1>14. \A j \in Answered(Heard(c).down) : ex[j] = 1
  BY <1>2, <1>3, <1>4 DEF Whole, Promised
<1>15. \A j \in q.pending : Reaches(cs[k], j) => Reaches(Heard(c), j)
  <2>1. \A j \in CallIds : Result(i) = Result(j) => i = j
    BY <1>5, ServerFrameFacts
  <2> QED
    BY <1>2, <1>4, <1>5, <1>11, <2>1
<1>16. Whole(q, ds, TasksOf(c), ex, res)
  <2> HIDE DEF k, cs
  <2> QED
    BY <1>2, <1>4, <1>13, <1>14, <1>15, ConnChanges DEF ds
<1> QED
  BY <1>7, <1>8, <1>9, <1>10, <1>16, BrowserSteps DEF ex

(* The page calls: the call is refused, sent or queued. *)
LEMMA InvokeCallKeeps ==
    ASSUME IInv, NEW c \in Clients, InvokeCall(c) PROVE IInv'
<1> DEFINE p == client[c]
           cs == conn[c]
           ts == TasksOf(c)
           ex == executed[c]
           out == outcome[c]
           i == p.calls + 1
<1>1. p.calls < MaxCalls /\ UNCHANGED <<tasks, executed>>
  BY DEF InvokeCall
<1>2. /\ p \in BrowserStates /\ cs \in Seq(Conns) /\ conn \in [Clients -> Seq(Conns)]
      /\ out \in [CallIds -> Outcomes] /\ Len(cs) \in Nat
      /\ client \in [Clients -> BrowserStates] /\ outcome \in [Clients -> [CallIds -> Outcomes]]
      /\ ServerTyped /\ Whole(p, cs, ts, ex, out)
  BY ClientFacts
<1>3. /\ i \in CallIds /\ i \in 0..MaxCalls /\ p.calls \in Nat /\ p.queue \in Seq(CallIds)
      /\ p.pending \subseteq CallIds /\ InQueue(p) \subseteq CallIds
  <2>1. p.calls \in 0..MaxCalls
    BY <1>2 DEF BrowserStates
  <2>2. /\ p.queue \in Seq(CallIds) /\ p.pending \subseteq CallIds /\ InQueue(p) \subseteq CallIds
    BY <1>2, QueueFacts
  <2> QED
    BY <1>1, <2>1, <2>2, BridgeSessionAssumption DEF CallIds
<1>4. ServerTyped'
  BY <1>2 DEF InvokeCall, serverVars, ServerTyped
<1>5. conn = [conn EXCEPT ![c] = cs]
  BY <1>2
<1>6. CASE /\ client' = [client EXCEPT ![c].calls = i] /\ conn' = conn
           /\ outcome' = [outcome EXCEPT ![c][i] = "rejected"]
  <2> DEFINE q == [p EXCEPT !.calls = i]
             res == [out EXCEPT ![i] = "rejected"]
  <2>1. /\ q \in BrowserStates /\ q.calls = p.calls + 1 /\ q.pending = p.pending
        /\ q.socket = p.socket /\ q.state = p.state /\ q.queue = p.queue
    BY <1>2, <1>3 DEF BrowserStates
  <2>2. client' = [client EXCEPT ![c] = q] /\ outcome' = [outcome EXCEPT ![c] = res]
    BY <1>2, <1>6, <2>1
  <2>3. NotSentBy(p, out, q, res)
    BY <1>2, <1>3, <2>1 DEF NotSentBy, Outcomes
  <2> HIDE DEF q, res, p, cs, ts, ex, out
  <2>4. Whole(q, cs, ts, ex, res)
    BY <1>1, <1>2, <2>3, CallNotSent
  <2>5. conn' = [conn EXCEPT ![c] = cs]
    BY <1>5, <1>6
  <2> QED
    BY <1>1, <1>4, <2>2, <2>4, <2>5, BrowserSteps DEF ts, ex
<1>7. CASE /\ client' = [client EXCEPT ![c].calls = i, ![c].queue = Append(@, i)] /\ conn' = conn
           /\ outcome' = [outcome EXCEPT ![c][i] = "waiting"]
  <2> DEFINE queue == Append(p.queue, i)
             q == [p EXCEPT !.calls = i, !.queue = queue]
             res == [out EXCEPT ![i] = "waiting"]
  <2>1. queue \in Seq(CallIds)
    BY <1>3, AppendProperties
  <2>2. /\ q \in BrowserStates /\ q.calls = p.calls + 1 /\ q.pending = p.pending
        /\ q.socket = p.socket /\ q.state = p.state /\ q.queue = Append(p.queue, q.calls)
    <3> HIDE DEF queue
    <3>1. /\ q \in BrowserStates /\ q.calls = p.calls + 1 /\ q.pending = p.pending
          /\ q.socket = p.socket /\ q.state = p.state /\ q.queue = queue
      BY <1>2, <1>3, <2>1 DEF BrowserStates
    <3> QED
      BY <3>1 DEF queue
  <2>3. client' = [client EXCEPT ![c] = q] /\ outcome' = [outcome EXCEPT ![c] = res]
    BY <1>2, <1>7, <2>2
  <2> HIDE DEF q
  <2>4. NotSentBy(p, out, q, res)
    BY <1>2, <1>3, <2>2 DEF NotSentBy, Outcomes
  <2> HIDE DEF res, p, cs, ts, ex, out
  <2>5. Whole(q, cs, ts, ex, res)
    BY <1>1, <1>2, <2>4, CallNotSent
  <2>6. conn' = [conn EXCEPT ![c] = cs]
    BY <1>5, <1>7
  <2> QED
    BY <1>1, <1>4, <2>3, <2>5, <2>6, BrowserSteps DEF ts, ex
<1>8. CASE /\ p.state = "ready" /\ p.socket # 0
           /\ client' = [client EXCEPT ![c].calls = i, ![c].pending = @ \cup {i}]
           /\ conn' = [conn EXCEPT ![c][p.socket].up = Append(@, Invoke(i))]
           /\ outcome' = [outcome EXCEPT ![c][i] = "waiting"]
  <2> DEFINE k == p.socket
             f == Invoke(i)
             up == Append(cs[k].up, f)
             q == [p EXCEPT !.calls = i, !.pending = p.pending \cup {i}]
             res == [out EXCEPT ![i] = "waiting"]
             ds == [cs EXCEPT ![k] = [cs[k] EXCEPT !.up = up]]
  <2>1. k \in 1..Len(cs) /\ cs[k].stage \in {"open", "closed"}
    BY <1>2, <1>8 DEF Whole, Connected, BrowserStates, ConnIds
  <2>2. cs[k].up \in Seq(ClientFrames) /\ Once(cs[k].up)
    <3>1. cs[k] \in Conns
      BY <1>2, <2>1, ElementOfSeq
    <3> QED
      BY <1>2, <2>1, <3>1 DEF Conns, Whole, Connected, Sound
  <2>3. /\ i \notin InQueue(p) /\ Unsent(cs, ts, ex, i) /\ Distinct(p.queue)
    BY <1>2, <1>3 DEF Whole, Placed
  <2>4. f \in ClientFrames /\ f.arg = i /\ f = Invoke(i) /\ \A j \in CallIds : f = Invoke(j) <=> j = i
    BY <1>3, ClientFrameFacts DEF Invoke
  <2>5. client' = [client EXCEPT ![c] = q] /\ outcome' = [outcome EXCEPT ![c] = res]
    BY <1>2, <1>8
  <2>6. conn' = [conn EXCEPT ![c] = ds]
    <3> HIDE DEF f
    <3> QED
      BY <1>2, <1>8, <2>1 DEF f
  <2> HIDE DEF f
  <2>7. up \in Seq(ClientFrames) /\ Once(up) /\ Asked(up) = Asked(cs[k].up) \cup {i}
    <3>1. /\ up \in Seq(ClientFrames) /\ Asked(up) = Asked(cs[k].up) \cup {j \in CallIds : f = Invoke(j)}
          /\ Once(cs[k].up) /\ (f.type = "invoke" => f.arg \notin Asked(cs[k].up)) => Once(up)
      BY <2>2, <2>4, UpAppend
    <3>2. i \notin Asked(cs[k].up)
      BY <2>1, <2>3 DEF Unsent
    <3>3. {j \in CallIds : f = Invoke(j)} = {i}
      BY <1>3, <2>4
    <3> QED
      BY <2>2, <2>4, <3>1, <3>2, <3>3
  <2>8. /\ q \in BrowserStates /\ q.calls = i /\ q.pending = p.pending \cup {i}
        /\ q.socket = p.socket /\ q.state = "ready" /\ q.queue = p.queue
    BY <1>2, <1>3, <1>8 DEF BrowserStates
  <2>9. InQueue(q) = InQueue(p) \ {i} /\ Distinct(q.queue) /\ p.calls <= q.calls /\ i <= q.calls
    <3>1. InQueue(q) = InQueue(p)
      BY <1>2, <2>8, QueueFacts
    <3> QED
      BY <1>3, <2>3, <2>8, <3>1
  <2>10. /\ res \in [CallIds -> Outcomes]
         /\ \A j \in CallIds : res[j] = IF j = i THEN "waiting" ELSE out[j]
    BY <1>2, <1>3 DEF Outcomes
  <2> DEFINE N == {i}
  <2>11. /\ N \in SUBSET CallIds /\ \A j \in N : Unsent(cs, ts, ex, j) /\ j <= q.calls
         /\ Asked(up) = Asked(cs[k].up) \cup N /\ InQueue(q) = InQueue(p) \ N
         /\ q.pending = p.pending \cup N
         /\ \A j \in CallIds : res[j] = IF j \in N THEN "waiting" ELSE out[j]
    BY <1>3, <2>3, <2>7, <2>8, <2>9, <2>10
  <2> HIDE DEF N, q, res, up, p, cs, ts, ex, out, i
  <2>12. SentBy(p, cs, ts, ex, out, N, up, q, res)
    BY <1>2, <1>8, <2>1, <2>7, <2>8, <2>9, <2>10, <2>11 DEF SentBy
  <2>13. Whole(q, ds, ts, ex, res)
    BY <1>2, <2>12, CallsSent
  <2> HIDE DEF ds
  <2> QED
    BY <1>1, <1>4, <2>5, <2>6, <2>13, BrowserSteps DEF ts, ex
<1> QED
  BY <1>6, <1>7, <1>8 DEF InvokeCall

(* The server accepts a call. *)
LEMMA ReceiveInvokeKeeps ==
    ASSUME IInv, NEW c \in Clients, NEW k \in ConnIds, ReceiveInvoke(c, k) PROVE IInv'
<1> DEFINE p == client[c]
           cs == conn[c]
           ts == TasksOf(c)
           ex == executed[c]
           out == outcome[c]
           s == cs[k]
           f == Head(s.up)
           t == [client |-> c, conn |-> k, call |-> f.arg]
           ds == [cs EXCEPT ![k] = [cs[k] EXCEPT !.up = Tail(cs[k].up)]]
<1>1. /\ k <= Len(cs) /\ s.up # <<>> /\ f.type = "invoke" /\ s.stage = "open"
      /\ UNCHANGED <<client, executed, outcome>> /\ tasks' = tasks \cup {t}
      /\ conn' = [conn EXCEPT ![c] = ds]
  <2>1. conn' = [conn EXCEPT ![c][k] = [s EXCEPT !.up = Tail(s.up)]]
    BY DEF ReceiveInvoke, Read
  <2>2. conn' = [conn EXCEPT ![c] = ds]
    BY <2>1
  <2> QED
    BY <2>2 DEF ReceiveInvoke, NextUp
<1>2. /\ s \in Conns /\ Sound(s) /\ s.up \in Seq(ClientFrames) /\ k \in 1..Len(cs) /\ ServerTyped
  BY <1>1, ConnFacts
<1>3. /\ client \in [Clients -> BrowserStates] /\ executed \in [Clients -> [CallIds -> Nat]]
      /\ outcome \in [Clients -> [CallIds -> Outcomes]] /\ tasks \subseteq Tasks
      /\ Whole(p, cs, ts, ex, out)
  BY ClientFacts
<1>4. f \in ClientFrames
  BY <1>1, <1>2, HeadTailProperties
<1>5. f.arg \in CallIds /\ f = Invoke(f.arg)
  <2> HIDE DEF f
  <2> QED
    BY <1>1, <1>4, ClientFrameFacts
<1> DEFINE i == f.arg
<1>6. i \in CallIds /\ Head(cs[k].up) = Invoke(i) /\ t \in Tasks /\ t.conn = k /\ t.call = i /\ t.client = c
  BY <1>5 DEF Tasks
<1> HIDE DEF i, t
<1>7. Whole(p, ds, ts \cup {t}, ex, out)
  <2> HIDE DEF p, cs, ts, ex, out
  <2> QED
    BY <1>1, <1>2, <1>3, <1>6, TaskStarts DEF s
<1>8. /\ TasksOf(c)' = ts \cup {t} /\ tasks' \subseteq Tasks
      /\ \A d \in Clients \ {c} : TasksOf(d)' = TasksOf(d)
  BY <1>1, <1>3, <1>6 DEF TasksOf
<1>9. client' = [client EXCEPT ![c] = p]
  BY <1>1, <1>3
<1>10. executed' = [executed EXCEPT ![c] = ex]
  BY <1>1, <1>3
<1>11. outcome' = [outcome EXCEPT ![c] = out]
  BY <1>1, <1>3
<1>12. ServerTyped'
  BY <1>2 DEF ReceiveInvoke, serverVars, ServerTyped
<1>13. conn' = [conn EXCEPT ![c] = ds] /\ Whole(p, ds, TasksOf(c)', ex, out)
  BY <1>1, <1>7, <1>8
<1> HIDE DEF p, cs, ts, ex, out, ds
<1> QED
  BY <1>8, <1>9, <1>10, <1>11, <1>12, <1>13, OneBrowser

(* A call runs. *)
LEMMA RunTaskKeeps ==
    ASSUME IInv, NEW t \in tasks, RunTask(t) PROVE IInv'
<1> DEFINE c == t.client
           k == t.conn
           p == client[c]
           cs == conn[c]
           ts == TasksOf(c)
           ex == executed[c]
           out == outcome[c]
           ds == IF cs[k].stage = "open"
                 THEN [cs EXCEPT ![k] = [cs[k] EXCEPT !.down = Append(cs[k].down, Result(t.call))]]
                 ELSE cs
           fx == [ex EXCEPT ![t.call] = ex[t.call] + 1]
<1>1. tasks \subseteq Tasks
  BY DEF IInv, TypeOK, Tasks
<1>2. t \in Tasks /\ c \in Clients /\ t \in ts
  BY <1>1 DEF Tasks, TasksOf
<1>3. /\ client \in [Clients -> BrowserStates] /\ executed \in [Clients -> [CallIds -> Nat]]
      /\ conn \in [Clients -> Seq(Conns)] /\ cs \in Seq(Conns)
      /\ outcome \in [Clients -> [CallIds -> Outcomes]] /\ ServerTyped
      /\ Whole(p, cs, ts, ex, out)
  BY <1>2, ClientFacts
<1>4. k \in 1..Len(cs) /\ Whole(p, ds, ts \ {t}, fx, out)
  <2> HIDE DEF p, cs, ts, ex, out
  <2> QED
    BY <1>2, <1>3, TaskEnds
<1>5. conn' = [conn EXCEPT ![c] = ds]
  <2> DEFINE f == Result(t.call)
  <2> HIDE DEF f
  <2>1. CASE cs[k].stage = "open"
    <3>1. conn' = [conn EXCEPT ![c][k].down = Append(@, f)]
      BY <2>1 DEF RunTask, f
    <3>2. conn' = [conn EXCEPT ![c] = [cs EXCEPT ![k] = [cs[k] EXCEPT !.down = Append(cs[k].down, f)]]]
      BY <1>3, <1>4, <3>1
    <3> QED
      BY <2>1, <3>2 DEF f
  <2>2. CASE cs[k].stage # "open"
    <3>1. conn' = conn
      BY <2>2 DEF RunTask
    <3> QED
      BY <1>3, <2>2, <3>1
  <2> QED
    BY <2>1, <2>2
<1>6. executed' = [executed EXCEPT ![c] = fx]
  BY <1>3 DEF RunTask
<1>7. UNCHANGED <<client, outcome>> /\ tasks' = tasks \ {t} /\ ServerTyped'
  BY <1>3 DEF RunTask, serverVars, ServerTyped
<1>8. client' = [client EXCEPT ![c] = p]
  BY <1>2, <1>3, <1>7
<1>9. outcome' = [outcome EXCEPT ![c] = out]
  BY <1>2, <1>3, <1>7
<1>10. /\ TasksOf(c)' = ts \ {t} /\ tasks' \subseteq Tasks
       /\ \A d \in Clients \ {c} : TasksOf(d)' = TasksOf(d)
  BY <1>1, <1>2, <1>7 DEF TasksOf
<1>11. Whole(p, ds, TasksOf(c)', fx, out)
  BY <1>4, <1>10
<1> HIDE DEF p, cs, ts, ex, out, ds, fx, c
<1> QED
  BY <1>2, <1>5, <1>6, <1>7, <1>8, <1>9, <1>10, <1>11, OneBrowser

(* What the steps of the rotation and of the failure window leave alone. *)
LEMMA BrowsersStay ==
    ASSUME IInv, UNCHANGED <<client, conn, tasks, executed, outcome>>, ServerTyped'
    PROVE  IInv'
<1>1. TypeOK'
  BY DEF IInv, TypeOK, ServerTyped
<1>2. ASSUME NEW c \in Clients PROVE WholeClient(c)'
  <2>1. WholeClient(c)
    BY DEF IInv
  <2>2. TasksOf(c)' = TasksOf(c)
    BY DEF TasksOf
  <2> QED
    BY <2>1, <2>2 DEF WholeClient
<1> QED
  BY <1>1, <1>2 DEF IInv

LEMMA RotationKeeps ==
    ASSUME IInv, RotateWrite \/ RotateReset \/ RotateTell \/ WindowPasses PROVE IInv'
<1>1. ServerTyped
  BY DEF IInv, TypeOK, ServerTyped
<1>2. UNCHANGED <<client, conn, tasks, executed, outcome>>
  BY DEF RotateWrite, RotateReset, RotateTell, WindowPasses, callVars
<1>3. CASE RotateWrite
  <2>1. token + 1 \in Tokens
    BY <1>1, <1>3, BridgeSessionAssumption DEF RotateWrite, ServerTyped, Tokens
  <2>2. ServerTyped'
    BY <1>1, <1>3, <2>1 DEF RotateWrite, ServerTyped
  <2> QED
    BY <1>2, <2>2, BrowsersStay
<1>4. CASE RotateReset
  <2>1. ServerTyped'
    BY <1>1, <1>4 DEF RotateReset, ServerTyped
  <2> QED
    BY <1>2, <2>1, BrowsersStay
<1>5. CASE RotateTell
  <2>1. ServerTyped'
    BY <1>1, <1>5 DEF RotateTell, ServerTyped
  <2> QED
    BY <1>2, <2>1, BrowsersStay
<1>6. CASE WindowPasses
  <2>1. ServerTyped'
    BY <1>1, <1>6 DEF WindowPasses, ServerTyped
  <2> QED
    BY <1>2, <2>1, BrowsersStay
<1> QED
  BY <1>3, <1>4, <1>5, <1>6

-----------------------------------------------------------------------------
(* Theorems. *)

LEMMA InitInv == Init => IInv
<1> SUFFICES ASSUME Init PROVE IInv
  OBVIOUS
<1>1. /\ NoBrowser \in BrowserStates /\ NoBrowser.queue = <<>> /\ NoBrowser.pending = {}
      /\ NoBrowser.socket = 0 /\ NoBrowser.calls = 0
  <2>1. <<>> \in Seq(CallIds)
    OBVIOUS
  <2>2. 0 \in 0..MaxCalls
    BY BridgeSessionAssumption
  <2> QED
    BY <2>1, <2>2 DEF NoBrowser, BrowserStates, States, NoToken
<1>2. TypeOK
  <2>1. <<>> \in Seq(Conns)
    OBVIOUS
  <2>2. 1 \in Tokens
    BY BridgeSessionAssumption DEF Tokens
  <2> QED
    BY <1>1, <2>1, <2>2 DEF Init, TypeOK
<1>3. ASSUME NEW c \in Clients PROVE WholeClient(c)
  <2> DEFINE ex == [i \in CallIds |-> 0]
             out == [i \in CallIds |-> "none"]
  <2>1. /\ client[c] = NoBrowser /\ conn[c] = <<>> /\ TasksOf(c) = {}
        /\ executed[c] = ex /\ outcome[c] = out
    BY DEF Init, TasksOf
  <2>2. InQueue(NoBrowser) = {} /\ Len(<<>>) = 0
    BY <1>1 DEF InQueue
  <2>3. /\ ex \in [CallIds -> Nat] /\ out \in [CallIds -> Outcomes]
        /\ \A i \in CallIds : ex[i] = 0 /\ out[i] = "none"
    BY DEF Outcomes
  <2> HIDE DEF ex, out
  <2>4. Typed(NoBrowser, <<>>, {}, ex, out)
    BY <1>1, <2>3 DEF Typed
  <2>5. Connected(NoBrowser, <<>>, {})
    BY <1>1, <2>2, BridgeSessionAssumption DEF Connected
  <2>6. Placed(NoBrowser, <<>>, {}, ex)
    BY <1>1, <2>2, <2>3 DEF Placed, Unsent, Distinct
  <2>7. Promised(NoBrowser, <<>>, {}, ex, out)
    BY <1>1, <2>2, <2>3 DEF Promised
  <2> QED
    BY <2>1, <2>4, <2>5, <2>6, <2>7 DEF WholeClient, Whole
<1> QED
  BY <1>2, <1>3 DEF IInv

LEMMA StepInv == IInv /\ [Next]_vars => IInv'
<1> SUFFICES ASSUME IInv, [Next]_vars PROVE IInv'
  OBVIOUS
<1>1. CASE Browser
  <2>1. PICK c \in Clients :
          \/ ReceiveChallenge(c) \/ InsecurePage(c) \/ ReceiveReady(c) \/ ReceiveAuthFailed(c)
          \/ ReceiveResult(c) \/ ReceiveClose(c) \/ RetryTimer(c)
          \/ \E k \in ConnIds : Negotiated(c, k)
    BY <1>1 DEF Browser
  <2> QED
    BY <2>1, ReceiveChallengeKeeps, ReceiveReadyKeeps, GiveUpKeeps, ReceiveResultKeeps,
       DisconnectKeeps, ConnectsKeep, NegotiatedKeeps
<1>2. CASE Server
  <2>1. CASE \E c \in Clients, k \in ConnIds :
               \/ CheckAuth(c, k) \/ Verdict(c, k) \/ ReceiveInvoke(c, k)
               \/ ReceiveCommand(c, k) \/ ReceiveEnd(c, k)
    BY <2>1, CheckAuthKeeps, VerdictKeeps, ReceiveInvokeKeeps, EndingsKeep
  <2>2. CASE \E t \in tasks : RunTask(t)
    BY <2>2, RunTaskKeeps
  <2>3. CASE RotateReset \/ RotateTell
    BY <2>3, RotationKeeps
  <2> QED
    BY <1>2, <2>1, <2>2, <2>3 DEF Server
<1>3. CASE Environment
  <2>1. CASE \E c \in Clients : \/ Forget(c) \/ InvokeCall(c) \/ FailSession(c)
                             \/ \E t \in Tokens : SetToken(c, t)
    BY <2>1, GiveUpKeeps, InvokeCallKeeps, DisconnectKeeps, ConnectsKeep
  <2>2. CASE \E c \in Clients, k \in ConnIds : ServerTimeout(c, k) \/ Break(c, k)
    BY <2>2, EndingsKeep, BreakKeeps
  <2>3. CASE RotateWrite \/ WindowPasses
    BY <2>3, RotationKeeps
  <2> QED
    BY <1>3, <2>1, <2>2, <2>3 DEF Environment
<1>4. CASE UNCHANGED vars
  <2>1. ServerTyped'
    BY <1>4 DEF vars, IInv, TypeOK, ServerTyped
  <2>2. UNCHANGED <<client, conn, tasks, executed, outcome>>
    BY <1>4 DEF vars
  <2> QED
    BY <2>1, <2>2, BrowsersStay
<1> QED
  BY <1>1, <1>2, <1>3, <1>4 DEF Next

(* Every state of the bridge is typed, and of every browser it is true that   *)
(* its connections are sound, each of its calls is in one place, and each     *)
(* promise is kept: the invariant the theorems below rest on.                 *)
THEOREM Invariant == Spec => []IInv
<1>1. IInv /\ [][Next]_vars => []IInv
  BY StepInv, PTL
<1> QED
  BY InitInv, <1>1, PTL DEF Spec

(* Whatever the browsers, the server and the network do, the variables of the *)
(* bridge keep their types: no frame is read that was never written.          *)
THEOREM Types == Spec => []TypeOK
<1>1. IInv => TypeOK
  BY DEF IInv
<1> QED
  BY Invariant, <1>1, PTL

(* A call runs at most once, whatever is lost and retried: rejectPending does *)
(* not send again what it gives up, and flushQueue sends only what was never  *)
(* sent.  A call that was answered did run, one still queued did not.         *)
THEOREM AtMostOnce == Spec => []RunsAtMostOnce
<1>1. IInv => RunsAtMostOnce
  <2> SUFFICES ASSUME IInv, NEW c \in Clients, NEW i \in CallIds
               PROVE  /\ executed[c][i] <= 1
                      /\ outcome[c][i] = "resolved" => executed[c][i] = 1
                      /\ i \in InQueue(client[c]) => executed[c][i] = 0
    BY DEF RunsAtMostOnce
  <2>1. Whole(client[c], conn[c], TasksOf(c), executed[c], outcome[c])
    BY ClientFacts
  <2> QED
    BY <2>1 DEF Whole, Placed, Promised, Unsent
<1> QED
  BY Invariant, <1>1, PTL

(* Every promise a browser was handed is in one place, queued or waiting on   *)
(* the socket in use or settled, and for one that waits the frame of its call *)
(* or its task or its answer is there, or the end of that connection.         *)
THEOREM EveryCallAccounted == Spec => []CallsAccounted
<1>1. IInv => CallsAccounted
  <2> SUFFICES ASSUME IInv, NEW c \in Clients
               PROVE  LET p == client[c] IN
                      /\ InQueue(p) \cap p.pending = {}
                      /\ \A i \in CallIds : outcome[c][i] = "waiting" <=> i \in InQueue(p) \cup p.pending
                      /\ p.pending # {} => p.state = "ready" /\ p.socket # 0
                      /\ \A i \in p.pending : AnswerOnItsWay(c, i)
    BY DEF CallsAccounted
  <2> DEFINE p == client[c]
             cs == conn[c]
  <2>1. /\ Whole(p, cs, TasksOf(c), executed[c], outcome[c]) /\ p \in BrowserStates
        /\ tasks \subseteq Tasks
    BY ClientFacts
  <2>2. /\ InQueue(p) \cap p.pending = {}
        /\ \A i \in CallIds : outcome[c][i] = "waiting" <=> i \in InQueue(p) \cup p.pending
        /\ p.pending # {} => p.state = "ready" /\ p.socket # 0
    BY <2>1 DEF Whole, Promised
  <2>3. ASSUME NEW i \in p.pending PROVE AnswerOnItsWay(c, i)
    <3>1. \/ Reaches(Current(c), i)
          \/ \E t \in TasksOf(c) : t.conn = p.socket /\ t.call = i
      BY <2>1 DEF Whole, Promised, Current
    <3>2. CASE Reaches(Current(c), i)
      BY <3>2 DEF Reaches, Asked, Answered, AnswerOnItsWay
    <3>3. CASE \E t \in TasksOf(c) : t.conn = p.socket /\ t.call = i
      <4>1. PICK t \in tasks : t.client = c /\ t.conn = p.socket /\ t.call = i
        BY <3>3 DEF TasksOf
      <4>2. t = [client |-> c, conn |-> client[c].socket, call |-> i]
        BY <2>1, <4>1 DEF Tasks
      <4> QED
        BY <4>2 DEF AnswerOnItsWay
    <3> QED
      BY <3>1, <3>2, <3>3
  <2> QED
    BY <2>2, <2>3
<1> QED
  BY Invariant, <1>1, PTL
=============================================================================
