-------------------------- MODULE BoardStoreProofs --------------------------
(***************************************************************************)
(* What the bookkeeping of the task boards guarantees for any number of    *)
(* clients, workspaces, tasks, changes and upsets: a workspace is pending  *)
(* as long as an operation of it is queued, what counts as saved is what   *)
(* the client knows the database to have, and boards on which no changes   *)
(* of two clients met agree with the database once everyone has heard.     *)
(***************************************************************************)
EXTENDS BoardStore, FiniteSetTheorems, SequenceTheorems, TLAPS

-----------------------------------------------------------------------------
(* Sets put into a sequence, and the batch of persist.                      *)

LEMMA Ordered ==
    ASSUME NEW S, IsFiniteSet(S)
    PROVE  /\ Cardinality(S) \in Nat
           /\ SetToSeq(S) \in [1 .. Cardinality(S) -> S]
           /\ \A i, j \in 1 .. Cardinality(S) : SetToSeq(S)[i] = SetToSeq(S)[j] => i = j
           /\ \A w \in S : \E i \in 1 .. Cardinality(S) : SetToSeq(S)[i] = w
<1> DEFINE n == Cardinality(S)
<1> DEFINE f == SetToSeq(S)
<1>1. n \in Nat /\ ExistsBijection(1 .. n, S)
  BY FS_CardinalityType
<1>2. PICK g \in [1 .. n -> S] : IsInjective(g)
  BY <1>1 DEF ExistsBijection, Bijection, Injection
<1>3. f \in [1 .. n -> S] /\ IsInjective(f)
  BY <1>2 DEF SetToSeq
<1>4. f \in Injection(1 .. n, S)
  BY <1>3 DEF Injection
<1> HIDE DEF f
<1>5. Cardinality(1 .. n) = n
  BY <1>1, FS_Interval
<1>6. f \in Surjection(1 .. n, S)
  BY <1>4, <1>5, FS_Injection
<1> QED
  BY <1>1, <1>3, <1>6 DEF IsInjective, Surjection, f

(* The first n places of s hold every element of S once.                    *)
Lists(s, n, S) ==
    /\ \A i \in 1 .. n : s[i] \in S
    /\ \A i, j \in 1 .. n : s[i] = s[j] => i = j
    /\ \A w \in S : \E i \in 1 .. n : s[i] = w

(* One set after another one with nothing in common.                        *)
LEMMA Joined ==
    ASSUME NEW S, NEW T, IsFiniteSet(S), IsFiniteSet(T), S \cap T = {},
           NEW n \in Nat, n = Cardinality(S \cup T),
           NEW f, f = SetToSeq(S), NEW g, g = SetToSeq(T), NEW s, s = f \o g
    PROVE  Lists(s, n, S \cup T)
<1> DEFINE m == Cardinality(S)
<1> DEFINE k == Cardinality(T)
<1>3. /\ m \in Nat /\ f \in [1 .. m -> S]
      /\ \A i, j \in 1 .. m : f[i] = f[j] => i = j
      /\ \A w \in S : \E i \in 1 .. m : f[i] = w
  BY Ordered
<1>4. /\ k \in Nat /\ g \in [1 .. k -> T]
      /\ \A i, j \in 1 .. k : g[i] = g[j] => i = j
      /\ \A w \in T : \E i \in 1 .. k : g[i] = w
  BY Ordered
<1>5. n = m + k
  <2>1. Cardinality(S \cup T) = Cardinality(S) + Cardinality(T) - Cardinality(S \cap T)
    BY FS_Union
  <2>2. Cardinality(S \cap T) = 0
    BY FS_EmptySet
  <2> QED
    BY <2>1, <2>2, <1>3, <1>4
<1> HIDE DEF m, k
<1>6. f \in Seq(S) /\ Len(f) = m /\ g \in Seq(T) /\ Len(g) = k
  BY <1>3, <1>4
<1>8. \A i \in 1 .. n : s[i] = IF i <= m THEN f[i] ELSE g[i - m]
  <2>1. f \in Seq(S \cup T) /\ g \in Seq(S \cup T)
    BY <1>6, SeqMonotonic
  <2>2. \A i \in 1 .. Len(f) + Len(g) : (f \o g)[i] = IF i <= Len(f) THEN f[i] ELSE g[i - Len(f)]
    BY <2>1, ConcatProperties
  <2> QED
    BY <1>5, <1>6, <2>2
<1>9. ASSUME NEW i \in 1 .. n
      PROVE  /\ i <= m => s[i] = f[i] /\ f[i] \in S /\ i \in 1 .. m
             /\ i > m => s[i] = g[i - m] /\ g[i - m] \in T /\ i - m \in 1 .. k
  <2>1. i <= m => i \in 1 .. m
    BY <1>3, <1>4, <1>5
  <2>2. i > m => i - m \in 1 .. k
    BY <1>3, <1>4, <1>5
  <2>3. i <= m => f[i] \in S
    BY <2>1, <1>3
  <2>4. i > m => g[i - m] \in T
    BY <2>2, <1>4
  <2>5. i > m => s[i] = g[i - m]
    <3>1. i \in Nat /\ m \in Nat
      BY <1>3, <1>4, <1>5
    <3>2. i > m => ~(i <= m)
      BY <3>1
    <3> QED
      BY <1>8, <3>2
  <2> QED
    BY <1>8, <2>1, <2>2, <2>3, <2>4, <2>5
<1>11. ASSUME NEW i \in 1 .. n
       PROVE  s[i] \in S \cup T
  <2>1. i <= m \/ i > m
    BY <1>3
  <2> QED
    BY <1>9, <2>1
<1>12. ASSUME NEW i \in 1 .. n, NEW j \in 1 .. n, s[i] = s[j]
       PROVE  i = j
  <2>1. CASE i <= m /\ j <= m
    BY <2>1, <1>9, <1>12, <1>3
  <2>2. CASE i > m /\ j > m
    <3>2. s[i] = g[i - m] /\ i - m \in 1 .. k
      BY <2>2, <1>9
    <3>3. s[j] = g[j - m] /\ j - m \in 1 .. k
      BY <2>2, <1>9
    <3>1. i - m = j - m
      BY <3>2, <3>3, <1>12, <1>4
    <3> QED
      BY <3>1, <1>3
  <2>3. CASE i <= m /\ j > m
    <3>1. s[i] \in S /\ s[j] \in T
      BY <2>3, <1>9
    <3> QED
      BY <3>1, <1>12
  <2>4. CASE i > m /\ j <= m
    <3>1. s[j] \in S /\ s[i] \in T
      BY <2>4, <1>9
    <3> QED
      BY <3>1, <1>12
  <2>5. i \in Nat /\ j \in Nat /\ m \in Nat
    BY <1>3, <1>4, <1>5
  <2> QED
    BY <2>1, <2>2, <2>3, <2>4, <2>5
<1>13. ASSUME NEW w \in S \cup T
       PROVE  \E i \in 1 .. n : s[i] = w
  <2>1. CASE w \in S
    <3>1. PICK i \in 1 .. m : f[i] = w
      BY <2>1, <1>3
    <3>2. i \in 1 .. n /\ i <= m
      BY <1>3, <1>4, <1>5
    <3>3. s[i] = f[i]
      BY <3>2, <1>9
    <3> QED
      BY <3>1, <3>2, <3>3
  <2>2. CASE w \in T
    <3>1. PICK i \in 1 .. k : g[i] = w
      BY <2>2, <1>4
    <3>2. PICK j : j = i + m
      OBVIOUS
    <3>3. j \in 1 .. n /\ j > m /\ j - m = i
      BY <3>2, <1>3, <1>4, <1>5
    <3>4. s[j] = g[i]
      BY <1>9, <3>3
    <3> QED
      BY <3>1, <3>3, <3>4
  <2> QED
    BY <2>1, <2>2
<1> QED
  BY <1>11, <1>12, <1>13 DEF Lists

(* An operation of w is among those of a batch; no workspace is there twice. *)
Has(b, w) == \E j \in DOMAIN b : b[j].w = w
Distinct(b) == \A i, j \in DOMAIN b : b[i].w = b[j].w => i = j

(* A batch saves, once each, the boards that differ from what was queued.   *)
LEMMA BatchSaves ==
    ASSUME NEW c, NEW items \in [Workspaces -> Snapshots], IsFiniteSet(Workspaces),
           NEW b, b = Batch(c, items)
    PROVE  /\ b \in Seq(Ops) /\ Distinct(b)
           /\ \A w \in Workspaces : Has(b, w) <=> items[w] # queued[c][w]
           /\ \A j \in DOMAIN b : b[j].snap = items[b[j].w]
<1> DEFINE S == {w \in Workspaces : items[w] # None /\ queued[c][w] # items[w]}
<1> DEFINE T == {w \in Workspaces : items[w] = None /\ queued[c][w] # None}
<1>1. PICK n : n = Cardinality(S \cup T)
  OBVIOUS
<1>13. PICK f : f = SetToSeq(S)
  OBVIOUS
<1>14. PICK g : g = SetToSeq(T)
  OBVIOUS
<1>2. PICK s : s = f \o g
  OBVIOUS
<1>3. b = [i \in 1 .. n |-> [w |-> s[i], snap |-> items[s[i]]]]
  BY <1>1, <1>2, <1>13, <1>14 DEF Batch
<1>4. IsFiniteSet(S) /\ IsFiniteSet(T)
  <2>1. S \in SUBSET Workspaces /\ T \in SUBSET Workspaces
    OBVIOUS
  <2> QED
    BY <2>1, FS_Subset
<1>5. /\ S \cap T = {} /\ S \cup T \subseteq Workspaces
      /\ \A w \in Workspaces : w \in S \cup T <=> items[w] # queued[c][w]
  <2>1. S \cap T = {} /\ S \cup T \subseteq Workspaces
    OBVIOUS
  <2>2. ASSUME NEW w \in Workspaces
        PROVE  w \in S \cup T <=> items[w] # queued[c][w]
    OBVIOUS
  <2> QED
    BY <2>1, <2>2
<1> HIDE DEF S, T
<1>6. /\ n \in Nat
      /\ \A i \in 1 .. n : s[i] \in S \cup T
      /\ \A i, j \in 1 .. n : s[i] = s[j] => i = j
      /\ \A w \in S \cup T : \E i \in 1 .. n : s[i] = w
  <2>1. S \cap T = {}
    BY <1>5
  <2>2. n \in Nat
    <3>1. IsFiniteSet(S \cup T)
      BY <1>4, FS_Union
    <3> QED
      BY <1>1, <3>1, FS_CardinalityType
  <2> QED
    <3>1. Lists(s, n, S \cup T)
      BY <1>1, <1>2, <1>13, <1>14, <1>4, <2>1, <2>2, Joined
    <3> QED
      BY <2>2, <3>1 DEF Lists
<1>7. DOMAIN b = 1 .. n
  BY <1>3
<1>8. ASSUME NEW i \in 1 .. n
      PROVE  b[i] \in Ops /\ b[i].w = s[i] /\ b[i].snap = items[s[i]]
  <2>1. s[i] \in Workspaces /\ items[s[i]] \in Snapshots
    BY <1>5, <1>6
  <2>2. PICK o : o = [w |-> s[i], snap |-> items[s[i]]]
    OBVIOUS
  <2>3. o \in Ops /\ o.w = s[i] /\ o.snap = items[s[i]]
    BY <2>1, <2>2 DEF Ops
  <2> QED
    BY <1>3, <2>2, <2>3
<1>9. b \in [1 .. n -> Ops]
  BY <1>3, <1>7, <1>8
<1>10. b \in Seq(Ops)
  BY <1>6, <1>9
<1>11. Distinct(b)
  BY <1>6, <1>7, <1>8 DEF Distinct
<1>12. \A w \in Workspaces : Has(b, w) <=> items[w] # queued[c][w]
  <2>1. TAKE w \in Workspaces
  <2>2. Has(b, w) => w \in S \cup T
    BY <1>6, <1>7, <1>8 DEF Has
  <2>3. w \in S \cup T => Has(b, w)
    BY <1>6, <1>7, <1>8 DEF Has
  <2> QED
    BY <1>5, <2>2, <2>3
<1> QED
  BY <1>7, <1>8, <1>10, <1>11, <1>12

-----------------------------------------------------------------------------
(* Queues of batches: which of them have an operation of w, and what the    *)
(* last one of them leaves of w.                                            *)

Batches(q, w) == {i \in DOMAIN q : Has(q[i], w)}
LastSave(q, w, s) ==
    \E i \in Batches(q, w) : /\ \E j \in DOMAIN q[i] : q[i][j].w = w /\ q[i][j].snap = s
                             /\ \A n \in Batches(q, w) : n <= i
LastEvent(e, w, s) ==
    \E i \in DOMAIN e : /\ e[i].w = w /\ e[i].snap = s
                        /\ \A n \in DOMAIN e : e[n].w = w => n <= i

LEMMA BatchesFinite ==
    ASSUME NEW q \in Seq(Seq(Ops)), NEW w
    PROVE  /\ Batches(q, w) \subseteq 1 .. Len(q) /\ IsFiniteSet(Batches(q, w))
           /\ Cardinality(Batches(q, w)) \in Nat
           /\ Cardinality(Batches(q, w)) = 0 <=> Batches(q, w) = {}
<1>1. Batches(q, w) \in SUBSET (1 .. Len(q))
  BY DEF Batches
<1>2. IsFiniteSet(1 .. Len(q))
  BY FS_Interval
<1>3. IsFiniteSet(Batches(q, w))
  BY <1>1, <1>2, FS_Subset
<1> QED
  BY <1>1, <1>3, FS_CardinalityType, FS_EmptySet

(* A batch put behind the others.                                           *)
Extended(q, b, r) ==
    /\ r \in Seq(Seq(Ops)) /\ Len(r) = Len(q) + 1 /\ r[Len(q) + 1] = b
    /\ \A i \in 1 .. Len(q) : r[i] = q[i]
    /\ DOMAIN q = 1 .. Len(q) /\ DOMAIN r = 1 .. Len(r) /\ Len(q) \in Nat

LEMMA IsExtended ==
    ASSUME NEW q \in Seq(Seq(Ops)), NEW b \in Seq(Ops), NEW r, r = Append(q, b)
    PROVE  Extended(q, b, r)
<1>1. /\ r \in Seq(Seq(Ops)) /\ Len(r) = Len(q) + 1 /\ r[Len(q) + 1] = b
      /\ \A i \in 1 .. Len(q) : r[i] = q[i]
  BY AppendProperties
<1>2. DOMAIN q = 1 .. Len(q) /\ DOMAIN r = 1 .. Len(r) /\ Len(q) \in Nat
  BY <1>1, LenProperties
<1> QED
  BY <1>1, <1>2 DEF Extended

LEMMA AppendedCounted ==
    ASSUME NEW q \in Seq(Seq(Ops)), NEW b \in Seq(Ops), NEW r, Extended(q, b, r), NEW w
    PROVE  /\ Has(b, w) => Cardinality(Batches(r, w)) = Cardinality(Batches(q, w)) + 1
           /\ ~Has(b, w) => Cardinality(Batches(r, w)) = Cardinality(Batches(q, w))
<1>1. /\ r \in Seq(Seq(Ops)) /\ Len(r) = Len(q) + 1 /\ r[Len(q) + 1] = b
      /\ \A i \in 1 .. Len(q) : r[i] = q[i]
      /\ DOMAIN q = 1 .. Len(q) /\ DOMAIN r = 1 .. Len(r) /\ Len(q) \in Nat
  BY DEF Extended
<1>2. /\ Batches(q, w) \subseteq 1 .. Len(q) /\ IsFiniteSet(Batches(q, w))
      /\ Cardinality(Batches(q, w)) \in Nat
  BY BatchesFinite
<1>3. PICK l : l = Len(q) + 1
  OBVIOUS
<1>4. l \notin Batches(q, w)
  BY <1>1, <1>2, <1>3
<1>5. CASE Has(b, w)
  <2>1. Batches(r, w) = Batches(q, w) \cup {l}
    BY <1>1, <1>3, <1>5 DEF Batches
  <2>2. Cardinality(Batches(q, w) \cup {l}) = Cardinality(Batches(q, w)) + 1
    BY <1>2, <1>4, FS_AddElement
  <2> QED
    BY <1>5, <2>1, <2>2
<1>6. CASE ~Has(b, w)
  <2>1. Batches(r, w) = Batches(q, w)
    BY <1>1, <1>3, <1>6 DEF Batches
  <2> QED
    BY <1>6, <2>1
<1> QED
  BY <1>5, <1>6

LEMMA AppendedLast ==
    ASSUME NEW q \in Seq(Seq(Ops)), NEW b \in Seq(Ops),
           NEW r, Extended(q, b, r), NEW w, NEW s, LastSave(r, w, s)
    PROVE  /\ Has(b, w) => \E j \in DOMAIN b : b[j].w = w /\ b[j].snap = s
           /\ ~Has(b, w) => LastSave(q, w, s)
<1>1. /\ r \in Seq(Seq(Ops)) /\ Len(r) = Len(q) + 1 /\ r[Len(q) + 1] = b
      /\ \A i \in 1 .. Len(q) : r[i] = q[i]
      /\ DOMAIN q = 1 .. Len(q) /\ DOMAIN r = 1 .. Len(r) /\ Len(q) \in Nat
  BY DEF Extended
<1>2. PICK i \in Batches(r, w) : /\ \E j \in DOMAIN r[i] : r[i][j].w = w /\ r[i][j].snap = s
                                 /\ \A n \in Batches(r, w) : n <= i
  BY DEF LastSave
<1>3. CASE Has(b, w)
  <2>1. Len(q) + 1 \in Batches(r, w)
    BY <1>1, <1>3 DEF Batches
  <2>2. i = Len(q) + 1
    <3>1. Len(q) + 1 <= i
      BY <1>2, <2>1
    <3> QED
      BY <1>1, <3>1 DEF Batches
  <2> QED
    BY <1>1, <1>2, <1>3, <2>2
<1>4. CASE ~Has(b, w)
  <2>1. i \in Batches(q, w) /\ r[i] = q[i]
    BY <1>1, <1>4 DEF Batches
  <2>2. \A n \in Batches(q, w) : n \in Batches(r, w)
    BY <1>1 DEF Batches
  <2> QED
    BY <1>2, <1>4, <2>1, <2>2 DEF LastSave
<1> QED
  BY <1>3, <1>4

(* The first batch taken off.                                               *)
LEMMA BatchGone ==
    ASSUME NEW q \in Seq(Seq(Ops)), q # <<>>, NEW r, r = Tail(q)
    PROVE  /\ r \in Seq(Seq(Ops)) /\ Len(r) = Len(q) - 1
           /\ \A i \in 1 .. Len(r) : r[i] = q[i + 1]
           /\ DOMAIN q = 1 .. Len(q) /\ DOMAIN r = 1 .. Len(r)
           /\ Len(q) \in Nat /\ Len(r) \in Nat /\ 1 \in DOMAIN q /\ q[1] \in Seq(Ops)
<1>1. Len(q) \in Nat /\ Len(q) # 0 /\ DOMAIN q = 1 .. Len(q)
  BY EmptySeq, LenProperties
<1>2. r \in Seq(Seq(Ops)) /\ Len(r) = Len(q) - 1 /\ \A i \in 1 .. Len(r) : r[i] = q[i + 1]
  BY HeadTailProperties
<1>3. DOMAIN r = 1 .. Len(r)
  BY <1>2, LenProperties
<1>4. 1 \in 1 .. Len(q)
  BY <1>1
<1>5. q[1] \in Seq(Ops)
  BY <1>4, ElementOfSeq
<1> QED
  BY <1>1, <1>2, <1>3, <1>4, <1>5

LEMMA GoneCounted ==
    ASSUME NEW q \in Seq(Seq(Ops)), q # <<>>, NEW r, r = Tail(q), NEW w
    PROVE  /\ Has(q[1], w) => Cardinality(Batches(r, w)) = Cardinality(Batches(q, w)) - 1
           /\ ~Has(q[1], w) => Cardinality(Batches(r, w)) = Cardinality(Batches(q, w))
<1> DEFINE A == Batches(r, w)
<1> DEFINE B == Batches(q, w) \ {1}
<1>1. /\ r \in Seq(Seq(Ops)) /\ Len(r) = Len(q) - 1
      /\ \A i \in 1 .. Len(r) : r[i] = q[i + 1]
      /\ DOMAIN q = 1 .. Len(q) /\ DOMAIN r = 1 .. Len(r)
      /\ Len(q) \in Nat /\ Len(r) \in Nat /\ 1 \in DOMAIN q
  BY BatchGone
<1>2. IsFiniteSet(A) /\ IsFiniteSet(Batches(q, w)) /\ Cardinality(Batches(q, w)) \in Nat
  BY <1>1, BatchesFinite
<1>3. A \subseteq 1 .. Len(r) /\ B \subseteq 2 .. Len(q)
  BY <1>1 DEF Batches
<1>4. \A i \in 1 .. Len(r) : i \in A <=> i + 1 \in B
  BY <1>1 DEF Batches
<1>5. 1 \in Batches(q, w) <=> Has(q[1], w)
  BY <1>1 DEF Batches
<1> HIDE DEF A
<1>6. PICK f : f = [i \in A |-> i + 1]
  OBVIOUS
<1>7. f \in Bijection(A, B)
  <2>1. f \in [A -> B]
    BY <1>3, <1>4, <1>6
  <2>2. \A i, j \in A : f[i] = f[j] => i = j
    BY <1>1, <1>3, <1>6
  <2>3. ASSUME NEW j \in B
        PROVE  \E i \in A : f[i] = j
    <3>1. j - 1 \in 1 .. Len(r) /\ (j - 1) + 1 = j
      BY <1>1, <1>3
    <3>2. j - 1 \in A
      BY <1>4, <3>1
    <3> QED
      BY <1>6, <3>1, <3>2
  <2>4. DOMAIN f = A
    BY <1>6
  <2> QED
    BY <2>1, <2>2, <2>3, <2>4 DEF Bijection, Injection, Surjection, IsInjective
<1>8. ExistsBijection(A, B)
  BY <1>7 DEF ExistsBijection
<1>9. Cardinality(B) = Cardinality(A)
  BY <1>2, <1>8, FS_Bijection
<1>10. /\ 1 \in Batches(q, w) => Cardinality(B) = Cardinality(Batches(q, w)) - 1
       /\ 1 \notin Batches(q, w) => Cardinality(B) = Cardinality(Batches(q, w))
  BY <1>2, FS_RemoveElement
<1> QED
  BY <1>5, <1>9, <1>10 DEF A

LEMMA GoneLast ==
    ASSUME NEW q \in Seq(Seq(Ops)), q # <<>>, NEW r, r = Tail(q), NEW w
    PROVE  /\ \A s : LastSave(r, w, s) => LastSave(q, w, s)
           /\ Batches(r, w) = {} => \A j \in DOMAIN q[1] :
                q[1][j].w = w => LastSave(q, w, q[1][j].snap)
<1>1. /\ r \in Seq(Seq(Ops)) /\ Len(r) = Len(q) - 1
      /\ \A i \in 1 .. Len(r) : r[i] = q[i + 1]
      /\ DOMAIN q = 1 .. Len(q) /\ DOMAIN r = 1 .. Len(r)
      /\ Len(q) \in Nat /\ Len(r) \in Nat /\ 1 \in DOMAIN q
  BY BatchGone
<1>2. ASSUME NEW n \in Batches(q, w), n # 1
      PROVE  n - 1 \in Batches(r, w) /\ n \in Nat
  <2>1. n \in 1 .. Len(q) /\ n \in Nat
    BY <1>1 DEF Batches
  <2>2. n - 1 \in 1 .. Len(r) /\ (n - 1) + 1 = n
    BY <1>1, <1>2, <2>1
  <2>3. r[n - 1] = q[n]
    BY <1>1, <2>2
  <2> QED
    BY <1>1, <2>1, <2>2, <2>3 DEF Batches
<1>3. ASSUME NEW s, LastSave(r, w, s)
      PROVE  LastSave(q, w, s)
  <2>1. PICK i \in Batches(r, w) : /\ \E j \in DOMAIN r[i] : r[i][j].w = w /\ r[i][j].snap = s
                                   /\ \A n \in Batches(r, w) : n <= i
    BY <1>3 DEF LastSave
  <2>2. i \in 1 .. Len(r) /\ i \in Nat
    BY <1>1 DEF Batches
  <2>3. PICK m : m = i + 1
    OBVIOUS
  <2>4. m \in 1 .. Len(q) /\ q[m] = r[i]
    BY <1>1, <2>2, <2>3
  <2>5. m \in Batches(q, w)
    BY <1>1, <2>1, <2>4 DEF Batches, Has
  <2>6. ASSUME NEW n \in Batches(q, w)
        PROVE  n <= m
    <3>1. CASE n = 1
      BY <2>2, <2>3, <3>1
    <3>2. CASE n # 1
      <4>1. n - 1 <= i /\ n \in Nat
        BY <1>2, <2>1, <3>2
      <4> QED
        BY <2>2, <2>3, <4>1
    <3> QED
      BY <3>1, <3>2
  <2> QED
    BY <2>1, <2>4, <2>5, <2>6 DEF LastSave
<1>4. ASSUME Batches(r, w) = {}, NEW j \in DOMAIN q[1], q[1][j].w = w
      PROVE  LastSave(q, w, q[1][j].snap)
  <2>1. 1 \in Batches(q, w)
    BY <1>1, <1>4 DEF Batches, Has
  <2>2. \A n \in Batches(q, w) : n <= 1
    BY <1>2, <1>4
  <2> QED
    BY <1>4, <2>1, <2>2 DEF LastSave
<1> QED
  BY <1>3, <1>4

LEMMA Concatenated ==
    ASSUME NEW S, NEW u \in Seq(S), NEW t \in Seq(S), NEW r, r = u \o t
    PROVE  /\ r \in Seq(S) /\ Len(r) = Len(u) + Len(t)
           /\ \A i \in 1 .. Len(u) + Len(t) : i <= Len(u) => r[i] = u[i]
           /\ \A i \in 1 .. Len(u) + Len(t) : i > Len(u) => r[i] = t[i - Len(u)]
<1>1. /\ u \o t \in Seq(S) /\ Len(u \o t) = Len(u) + Len(t)
      /\ \A i \in 1 .. Len(u) + Len(t) :
            (u \o t)[i] = IF i <= Len(u) THEN u[i] ELSE t[i - Len(u)]
  BY ConcatProperties
<1>2. Len(u) \in Nat
  OBVIOUS
<1> QED
  BY <1>1, <1>2

(* The first operation taken off a batch that has more.                     *)
Shortened(q, r) ==
    /\ r \in Seq(Seq(Ops)) /\ Len(r) = Len(q)
    /\ \A i \in 2 .. Len(q) : r[i] = q[i]
    /\ DOMAIN q = 1 .. Len(q) /\ DOMAIN r = 1 .. Len(q) /\ Len(q) \in Nat /\ 1 \in DOMAIN q
    /\ q[1] \in Seq(Ops) /\ r[1] \in Seq(Ops)
    /\ DOMAIN r[1] = 1 .. Len(r[1]) /\ DOMAIN q[1] = 1 .. Len(q[1])
    /\ Len(r[1]) \in Nat /\ Len(q[1]) \in Nat /\ Len(r[1]) + 1 = Len(q[1])
    /\ \A j \in 1 .. Len(r[1]) : r[1][j] = q[1][j + 1]

LEMMA FirstReplaced ==
    ASSUME NEW S, NEW q \in Seq(S), q # <<>>, NEW b \in S,
           NEW r, r = <<b>> \o Tail(q)
    PROVE  /\ r \in Seq(S) /\ Len(r) = Len(q) /\ r[1] = b
           /\ \A i \in 2 .. Len(q) : r[i] = q[i]
           /\ DOMAIN q = 1 .. Len(q) /\ DOMAIN r = 1 .. Len(q) /\ Len(q) \in Nat /\ Len(q) # 0
<1>1. Len(q) \in Nat /\ Len(q) # 0 /\ DOMAIN q = 1 .. Len(q)
  BY EmptySeq, LenProperties
<1>2. PICK t : t = Tail(q)
  OBVIOUS
<1>3. t \in Seq(S) /\ Len(t) = Len(q) - 1 /\ \A i \in 1 .. Len(t) : t[i] = q[i + 1]
  BY <1>2, HeadTailProperties
<1>4. PICK u : u = <<b>>
  OBVIOUS
<1>5. u \in Seq(S) /\ Len(u) = 1 /\ u[1] = b
  BY <1>4
<1>6. r = u \o t
  BY <1>2, <1>4
<1>7. /\ r \in Seq(S) /\ Len(r) = Len(u) + Len(t)
      /\ \A i \in 1 .. Len(u) + Len(t) : i <= Len(u) => r[i] = u[i]
      /\ \A i \in 1 .. Len(u) + Len(t) : i > Len(u) => r[i] = t[i - Len(u)]
  BY <1>3, <1>5, <1>6, Concatenated
<1>8. Len(r) = Len(q) /\ r[1] = b
  BY <1>1, <1>3, <1>5, <1>7
<1>9. ASSUME NEW i \in 2 .. Len(q)
      PROVE  r[i] = q[i]
  <2>1. /\ i \in 1 .. Len(u) + Len(t) /\ i > Len(u)
        /\ i - 1 \in 1 .. Len(t) /\ (i - 1) + 1 = i /\ i - Len(u) = i - 1
    BY <1>1, <1>3, <1>5
  <2>2. r[i] = t[i - 1]
    BY <1>7, <2>1
  <2>3. t[i - 1] = q[(i - 1) + 1]
    BY <1>3, <2>1
  <2> QED
    BY <2>1, <2>2, <2>3
<1>10. DOMAIN r = 1 .. Len(q)
  BY <1>7, <1>8, LenProperties
<1> QED
  BY <1>1, <1>7, <1>8, <1>9, <1>10

LEMMA IsShortened ==
    ASSUME NEW q \in Seq(Seq(Ops)), q # <<>>, q[1] # <<>>,
           NEW r, r = <<Tail(Head(q))>> \o Tail(q)
    PROVE  Shortened(q, r)
<1>1. PICK h : h = q[1]
  OBVIOUS
<1>2. 1 \in 1 .. Len(q)
  BY EmptySeq, LenProperties
<1>3. h \in Seq(Ops) /\ h # <<>> /\ Head(q) = h
  BY <1>1, <1>2, ElementOfSeq
<1>4. PICK b : b = Tail(h)
  OBVIOUS
<1>5. /\ b \in Seq(Ops) /\ Len(b) = Len(h) - 1 /\ \A j \in 1 .. Len(b) : b[j] = h[j + 1]
  BY <1>3, <1>4, HeadTailProperties
<1>6. Len(h) \in Nat /\ DOMAIN h = 1 .. Len(h) /\ Len(b) \in Nat /\ DOMAIN b = 1 .. Len(b)
  BY <1>3, <1>5, LenProperties
<1>7. r = <<b>> \o Tail(q)
  BY <1>3, <1>4
<1>8. /\ r \in Seq(Seq(Ops)) /\ Len(r) = Len(q) /\ r[1] = b
      /\ \A i \in 2 .. Len(q) : r[i] = q[i]
      /\ DOMAIN q = 1 .. Len(q) /\ DOMAIN r = 1 .. Len(q) /\ Len(q) \in Nat /\ Len(q) # 0
  BY <1>5, <1>7, FirstReplaced
<1>9. Len(b) + 1 = Len(h)
  BY <1>5, <1>6
<1> QED
  BY <1>1, <1>2, <1>3, <1>5, <1>6, <1>8, <1>9 DEF Shortened

(* What is left is as it was, but for the operation that is gone.           *)
LEMMA OpGone ==
    ASSUME NEW q, NEW r, Shortened(q, r), Distinct(q[1])
    PROVE  /\ 1 \in DOMAIN q[1] /\ Distinct(r[1])
           /\ ~Has(r[1], q[1][1].w) /\ Has(q[1], q[1][1].w)
           /\ \A w : w # q[1][1].w => (Has(r[1], w) <=> Has(q[1], w))
           /\ \A j \in DOMAIN r[1] : r[1][j] \in {q[1][n] : n \in DOMAIN q[1]}
<1>1. PICK h : h = q[1]
  OBVIOUS
<1>2. PICK b : b = r[1]
  OBVIOUS
<1>3. /\ DOMAIN b = 1 .. Len(b) /\ DOMAIN h = 1 .. Len(h)
      /\ Len(b) \in Nat /\ Len(h) \in Nat /\ Len(b) + 1 = Len(h)
      /\ \A j \in 1 .. Len(b) : b[j] = h[j + 1]
  BY <1>1, <1>2 DEF Shortened
<1>4. \A x, y \in DOMAIN h : h[x].w = h[y].w => x = y
  BY <1>1 DEF Distinct
<1>5. 1 \in DOMAIN h
  BY <1>3
<1>6. \A j \in DOMAIN b : j + 1 \in DOMAIN h /\ b[j] = h[j + 1] /\ j + 1 # 1 /\ j \in Nat
  BY <1>3
<1>7. ASSUME NEW j \in DOMAIN h, j # 1
      PROVE  j - 1 \in DOMAIN b /\ b[j - 1] = h[j]
  <2>1. j - 1 \in 1 .. Len(b) /\ (j - 1) + 1 = j
    BY <1>3, <1>7
  <2>2. b[j - 1] = h[(j - 1) + 1]
    BY <1>3, <2>1
  <2> QED
    BY <1>3, <2>1, <2>2
<1>8. ASSUME NEW i \in DOMAIN b, NEW j \in DOMAIN b, b[i].w = b[j].w
      PROVE  i = j
  <2>1. h[i + 1].w = h[j + 1].w /\ i + 1 \in DOMAIN h /\ j + 1 \in DOMAIN h
    BY <1>6, <1>8
  <2>2. i + 1 = j + 1
    BY <1>4, <2>1
  <2> QED
    BY <1>6, <2>2
<1>9. ~Has(b, h[1].w)
  BY <1>4, <1>5, <1>6 DEF Has
<1>10. Has(h, h[1].w)
  BY <1>5 DEF Has
<1>11. ASSUME NEW w, w # h[1].w
       PROVE  Has(b, w) <=> Has(h, w)
  <2>1. Has(b, w) => Has(h, w)
    BY <1>6 DEF Has
  <2>2. Has(h, w) => Has(b, w)
    BY <1>7, <1>11 DEF Has
  <2> QED
    BY <2>1, <2>2
<1>12. Distinct(b)
  BY <1>8 DEF Distinct
<1>13. \A j \in DOMAIN b : b[j] \in {h[n] : n \in DOMAIN h}
  BY <1>6
<1> QED
  BY <1>1, <1>2, <1>5, <1>9, <1>10, <1>11, <1>12, <1>13

LEMMA ShortenedCounted ==
    ASSUME NEW q \in Seq(Seq(Ops)), NEW r, Shortened(q, r), Distinct(q[1]), NEW w
    PROVE  /\ w = q[1][1].w => Cardinality(Batches(r, w)) = Cardinality(Batches(q, w)) - 1
           /\ w # q[1][1].w => Cardinality(Batches(r, w)) = Cardinality(Batches(q, w))
<1>1. /\ DOMAIN q = 1 .. Len(q) /\ DOMAIN r = 1 .. Len(q) /\ Len(q) \in Nat /\ 1 \in DOMAIN q
      /\ \A i \in 2 .. Len(q) : r[i] = q[i]
  BY DEF Shortened
<1>2. /\ ~Has(r[1], q[1][1].w) /\ Has(q[1], q[1][1].w)
      /\ \A v : v # q[1][1].w => (Has(r[1], v) <=> Has(q[1], v))
  BY OpGone
<1>3. ASSUME NEW i \in DOMAIN q, i # 1
      PROVE  r[i] = q[i]
  <2>1. i \in 2 .. Len(q)
    BY <1>1, <1>3
  <2> QED
    BY <1>1, <2>1
<1>4. IsFiniteSet(Batches(q, w)) /\ Cardinality(Batches(q, w)) \in Nat
  BY BatchesFinite
<1>5. CASE w = q[1][1].w
  <2>1. 1 \in Batches(q, w)
    BY <1>1, <1>2, <1>5 DEF Batches
  <2>2. Batches(r, w) = Batches(q, w) \ {1}
    BY <1>1, <1>2, <1>3, <1>5 DEF Batches
  <2>3. Cardinality(Batches(q, w) \ {1}) = Cardinality(Batches(q, w)) - 1
    BY <1>4, <2>1, FS_RemoveElement
  <2> QED
    BY <1>5, <2>2, <2>3
<1>6. CASE w # q[1][1].w
  <2>1. Batches(r, w) = Batches(q, w)
    BY <1>1, <1>2, <1>3, <1>6 DEF Batches
  <2> QED
    BY <1>6, <2>1
<1> QED
  BY <1>5, <1>6

LEMMA ShortenedLast ==
    ASSUME NEW q \in Seq(Seq(Ops)), NEW r, Shortened(q, r), Distinct(q[1]), NEW w
    PROVE  /\ \A s : LastSave(r, w, s) => LastSave(q, w, s)
           /\ w = q[1][1].w /\ Batches(r, w) = {} => LastSave(q, w, q[1][1].snap)
<1>1. /\ DOMAIN q = 1 .. Len(q) /\ DOMAIN r = 1 .. Len(q) /\ Len(q) \in Nat /\ 1 \in DOMAIN q
      /\ \A i \in 2 .. Len(q) : r[i] = q[i]
  BY DEF Shortened
<1>2. /\ 1 \in DOMAIN q[1] /\ ~Has(r[1], q[1][1].w) /\ Has(q[1], q[1][1].w)
      /\ \A v : v # q[1][1].w => (Has(r[1], v) <=> Has(q[1], v))
      /\ \A j \in DOMAIN r[1] : r[1][j] \in {q[1][n] : n \in DOMAIN q[1]}
  BY OpGone
<1>3. ASSUME NEW i \in DOMAIN q, i # 1
      PROVE  r[i] = q[i]
  <2>1. i \in 2 .. Len(q)
    BY <1>1, <1>3
  <2> QED
    BY <1>1, <2>1
<1>4. \A n \in Batches(q, w) : n \in Batches(r, w) \/ n = 1
  BY <1>1, <1>3 DEF Batches
<1>5. ASSUME NEW s, LastSave(r, w, s)
      PROVE  LastSave(q, w, s)
  <2>1. PICK i \in Batches(r, w) : /\ \E j \in DOMAIN r[i] : r[i][j].w = w /\ r[i][j].snap = s
                                   /\ \A n \in Batches(r, w) : n <= i
    BY <1>5 DEF LastSave
  <2>2. i \in 1 .. Len(q)
    BY <1>1 DEF Batches
  <2>3. \E j \in DOMAIN q[i] : q[i][j].w = w /\ q[i][j].snap = s
    <3>1. CASE i = 1
      BY <1>2, <2>1, <3>1
    <3>2. CASE i # 1
      BY <1>1, <1>3, <2>1, <2>2, <3>2
    <3> QED
      BY <3>1, <3>2
  <2>4. i \in Batches(q, w)
    BY <1>1, <2>2, <2>3 DEF Batches, Has
  <2>5. \A n \in Batches(q, w) : n <= i
    BY <1>4, <2>1, <2>2
  <2> QED
    BY <2>3, <2>4, <2>5 DEF LastSave
<1>6. ASSUME w = q[1][1].w, Batches(r, w) = {}
      PROVE  LastSave(q, w, q[1][1].snap)
  <2>1. 1 \in Batches(q, w)
    BY <1>1, <1>2, <1>6 DEF Batches
  <2>2. \A n \in Batches(q, w) : n <= 1
    BY <1>4, <1>6
  <2> QED
    BY <1>2, <1>6, <2>1, <2>2 DEF LastSave
<1> QED
  BY <1>5, <1>6

-----------------------------------------------------------------------------
(* Events on their way to a client.                                         *)

LEMMA EventAppended ==
    ASSUME NEW e \in Seq(Ops), NEW x \in Ops, NEW r, r = Append(e, x), NEW w
    PROVE  /\ Has(r, w) <=> Has(e, w) \/ x.w = w
           /\ \A s : LastEvent(r, w, s) => IF x.w = w THEN s = x.snap ELSE LastEvent(e, w, s)
<1>1. /\ r \in Seq(Ops) /\ Len(r) = Len(e) + 1 /\ r[Len(e) + 1] = x
      /\ \A i \in 1 .. Len(e) : r[i] = e[i]
      /\ DOMAIN e = 1 .. Len(e) /\ DOMAIN r = 1 .. Len(e) + 1 /\ Len(e) \in Nat
  BY AppendProperties
<1>2. Has(r, w) <=> Has(e, w) \/ x.w = w
  <2>1. Has(e, w) => Has(r, w)
    BY <1>1 DEF Has
  <2>2. x.w = w => Has(r, w)
    BY <1>1 DEF Has
  <2>3. Has(r, w) => Has(e, w) \/ x.w = w
    BY <1>1 DEF Has
  <2> QED
    BY <2>1, <2>2, <2>3
<1>3. ASSUME NEW s, LastEvent(r, w, s)
      PROVE  IF x.w = w THEN s = x.snap ELSE LastEvent(e, w, s)
  <2>1. PICK i \in DOMAIN r : /\ r[i].w = w /\ r[i].snap = s
                              /\ \A n \in DOMAIN r : r[n].w = w => n <= i
    BY <1>3 DEF LastEvent
  <2>2. CASE x.w = w
    BY <1>1, <2>1, <2>2
  <2>3. CASE x.w # w
    <3>1. i \in DOMAIN e /\ e[i] = r[i]
      BY <1>1, <2>1, <2>3
    <3>2. \A n \in DOMAIN e : e[n].w = w => n <= i
      BY <1>1, <2>1
    <3> QED
      BY <2>1, <2>3, <3>1, <3>2 DEF LastEvent
  <2> QED
    BY <2>2, <2>3
<1> QED
  BY <1>2, <1>3

LEMMA EventTaken ==
    ASSUME NEW e \in Seq(Ops), e # <<>>, NEW r, r = Tail(e)
    PROVE  /\ r \in Seq(Ops) /\ Head(e) = e[1] /\ e[1] \in Ops /\ Has(e, e[1].w)
           /\ \A w : Has(r, w) => Has(e, w)
           /\ \A w : w # e[1].w => (Has(e, w) => Has(r, w))
           /\ \A w, s : LastEvent(r, w, s) => LastEvent(e, w, s)
           /\ ~Has(r, e[1].w) => LastEvent(e, e[1].w, e[1].snap)
<1>1. Len(e) \in Nat /\ Len(e) # 0 /\ DOMAIN e = 1 .. Len(e)
  BY EmptySeq, LenProperties
<1>2. r \in Seq(Ops) /\ Len(r) = Len(e) - 1 /\ \A i \in 1 .. Len(r) : r[i] = e[i + 1]
  BY HeadTailProperties
<1>3. DOMAIN r = 1 .. Len(r) /\ Len(r) \in Nat
  BY <1>2, LenProperties
<1>4. 1 \in DOMAIN e /\ Head(e) = e[1] /\ e[1] \in Ops
  BY <1>1, ElementOfSeq
<1>5. ASSUME NEW i \in DOMAIN r
      PROVE  i + 1 \in DOMAIN e /\ r[i] = e[i + 1] /\ i \in Nat
  BY <1>1, <1>2, <1>3
<1>6. ASSUME NEW n \in DOMAIN e, n # 1
      PROVE  n - 1 \in DOMAIN r /\ r[n - 1] = e[n] /\ n \in Nat
  <2>1. n - 1 \in 1 .. Len(r) /\ (n - 1) + 1 = n /\ n \in Nat
    BY <1>1, <1>2, <1>3, <1>6
  <2>2. r[n - 1] = e[(n - 1) + 1]
    BY <1>2, <2>1
  <2> QED
    BY <1>3, <2>1, <2>2
<1>7. \A w : Has(r, w) => Has(e, w)
  BY <1>5 DEF Has
<1>8. \A w : w # e[1].w => (Has(e, w) => Has(r, w))
  BY <1>6 DEF Has
<1>9. ASSUME NEW w, NEW s, LastEvent(r, w, s)
      PROVE  LastEvent(e, w, s)
  <2>1. PICK i \in DOMAIN r : /\ r[i].w = w /\ r[i].snap = s
                              /\ \A n \in DOMAIN r : r[n].w = w => n <= i
    BY <1>9 DEF LastEvent
  <2>2. i + 1 \in DOMAIN e /\ r[i] = e[i + 1] /\ i \in Nat
    BY <1>5
  <2>3. ASSUME NEW n \in DOMAIN e, e[n].w = w
        PROVE  n <= i + 1
    <3>1. CASE n = 1
      BY <2>2, <3>1
    <3>2. CASE n # 1
      <4>1. n - 1 <= i /\ n \in Nat
        BY <1>6, <2>1, <2>3, <3>2
      <4> QED
        BY <2>2, <4>1
    <3> QED
      BY <3>1, <3>2
  <2> QED
    BY <2>1, <2>2, <2>3 DEF LastEvent
<1>10. ASSUME ~Has(r, e[1].w)
       PROVE  LastEvent(e, e[1].w, e[1].snap)
  <2>1. ASSUME NEW n \in DOMAIN e, e[n].w = e[1].w
        PROVE  n <= 1
    <3>1. CASE n = 1
      BY <3>1
    <3>2. CASE n # 1
      <4>1. n - 1 \in DOMAIN r /\ r[n - 1] = e[n]
        BY <1>6, <3>2
      <4>2. Has(r, e[1].w)
        BY <2>1, <4>1 DEF Has
      <4> QED
        BY <1>10, <4>2
    <3> QED
      BY <3>1, <3>2
  <2> QED
    BY <1>4, <2>1 DEF LastEvent
<1> QED
  BY <1>2, <1>4, <1>7, <1>8, <1>9, <1>10 DEF Has

-----------------------------------------------------------------------------
(* A queue and the workspaces that count as pending for it.                 *)

QueueOk(q, p, n) ==
    /\ \A i \in DOMAIN q : q[i] # <<>> /\ Distinct(q[i])
    /\ Len(q) <= n
    /\ \A w \in Workspaces : p[w] = Cardinality(Batches(q, w))

LEMMA OncePerBatch ==
    ASSUME NEW b \in Seq(Ops), Distinct(b), NEW w
    PROVE  /\ Has(b, w) => Cardinality({i \in DOMAIN b : b[i].w = w}) = 1
           /\ ~Has(b, w) => Cardinality({i \in DOMAIN b : b[i].w = w}) = 0
<1> DEFINE S == {i \in DOMAIN b : b[i].w = w}
<1>1. CASE Has(b, w)
  <2>1. PICK j \in DOMAIN b : b[j].w = w
    BY <1>1 DEF Has
  <2>2. S = {j}
    BY <2>1 DEF Distinct
  <2>3. Cardinality({j}) = 1
    BY FS_Singleton
  <2> QED
    BY <1>1, <2>2, <2>3
<1>2. CASE ~Has(b, w)
  <2>1. S = {}
    BY <1>2 DEF Has
  <2> QED
    BY <1>2, <2>1, FS_EmptySet
<1> QED
  BY <1>1, <1>2

(* The operations of a batch counted in, and off.                           *)
CountedIn(p, b) == [w \in Workspaces |-> p[w] + Cardinality({i \in DOMAIN b : b[i].w = w})]
CountedOff(p, b) == [w \in Workspaces |-> p[w] - Cardinality({i \in DOMAIN b : b[i].w = w})]

LEMMA PersistQueue ==
    ASSUME NEW q \in Seq(Seq(Ops)), NEW p \in [Workspaces -> Nat], NEW n \in Nat, QueueOk(q, p, n),
           NEW b \in Seq(Ops), b # <<>>, Distinct(b), NEW r, r = Append(q, b),
           NEW x, x = CountedIn(p, b)
    PROVE  x \in [Workspaces -> Nat] /\ QueueOk(r, x, n + 1)
<1>6. Extended(q, b, r)
  BY IsExtended
<1>1. /\ r \in Seq(Seq(Ops)) /\ Len(r) = Len(q) + 1 /\ r[Len(q) + 1] = b
      /\ \A i \in 1 .. Len(q) : r[i] = q[i]
      /\ DOMAIN q = 1 .. Len(q) /\ DOMAIN r = 1 .. Len(r) /\ Len(q) \in Nat
  BY <1>6 DEF Extended
<1>2. ASSUME NEW w \in Workspaces
      PROVE  x[w] \in Nat /\ x[w] = Cardinality(Batches(r, w))
  <2>1. p[w] = Cardinality(Batches(q, w)) /\ p[w] \in Nat
    BY DEF QueueOk
  <2>2. PICK k : k = Cardinality({i \in DOMAIN b : b[i].w = w})
    OBVIOUS
  <2>3. (Has(b, w) => k = 1) /\ (~Has(b, w) => k = 0)
    BY <2>2, OncePerBatch
  <2>4. /\ Has(b, w) => Cardinality(Batches(r, w)) = Cardinality(Batches(q, w)) + 1
        /\ ~Has(b, w) => Cardinality(Batches(r, w)) = Cardinality(Batches(q, w))
    BY <1>6, AppendedCounted
  <2>5. x[w] = p[w] + k
    BY <2>2 DEF CountedIn
  <2> QED
    BY <2>1, <2>3, <2>4, <2>5
<1>3. ASSUME NEW i \in DOMAIN r
      PROVE  r[i] # <<>> /\ Distinct(r[i])
  <2>1. CASE i \in 1 .. Len(q)
    BY <1>1, <2>1 DEF QueueOk
  <2>2. CASE i = Len(q) + 1
    BY <1>1, <2>2
  <2> QED
    BY <1>1, <2>1, <2>2
<1>4. Len(r) <= n + 1
  BY <1>1 DEF QueueOk
<1>5. x \in [Workspaces -> Nat]
  BY <1>2 DEF CountedIn
<1> QED
  BY <1>2, <1>3, <1>4, <1>5 DEF QueueOk

LEMMA GiveUpQueue ==
    ASSUME NEW q \in Seq(Seq(Ops)), NEW p \in [Workspaces -> Nat], NEW n \in Nat, QueueOk(q, p, n),
           q # <<>>, NEW b, b = q[1], NEW r, r = Tail(q),
           NEW x, x = CountedOff(p, b)
    PROVE  x \in [Workspaces -> Nat] /\ QueueOk(r, x, n)
<1>1. /\ r \in Seq(Seq(Ops)) /\ Len(r) = Len(q) - 1
      /\ \A i \in 1 .. Len(r) : r[i] = q[i + 1]
      /\ DOMAIN q = 1 .. Len(q) /\ DOMAIN r = 1 .. Len(r)
      /\ Len(q) \in Nat /\ Len(r) \in Nat /\ 1 \in DOMAIN q /\ q[1] \in Seq(Ops)
  BY BatchGone
<1>2. b \in Seq(Ops) /\ Distinct(b)
  BY <1>1 DEF QueueOk
<1>3. ASSUME NEW w \in Workspaces
      PROVE  x[w] \in Nat /\ x[w] = Cardinality(Batches(r, w))
  <2>1. p[w] = Cardinality(Batches(q, w)) /\ p[w] \in Nat
    BY DEF QueueOk
  <2>2. PICK k : k = Cardinality({i \in DOMAIN b : b[i].w = w})
    OBVIOUS
  <2>3. (Has(b, w) => k = 1) /\ (~Has(b, w) => k = 0)
    BY <1>2, <2>2, OncePerBatch
  <2>4. /\ Has(b, w) => Cardinality(Batches(r, w)) = Cardinality(Batches(q, w)) - 1
        /\ ~Has(b, w) => Cardinality(Batches(r, w)) = Cardinality(Batches(q, w))
    BY GoneCounted
  <2>5. Cardinality(Batches(r, w)) \in Nat
    BY <1>1, BatchesFinite
  <2>6. x[w] = p[w] - k
    BY <2>2 DEF CountedOff
  <2> QED
    BY <2>1, <2>3, <2>4, <2>5, <2>6
<1>4. ASSUME NEW i \in DOMAIN r
      PROVE  r[i] # <<>> /\ Distinct(r[i])
  <2>1. i + 1 \in DOMAIN q /\ r[i] = q[i + 1]
    BY <1>1
  <2> QED
    BY <2>1 DEF QueueOk
<1>5. Len(r) <= n
  BY <1>1 DEF QueueOk
<1>6. x \in [Workspaces -> Nat]
  BY <1>3 DEF CountedOff
<1> QED
  BY <1>3, <1>4, <1>5, <1>6 DEF QueueOk

(* What the queue is once its first operation is done.                      *)
Shorter(q) == IF Len(Head(q)) = 1 THEN Tail(q) ELSE <<Tail(Head(q))>> \o Tail(q)

(* It is a queue with the operation counted off, and loses nothing else.    *)
Answered(q, o, r, x, n) ==
    /\ r \in Seq(Seq(Ops)) /\ x \in [Workspaces -> Nat] /\ QueueOk(r, x, n)
    /\ \A w, s : LastSave(r, w, s) => LastSave(q, w, s)
    /\ Batches(r, o.w) = {} => LastSave(q, o.w, o.snap)
    /\ \A w \in Workspaces \ {o.w} : Batches(r, w) = {} <=> Batches(q, w) = {}

LEMMA NotEmpty ==
    ASSUME NEW s \in Seq(Ops), Len(s) # 0
    PROVE  s # <<>>
  OBVIOUS

LEMMA AnswerQueue ==
    ASSUME NEW q \in Seq(Seq(Ops)), NEW p \in [Workspaces -> Nat], NEW n \in Nat, QueueOk(q, p, n),
           q # <<>>, NEW o, o = q[1][1], NEW r, r = Shorter(q),
           NEW x, x = [p EXCEPT ![o.w] = @ - 1]
    PROVE  Answered(q, o, r, x, n)
<1>1. Len(q) \in Nat /\ DOMAIN q = 1 .. Len(q) /\ 1 \in DOMAIN q /\ q[1] \in Seq(Ops)
  BY BatchGone
<1>2. /\ q[1] # <<>> /\ Distinct(q[1]) /\ Len(q) <= n
      /\ \A i \in DOMAIN q : q[i] # <<>> /\ Distinct(q[i])
      /\ \A w \in Workspaces : p[w] = Cardinality(Batches(q, w))
  BY <1>1 DEF QueueOk
<1>3. 1 \in DOMAIN q[1] /\ o \in Ops /\ o.w \in Workspaces /\ Has(q[1], o.w)
  <2>1. 1 \in DOMAIN q[1]
    BY <1>1, <1>2
  <2>2. o \in Ops
    BY <1>1, <2>1
  <2> QED
    BY <2>1, <2>2 DEF Ops, Has
<1>4. /\ r \in Seq(Seq(Ops)) /\ Len(r) <= n
      /\ \A i \in DOMAIN r : r[i] # <<>> /\ Distinct(r[i])
      /\ \A w \in Workspaces : Cardinality(Batches(r, w)) =
            Cardinality(Batches(q, w)) - IF w = o.w THEN 1 ELSE 0
      /\ \A w, s : LastSave(r, w, s) => LastSave(q, w, s)
      /\ Batches(r, o.w) = {} => LastSave(q, o.w, o.snap)
  <2>1. CASE Len(Head(q)) = 1
    <3>1. r = Tail(q)
      BY <2>1 DEF Shorter
    <3>2. /\ r \in Seq(Seq(Ops)) /\ Len(r) = Len(q) - 1
          /\ \A i \in 1 .. Len(r) : r[i] = q[i + 1]
          /\ DOMAIN r = 1 .. Len(r) /\ Len(r) \in Nat
      BY <3>1, BatchGone
    <3>3. ASSUME NEW i \in DOMAIN r
          PROVE  r[i] # <<>> /\ Distinct(r[i])
      <4>1. i + 1 \in DOMAIN q /\ r[i] = q[i + 1]
        BY <1>1, <3>2
      <4> QED
        BY <1>2, <4>1
    <3>4. DOMAIN q[1] = {1}
      BY <1>1, <2>1
    <3>5. \A w : Has(q[1], w) <=> w = o.w
      BY <3>4 DEF Has
    <3>6. ASSUME NEW w \in Workspaces
          PROVE  /\ w = o.w => Cardinality(Batches(r, w)) = Cardinality(Batches(q, w)) - 1
                 /\ w # o.w => Cardinality(Batches(r, w)) = Cardinality(Batches(q, w))
      BY <3>1, <3>5, GoneCounted
    <3>7. \A w, s : LastSave(r, w, s) => LastSave(q, w, s)
      BY <3>1, GoneLast
    <3>8. Batches(r, o.w) = {} => LastSave(q, o.w, o.snap)
      BY <1>3, <3>1, GoneLast
    <3>9. \A w \in Workspaces : Cardinality(Batches(q, w)) \in Nat
      BY BatchesFinite
    <3>10. Len(r) <= n
      BY <1>1, <1>2, <3>2
    <3>11. \A w \in Workspaces : Cardinality(Batches(r, w)) =
             Cardinality(Batches(q, w)) - IF w = o.w THEN 1 ELSE 0
      BY <3>6, <3>9
    <3> QED
      BY <3>2, <3>3, <3>7, <3>8, <3>10, <3>11
  <2>2. CASE Len(Head(q)) # 1
    <3>1. r = <<Tail(Head(q))>> \o Tail(q)
      BY <2>2 DEF Shorter
    <3>2. Shortened(q, r)
      BY <1>2, <3>1, IsShortened
    <3>3. /\ r \in Seq(Seq(Ops)) /\ Len(r) = Len(q)
          /\ \A i \in 2 .. Len(q) : r[i] = q[i]
          /\ DOMAIN r = 1 .. Len(q)
      BY <3>2 DEF Shortened
    <3>4. Distinct(r[1])
      BY <1>2, <3>2, OpGone
    <3>5. r[1] # <<>>
      <4>1. Head(q) = q[1] /\ Len(q[1]) \in Nat /\ Len(q[1]) # 0
        <5>1. q[1] \in Seq(Ops) /\ q[1] # <<>>
          BY <1>1, <1>2
        <5> QED
          BY <5>1, EmptySeq
      <4>3. Len(q[1]) # 1
        BY <2>2, <4>1
      <4>4. Len(r[1]) + 1 = Len(q[1]) /\ Len(r[1]) \in Nat /\ r[1] \in Seq(Ops)
        BY <3>2 DEF Shortened
      <4>2. Len(r[1]) # 0
        <5>1. PICK l : l = Len(r[1])
          OBVIOUS
        <5>2. PICK m : m = Len(q[1])
          OBVIOUS
        <5>3. m # 1 /\ l + 1 = m /\ l \in Nat
          BY <4>3, <4>4, <5>1, <5>2
        <5>4. l # 0
          BY <5>3
        <5> QED
          BY <5>1, <5>4
      <4>5. PICK b : b = r[1]
        OBVIOUS
      <4>6. b \in Seq(Ops) /\ Len(b) # 0
        BY <4>2, <4>4, <4>5
      <4>7. b # <<>>
        BY <4>6, NotEmpty
      <4> QED
        BY <4>5, <4>7
    <3>6. ASSUME NEW i \in DOMAIN r
          PROVE  r[i] # <<>> /\ Distinct(r[i])
      <4>1. CASE i = 1
        BY <3>4, <3>5, <4>1
      <4>2. CASE i # 1
        <5>1. i \in 2 .. Len(q) /\ i \in DOMAIN q
          BY <1>1, <3>3, <4>2
        <5> QED
          BY <1>2, <3>3, <5>1
      <4> QED
        BY <4>1, <4>2
    <3>7. ASSUME NEW w \in Workspaces
          PROVE  /\ w = o.w => Cardinality(Batches(r, w)) = Cardinality(Batches(q, w)) - 1
                 /\ w # o.w => Cardinality(Batches(r, w)) = Cardinality(Batches(q, w))
      BY <1>2, <3>2, ShortenedCounted
    <3>8. \A w, s : LastSave(r, w, s) => LastSave(q, w, s)
      BY <1>2, <3>2, ShortenedLast
    <3>9. Batches(r, o.w) = {} => LastSave(q, o.w, o.snap)
      BY <1>2, <3>2, ShortenedLast
    <3>10. \A w \in Workspaces : Cardinality(Batches(q, w)) \in Nat
      BY BatchesFinite
    <3>11. Len(r) <= n
      BY <1>2, <3>3
    <3>12. \A w \in Workspaces : Cardinality(Batches(r, w)) =
             Cardinality(Batches(q, w)) - IF w = o.w THEN 1 ELSE 0
      BY <3>7, <3>10
    <3> QED
      BY <3>3, <3>6, <3>8, <3>9, <3>11, <3>12
  <2> QED
    BY <2>1, <2>2
<1>5. ASSUME NEW w \in Workspaces
      PROVE  /\ x[w] \in Nat /\ x[w] = Cardinality(Batches(r, w))
             /\ w # o.w => (Batches(r, w) = {} <=> Batches(q, w) = {})
  <2>1. /\ Cardinality(Batches(r, w)) \in Nat /\ Cardinality(Batches(q, w)) \in Nat
        /\ Cardinality(Batches(r, w)) = 0 <=> Batches(r, w) = {}
        /\ Cardinality(Batches(q, w)) = 0 <=> Batches(q, w) = {}
    BY <1>4, BatchesFinite
  <2>2. x[w] = IF w = o.w THEN p[w] - 1 ELSE p[w]
    BY <1>3
  <2> QED
    BY <1>2, <1>4, <2>1, <2>2
<1>6. x \in [Workspaces -> Nat]
  BY <1>5
<1>7. QueueOk(r, x, n)
  BY <1>4, <1>5 DEF QueueOk
<1>8. \A w \in Workspaces \ {o.w} : Batches(r, w) = {} <=> Batches(q, w) = {}
  BY <1>5
<1> QED
  BY <1>4, <1>6, <1>7, <1>8 DEF Answered

-----------------------------------------------------------------------------
(* The inductive invariant.                                                 *)

ImportStates ==
    {NoImport} \cup [step : {"waiting"}, w : Workspaces, behind : Nat]
               \cup [step : {"saving"}, w : Workspaces]

Types ==
    /\ db \in [Workspaces -> Snapshots]
    /\ board \in [Clients -> [Workspaces -> Snapshots]]
    /\ queued \in [Clients -> [Workspaces -> Snapshots]]
    /\ known \in [Clients -> [Workspaces -> Snapshots]]
    /\ pending \in [Clients -> [Workspaces -> Nat]]
    /\ queue \in [Clients -> Seq(Seq(Ops))]
    /\ importing \in [Clients -> ImportStates]
    /\ watching \in [Clients -> BOOLEAN]
    /\ calls \subseteq Calls
    /\ events \in [Clients -> Seq(Ops)]
    /\ created \subseteq Tasks /\ removed \subseteq Tasks
    /\ crossed \subseteq Workspaces /\ clashed \in BOOLEAN
    /\ changes \in Nat /\ changes <= MaxChanges /\ upsets \in Nat

Queues == \A c \in Clients : QueueOk(queue[c], pending[c], changes)

(* What is shown is what was queued last, or nothing counts as queued.      *)
Saved == \A c \in Clients, w \in Workspaces :
            board[c][w] = queued[c][w] \/ queued[c][w] = None

(* A call stands for the first operation of a queue, for an import, or      *)
(* nobody waits for it.                                                     *)
CallShape(k) ==
    /\ k.by = "queue" =>
         /\ k.from \in Clients /\ queue[k.from] # <<>> /\ k.step # "sent"
         /\ queue[k.from][1][1].w = k.w /\ queue[k.from][1][1].snap = k.snap
    /\ k.by = "import" => k.from \in Clients /\ Imports(k.from, k.w) /\ k.step # "sent"
    /\ k.by = "nobody" => k.step # "done" /\ (k.from # None => k.w \in crossed)

Shape ==
    /\ \A k \in calls : CallShape(k)
    /\ \A j, k \in calls : j.from = k.from /\ j.by = k.by /\ j.by # "nobody" => j = k
    /\ \A c \in Clients : importing[c].step = "saving" =>
         \E k \in calls : k.from = c /\ k.by = "import"

(* Something of w is in the database that nobody has been told of.          *)
Landing(w) == \E k \in calls : k.w = w /\ k.step = "written"

(* c has a change of w of its own on the way.                               *)
Mine(c, w) == InQueue(c, w) \/ Imports(c, w)

CallsOk(w) ==
    /\ \A j, k \in calls : j.w = w /\ k.w = w => j = k
    /\ \A k \in calls : k.w = w /\ k.step # "sent" => db[w] = k.snap

(* The board of w at c, when no changes of two clients met on it: the last  *)
(* event on its way is what the database has; only one client has a change  *)
(* on the way, and then nothing else is; the last operation queued is what  *)
(* is shown.                                                                *)
ClientOk(c, w) ==
    /\ ~Landing(w) => \A s : LastEvent(events[c], w, s) => s = db[w]
    /\ ~InEvents(c, w) /\ ~Mine(c, w) /\ ~Landing(w) /\ board[c][w] = queued[c][w] =>
         board[c][w] = db[w]
    /\ Mine(c, w) => /\ ~InEvents(c, w)
                     /\ \A d \in Clients : Mine(d, w) => d = c
                     /\ \A k \in calls : k.w = w => k.from = c /\ k.by # "nobody"
    /\ InQueue(c, w) => ~Imports(c, w)
    /\ board[c][w] = queued[c][w] => \A s : LastSave(queue[c], w, s) => s = board[c][w]
    /\ ~InEvents(c, w) /\ ~Mine(c, w) /\ queued[c][w] # None => queued[c][w] = known[c][w]

Uncrossed(w) == CallsOk(w) /\ \A c \in Clients : ClientOk(c, w)

IInv == /\ Types /\ Queues /\ Saved /\ Shape
        /\ \A w \in Workspaces \ crossed : Uncrossed(w)

-----------------------------------------------------------------------------
(* What follows from the invariant at once.                                 *)

LEMMA InQueueBatches ==
    ASSUME NEW c, NEW w
    PROVE  InQueue(c, w) <=> Batches(queue[c], w) # {}
  BY DEF InQueue, Batches, Has

LEMMA PendingQueued ==
    ASSUME Types, Queues, NEW c \in Clients, NEW w \in Workspaces
    PROVE  pending[c][w] \in Nat /\ (pending[c][w] = 0 <=> ~InQueue(c, w))
<1>1. queue[c] \in Seq(Seq(Ops))
  BY DEF Types
<1>2. /\ Cardinality(Batches(queue[c], w)) \in Nat
      /\ Cardinality(Batches(queue[c], w)) = 0 <=> Batches(queue[c], w) = {}
  BY <1>1, BatchesFinite
<1>3. pending[c][w] = Cardinality(Batches(queue[c], w))
  BY DEF Queues, QueueOk
<1> QED
  BY <1>2, <1>3, InQueueBatches

(* The first operation of a queue.                                          *)
LEMMA FirstOp ==
    ASSUME Types, Queues, NEW c \in Clients, queue[c] # <<>>
    PROVE  /\ queue[c] \in Seq(Seq(Ops)) /\ 1 \in DOMAIN queue[c] /\ queue[c][1] \in Seq(Ops)
           /\ Distinct(queue[c][1]) /\ 1 \in DOMAIN queue[c][1] /\ queue[c][1][1] \in Ops
           /\ queue[c][1][1].w \in Workspaces /\ queue[c][1][1].snap \in Snapshots
           /\ Head(queue[c]) = queue[c][1] /\ Has(queue[c][1], queue[c][1][1].w)
           /\ InQueue(c, queue[c][1][1].w)
<1>1. PICK q : q = queue[c]
  OBVIOUS
<1>2. q \in Seq(Seq(Ops)) /\ q # <<>>
  BY <1>1 DEF Types
<1>3. DOMAIN q = 1 .. Len(q) /\ 1 \in DOMAIN q /\ q[1] \in Seq(Ops) /\ Head(q) = q[1]
  BY <1>2, BatchGone
<1>4. q[1] # <<>> /\ Distinct(q[1])
  BY <1>1, <1>3 DEF Queues, QueueOk
<1>5. 1 \in DOMAIN q[1] /\ q[1][1] \in Ops
  BY <1>3, <1>4
<1>6. q[1][1].w \in Workspaces /\ q[1][1].snap \in Snapshots
  BY <1>5 DEF Ops
<1>7. Has(q[1], q[1][1].w)
  BY <1>5 DEF Has
<1>8. InQueue(c, q[1][1].w)
  BY <1>1, <1>3, <1>5 DEF InQueue
<1> QED
  BY <1>1, <1>2, <1>3, <1>4, <1>5, <1>6, <1>7, <1>8

LEMMA LastQueued ==
    ASSUME NEW c, NEW w, NEW s, LastSave(queue[c], w, s)
    PROVE  InQueue(c, w)
  BY InQueueBatches DEF LastSave

LEMMA LastIn ==
    ASSUME NEW c, NEW w, NEW s, LastEvent(events[c], w, s)
    PROVE  InEvents(c, w)
  BY DEF LastEvent, InEvents

(* The call a client waits for is about something of its own.               *)
LEMMA CallIsMine ==
    ASSUME Types, Queues, Shape, NEW k \in calls
    PROVE  /\ k.by = "queue" => k.from \in Clients /\ InQueue(k.from, k.w)
           /\ k.by = "import" => k.from \in Clients /\ Imports(k.from, k.w)
           /\ k.by \in {"queue", "import", "nobody"} /\ k.w \in Workspaces
           /\ k.snap \in Snapshots /\ k.from \in Clients \cup {None}
           /\ k.step \in {"sent", "written", "done"}
<1>1. CallShape(k)
  BY DEF Shape
<1>2. ASSUME k.by = "queue"
      PROVE  k.from \in Clients /\ InQueue(k.from, k.w)
  BY <1>1, <1>2, FirstOp DEF CallShape
<1>3. k \in Calls
  BY DEF Types
<1> QED
  BY <1>1, <1>2, <1>3 DEF CallShape, Calls

(* The workspace of an import that saves is that of its call.               *)
LEMMA ImportCall ==
    ASSUME Shape, NEW c \in Clients, NEW w, Imports(c, w)
    PROVE  \E k \in calls : k.from = c /\ k.by = "import" /\ k.w = w
<1>1. PICK k \in calls : k.from = c /\ k.by = "import"
  BY DEF Shape, Imports
<1>2. Imports(c, k.w)
  BY <1>1 DEF Shape, CallShape
<1> QED
  BY <1>1, <1>2 DEF Imports

-----------------------------------------------------------------------------
(* Steps that leave a client, or a workspace, as it is.                     *)

KeptClient(c) ==
    /\ board'[c] = board[c] /\ queued'[c] = queued[c] /\ known'[c] = known[c]
    /\ queue'[c] = queue[c] /\ events'[c] = events[c] /\ importing'[c] = importing[c]

(* Nothing of w that c has shown, saved or been told is touched.            *)
Kept(c, w) ==
    /\ board'[c][w] = board[c][w] /\ queued'[c][w] = queued[c][w] /\ known'[c][w] = known[c][w]
    /\ InQueue(c, w)' <=> InQueue(c, w)
    /\ InEvents(c, w)' <=> InEvents(c, w)
    /\ Imports(c, w)' <=> Imports(c, w)
    /\ \A s : LastSave(queue'[c], w, s) => LastSave(queue[c], w, s)
    /\ \A s : LastEvent(events'[c], w, s) => LastEvent(events[c], w, s)

LEMMA ClientKept ==
    ASSUME NEW c, NEW w, KeptClient(c)
    PROVE  Kept(c, w)
<1>1. InQueue(c, w)' <=> InQueue(c, w)
  BY DEF KeptClient, InQueue
<1>2. InEvents(c, w)' <=> InEvents(c, w)
  BY DEF KeptClient, InEvents
<1>3. Imports(c, w)' <=> Imports(c, w)
  BY DEF KeptClient, Imports
<1> QED
  BY <1>1, <1>2, <1>3 DEF KeptClient, Kept

(* The calls about w stay the same.                                         *)
KeptCalls(w) == \A k : k.w = w => (k \in calls' <=> k \in calls)

LEMMA CallsKept ==
    ASSUME NEW w, CallsOk(w), KeptCalls(w), db'[w] = db[w]
    PROVE  CallsOk(w)' /\ (Landing(w)' <=> Landing(w))
  BY DEF CallsOk, KeptCalls, Landing

LEMMA WorkspaceKept ==
    ASSUME NEW w, Uncrossed(w), \A c \in Clients : Kept(c, w), KeptCalls(w), db'[w] = db[w]
    PROVE  Uncrossed(w)'
<1>1. CallsOk(w)' /\ (Landing(w)' <=> Landing(w))
  BY CallsKept DEF Uncrossed
<1>2. \A c \in Clients : Mine(c, w)' <=> Mine(c, w)
  BY DEF Kept, Mine
<1>3. ASSUME NEW c \in Clients
      PROVE  ClientOk(c, w)'
  <2>1. ClientOk(c, w) /\ Kept(c, w)
    BY DEF Uncrossed
  <2>2. ~Landing(w)' => \A s : LastEvent(events'[c], w, s) => s = db'[w]
    BY <1>1, <2>1 DEF ClientOk, Kept
  <2>3. ~InEvents(c, w)' /\ ~Mine(c, w)' /\ ~Landing(w)' /\ board'[c][w] = queued'[c][w] =>
          board'[c][w] = db'[w]
    BY <1>1, <1>2, <2>1 DEF ClientOk, Kept
  <2>4. Mine(c, w)' => /\ ~InEvents(c, w)'
                       /\ \A d \in Clients : Mine(d, w)' => d = c
                       /\ \A k \in calls' : k.w = w => k.from = c /\ k.by # "nobody"
    BY <1>2, <2>1 DEF ClientOk, Kept, KeptCalls
  <2>5. InQueue(c, w)' => ~Imports(c, w)'
    BY <2>1 DEF ClientOk, Kept
  <2>6. board'[c][w] = queued'[c][w] => \A s : LastSave(queue'[c], w, s) => s = board'[c][w]
    BY <2>1 DEF ClientOk, Kept
  <2>7. ~InEvents(c, w)' /\ ~Mine(c, w)' /\ queued'[c][w] # None => queued'[c][w] = known'[c][w]
    BY <1>2, <2>1 DEF ClientOk, Kept
  <2> QED
    BY <2>2, <2>3, <2>4, <2>5, <2>6, <2>7 DEF ClientOk
<1> QED
  BY <1>1, <1>3 DEF Uncrossed

-----------------------------------------------------------------------------
(* Writes in the backend.                                                   *)

LEMMA WriteStep ==
    ASSUME IInv, NEW c \in Clients, Write(c)
    PROVE  IInv'
<1> USE DEF IInv
<1>1. PICK o : o = queue[c][1][1]
  OBVIOUS
<1>2. /\ queue[c] # <<>> /\ Asked(c, "queue") = {} /\ UNCHANGED <<client, events, ghosts, bounds>>
      /\ db' = [db EXCEPT ![o.w] = o.snap]
  BY <1>1 DEF Write, Written
<1>3. o \in Ops /\ o.w \in Workspaces /\ o.snap \in Snapshots /\ InQueue(c, o.w)
  BY <1>1, <1>2, FirstOp
<1>4. PICK n : n = [from |-> c, by |-> "queue", w |-> o.w, snap |-> o.snap, step |-> "written"]
  OBVIOUS
<1>5. /\ n \in Calls /\ n.from = c /\ n.by = "queue" /\ n.w = o.w /\ n.snap = o.snap
      /\ n.step = "written"
  BY <1>3, <1>4 DEF Calls
<1>6. calls' = calls \cup {n}
  BY <1>1, <1>4 DEF Write
<1>7. /\ UNCHANGED <<board, queued, pending, queue, importing, watching, events, known, created, removed>>
      /\ UNCHANGED <<crossed, clashed, changes, upsets>>
  BY <1>2 DEF client, ghosts, bounds
<1>8. Types'
  <2>1. db' \in [Workspaces -> Snapshots]
    BY <1>2, <1>3 DEF Types
  <2> QED
    BY <1>5, <1>6, <1>7, <2>1 DEF Types
<1>9. Queues' /\ Saved'
  BY <1>7 DEF Queues, Saved
<1>10. \A k \in calls : ~(k.from = c /\ k.by = "queue")
  BY <1>2 DEF Asked
<1>11. \A d, w : Imports(d, w)' <=> Imports(d, w)
  BY <1>7 DEF Imports
<1>12. CallShape(n)'
  BY <1>1, <1>2, <1>5, <1>7 DEF CallShape
<1>13. \A k \in calls : CallShape(k)'
  BY <1>7, <1>11 DEF Shape, CallShape
<1>14. Shape'
  <2>1. \A j, k \in calls' : j.from = k.from /\ j.by = k.by /\ j.by # "nobody" => j = k
    BY <1>5, <1>6, <1>10 DEF Shape
  <2>2. \A d \in Clients : importing'[d].step = "saving" =>
           \E k \in calls' : k.from = d /\ k.by = "import"
    BY <1>6, <1>7 DEF Shape
  <2> QED
    BY <1>6, <1>12, <1>13, <2>1, <2>2 DEF Shape
<1>15. \A d \in Clients : \A w : Kept(d, w)
  BY <1>7, ClientKept DEF KeptClient
<1>16. ASSUME NEW w \in Workspaces \ crossed'
       PROVE  Uncrossed(w)'
  <2>1. Uncrossed(w)
    BY <1>7
  <2>2. CASE w # o.w
    <3>1. KeptCalls(w)
      BY <1>5, <1>6, <2>2 DEF KeptCalls
    <3>2. db'[w] = db[w]
      BY <1>2, <2>2 DEF Types
    <3> QED
      BY <1>15, <2>1, <3>1, <3>2, WorkspaceKept
  <2>3. CASE w = o.w
    <3>1. Mine(c, w) /\ ~Imports(c, w) /\ ClientOk(c, w)
      BY <1>3, <2>1, <2>3 DEF Uncrossed, ClientOk, Mine
    <3>2. ASSUME NEW k \in calls, k.w = w
          PROVE  FALSE
      <4>1. k.from = c /\ k.by # "nobody"
        BY <3>1, <3>2 DEF ClientOk
      <4>2. k.by = "import"
        BY <1>10, <4>1, CallIsMine
      <4> QED
        BY <3>1, <3>2, <4>1, <4>2, CallIsMine
    <3>3. \A k \in calls' : k.w = w => k = n
      BY <1>6, <3>2
    <3>4. db'[w] = o.snap
      BY <1>2, <1>3, <2>3 DEF Types
    <3>5. CallsOk(w)' /\ Landing(w)'
      BY <1>5, <1>6, <2>3, <3>3, <3>4 DEF CallsOk, Landing
    <3>6. \A d \in Clients : Mine(d, w)' <=> Mine(d, w)
      BY <1>15 DEF Kept, Mine
    <3>7. ASSUME NEW d \in Clients
          PROVE  ClientOk(d, w)'
      <4>1. ClientOk(d, w) /\ Kept(d, w)
        BY <1>15, <2>1 DEF Uncrossed
      <4>2. Mine(d, w)' => /\ ~InEvents(d, w)'
                           /\ \A e \in Clients : Mine(e, w)' => e = d
                           /\ \A k \in calls' : k.w = w => k.from = d /\ k.by # "nobody"
        BY <1>5, <3>1, <3>3, <3>6, <4>1 DEF ClientOk, Kept
      <4>3. InQueue(d, w)' => ~Imports(d, w)'
        BY <4>1 DEF ClientOk, Kept
      <4>4. board'[d][w] = queued'[d][w] => \A s : LastSave(queue'[d], w, s) => s = board'[d][w]
        BY <4>1 DEF ClientOk, Kept
      <4>5. ~InEvents(d, w)' /\ ~Mine(d, w)' /\ queued'[d][w] # None => queued'[d][w] = known'[d][w]
        BY <3>6, <4>1 DEF ClientOk, Kept
      <4> QED
        BY <3>5, <4>2, <4>3, <4>4, <4>5 DEF ClientOk
    <3> QED
      BY <3>5, <3>7 DEF Uncrossed
  <2> QED
    BY <2>2, <2>3
<1> QED
  BY <1>8, <1>9, <1>14, <1>16

LEMMA LateWriteStep ==
    ASSUME IInv, NEW k \in calls, LateWrite(k)
    PROVE  IInv'
<1> USE DEF IInv
<1>1. k \in Calls /\ k.w \in Workspaces /\ k.snap \in Snapshots /\ k.step = "sent"
  BY DEF Types, Calls, LateWrite
<1>2. k.by = "nobody" /\ (k.from # None => k.w \in crossed)
  BY <1>1, CallIsMine DEF Shape, CallShape
<1>3. PICK n : n = [k EXCEPT !.step = "written"]
  OBVIOUS
<1>4. /\ n \in Calls /\ n.from = k.from /\ n.by = "nobody" /\ n.w = k.w /\ n.snap = k.snap
      /\ n.step = "written"
  BY <1>1, <1>2, <1>3 DEF Calls
<1>5. calls' = (calls \ {k}) \cup {n} /\ db' = [db EXCEPT ![k.w] = k.snap]
  BY <1>3 DEF LateWrite, Written
<1>6. /\ UNCHANGED <<board, queued, pending, queue, importing, watching, events, known, created, removed>>
      /\ UNCHANGED <<crossed, clashed, changes, upsets>>
  BY DEF LateWrite, client, ghosts, bounds
<1>7. Types'
  <2>1. db' \in [Workspaces -> Snapshots]
    BY <1>1, <1>5 DEF Types
  <2> QED
    BY <1>4, <1>5, <1>6, <2>1 DEF Types
<1>8. Queues' /\ Saved'
  BY <1>6 DEF Queues, Saved
<1>9. \A d, w : Imports(d, w)' <=> Imports(d, w)
  BY <1>6 DEF Imports
<1>10. Shape'
  <2>1. \A j \in calls : CallShape(j)'
    BY <1>6, <1>9 DEF Shape, CallShape
  <2>2. CallShape(n)'
    BY <1>2, <1>4, <1>6 DEF CallShape
  <2>3. \A i, j \in calls' : i.from = j.from /\ i.by = j.by /\ i.by # "nobody" => i = j
    BY <1>4, <1>5 DEF Shape
  <2>4. \A d \in Clients : importing'[d].step = "saving" =>
           \E j \in calls' : j.from = d /\ j.by = "import"
    <3>1. TAKE d \in Clients
    <3>2. HAVE importing'[d].step = "saving"
    <3>3. PICK j \in calls : j.from = d /\ j.by = "import"
      BY <1>6, <3>2 DEF Shape
    <3>4. j # k
      BY <1>2, <3>3
    <3> QED
      BY <1>5, <3>3, <3>4
  <2> QED
    BY <1>5, <2>1, <2>2, <2>3, <2>4 DEF Shape
<1>11. \A d \in Clients : \A w : Kept(d, w)
  BY <1>6, ClientKept DEF KeptClient
<1>12. ASSUME NEW w \in Workspaces \ crossed'
       PROVE  Uncrossed(w)'
  <2>1. Uncrossed(w)
    BY <1>6
  <2>2. CASE w # k.w
    <3>1. KeptCalls(w)
      BY <1>4, <1>5, <2>2 DEF KeptCalls
    <3>2. db'[w] = db[w]
      BY <1>5, <2>2 DEF Types
    <3> QED
      BY <1>11, <2>1, <3>1, <3>2, WorkspaceKept
  <2>3. CASE w = k.w
    <3>1. \A j \in calls' : j.w = w => j = n
      BY <1>5, <2>1, <2>3 DEF Uncrossed, CallsOk
    <3>2. db'[w] = k.snap
      BY <1>1, <1>5, <2>3 DEF Types
    <3>3. CallsOk(w)' /\ Landing(w)'
      BY <1>4, <1>5, <2>3, <3>1, <3>2 DEF CallsOk, Landing
    <3>4. ASSUME NEW d \in Clients
          PROVE  ClientOk(d, w)'
      <4>1. ClientOk(d, w) /\ Kept(d, w)
        BY <1>11, <2>1 DEF Uncrossed
      <4>2. ~Mine(d, w)
        BY <1>2, <2>3, <4>1 DEF ClientOk
      <4>3. ~Mine(d, w)'
        BY <4>1, <4>2 DEF Kept, Mine
      <4>4. InQueue(d, w)' => ~Imports(d, w)'
        BY <4>1 DEF ClientOk, Kept
      <4>5. board'[d][w] = queued'[d][w] => \A s : LastSave(queue'[d], w, s) => s = board'[d][w]
        BY <4>1 DEF ClientOk, Kept
      <4>6. ~InEvents(d, w)' /\ queued'[d][w] # None => queued'[d][w] = known'[d][w]
        BY <4>1, <4>2 DEF ClientOk, Kept
      <4> QED
        BY <3>3, <4>3, <4>4, <4>5, <4>6 DEF ClientOk
    <3> QED
      BY <3>3, <3>4 DEF Uncrossed
  <2> QED
    BY <2>2, <2>3
<1> QED
  BY <1>7, <1>8, <1>10, <1>12

-----------------------------------------------------------------------------
(* A change announced.                                                      *)

(* What Broadcast leaves of w where w has not been announced.               *)
LEMMA AnnouncedElsewhere ==
    ASSUME Types, NEW k \in calls, Broadcast(k), NEW w, w # k.w, NEW c \in Clients
    PROVE  Kept(c, w)
<1>1. PICK o : o = [w |-> k.w, snap |-> k.snap]
  OBVIOUS
<1>2. o \in Ops /\ o.w = k.w
  BY <1>1 DEF Types, Calls, Ops
<1>3. events[c] \in Seq(Ops)
  BY DEF Types
<1>4. events'[c] = events[c] \/ events'[c] = Append(events[c], o)
  BY <1>1 DEF Broadcast
<1>5. UNCHANGED <<board, queued, known, queue, importing>>
  BY DEF Broadcast, client
<1>6. /\ InEvents(c, w)' <=> InEvents(c, w)
      /\ \A s : LastEvent(events'[c], w, s) => LastEvent(events[c], w, s)
  <2>1. CASE events'[c] = events[c]
    BY <2>1 DEF InEvents
  <2>2. CASE events'[c] = Append(events[c], o)
    <3>1. /\ Has(events'[c], w) <=> Has(events[c], w) \/ o.w = w
          /\ \A s : LastEvent(events'[c], w, s) =>
               IF o.w = w THEN s = o.snap ELSE LastEvent(events[c], w, s)
      BY <1>2, <1>3, <2>2, EventAppended
    <3> QED
      BY <1>2, <3>1 DEF InEvents, Has
  <2> QED
    BY <1>4, <2>1, <2>2
<1>7. InQueue(c, w)' <=> InQueue(c, w)
  BY <1>5 DEF InQueue
<1>8. Imports(c, w)' <=> Imports(c, w)
  BY <1>5 DEF Imports
<1> QED
  BY <1>5, <1>6, <1>7, <1>8 DEF Kept

(* Whoever listens has it as the last event of w.                           *)
LEMMA Announced ==
    ASSUME Types, NEW k \in calls, Broadcast(k), NEW c \in Clients, c # k.from, watching[c]
    PROVE  InEvents(c, k.w)' /\ \A s : LastEvent(events'[c], k.w, s) => s = k.snap
<1>1. PICK o : o = [w |-> k.w, snap |-> k.snap]
  OBVIOUS
<1>2. o \in Ops /\ o.w = k.w /\ o.snap = k.snap
  BY <1>1 DEF Types, Calls, Ops
<1>3. events[c] \in Seq(Ops)
  BY DEF Types
<1>4. events'[c] = Append(events[c], o)
  BY <1>1 DEF Broadcast
<1>5. PICK w : w = k.w
  OBVIOUS
<1>6. /\ Has(events'[c], w) <=> Has(events[c], w) \/ o.w = w
      /\ \A s : LastEvent(events'[c], w, s) =>
           IF o.w = w THEN s = o.snap ELSE LastEvent(events[c], w, s)
  BY <1>2, <1>3, <1>4, EventAppended
<1> QED
  BY <1>2, <1>5, <1>6 DEF InEvents, Has

(* The call that a board's change is announced for, in what the others and  *)
(* what the client itself still have on the way.                            *)
Telling(k) ==
    /\ db[k.w] = k.snap
    /\ \A j \in calls : j.w = k.w => j = k
    /\ \A c \in Clients : c # k.from => ~Mine(c, k.w)
    /\ k.from \in Clients =>
         /\ k.by # "nobody" /\ Mine(k.from, k.w) /\ ~InEvents(k.from, k.w)
         /\ InQueue(k.from, k.w) => ~Imports(k.from, k.w)
         /\ board[k.from][k.w] = queued[k.from][k.w] =>
              \A s : LastSave(queue[k.from], k.w, s) => s = board[k.from][k.w]

LEMMA UncrossedTelling ==
    ASSUME IInv, NEW k \in calls, k.step = "written", k.w \notin crossed
    PROVE  Telling(k)
<1> USE DEF IInv
<1>1. CallShape(k) /\ k.w \in Workspaces /\ Uncrossed(k.w)
  BY CallIsMine DEF Shape
<1>2. db[k.w] = k.snap /\ \A j \in calls : j.w = k.w => j = k
  BY <1>1 DEF Uncrossed, CallsOk
<1>3. ASSUME NEW c \in Clients, c # k.from
      PROVE  ~Mine(c, k.w)
  BY <1>1, <1>3 DEF Uncrossed, ClientOk
<1>4. ASSUME k.from \in Clients
      PROVE  /\ k.by # "nobody" /\ Mine(k.from, k.w) /\ ~InEvents(k.from, k.w)
             /\ InQueue(k.from, k.w) => ~Imports(k.from, k.w)
             /\ board[k.from][k.w] = queued[k.from][k.w] =>
                  \A s : LastSave(queue[k.from], k.w, s) => s = board[k.from][k.w]
  <2>1. k.from # None
    BY <1>4, BoardStoreAssumption
  <2>2. k.by # "nobody"
    BY <1>1, <2>1 DEF CallShape
  <2>3. Mine(k.from, k.w)
    BY <2>2, CallIsMine DEF Mine
  <2>4. ClientOk(k.from, k.w)
    BY <1>1, <1>4 DEF Uncrossed
  <2> QED
    BY <2>2, <2>3, <2>4 DEF ClientOk
<1> QED
  BY <1>2, <1>3, <1>4 DEF Telling

LEMMA MeetTelling ==
    ASSUME IInv, NEW k \in calls, Meet(k)
    PROVE  Telling(k)
<1> USE DEF IInv
<1>1. CallShape(k) /\ k.w \in Workspaces
  BY CallIsMine DEF Shape
<1>2. k.by # "nobody" /\ db[k.w] = k.snap /\ \A j \in calls : j.w = k.w => j = k
  BY DEF Meet
<1>3. k.from \in Clients /\ Mine(k.from, k.w) /\ k.by \in {"queue", "import"}
  BY <1>2, CallIsMine DEF Mine
<1>4. \A c \in Clients : ~InEvents(c, k.w) /\ (c # k.from => ~Imports(c, k.w))
  BY DEF Meet
<1>5. ASSUME NEW c \in Clients, c # k.from
      PROVE  ~Mine(c, k.w)
  <2>1. pending[c][k.w] = 0
    BY <1>5 DEF Meet
  <2>2. ~InQueue(c, k.w)
    BY <1>1, <2>1, PendingQueued
  <2> QED
    BY <1>4, <1>5, <2>2 DEF Mine
<1>6. CASE k.by = "import"
  <2>1. pending[k.from][k.w] = 0
    BY <1>3, <1>6 DEF Meet
  <2>2. ~InQueue(k.from, k.w)
    BY <1>1, <1>3, <2>1, PendingQueued
  <2>3. \A s : ~LastSave(queue[k.from], k.w, s)
    BY <2>2, LastQueued
  <2> QED
    BY <1>2, <1>3, <1>4, <1>5, <2>2, <2>3 DEF Telling
<1>7. CASE k.by = "queue"
  <2>1. PICK c \in Clients : c = k.from
    BY <1>3
  <2>2. PICK q : q = queue[c]
    OBVIOUS
  <2>3. q # <<>> /\ q[1][1].w = k.w /\ q[1][1].snap = k.snap
    BY <1>1, <1>7, <2>1, <2>2 DEF CallShape
  <2>4. /\ q \in Seq(Seq(Ops)) /\ 1 \in DOMAIN q /\ Distinct(q[1]) /\ 1 \in DOMAIN q[1]
        /\ Has(q[1], k.w)
    BY <2>2, <2>3, FirstOp
  <2>5. pending[c][k.w] = 1 /\ queued[c][k.w] = k.snap
    BY <1>7, <2>1 DEF Meet
  <2>6. Cardinality(Batches(q, k.w)) = 1
    BY <1>1, <2>2, <2>5 DEF Queues, QueueOk
  <2>7. Batches(q, k.w) = {1}
    <3>1. 1 \in Batches(q, k.w)
      BY <2>4 DEF Batches
    <3>2. IsFiniteSet(Batches(q, k.w))
      BY <2>4, BatchesFinite
    <3>3. PICK x : Batches(q, k.w) = {x}
      BY <2>6, <3>2, FS_Singleton
    <3> QED
      BY <3>1, <3>3
  <2>8. ASSUME NEW s, LastSave(q, k.w, s)
        PROVE  s = k.snap
    <3>1. PICK j \in DOMAIN q[1] : q[1][j].w = k.w /\ q[1][j].snap = s
      BY <2>7, <2>8 DEF LastSave
    <3>2. j = 1
      BY <2>3, <2>4, <3>1 DEF Distinct
    <3> QED
      BY <2>3, <3>1, <3>2
  <2>9. ~Imports(c, k.w)
    <3>1. SUFFICES ASSUME Imports(c, k.w) PROVE FALSE
      OBVIOUS
    <3>2. PICK j \in calls : j.from = c /\ j.by = "import" /\ j.w = k.w
      BY <3>1, ImportCall
    <3> QED
      BY <1>2, <1>7, <3>2
  <2> QED
    BY <1>2, <1>3, <1>4, <1>5, <2>1, <2>2, <2>5, <2>8, <2>9 DEF Telling
<1> QED
  BY <1>3, <1>6, <1>7

LEMMA BroadcastStep ==
    ASSUME IInv, NEW k \in calls, Broadcast(k)
    PROVE  IInv'
<1> USE DEF IInv
<1>1. /\ k \in Calls /\ k.w \in Workspaces /\ k.snap \in Snapshots /\ k.step = "written"
      /\ CallShape(k)
  BY DEF Types, Calls, Broadcast, Shape
<1>2. PICK n : n = [k EXCEPT !.step = "done"]
  OBVIOUS
<1>3. /\ n \in Calls /\ n.from = k.from /\ n.by = k.by /\ n.w = k.w /\ n.snap = k.snap
      /\ n.step = "done"
  BY <1>1, <1>2 DEF Calls
<1>4. calls' = (calls \ {k}) \cup (IF k.by = "nobody" THEN {} ELSE {n})
  BY <1>2 DEF Broadcast
<1>5. /\ UNCHANGED <<db, board, queued, pending, queue, importing, watching, known, created, removed>>
      /\ UNCHANGED <<changes, upsets>>
  BY DEF Broadcast, client, bounds
<1>6. /\ crossed' \in {crossed \cup {k.w}, crossed \ {k.w}, crossed} /\ clashed' \in BOOLEAN
      /\ crossed' = crossed \ {k.w} => Meet(k) \/ k.w \notin crossed
  BY DEF Broadcast, Crossing, Types
<1>7. Types'
  <2>1. events' \in [Clients -> Seq(Ops)]
    <3>1. PICK o : o = [w |-> k.w, snap |-> k.snap]
      OBVIOUS
    <3>2. o \in Ops
      BY <1>1, <3>1 DEF Ops
    <3>3. PICK h : h = {c \in Clients : c # k.from /\ watching[c]}
      OBVIOUS
    <3>4. events' = [c \in Clients |-> IF c \in h THEN Append(events[c], o) ELSE events[c]]
      BY <3>1, <3>3 DEF Broadcast
    <3>5. \A c \in Clients : events[c] \in Seq(Ops) /\ Append(events[c], o) \in Seq(Ops)
      BY <3>2 DEF Types
    <3> QED
      BY <3>4, <3>5
  <2>2. calls' \subseteq Calls /\ crossed' \subseteq Workspaces
    BY <1>1, <1>3, <1>4, <1>6 DEF Types
  <2> QED
    BY <1>5, <1>6, <2>1, <2>2 DEF Types
<1>8. Queues' /\ Saved'
  BY <1>5 DEF Queues, Saved
<1>9. \A d, w : Imports(d, w)' <=> Imports(d, w)
  BY <1>5 DEF Imports
<1>10. Shape'
  <2>1. ASSUME NEW j \in calls, j # k
        PROVE  CallShape(j)'
    <3>1. j.by = "nobody" /\ j.from # None => j.w \in crossed'
      BY <1>6, <2>1 DEF Shape, CallShape, Meet
    <3> QED
      BY <1>5, <1>9, <3>1 DEF Shape, CallShape
  <2>2. k.by # "nobody" => CallShape(n)'
    BY <1>1, <1>3, <1>5, <1>9 DEF CallShape
  <2>3. \A i, j \in calls' : i.from = j.from /\ i.by = j.by /\ i.by # "nobody" => i = j
    BY <1>3, <1>4 DEF Shape
  <2>4. \A d \in Clients : importing'[d].step = "saving" =>
           \E j \in calls' : j.from = d /\ j.by = "import"
    <3>1. TAKE d \in Clients
    <3>2. HAVE importing'[d].step = "saving"
    <3>3. PICK j \in calls : j.from = d /\ j.by = "import"
      BY <1>5, <3>2 DEF Shape
    <3>4. CASE j # k
      BY <1>4, <3>3, <3>4
    <3>5. CASE j = k
      BY <1>3, <1>4, <3>3, <3>5
    <3> QED
      BY <3>4, <3>5
  <2>5. \A j \in calls' : CallShape(j)'
    BY <1>4, <2>1, <2>2
  <2> QED
    BY <2>3, <2>4, <2>5 DEF Shape
<1>11. ASSUME NEW w \in Workspaces \ crossed', w # k.w
       PROVE  Uncrossed(w)'
  <2>1. Uncrossed(w)
    BY <1>6, <1>11
  <2>2. \A c \in Clients : Kept(c, w)
    BY <1>11, AnnouncedElsewhere
  <2>3. KeptCalls(w)
    BY <1>3, <1>4, <1>11 DEF KeptCalls
  <2> QED
    BY <1>5, <2>1, <2>2, <2>3, WorkspaceKept
<1>12. ASSUME k.w \notin crossed'
       PROVE  Uncrossed(k.w)'
  <2>1. \A c \in Clients : watching[c]
    BY <1>12 DEF Broadcast, Crossing
  <2>2. Telling(k)
    BY <1>1, <1>6, <1>12, UncrossedTelling, MeetTelling
  <2>3. \A j \in calls' : j.w = k.w => j = n /\ k.by # "nobody"
    BY <1>4, <2>2 DEF Telling
  <2>4. CallsOk(k.w)' /\ ~Landing(k.w)'
    BY <1>3, <1>5, <2>2, <2>3 DEF CallsOk, Landing, Telling
  <2>5. \A c \in Clients : InQueue(c, k.w)' <=> InQueue(c, k.w)
    BY <1>5 DEF InQueue
  <2>6. \A c \in Clients : Mine(c, k.w)' <=> Mine(c, k.w)
    BY <1>9, <2>5 DEF Mine
  <2>7. ASSUME NEW c \in Clients
        PROVE  ClientOk(c, k.w)'
    <3>1. CASE c # k.from
      <4>1. InEvents(c, k.w)' /\ \A s : LastEvent(events'[c], k.w, s) => s = k.snap
        BY <2>1, <3>1, Announced
      <4>2. ~Mine(c, k.w) /\ ~InQueue(c, k.w)
        BY <2>2, <3>1 DEF Telling, Mine
      <4>3. \A s : ~LastSave(queue'[c], k.w, s)
        BY <1>5, <4>2, LastQueued
      <4> QED
        BY <1>5, <2>2, <2>5, <2>6, <4>1, <4>2, <4>3 DEF ClientOk, Telling
    <3>2. CASE c = k.from
      <4>1. /\ k.by # "nobody" /\ Mine(c, k.w) /\ ~InEvents(c, k.w)
            /\ InQueue(c, k.w) => ~Imports(c, k.w)
            /\ board[c][k.w] = queued[c][k.w] =>
                 \A s : LastSave(queue[c], k.w, s) => s = board[c][k.w]
        BY <2>2, <3>2 DEF Telling
      <4>2. events'[c] = events[c]
        BY <3>2 DEF Broadcast
      <4>3. ~InEvents(c, k.w)'
        BY <4>1, <4>2 DEF InEvents
      <4>4. \A s : ~LastEvent(events'[c], k.w, s)
        BY <4>1, <4>2, LastIn
      <4>5. Mine(c, k.w)' => /\ ~InEvents(c, k.w)'
                             /\ \A d \in Clients : Mine(d, k.w)' => d = c
                             /\ \A j \in calls' : j.w = k.w => j.from = c /\ j.by # "nobody"
        BY <1>3, <2>2, <2>3, <2>6, <3>2, <4>3 DEF Telling
      <4>6. Mine(c, k.w)' /\ (InQueue(c, k.w)' => ~Imports(c, k.w)')
        BY <1>9, <2>5, <2>6, <4>1
      <4>7. board'[c][k.w] = queued'[c][k.w] =>
              \A s : LastSave(queue'[c], k.w, s) => s = board'[c][k.w]
        BY <1>5, <4>1
      <4> QED
        BY <4>4, <4>5, <4>6, <4>7 DEF ClientOk
    <3> QED
      BY <3>1, <3>2
  <2> QED
    BY <2>4, <2>7 DEF Uncrossed
<1> QED
  BY <1>7, <1>8, <1>10, <1>11, <1>12

-----------------------------------------------------------------------------
(* Answers.                                                                 *)

LEMMA NearerImport ==
    ASSUME Types, NEW c \in Clients
    PROVE  /\ Nearer(c) \in ImportStates
           /\ Nearer(c).step = importing[c].step
           /\ importing[c].step = "saving" => Nearer(c) = importing[c]
           /\ importing[c].step \in {"none", "waiting", "saving"}
<1>1. PICK i : i = importing[c]
  OBVIOUS
<1>2. i \in ImportStates
  BY <1>1 DEF Types
<1>3. i.step \in {"none", "waiting", "saving"}
  BY <1>2 DEF ImportStates, NoImport
<1>4. CASE i.step = "waiting" /\ i.behind > 0
  <2>1. i \in [step : {"waiting"}, w : Workspaces, behind : Nat]
    BY <1>2, <1>4 DEF ImportStates, NoImport
  <2>2. PICK b : b = i.behind - 1
    OBVIOUS
  <2>3. b \in Nat
    BY <1>4, <2>1, <2>2
  <2>4. PICK x : x = [i EXCEPT !.behind = b]
    OBVIOUS
  <2>5. x \in [step : {"waiting"}, w : Workspaces, behind : Nat] /\ x.step = i.step
    BY <2>1, <2>3, <2>4
  <2>6. Nearer(c) = x
    BY <1>1, <1>4, <2>2, <2>4 DEF Nearer
  <2> QED
    BY <1>1, <1>3, <1>4, <2>5, <2>6 DEF ImportStates
<1>5. CASE ~(i.step = "waiting" /\ i.behind > 0)
  <2>1. Nearer(c) = i
    BY <1>1, <1>5 DEF Nearer
  <2> QED
    BY <1>1, <1>2, <1>3, <2>1
<1> QED
  BY <1>4, <1>5

(* An import that does not save yet may come nearer, or go.                 *)
LEMMA ImportsKept ==
    ASSUME Types, NEW c \in Clients, importing'[c] \in {Nearer(c), importing[c]}, NEW w
    PROVE  Imports(c, w)' <=> Imports(c, w)
<1>1. /\ Nearer(c).step = importing[c].step
      /\ importing[c].step = "saving" => Nearer(c) = importing[c]
  BY NearerImport
<1>2. CASE importing[c].step = "saving"
  BY <1>1, <1>2 DEF Imports
<1>3. CASE importing[c].step # "saving"
  BY <1>1, <1>3 DEF Imports
<1> QED
  BY <1>2, <1>3

LEMMA AnswerStep ==
    ASSUME IInv, NEW c \in Clients, NEW k \in calls, Answer(c, k)
    PROVE  IInv'
<1> USE DEF IInv
<1>1. k.from = c /\ k.by = "queue" /\ k.step = "done" /\ CallShape(k)
  BY DEF Answer, Asked, Shape
<1>2. /\ k.w \in Workspaces /\ k.snap \in Snapshots
      /\ queue[c] # <<>> /\ queue[c][1][1].w = k.w /\ queue[c][1][1].snap = k.snap
  BY <1>1, CallIsMine DEF CallShape
<1>3. PICK q : q = queue[c]
  OBVIOUS
<1>4. PICK p : p = pending[c]
  OBVIOUS
<1>5. PICK o : o = q[1][1]
  OBVIOUS
<1>6. /\ q \in Seq(Seq(Ops)) /\ q # <<>> /\ p \in [Workspaces -> Nat] /\ QueueOk(q, p, changes)
      /\ o.w = k.w /\ o.snap = k.snap
  BY <1>2, <1>3, <1>4, <1>5 DEF Types, Queues
<1>7. PICK r : r = Shorter(q)
  OBVIOUS
<1>8. PICK x : x = [p EXCEPT ![o.w] = @ - 1]
  OBVIOUS
<1>9. /\ r \in Seq(Seq(Ops)) /\ x \in [Workspaces -> Nat] /\ QueueOk(r, x, changes)
      /\ \A w, s : LastSave(r, w, s) => LastSave(q, w, s)
      /\ Batches(r, o.w) = {} => LastSave(q, o.w, o.snap)
      /\ \A w \in Workspaces \ {o.w} : Batches(r, w) = {} <=> Batches(q, w) = {}
  <2>1. changes \in Nat
    BY DEF Types
  <2>2. Answered(q, o, r, x, changes)
    BY <1>5, <1>6, <1>7, <1>8, <2>1, AnswerQueue
  <2> QED
    BY <2>2 DEF Answered
<1>10. /\ calls' = calls \ {k}
       /\ UNCHANGED <<db, board, queued, watching, events, created, removed, crossed, clashed, changes, upsets>>
  BY DEF Answer, bounds
<1>11. queue' = [queue EXCEPT ![c] = r]
  BY <1>3, <1>7 DEF Answer, Shorter
<1>12. pending' = [pending EXCEPT ![c] = x]
  <2>1. pending' = [pending EXCEPT ![c] = [pending[c] EXCEPT ![k.w] = pending[c][k.w] - 1]]
    BY DEF Answer
  <2> QED
    BY <1>4, <1>6, <1>8, <2>1
<1>13. known' = [known EXCEPT ![c] = [known[c] EXCEPT ![k.w] = k.snap]]
  BY DEF Answer
<1>14. PICK i : i = importing'[c]
  OBVIOUS
<1>15. /\ importing' = [importing EXCEPT ![c] = i] /\ i \in {Nearer(c), importing[c]}
       /\ i \in ImportStates
  BY <1>14, NearerImport DEF Answer, Types
<1>16. \A d \in Clients : \A w : Imports(d, w)' <=> Imports(d, w)
  <2> TAKE d \in Clients
  <2> TAKE w
  <2>2. CASE d = c
    BY <1>14, <1>15, <2>2, ImportsKept
  <2>3. CASE d # c
    BY <1>15, <2>3 DEF Types, Imports
  <2> QED
    BY <2>2, <2>3
<1>17. Types'
  <2>1. known' \in [Clients -> [Workspaces -> Snapshots]]
    BY <1>2, <1>13 DEF Types
  <2>2. queue' \in [Clients -> Seq(Seq(Ops))]
    BY <1>9, <1>11 DEF Types
  <2>3. pending' \in [Clients -> [Workspaces -> Nat]]
    BY <1>9, <1>12 DEF Types
  <2>4. importing' \in [Clients -> ImportStates]
    BY <1>15 DEF Types
  <2>5. calls' \subseteq Calls
    BY <1>10 DEF Types
  <2> QED
    BY <1>10, <2>1, <2>2, <2>3, <2>4, <2>5 DEF Types
<1>18. queue'[c] = r /\ pending'[c] = x
  BY <1>11, <1>12 DEF Types
<1>19. \A d \in Clients \ {c} : KeptClient(d) /\ pending'[d] = pending[d]
  BY <1>10, <1>11, <1>12, <1>13, <1>15 DEF Types, KeptClient
<1>20. Queues' /\ Saved'
  <2>1. ASSUME NEW d \in Clients
        PROVE  QueueOk(queue'[d], pending'[d], changes')
    <3>1. CASE d = c
      BY <1>9, <1>10, <1>18, <3>1
    <3>2. CASE d # c
      BY <1>10, <1>19, <3>2 DEF KeptClient, Queues
    <3> QED
      BY <3>1, <3>2
  <2> QED
    BY <1>10, <2>1 DEF Queues, Saved
<1>21. Shape'
  <2>1. ASSUME NEW j \in calls, j # k
        PROVE  CallShape(j)'
    <3>1. CallShape(j)
      BY DEF Shape
    <3>2. j.by = "queue" => j.from # c
      BY <1>1, <2>1 DEF Shape
    <3>3. j.by = "queue" => queue'[j.from] = queue[j.from]
      BY <1>19, <3>1, <3>2 DEF CallShape, KeptClient
    <3> QED
      BY <1>10, <1>16, <3>1, <3>3 DEF CallShape
  <2>2. \A a, b \in calls' : a.from = b.from /\ a.by = b.by /\ a.by # "nobody" => a = b
    BY <1>10 DEF Shape
  <2>3. \A d \in Clients : importing'[d].step = "saving" =>
           \E j \in calls' : j.from = d /\ j.by = "import"
    <3>1. TAKE d \in Clients
    <3>2. importing'[d].step = importing[d].step
      BY <1>14, <1>15, <1>19, NearerImport DEF KeptClient
    <3>3. HAVE importing'[d].step = "saving"
    <3>4. PICK j \in calls : j.from = d /\ j.by = "import"
      BY <3>2, <3>3 DEF Shape
    <3> QED
      BY <1>1, <1>10, <3>4
  <2> QED
    BY <1>10, <2>1, <2>2, <2>3 DEF Shape
<1>22. \A d \in Clients \ {c} : \A w : Kept(d, w)
  BY <1>19, ClientKept
<1>23. \A w : InEvents(c, w)' <=> InEvents(c, w)
  BY <1>10 DEF InEvents
<1>24. \A w : InQueue(c, w)' <=> Batches(r, w) # {}
  <2>1. \A w : InQueue(c, w)' <=> \E a \in DOMAIN r : \E b \in DOMAIN r[a] : r[a][b].w = w
    BY <1>18 DEF InQueue
  <2> QED
    BY <2>1 DEF Batches, Has
<1>25. ASSUME NEW w \in Workspaces \ crossed', w # k.w
       PROVE  Uncrossed(w)'
  <2>1. Uncrossed(w)
    BY <1>10
  <2>2. InQueue(c, w)' <=> InQueue(c, w)
    BY <1>3, <1>6, <1>9, <1>24, <1>25, InQueueBatches
  <2>3. known'[c][w] = known[c][w]
    BY <1>13, <1>25 DEF Types
  <2>4. Kept(c, w)
    BY <1>3, <1>9, <1>10, <1>16, <1>18, <1>23, <2>2, <2>3 DEF Kept
  <2>5. \A d \in Clients : Kept(d, w)
    BY <1>22, <2>4
  <2>6. KeptCalls(w)
    BY <1>10, <1>25 DEF KeptCalls
  <2> QED
    BY <1>10, <2>1, <2>5, <2>6, WorkspaceKept
<1>26. ASSUME k.w \notin crossed'
       PROVE  Uncrossed(k.w)'
  <2>1. Uncrossed(k.w)
    BY <1>2, <1>10, <1>26
  <2>2. CallsOk(k.w)' /\ ~Landing(k.w)' /\ ~Landing(k.w) /\ db[k.w] = k.snap
    BY <1>1, <1>10, <2>1 DEF Uncrossed, CallsOk, Landing
  <2>3. InQueue(c, k.w)
    BY <1>1, CallIsMine
  <2>4. \A d \in Clients : Mine(d, k.w)' => Mine(d, k.w)
    BY <1>16, <1>22, <2>3 DEF Mine, Kept
  <2>5. ASSUME NEW d \in Clients, d # c
        PROVE  ClientOk(d, k.w)'
    <3>1. ClientOk(d, k.w) /\ Kept(d, k.w)
      BY <1>22, <2>1, <2>5 DEF Uncrossed
    <3>2. Mine(d, k.w)' <=> Mine(d, k.w)
      BY <3>1 DEF Kept, Mine
    <3>3. Mine(d, k.w)' => /\ ~InEvents(d, k.w)'
                           /\ \A e \in Clients : Mine(e, k.w)' => e = d
                           /\ \A j \in calls' : j.w = k.w => j.from = d /\ j.by # "nobody"
      BY <1>10, <2>4, <3>1, <3>2 DEF ClientOk, Kept
    <3> QED
      BY <1>10, <2>2, <3>1, <3>2, <3>3 DEF ClientOk, Kept
  <2>6. ClientOk(c, k.w)'
    <3>1. ClientOk(c, k.w)
      BY <2>1 DEF Uncrossed
    <3>2. InQueue(c, k.w)' => InQueue(c, k.w)
      BY <2>3
    <3>3. Mine(c, k.w) /\ ~InEvents(c, k.w)' /\ ~InEvents(c, k.w) /\ ~Imports(c, k.w)'
      BY <1>16, <1>23, <2>3, <3>1 DEF ClientOk, Mine
    <3>4. known'[c][k.w] = k.snap
      BY <1>2, <1>13 DEF Types
    <3>5. ~Mine(c, k.w)' => LastSave(q, k.w, k.snap)
      BY <1>6, <1>9, <1>24 DEF Mine
    <3>6. ~Mine(c, k.w)' /\ board[c][k.w] = queued[c][k.w] => board[c][k.w] = k.snap
      BY <1>3, <3>1, <3>5 DEF ClientOk
    <3>7. ~Mine(c, k.w)' /\ queued[c][k.w] # None => queued[c][k.w] = k.snap
      BY <1>2, <3>6 DEF Saved
    <3>8. Mine(c, k.w)' => /\ ~InEvents(c, k.w)'
                           /\ \A e \in Clients : Mine(e, k.w)' => e = c
                           /\ \A j \in calls' : j.w = k.w => j.from = c /\ j.by # "nobody"
      BY <1>10, <2>4, <3>1, <3>3 DEF ClientOk
    <3>9. \A s : ~LastEvent(events'[c], k.w, s)
      BY <1>10, <3>3, LastIn
    <3>10. board[c][k.w] = queued[c][k.w] => \A s : LastSave(r, k.w, s) => s = board[c][k.w]
      BY <1>3, <1>9, <3>1 DEF ClientOk
    <3> QED
      BY <1>10, <1>18, <2>2, <3>3, <3>4, <3>6, <3>7, <3>8, <3>9, <3>10 DEF ClientOk
  <2> QED
    BY <2>2, <2>5, <2>6 DEF Uncrossed
<1> QED
  BY <1>17, <1>20, <1>21, <1>25, <1>26

-----------------------------------------------------------------------------
(* Imports.                                                                 *)

(* Steps that change nothing but an import that does not save.              *)
LEMMA QuietStep ==
    ASSUME IInv,
           UNCHANGED <<db, board, queued, pending, queue, calls, events, ghosts, upsets>>,
           watching' \in [Clients -> BOOLEAN],
           changes' \in Nat, changes <= changes', changes' <= MaxChanges,
           importing' \in [Clients -> ImportStates],
           \A d \in Clients : importing'[d] = importing[d] \/
              (importing[d].step # "saving" /\ importing'[d].step # "saving")
    PROVE  IInv'
<1> USE DEF IInv
<1>1. UNCHANGED <<known, created, removed, crossed, clashed>>
  BY DEF ghosts
<1>2. Types'
  BY <1>1 DEF Types
<1>3. Queues'
  <2>1. ASSUME NEW c \in Clients
        PROVE  QueueOk(queue[c], pending[c], changes')
    <3>1. QueueOk(queue[c], pending[c], changes)
      BY DEF Queues
    <3>2. Len(queue[c]) <= changes'
      <4>1. Len(queue[c]) \in Nat /\ Len(queue[c]) <= changes /\ changes \in Nat
        BY <3>1 DEF Types, QueueOk
      <4> QED
        BY <4>1
    <3> QED
      BY <3>1, <3>2 DEF QueueOk
  <2> QED
    BY <2>1 DEF Queues
<1>4. Saved'
  BY DEF Saved
<1>5. \A d \in Clients : \A w : Imports(d, w)' <=> Imports(d, w)
  BY DEF Imports
<1>6. Shape'
  <2>1. \A k \in calls : CallShape(k)'
    BY <1>1, <1>5 DEF Shape, CallShape
  <2>2. \A d \in Clients : importing'[d].step = "saving" => importing[d].step = "saving"
    OBVIOUS
  <2> QED
    BY <2>1, <2>2 DEF Shape
<1>7. ASSUME NEW w \in Workspaces \ crossed'
      PROVE  Uncrossed(w)'
  <2>1. Uncrossed(w)
    BY <1>1
  <2>2. ASSUME NEW c \in Clients
        PROVE  Kept(c, w)
    <3>1. InQueue(c, w)' <=> InQueue(c, w)
      BY DEF InQueue
    <3>2. InEvents(c, w)' <=> InEvents(c, w)
      BY DEF InEvents
    <3> QED
      BY <1>1, <1>5, <3>1, <3>2 DEF Kept
  <2>3. KeptCalls(w)
    BY DEF KeptCalls
  <2> QED
    BY <2>1, <2>2, <2>3, WorkspaceKept
<1> QED
  BY <1>2, <1>3, <1>4, <1>6, <1>7

LEMMA StartImportStep ==
    ASSUME IInv, NEW c \in Clients, NEW w \in Workspaces, StartImport(c, w)
    PROVE  IInv'
<1>1. Types
  BY DEF IInv
<1>2. PICK l : l = Len(queue[c])
  OBVIOUS
<1>3. l \in Nat
  BY <1>1, <1>2 DEF Types
<1>4. PICK i : i = [step |-> "waiting", w |-> w, behind |-> l]
  OBVIOUS
<1>5. i \in ImportStates /\ i.step = "waiting"
  BY <1>3, <1>4 DEF ImportStates
<1>6. importing' = [importing EXCEPT ![c] = i]
  BY <1>2, <1>4 DEF StartImport
<1>7. importing' \in [Clients -> ImportStates]
  BY <1>1, <1>5, <1>6 DEF Types
<1>8. importing[c].step = "none"
  BY DEF StartImport, NoImport
<1>9. \A d \in Clients : importing'[d] = importing[d] \/
         (importing[d].step # "saving" /\ importing'[d].step # "saving")
  BY <1>1, <1>5, <1>6, <1>8 DEF Types
<1>10. changes' \in Nat /\ changes <= changes' /\ changes' <= MaxChanges
  BY <1>1, BoardStoreAssumption DEF StartImport, Types
<1>11. watching' \in [Clients -> BOOLEAN]
  BY <1>1 DEF StartImport, Types
<1>12. UNCHANGED <<db, board, queued, pending, queue, calls, events, ghosts, upsets>>
  BY DEF StartImport
<1> QED
  BY <1>7, <1>9, <1>10, <1>11, <1>12, QuietStep

LEMMA FailImportStep ==
    ASSUME IInv, NEW c \in Clients, FailImport(c)
    PROVE  IInv'
<1>1. Types
  BY DEF IInv
<1>2. PICK i : i = NoImport
  OBVIOUS
<1>3. i \in ImportStates /\ i.step = "none"
  BY <1>2 DEF ImportStates, NoImport
<1>4. importing' = [importing EXCEPT ![c] = i] /\ importing[c].step = "waiting"
  BY <1>2 DEF FailImport
<1>5. importing' \in [Clients -> ImportStates]
  BY <1>1, <1>3, <1>4 DEF Types
<1>6. \A d \in Clients : importing'[d] = importing[d] \/
         (importing[d].step # "saving" /\ importing'[d].step # "saving")
  BY <1>1, <1>3, <1>4 DEF Types
<1>7. changes' \in Nat /\ changes <= changes' /\ changes' <= MaxChanges
  BY <1>1 DEF FailImport, Types, bounds
<1>8. watching' \in [Clients -> BOOLEAN]
  BY <1>1 DEF FailImport, Types
<1>9. UNCHANGED <<db, board, queued, pending, queue, calls, events, ghosts, upsets>>
  BY DEF FailImport, bounds
<1> QED
  BY <1>5, <1>6, <1>7, <1>8, <1>9, QuietStep

LEMMA WatchStep ==
    ASSUME IInv, NEW c \in Clients, Watch(c)
    PROVE  IInv'
<1>1. Types
  BY DEF IInv
<1>2. importing' \in [Clients -> ImportStates] /\ importing' = importing
  BY <1>1 DEF Watch, Types
<1>3. changes' \in Nat /\ changes <= changes' /\ changes' <= MaxChanges
  BY <1>1 DEF Watch, Types, bounds
<1>4. watching' \in [Clients -> BOOLEAN]
  BY <1>1 DEF Watch, Types
<1>5. UNCHANGED <<db, board, queued, pending, queue, calls, events, ghosts, upsets>>
  BY DEF Watch, bounds
<1> QED
  BY <1>2, <1>3, <1>4, <1>5, QuietStep

LEMMA WriteImportStep ==
    ASSUME IInv, NEW c \in Clients, WriteImport(c)
    PROVE  IInv'
<1> USE DEF IInv
<1>1. PICK u : u = importing[c].w
  OBVIOUS
<1>2. /\ importing[c].step = "waiting" /\ board[c][u] # None
      /\ Crossing({v \in {u} : Unheard(c, v) \/ InQueue(c, v)})
      /\ UNCHANGED <<board, queued, pending, queue, watching, events, known, removed, bounds>>
  BY <1>1 DEF WriteImport
<1>3. u \in Workspaces
  <2>1. PICK i : i = importing[c]
    OBVIOUS
  <2>2. i \in ImportStates /\ i.step = "waiting"
    BY <1>2, <2>1 DEF Types
  <2>3. i \in [step : {"waiting"}, w : Workspaces, behind : Nat]
    BY <2>2 DEF ImportStates, NoImport
  <2>4. i.w \in Workspaces
    BY <2>3
  <2> QED
    BY <1>1, <2>1, <2>4
<1>4. PICK k \in Tasks \ created :
        /\ Written(Merged(c, k))
        /\ importing' = [importing EXCEPT ![c] = [step |-> "saving", w |-> u]]
        /\ calls' = calls \cup {[from |-> c, by |-> "import", w |-> u,
                                 snap |-> Merged(c, k).snap, step |-> "written"]}
        /\ created' = created \cup {k}
  BY <1>1 DEF WriteImport
<1>5. PICK s : s = board[c][u] \cup {k}
  OBVIOUS
<1>6. s \in Snapshots
  <2>1. PICK b : b = board[c][u]
    OBVIOUS
  <2>2. b \in Snapshots /\ b # None
    BY <1>2, <1>3, <2>1 DEF Types
  <2>3. b \subseteq Tasks
    BY <2>2 DEF Snapshots
  <2>4. s \subseteq Tasks
    BY <1>4, <1>5, <2>1, <2>3
  <2> QED
    BY <2>4 DEF Snapshots
<1>7. PICK n : n = [from |-> c, by |-> "import", w |-> u, snap |-> s, step |-> "written"]
  OBVIOUS
<1>8. /\ n \in Calls /\ n.from = c /\ n.by = "import" /\ n.w = u /\ n.snap = s
      /\ n.step = "written"
  BY <1>3, <1>6, <1>7 DEF Calls
<1>9. db' = [db EXCEPT ![u] = s] /\ calls' = calls \cup {n}
  BY <1>1, <1>4, <1>5, <1>7 DEF Merged, Written
<1>10. PICK i : i = [step |-> "saving", w |-> u]
  OBVIOUS
<1>11. i \in ImportStates /\ i.step = "saving" /\ i.w = u
  BY <1>3, <1>10 DEF ImportStates
<1>12. importing' = [importing EXCEPT ![c] = i]
  BY <1>4, <1>10
<1>13. UNCHANGED <<changes, upsets>>
  BY <1>2 DEF bounds
<1>14. crossed \subseteq crossed' /\ crossed' \subseteq crossed \cup {u} /\ clashed' \in BOOLEAN
  BY <1>2 DEF Crossing, Types
<1>15. Types'
  <2>1. db' \in [Workspaces -> Snapshots]
    BY <1>3, <1>6, <1>9 DEF Types
  <2>2. importing' \in [Clients -> ImportStates]
    BY <1>11, <1>12 DEF Types
  <2>3. calls' \subseteq Calls /\ created' \subseteq Tasks /\ crossed' \subseteq Workspaces
    BY <1>3, <1>4, <1>8, <1>9, <1>14 DEF Types
  <2> QED
    BY <1>2, <1>13, <1>14, <2>1, <2>2, <2>3 DEF Types
<1>16. Queues' /\ Saved'
  BY <1>2, <1>13 DEF Queues, Saved
<1>17. \A d \in Clients \ {c} : \A w : Imports(d, w)' <=> Imports(d, w)
  BY <1>12 DEF Types, Imports
<1>18. \A w : Imports(c, w)' <=> w = u
  BY <1>11, <1>12 DEF Types, Imports
<1>19. \A w : ~Imports(c, w)
  BY <1>2 DEF Imports
<1>20. Shape'
  <2>1. ASSUME NEW j \in calls
        PROVE  CallShape(j)' /\ ~(j.from = c /\ j.by = "import")
    <3>1. CallShape(j)
      BY DEF Shape
    <3>2. ~(j.from = c /\ j.by = "import")
      BY <1>19, <3>1 DEF CallShape
    <3>3. j.by = "import" => Imports(j.from, j.w)'
      BY <1>17, <3>1, <3>2 DEF CallShape
    <3> QED
      BY <1>2, <1>14, <3>1, <3>2, <3>3 DEF CallShape
  <2>2. CallShape(n)'
    BY <1>8, <1>18 DEF CallShape
  <2>3. \A a, b \in calls' : a.from = b.from /\ a.by = b.by /\ a.by # "nobody" => a = b
    BY <1>8, <1>9, <2>1 DEF Shape
  <2>4. \A d \in Clients : importing'[d].step = "saving" =>
           \E j \in calls' : j.from = d /\ j.by = "import"
    <3>1. TAKE d \in Clients
    <3>2. CASE d = c
      BY <1>8, <1>9, <3>2
    <3>3. CASE d # c
      BY <1>9, <1>12, <3>3 DEF Shape, Types
    <3> QED
      BY <3>2, <3>3
  <2> QED
    BY <1>9, <2>1, <2>2, <2>3, <2>4 DEF Shape
<1>21. \A d, w : InQueue(d, w)' <=> InQueue(d, w)
  BY <1>2 DEF InQueue
<1>22. \A d, w : InEvents(d, w)' <=> InEvents(d, w)
  BY <1>2 DEF InEvents
<1>23. ASSUME NEW w \in Workspaces \ crossed', w # u
       PROVE  Uncrossed(w)'
  <2>1. Uncrossed(w)
    BY <1>14
  <2>2. \A d \in Clients : Kept(d, w)
    BY <1>2, <1>17, <1>18, <1>19, <1>21, <1>22, <1>23 DEF Kept
  <2>3. KeptCalls(w)
    BY <1>8, <1>9, <1>23 DEF KeptCalls
  <2>4. db'[w] = db[w]
    BY <1>9, <1>23 DEF Types
  <2> QED
    BY <2>1, <2>2, <2>3, <2>4, WorkspaceKept
<1>24. ASSUME u \notin crossed'
       PROVE  Uncrossed(u)'
  <2>1. Uncrossed(u)
    BY <1>3, <1>14, <1>24
  <2>2. ~Unheard(c, u) /\ ~InQueue(c, u)
    BY <1>2, <1>24 DEF Crossing
  <2>3. \A k2 \in calls : k2.w # u
    <3>1. SUFFICES ASSUME NEW j \in calls, j.w = u PROVE FALSE
      OBVIOUS
    <3>2. j.from = c /\ j.by = "queue"
      BY <2>2, <3>1 DEF Unheard
    <3> QED
      BY <2>2, <3>1, <3>2, CallIsMine
  <2>4. ~InEvents(c, u) /\ \A d \in Clients \ {c} : ~Mine(d, u)
    BY <2>2 DEF Unheard, Mine
  <2>5. \A j \in calls' : j.w = u => j = n
    BY <1>9, <2>3
  <2>6. db'[u] = s
    BY <1>3, <1>9 DEF Types
  <2>7. CallsOk(u)' /\ Landing(u)'
    BY <1>8, <1>9, <2>5, <2>6 DEF CallsOk, Landing
  <2>8. \A d \in Clients : Mine(d, u)' <=> d = c
    BY <1>17, <1>18, <1>21, <2>4 DEF Mine
  <2>9. ASSUME NEW d \in Clients
        PROVE  ClientOk(d, u)'
    <3>1. ClientOk(d, u)
      BY <2>1 DEF Uncrossed
    <3>2. Mine(d, u)' => /\ ~InEvents(d, u)'
                         /\ \A e \in Clients : Mine(e, u)' => e = d
                         /\ \A j \in calls' : j.w = u => j.from = d /\ j.by # "nobody"
      BY <1>8, <1>22, <2>4, <2>5, <2>8
    <3>3. InQueue(d, u)' => ~Imports(d, u)'
      BY <1>17, <1>21, <2>2, <3>1 DEF ClientOk
    <3>4. board'[d][u] = queued'[d][u] => \A t : LastSave(queue'[d], u, t) => t = board'[d][u]
      BY <1>2, <3>1 DEF ClientOk
    <3>5. ~InEvents(d, u)' /\ ~Mine(d, u)' /\ queued'[d][u] # None => queued'[d][u] = known'[d][u]
      BY <1>2, <1>19, <1>22, <2>2, <2>4, <2>8, <3>1 DEF ClientOk, Mine
    <3> QED
      BY <2>7, <3>2, <3>3, <3>4, <3>5 DEF ClientOk
  <2> QED
    BY <2>7, <2>9 DEF Uncrossed
<1> QED
  BY <1>15, <1>16, <1>20, <1>23, <1>24

-----------------------------------------------------------------------------
(* Boards taken over: from an import that is done, or from another client.  *)

Taken(c, w, s) ==
    /\ board' = [board EXCEPT ![c][w] = s]
    /\ queued' = [queued EXCEPT ![c][w] = s]
    /\ known' = [known EXCEPT ![c][w] = s]

LEMMA TakenOver ==
    ASSUME Types, Saved, NEW c \in Clients, NEW w \in Workspaces, NEW s \in Snapshots,
           Taken(c, w, s)
    PROVE  /\ board' \in [Clients -> [Workspaces -> Snapshots]]
           /\ queued' \in [Clients -> [Workspaces -> Snapshots]]
           /\ known' \in [Clients -> [Workspaces -> Snapshots]]
           /\ Saved'
           /\ board'[c][w] = s /\ queued'[c][w] = s /\ known'[c][w] = s
           /\ \A d \in Clients, v \in Workspaces : d # c \/ v # w =>
                /\ board'[d][v] = board[d][v] /\ queued'[d][v] = queued[d][v]
                /\ known'[d][v] = known[d][v]
<1>1. PICK x : x = [board[c] EXCEPT ![w] = s]
  OBVIOUS
<1>2. PICK y : y = [queued[c] EXCEPT ![w] = s]
  OBVIOUS
<1>3. PICK z : z = [known[c] EXCEPT ![w] = s]
  OBVIOUS
<1>4. /\ x \in [Workspaces -> Snapshots] /\ y \in [Workspaces -> Snapshots]
      /\ z \in [Workspaces -> Snapshots] /\ x[w] = s /\ y[w] = s /\ z[w] = s
  BY <1>1, <1>2, <1>3 DEF Types
<1>5. \A v \in Workspaces \ {w} : x[v] = board[c][v] /\ y[v] = queued[c][v] /\ z[v] = known[c][v]
  BY <1>1, <1>2, <1>3 DEF Types
<1>6. board' = [board EXCEPT ![c] = x] /\ queued' = [queued EXCEPT ![c] = y]
      /\ known' = [known EXCEPT ![c] = z]
  BY <1>1, <1>2, <1>3 DEF Taken
<1>7. /\ board' \in [Clients -> [Workspaces -> Snapshots]]
      /\ queued' \in [Clients -> [Workspaces -> Snapshots]]
      /\ known' \in [Clients -> [Workspaces -> Snapshots]]
  BY <1>4, <1>6 DEF Types
<1>8. board'[c] = x /\ queued'[c] = y /\ known'[c] = z
  BY <1>6 DEF Types
<1>9. \A d \in Clients \ {c} : board'[d] = board[d] /\ queued'[d] = queued[d] /\ known'[d] = known[d]
  BY <1>6 DEF Types
<1>10. \A d \in Clients, v \in Workspaces : d # c \/ v # w =>
          /\ board'[d][v] = board[d][v] /\ queued'[d][v] = queued[d][v]
          /\ known'[d][v] = known[d][v]
  BY <1>5, <1>8, <1>9
<1>11. Saved'
  BY <1>4, <1>8, <1>10 DEF Saved
<1> QED
  BY <1>4, <1>7, <1>8, <1>10, <1>11

LEMMA FinishImportStep ==
    ASSUME IInv, NEW c \in Clients, NEW k \in calls, FinishImport(c, k)
    PROVE  IInv'
<1> USE DEF IInv
<1>1. k.from = c /\ k.by = "import" /\ k.step = "done"
  BY DEF FinishImport, Asked
<1>2. k.w \in Workspaces /\ k.snap \in Snapshots /\ Imports(c, k.w)
  BY <1>1, CallIsMine
<1>3. PICK i : i = NoImport
  OBVIOUS
<1>4. i \in ImportStates /\ i.step = "none"
  BY <1>3 DEF ImportStates, NoImport
<1>5. calls' = calls \ {k} /\ importing' = [importing EXCEPT ![c] = i] /\ Taken(c, k.w, k.snap)
  BY <1>3 DEF FinishImport, Taken
<1>6. /\ UNCHANGED <<db, pending, queue, watching, events, created, removed, crossed, clashed>>
      /\ UNCHANGED <<changes, upsets>>
  BY DEF FinishImport, bounds
<1>7. /\ board' \in [Clients -> [Workspaces -> Snapshots]]
      /\ queued' \in [Clients -> [Workspaces -> Snapshots]]
      /\ known' \in [Clients -> [Workspaces -> Snapshots]]
      /\ Saved'
      /\ board'[c][k.w] = k.snap /\ queued'[c][k.w] = k.snap /\ known'[c][k.w] = k.snap
      /\ \A d \in Clients, v \in Workspaces : d # c \/ v # k.w =>
           /\ board'[d][v] = board[d][v] /\ queued'[d][v] = queued[d][v]
           /\ known'[d][v] = known[d][v]
  BY <1>2, <1>5, TakenOver
<1>8. Types' /\ Queues'
  <2>1. importing' \in [Clients -> ImportStates]
    BY <1>4, <1>5 DEF Types
  <2>2. calls' \subseteq Calls
    BY <1>5 DEF Types
  <2> QED
    BY <1>6, <1>7, <2>1, <2>2 DEF Types, Queues
<1>9. importing'[c].step = "none" /\ \A d \in Clients \ {c} : importing'[d] = importing[d]
  BY <1>4, <1>5 DEF Types
<1>10. (\A w : ~Imports(c, w)') /\ \A d \in Clients \ {c} : \A w : Imports(d, w)' <=> Imports(d, w)
  BY <1>9 DEF Imports
<1>11. \A w : w # k.w => ~Imports(c, w)
  BY <1>2 DEF Imports
<1>12. Shape'
  <2>1. ASSUME NEW j \in calls, j # k
        PROVE  CallShape(j)'
    <3>1. CallShape(j) /\ (j.by = "import" => j.from # c)
      BY <1>1, <2>1 DEF Shape
    <3> QED
      BY <1>6, <1>10, <3>1 DEF CallShape
  <2>2. \A d \in Clients : importing'[d].step = "saving" =>
           \E j \in calls' : j.from = d /\ j.by = "import"
    <3>1. TAKE d \in Clients
    <3>2. HAVE importing'[d].step = "saving"
    <3>3. d # c /\ importing[d].step = "saving"
      BY <1>9, <3>2
    <3>4. PICK j \in calls : j.from = d /\ j.by = "import"
      BY <3>3 DEF Shape
    <3> QED
      BY <1>1, <1>5, <3>3, <3>4
  <2> QED
    BY <1>5, <2>1, <2>2 DEF Shape
<1>13. \A d, w : InQueue(d, w)' <=> InQueue(d, w)
  BY <1>6 DEF InQueue
<1>14. \A d, w : InEvents(d, w)' <=> InEvents(d, w)
  BY <1>6 DEF InEvents
<1>15. \A d \in Clients, w \in Workspaces : d # c \/ w # k.w => Kept(d, w)
  BY <1>6, <1>7, <1>10, <1>11, <1>13, <1>14 DEF Kept
<1>16. ASSUME NEW w \in Workspaces \ crossed', w # k.w
       PROVE  Uncrossed(w)'
  <2>1. Uncrossed(w)
    BY <1>6
  <2>2. \A d \in Clients : Kept(d, w)
    BY <1>15, <1>16
  <2>3. KeptCalls(w)
    BY <1>5, <1>16 DEF KeptCalls
  <2> QED
    BY <1>6, <2>1, <2>2, <2>3, WorkspaceKept
<1>17. ASSUME k.w \notin crossed'
       PROVE  Uncrossed(k.w)'
  <2>1. Uncrossed(k.w)
    BY <1>2, <1>6, <1>17
  <2>2. /\ \A j \in calls' : j.w # k.w
        /\ db[k.w] = k.snap /\ ~Landing(k.w)
    BY <1>1, <1>5, <2>1 DEF Uncrossed, CallsOk, Landing
  <2>3. CallsOk(k.w)' /\ ~Landing(k.w)'
    BY <2>2 DEF CallsOk, Landing
  <2>4. /\ ~InQueue(c, k.w) /\ ~InEvents(c, k.w) /\ Mine(c, k.w)
        /\ \A d \in Clients : Mine(d, k.w) => d = c
    BY <1>2, <2>1 DEF Uncrossed, ClientOk, Mine
  <2>5. \A d \in Clients : ~Mine(d, k.w)' /\ ~InQueue(d, k.w)'
    BY <1>10, <1>13, <2>4 DEF Mine
  <2>6. \A d \in Clients : \A s : ~LastSave(queue'[d], k.w, s)
    BY <1>6, <1>13, <2>5, LastQueued
  <2>7. \A d \in Clients : \A s : LastEvent(events'[d], k.w, s) => s = db'[k.w]
    BY <1>6, <2>1, <2>2 DEF Uncrossed, ClientOk
  <2>8. ASSUME NEW d \in Clients
        PROVE  ClientOk(d, k.w)'
    <3>1. CASE d = c
      BY <1>6, <1>7, <2>2, <2>5, <2>6, <2>7, <3>1 DEF ClientOk
    <3>2. CASE d # c
      <4>1. ClientOk(d, k.w) /\ Kept(d, k.w) /\ ~Mine(d, k.w)
        BY <1>2, <1>15, <2>1, <2>4, <3>2 DEF Uncrossed
      <4> QED
        BY <1>6, <2>2, <2>3, <2>5, <2>6, <2>7, <4>1 DEF ClientOk, Kept
    <3> QED
      BY <3>1, <3>2
  <2> QED
    BY <2>3, <2>8 DEF Uncrossed
<1> QED
  BY <1>7, <1>8, <1>12, <1>16, <1>17

LEMMA HearStep ==
    ASSUME IInv, NEW c \in Clients, Hear(c)
    PROVE  IInv'
<1> USE DEF IInv
<1>1. PICK e : e = events[c]
  OBVIOUS
<1>2. PICK r : r = Tail(e)
  OBVIOUS
<1>3. PICK o : o = e[1]
  OBVIOUS
<1>4. e \in Seq(Ops) /\ e # <<>>
  BY <1>1 DEF Hear, Types
<1>5. /\ r \in Seq(Ops) /\ Head(e) = o /\ o \in Ops /\ Has(e, o.w)
      /\ \A w : Has(r, w) => Has(e, w)
      /\ \A w : w # o.w => (Has(e, w) => Has(r, w))
      /\ \A w, s : LastEvent(r, w, s) => LastEvent(e, w, s)
      /\ ~Has(r, o.w) => LastEvent(e, o.w, o.snap)
  BY <1>2, <1>3, <1>4, EventTaken
<1>6. o.w \in Workspaces /\ o.snap \in Snapshots
  BY <1>5 DEF Ops
<1>7. events' = [events EXCEPT ![c] = r]
  BY <1>1, <1>2 DEF Hear
<1>8. /\ UNCHANGED <<db, pending, queue, importing, watching, calls, created, removed, crossed, clashed>>
      /\ UNCHANGED <<changes, upsets>>
  BY DEF Hear, bounds
<1>9. /\ pending[c][o.w] > 0 => UNCHANGED <<board, queued, known>>
      /\ ~(pending[c][o.w] > 0) => Taken(c, o.w, o.snap)
  BY <1>1, <1>5 DEF Hear, Taken
<1>10. /\ board' \in [Clients -> [Workspaces -> Snapshots]]
       /\ queued' \in [Clients -> [Workspaces -> Snapshots]]
       /\ known' \in [Clients -> [Workspaces -> Snapshots]]
       /\ Saved'
       /\ \A d \in Clients, v \in Workspaces : d # c \/ v # o.w =>
            /\ board'[d][v] = board[d][v] /\ queued'[d][v] = queued[d][v]
            /\ known'[d][v] = known[d][v]
  <2>1. CASE pending[c][o.w] > 0
    <3>1. UNCHANGED <<board, queued, known>>
      BY <1>9, <2>1
    <3> QED
      BY <3>1 DEF Types, Saved
  <2>2. CASE ~(pending[c][o.w] > 0)
    BY <1>6, <1>9, <2>2, TakenOver
  <2> QED
    BY <2>1, <2>2
<1>11. Types' /\ Queues'
  <2>1. events' \in [Clients -> Seq(Ops)]
    BY <1>5, <1>7 DEF Types
  <2> QED
    BY <1>8, <1>10, <2>1 DEF Types, Queues
<1>12. \A d, w : (Imports(d, w)' <=> Imports(d, w)) /\ (InQueue(d, w)' <=> InQueue(d, w))
  BY <1>8 DEF Imports, InQueue
<1>13. Shape'
  BY <1>8, <1>12 DEF Shape, CallShape
<1>14. events'[c] = r /\ \A d \in Clients \ {c} : events'[d] = events[d]
  BY <1>7 DEF Types
<1>15. \A d \in Clients : \A w : d # c \/ w # o.w =>
         /\ InEvents(d, w)' <=> InEvents(d, w)
         /\ \A s : LastEvent(events'[d], w, s) => LastEvent(events[d], w, s)
  <2> TAKE d \in Clients
  <2> TAKE w
  <2>2. CASE d # c
    BY <1>14, <2>2 DEF InEvents
  <2>3. CASE d = c
    BY <1>1, <1>5, <1>14, <2>3 DEF InEvents, Has
  <2> QED
    BY <2>2, <2>3
<1>16. \A d \in Clients, w \in Workspaces : d # c \/ w # o.w => Kept(d, w)
  BY <1>8, <1>10, <1>12, <1>15 DEF Kept
<1>17. \A w : KeptCalls(w)
  BY <1>8 DEF KeptCalls
<1>18. ASSUME NEW w \in Workspaces \ crossed', w # o.w
       PROVE  Uncrossed(w)'
  <2>1. Uncrossed(w)
    BY <1>8
  <2>2. \A d \in Clients : Kept(d, w)
    BY <1>16, <1>18
  <2> QED
    BY <1>8, <1>17, <2>1, <2>2, WorkspaceKept
<1>19. ASSUME o.w \notin crossed'
       PROVE  Uncrossed(o.w)'
  <2>1. PICK w : w = o.w
    OBVIOUS
  <2>2. Uncrossed(w) /\ w \in Workspaces
    BY <1>6, <1>8, <1>19, <2>1
  <2>3. CallsOk(w)' /\ (Landing(w)' <=> Landing(w))
    BY <1>8, <1>17, <2>2, CallsKept DEF Uncrossed
  <2>4. \A d \in Clients : Mine(d, w)' <=> Mine(d, w)
    BY <1>12 DEF Mine
  <2>5. ClientOk(c, w) /\ InEvents(c, w)
    BY <1>1, <1>5, <2>1, <2>2 DEF Uncrossed, InEvents, Has
  <2>6. ~Mine(c, w) /\ ~InQueue(c, w)
    BY <2>5 DEF ClientOk, Mine
  <2>7. ~(pending[c][w] > 0)
    BY <2>2, <2>6, PendingQueued
  <2>8. board'[c][w] = o.snap /\ queued'[c][w] = o.snap /\ known'[c][w] = o.snap
    BY <1>6, <1>9, <2>1, <2>7, TakenOver
  <2>9. InEvents(c, w)' <=> Has(r, w)
    BY <1>14 DEF InEvents, Has
  <2>10. ~InEvents(c, w)' /\ ~Landing(w)' => o.snap = db[w]
    BY <1>1, <1>5, <2>1, <2>3, <2>5, <2>9 DEF ClientOk
  <2>11. \A s : LastEvent(events'[c], w, s) => LastEvent(events[c], w, s)
    BY <1>1, <1>5, <1>14
  <2>12. \A s : ~LastSave(queue'[c], w, s)
    BY <1>8, <2>6, LastQueued
  <2>13. ClientOk(c, w)'
    BY <1>8, <1>12, <2>3, <2>4, <2>5, <2>6, <2>8, <2>10, <2>11, <2>12 DEF ClientOk
  <2>14. ASSUME NEW d \in Clients, d # c
         PROVE  ClientOk(d, w)'
    <3>1. ClientOk(d, w) /\ Kept(d, w)
      BY <1>16, <2>2, <2>14 DEF Uncrossed
    <3>2. Mine(d, w)' => /\ ~InEvents(d, w)'
                         /\ \A a \in Clients : Mine(a, w)' => a = d
                         /\ \A k \in calls' : k.w = w => k.from = d /\ k.by # "nobody"
      BY <1>8, <2>4, <3>1 DEF ClientOk, Kept
    <3> QED
      BY <1>8, <2>3, <2>4, <3>1, <3>2 DEF ClientOk, Kept
  <2> QED
    BY <2>1, <2>3, <2>13, <2>14 DEF Uncrossed
<1> QED
  BY <1>10, <1>11, <1>13, <1>18, <1>19

-----------------------------------------------------------------------------
(* Batches given up.                                                        *)

(* What of w is left at c when its first batch is: what was to be saved     *)
(* counts as not saved.                                                     *)
GivenUp(c, w) ==
    /\ \/ queued'[c][w] = queued[c][w]
       \/ queued'[c][w] = None /\ board[c][w] # None
    /\ InQueue(c, w)' => InQueue(c, w)
    /\ \A s : LastSave(queue'[c], w, s) => LastSave(queue[c], w, s)
    /\ InQueue(c, w) /\ ~InQueue(c, w)' => queued'[c][w] = None /\ board[c][w] # None

LEMMA GaveUp ==
    ASSUME Types, Queues, Saved, NEW c \in Clients, queue[c] # <<>>, GiveUp(c)
    PROVE  /\ queued' \in [Clients -> [Workspaces -> Snapshots]]
           /\ pending' \in [Clients -> [Workspaces -> Nat]]
           /\ queue' \in [Clients -> Seq(Seq(Ops))]
           /\ Saved' /\ QueueOk(queue'[c], pending'[c], changes)
           /\ \A d \in Clients \ {c} : /\ queued'[d] = queued[d] /\ pending'[d] = pending[d]
                                       /\ queue'[d] = queue[d]
           /\ \A w \in Workspaces \ Undeleted(c) : ClientOk(c, w) => GivenUp(c, w)
<1>1. PICK q : q = queue[c]
  OBVIOUS
<1>2. PICK p : p = pending[c]
  OBVIOUS
<1>3. PICK b : b = q[1]
  OBVIOUS
<1>4. PICK r : r = Tail(q)
  OBVIOUS
<1>5. PICK x : x = CountedOff(p, b)
  OBVIOUS
<1> DEFINE lost(w) == \E i \in DOMAIN b : b[i].w = w /\ b[i].snap = queued[c][w]
<1>6. PICK y : y = [w \in Workspaces |-> IF lost(w) THEN None ELSE queued[c][w]]
  OBVIOUS
<1>7. /\ q \in Seq(Seq(Ops)) /\ q # <<>> /\ p \in [Workspaces -> Nat] /\ QueueOk(q, p, changes)
      /\ changes \in Nat
  BY <1>1, <1>2 DEF Types, Queues
<1>8. /\ queued' = [queued EXCEPT ![c] = y] /\ pending' = [pending EXCEPT ![c] = x]
      /\ queue' = [queue EXCEPT ![c] = r] /\ board' = board
  <2>1. queued' = [queued EXCEPT ![c] = y]
    <3>1. queued' = [queued EXCEPT ![c] = [w \in Workspaces |->
             IF \E i \in DOMAIN b : b[i].w = w /\ b[i].snap = queued[c][w]
             THEN None ELSE queued[c][w]]]
      BY <1>1, <1>3 DEF GiveUp
    <3> QED
      BY <1>6, <3>1
  <2>2. pending' = [pending EXCEPT ![c] = x]
    BY <1>1, <1>2, <1>3, <1>5 DEF GiveUp, CountedOff
  <2>3. queue' = [queue EXCEPT ![c] = r] /\ board' = board
    BY <1>1, <1>4 DEF GiveUp
  <2> QED
    BY <2>1, <2>2, <2>3
<1>9. x \in [Workspaces -> Nat] /\ QueueOk(r, x, changes)
  BY <1>3, <1>4, <1>5, <1>7, GiveUpQueue
<1>10. r \in Seq(Seq(Ops)) /\ 1 \in DOMAIN q
  BY <1>4, <1>7, BatchGone
<1>11. y \in [Workspaces -> Snapshots]
  <2>1. None \in Snapshots
    BY DEF Snapshots
  <2>2. \A w \in Workspaces : queued[c][w] \in Snapshots
    BY DEF Types
  <2> QED
    BY <1>6, <2>1, <2>2
<1>12. /\ queued' \in [Clients -> [Workspaces -> Snapshots]]
       /\ pending' \in [Clients -> [Workspaces -> Nat]]
       /\ queue' \in [Clients -> Seq(Seq(Ops))]
  BY <1>8, <1>9, <1>10, <1>11 DEF Types
<1>13. queued'[c] = y /\ pending'[c] = x /\ queue'[c] = r
  BY <1>8 DEF Types
<1>14. \A d \in Clients \ {c} : /\ queued'[d] = queued[d] /\ pending'[d] = pending[d]
                                /\ queue'[d] = queue[d]
  BY <1>8 DEF Types
<1>15. \A w \in Workspaces : y[w] = queued[c][w] \/ y[w] = None
  BY <1>6
<1>16. Saved'
  BY <1>8, <1>13, <1>14, <1>15 DEF Saved
<1>17. ASSUME NEW w \in Workspaces \ Undeleted(c), ClientOk(c, w)
       PROVE  GivenUp(c, w)
  <2>1. \A i \in DOMAIN b : b[i].w = w => b[i].snap # None
    BY <1>1, <1>3 DEF Undeleted
  <2>2. /\ lost(w) => y[w] = None /\ board[c][w] # None
        /\ ~lost(w) => y[w] = queued[c][w]
    <3>1. ASSUME lost(w)
          PROVE  board[c][w] # None
      <4>1. queued[c][w] # None
        BY <2>1, <3>1
      <4>2. board[c][w] = queued[c][w]
        BY <4>1 DEF Saved
      <4> QED
        BY <4>1, <4>2
    <3> QED
      BY <1>6, <3>1
  <2>3. InQueue(c, w)' <=> Batches(r, w) # {}
    <3>1. InQueue(c, w)' <=> \E i \in DOMAIN r : \E j \in DOMAIN r[i] : r[i][j].w = w
      BY <1>13 DEF InQueue
    <3> QED
      BY <3>1 DEF Batches, Has
  <2>4. InQueue(c, w) <=> Batches(q, w) # {}
    BY <1>1, InQueueBatches
  <2>5. /\ \A s : LastSave(r, w, s) => LastSave(q, w, s)
        /\ Batches(r, w) = {} => \A j \in DOMAIN b : b[j].w = w => LastSave(q, w, b[j].snap)
    BY <1>3, <1>4, <1>7, GoneLast
  <2>6. /\ Cardinality(Batches(q, w)) \in Nat /\ Cardinality(Batches(r, w)) \in Nat
        /\ Cardinality(Batches(q, w)) = 0 <=> Batches(q, w) = {}
        /\ Cardinality(Batches(r, w)) = 0 <=> Batches(r, w) = {}
    BY <1>7, <1>10, BatchesFinite
  <2>7. /\ Has(b, w) => Cardinality(Batches(r, w)) = Cardinality(Batches(q, w)) - 1
        /\ ~Has(b, w) => Cardinality(Batches(r, w)) = Cardinality(Batches(q, w))
    BY <1>3, <1>4, <1>7, GoneCounted
  <2>8. InQueue(c, w)' => InQueue(c, w)
    BY <2>3, <2>4, <2>6, <2>7
  <2>9. ASSUME InQueue(c, w), ~InQueue(c, w)'
        PROVE  y[w] = None /\ board[c][w] # None
    <3>1. Has(b, w)
      BY <2>3, <2>4, <2>6, <2>7, <2>9
    <3>2. PICK j \in DOMAIN b : b[j].w = w
      BY <3>1 DEF Has
    <3>3. LastSave(q, w, b[j].snap)
      BY <2>3, <2>5, <2>9, <3>2
    <3>4. CASE lost(w)
      BY <2>2, <3>4
    <3>5. CASE ~lost(w)
      <4>1. b[j].snap # queued[c][w] /\ y[w] = queued[c][w]
        BY <2>2, <3>2, <3>5
      <4>2. board[c][w] # queued[c][w]
        BY <1>1, <1>17, <3>3, <4>1 DEF ClientOk
      <4>3. queued[c][w] = None
        BY <4>2 DEF Saved
      <4> QED
        BY <4>1, <4>2, <4>3
    <3> QED
      BY <3>4, <3>5
  <2>10. \/ y[w] = queued[c][w]
         \/ y[w] = None /\ board[c][w] # None
    BY <2>2
  <2> HIDE DEF lost
  <2> QED
    BY <1>1, <1>13, <2>5, <2>8, <2>9, <2>10 DEF GivenUp
<1> QED
  BY <1>9, <1>12, <1>13, <1>14, <1>16, <1>17

(* A board at which nothing else happens is as it should be after that.     *)
LEMMA UncrossedGivenUp ==
    ASSUME NEW c \in Clients, NEW w, Uncrossed(w), GivenUp(c, w),
           KeptCalls(w), db'[w] = db[w],
           board'[c][w] = board[c][w], known'[c][w] = known[c][w],
           InEvents(c, w)' <=> InEvents(c, w),
           \A s : LastEvent(events'[c], w, s) => LastEvent(events[c], w, s),
           Imports(c, w)' <=> Imports(c, w),
           \A d \in Clients \ {c} : Kept(d, w)
    PROVE  Uncrossed(w)'
<1>1. CallsOk(w)' /\ (Landing(w)' <=> Landing(w))
  BY CallsKept DEF Uncrossed
<1>2. Mine(c, w)' => Mine(c, w)
  BY DEF Mine, GivenUp
<1>3. \A d \in Clients : Mine(d, w)' => Mine(d, w)
  BY <1>2 DEF Kept, Mine
<1>4. ASSUME NEW d \in Clients, d # c
      PROVE  ClientOk(d, w)'
  <2>1. ClientOk(d, w) /\ Kept(d, w)
    BY <1>4 DEF Uncrossed
  <2>2. Mine(d, w)' <=> Mine(d, w)
    BY <2>1 DEF Kept, Mine
  <2>3. Mine(d, w)' => /\ ~InEvents(d, w)'
                       /\ \A e \in Clients : Mine(e, w)' => e = d
                       /\ \A k \in calls' : k.w = w => k.from = d /\ k.by # "nobody"
    BY <1>3, <2>1, <2>2 DEF ClientOk, Kept, KeptCalls
  <2> QED
    BY <1>1, <2>1, <2>2, <2>3 DEF ClientOk, Kept
<1>5. ClientOk(c, w)'
  <2>1. ClientOk(c, w)
    BY DEF Uncrossed
  <2>2. ~Landing(w)' => \A s : LastEvent(events'[c], w, s) => s = db'[w]
    BY <1>1, <2>1 DEF ClientOk
  <2>3. ~InEvents(c, w)' /\ ~Mine(c, w)' /\ ~Landing(w)' /\ board'[c][w] = queued'[c][w] =>
          board'[c][w] = db'[w]
    BY <1>1, <2>1 DEF ClientOk, GivenUp, Mine
  <2>4. Mine(c, w)' => /\ ~InEvents(c, w)'
                       /\ \A d \in Clients : Mine(d, w)' => d = c
                       /\ \A k \in calls' : k.w = w => k.from = c /\ k.by # "nobody"
    BY <1>2, <1>3, <2>1 DEF ClientOk, KeptCalls
  <2>5. InQueue(c, w)' => ~Imports(c, w)'
    BY <2>1 DEF ClientOk, GivenUp
  <2>6. board'[c][w] = queued'[c][w] => \A s : LastSave(queue'[c], w, s) => s = board'[c][w]
    BY <2>1 DEF ClientOk, GivenUp
  <2>7. ~InEvents(c, w)' /\ ~Mine(c, w)' /\ queued'[c][w] # None => queued'[c][w] = known'[c][w]
    BY <2>1 DEF ClientOk, GivenUp, Mine
  <2> QED
    BY <2>2, <2>3, <2>4, <2>5, <2>6, <2>7 DEF ClientOk
<1> QED
  BY <1>1, <1>4, <1>5 DEF Uncrossed

LEMMA RefuseStep ==
    ASSUME IInv, NEW c \in Clients, Refuse(c)
    PROVE  IInv'
<1> USE DEF IInv
<1>1. queue[c] # <<>> /\ Asked(c, "queue") = {} /\ GiveUp(c)
  BY DEF Refuse
<1>2. /\ queued' \in [Clients -> [Workspaces -> Snapshots]]
      /\ pending' \in [Clients -> [Workspaces -> Nat]]
      /\ queue' \in [Clients -> Seq(Seq(Ops))]
      /\ Saved' /\ QueueOk(queue'[c], pending'[c], changes)
      /\ \A d \in Clients \ {c} : /\ queued'[d] = queued[d] /\ pending'[d] = pending[d]
                                  /\ queue'[d] = queue[d]
      /\ \A w \in Workspaces \ Undeleted(c) : ClientOk(c, w) => GivenUp(c, w)
  BY <1>1, GaveUp
<1>3. /\ UNCHANGED <<db, board, watching, calls, events, known, created, removed, changes>>
      /\ upsets' = upsets + 1
  BY DEF Refuse, Upset, GiveUp
<1>4. crossed' = crossed \cup Undeleted(c) /\ clashed' \in BOOLEAN
  BY DEF Refuse, Crossing, Types
<1>5. PICK i : i = Nearer(c)
  OBVIOUS
<1>6. /\ importing' = [importing EXCEPT ![c] = i] /\ i \in ImportStates
      /\ i.step = importing[c].step
  BY <1>5, NearerImport DEF Refuse
<1>7. Types'
  <2>1. importing' \in [Clients -> ImportStates]
    BY <1>6 DEF Types
  <2>2. crossed' \subseteq Workspaces /\ upsets' \in Nat
    BY <1>3, <1>4 DEF Types, Undeleted
  <2> QED
    BY <1>2, <1>3, <1>4, <2>1, <2>2 DEF Types
<1>8. Queues'
  BY <1>2, <1>3 DEF Queues
<1>9. importing'[c] = i /\ \A d \in Clients \ {c} : importing'[d] = importing[d]
  BY <1>6 DEF Types
<1>10. \A d \in Clients : \A w : Imports(d, w)' <=> Imports(d, w)
  <2> TAKE d \in Clients
  <2> TAKE w
  <2>2. CASE d = c
    BY <1>5, <1>9, <2>2, ImportsKept
  <2>3. CASE d # c
    BY <1>9, <2>3 DEF Imports
  <2> QED
    BY <2>2, <2>3
<1>11. Shape'
  <2>1. ASSUME NEW k \in calls
        PROVE  CallShape(k)'
    <3>1. CallShape(k)
      BY DEF Shape
    <3>2. k.by = "queue" => k.from # c
      BY <1>1 DEF Asked
    <3>3. k.by = "queue" => queue'[k.from] = queue[k.from]
      BY <1>2, <3>1, <3>2 DEF CallShape
    <3>4. k.by = "import" => k.from \in Clients /\ Imports(k.from, k.w)'
      BY <1>10, <3>1 DEF CallShape
    <3> QED
      BY <1>4, <3>1, <3>3, <3>4 DEF CallShape
  <2>2. \A d \in Clients : importing'[d].step = importing[d].step
    BY <1>6, <1>9
  <2> QED
    BY <1>3, <2>1, <2>2 DEF Shape
<1>12. ASSUME NEW w \in Workspaces \ crossed'
       PROVE  Uncrossed(w)'
  <2>1. Uncrossed(w) /\ w \notin Undeleted(c)
    BY <1>4
  <2>2. GivenUp(c, w)
    BY <1>2, <2>1 DEF Uncrossed
  <2>3. \A d \in Clients \ {c} : Kept(d, w)
    BY <1>2, <1>3, <1>9, ClientKept DEF KeptClient
  <2>4. KeptCalls(w)
    BY <1>3 DEF KeptCalls
  <2>5. InEvents(c, w)' <=> InEvents(c, w)
    BY <1>3 DEF InEvents
  <2> QED
    BY <1>3, <1>10, <2>1, <2>2, <2>3, <2>4, <2>5, UncrossedGivenUp
<1> QED
  BY <1>2, <1>7, <1>8, <1>11, <1>12

-----------------------------------------------------------------------------
(* Calls nobody waits for any more.                                         *)

(* What the calls are once those of c have lost who waits for them.         *)
Forsaken(c, from) ==
    /\ calls' \subseteq Calls
    /\ \A k \in calls : k.from # c => k \in calls'
    /\ \A k \in calls' :
         \/ k \in calls /\ k.from # c
         \/ /\ k.from = from /\ k.by = "nobody" /\ k.step # "done"
            /\ \/ \E j \in calls : /\ j.from = c /\ j.w = k.w /\ j.snap = k.snap
                                   /\ j.step = k.step
               \/ /\ queue[c] # <<>> /\ Asked(c, "queue") = {} /\ k.step = "sent"
                  /\ k.w = queue[c][1][1].w /\ k.snap = queue[c][1][1].snap
    /\ \A j \in calls : j.from = c /\ j.step = "written" =>
         \E k \in calls' : k.w = j.w /\ k.step = "written"

LEMMA CallsForsaken ==
    ASSUME Types, Queues, NEW c \in Clients, NEW from \in Clients \cup {None}, Abandoned(c, from)
    PROVE  Forsaken(c, from)
<1> DEFINE left(k) == [k EXCEPT !.from = from, !.by = "nobody"]
<1>1. PICK L : L = {left(k) : k \in {j \in calls : j.from = c /\ j.step # "done"}}
  OBVIOUS
<1>2. PICK o : o = queue[c][1][1]
  OBVIOUS
<1>3. PICK n : n = [from |-> from, by |-> "nobody", w |-> o.w, snap |-> o.snap, step |-> "sent"]
  OBVIOUS
<1>4. PICK s : /\ s = {} \/ (s = {n} /\ queue[c] # <<>> /\ Asked(c, "queue") = {})
               /\ calls' = {j \in calls : j.from # c} \cup L \cup s
  BY <1>1, <1>2, <1>3 DEF Abandoned
<1>5. ASSUME NEW j \in calls, j.from = c, j.step # "done"
      PROVE  /\ left(j) \in Calls /\ left(j).from = from /\ left(j).by = "nobody"
             /\ left(j).w = j.w /\ left(j).snap = j.snap /\ left(j).step = j.step
  <2>1. j \in Calls
    BY DEF Types
  <2>2. PICK k : k = left(j)
    OBVIOUS
  <2>3. /\ k \in Calls /\ k.from = from /\ k.by = "nobody"
        /\ k.w = j.w /\ k.snap = j.snap /\ k.step = j.step
    BY <2>1, <2>2 DEF Calls
  <2> QED
    BY <2>2, <2>3
<1>6. ASSUME queue[c] # <<>>
      PROVE  n \in Calls
  <2>1. o.w \in Workspaces /\ o.snap \in Snapshots
    BY <1>2, <1>6, FirstOp
  <2> QED
    BY <1>3, <2>1 DEF Calls
<1>7. n.from = from /\ n.by = "nobody" /\ n.w = o.w /\ n.snap = o.snap /\ n.step = "sent"
  BY <1>3
<1> HIDE DEF left
<1>8. \A k \in L : \E j \in calls : j.from = c /\ j.step # "done" /\ k = left(j)
  BY <1>1
<1>9. calls' \subseteq Calls
  <2>1. L \subseteq Calls
    BY <1>5, <1>8
  <2>2. s \subseteq Calls
    BY <1>4, <1>6
  <2> QED
    BY <1>4, <2>1, <2>2 DEF Types
<1>10. \A k \in calls : k.from # c => k \in calls'
  BY <1>4
<1>11. ASSUME NEW k \in calls', ~(k \in calls /\ k.from # c)
       PROVE  /\ k.from = from /\ k.by = "nobody" /\ k.step # "done"
              /\ \/ \E j \in calls : /\ j.from = c /\ j.w = k.w /\ j.snap = k.snap
                                     /\ j.step = k.step
                 \/ /\ queue[c] # <<>> /\ Asked(c, "queue") = {} /\ k.step = "sent"
                    /\ k.w = queue[c][1][1].w /\ k.snap = queue[c][1][1].snap
  <2>1. CASE k \in L
    <3>1. PICK j \in calls : j.from = c /\ j.step # "done" /\ k = left(j)
      BY <1>8, <2>1
    <3>2. /\ k.from = from /\ k.by = "nobody"
          /\ k.w = j.w /\ k.snap = j.snap /\ k.step = j.step
      BY <1>5, <3>1
    <3> QED
      BY <3>1, <3>2
  <2>2. CASE k \in s
    BY <1>2, <1>4, <1>7, <2>2
  <2> QED
    BY <1>4, <1>11, <2>1, <2>2
<1>12. ASSUME NEW j \in calls, j.from = c, j.step = "written"
       PROVE  \E k \in calls' : k.w = j.w /\ k.step = "written"
  <2>1. left(j) \in calls'
    BY <1>1, <1>4, <1>12
  <2> QED
    BY <1>5, <1>12, <2>1
<1> QED
  BY <1>9, <1>10, <1>11, <1>12 DEF Forsaken

(* A connection that breaks: what is not crossed for it had nothing on its  *)
(* way for the client, but batches that are now behind the first one.       *)
LEMMA DropStep ==
    ASSUME IInv, NEW c \in Clients, Drop(c)
    PROVE  IInv'
<1> USE DEF IInv
<1>1. PICK gone : gone = IF queue[c] = <<>> THEN {} ELSE {queue[c][1][1].w} \cup Undeleted(c)
  OBVIOUS
<1>2. crossed' = crossed \cup Missed(c) \cup gone /\ clashed' \in BOOLEAN
  BY <1>1 DEF Drop, Crossing, Types
<1>3. gone \subseteq Workspaces /\ Missed(c) \subseteq Workspaces
  BY <1>1, FirstOp DEF Undeleted, Missed
<1>4. /\ events' = [events EXCEPT ![c] = <<>>]
      /\ UNCHANGED <<db, known, created, removed, changes>> /\ upsets' = upsets + 1
  BY DEF Drop, Upset
<1>5. /\ queue[c] = <<>> => UNCHANGED <<board, queued, pending, queue, watching>>
      /\ queue[c] # <<>> => GiveUp(c)
  BY DEF Drop
<1>6. UNCHANGED <<board, watching>>
  BY <1>5 DEF GiveUp
<1>7. Forsaken(c, c)
  BY CallsForsaken DEF Drop
<1>8. /\ queued' \in [Clients -> [Workspaces -> Snapshots]]
      /\ pending' \in [Clients -> [Workspaces -> Nat]]
      /\ queue' \in [Clients -> Seq(Seq(Ops))]
      /\ Saved' /\ QueueOk(queue'[c], pending'[c], changes)
      /\ \A d \in Clients \ {c} : /\ queued'[d] = queued[d] /\ pending'[d] = pending[d]
                                  /\ queue'[d] = queue[d]
      /\ \A w \in Workspaces \ gone : ClientOk(c, w) => GivenUp(c, w)
  <2>1. CASE queue[c] # <<>>
    <3>1. GiveUp(c) /\ Undeleted(c) \subseteq gone
      BY <1>1, <1>5, <2>1
    <3> QED
      BY <2>1, <3>1, GaveUp
  <2>2. CASE queue[c] = <<>>
    <3>1. UNCHANGED <<board, queued, pending, queue>>
      BY <1>5, <2>2
    <3>2. \A w : GivenUp(c, w)
      BY <3>1 DEF GivenUp, InQueue
    <3> QED
      BY <3>1, <3>2 DEF Types, Saved, Queues
  <2> QED
    BY <2>1, <2>2
<1>9. PICK i : i = IF importing[c].step = "saving" THEN NoImport ELSE Nearer(c)
  OBVIOUS
<1>10. i \in ImportStates /\ i.step # "saving" /\ importing' = [importing EXCEPT ![c] = i]
  <2>1. NoImport \in ImportStates /\ NoImport.step # "saving"
    BY DEF ImportStates, NoImport
  <2>2. Nearer(c) \in ImportStates /\ Nearer(c).step = importing[c].step
    BY NearerImport
  <2>3. i \in ImportStates /\ i.step # "saving"
    BY <1>9, <2>1, <2>2
  <2>4. importing' = [importing EXCEPT ![c] = i]
    BY <1>9 DEF Drop
  <2> QED
    BY <2>3, <2>4
<1>11. /\ importing'[c].step # "saving" /\ events'[c] = <<>>
       /\ \A d \in Clients \ {c} : importing'[d] = importing[d] /\ events'[d] = events[d]
  BY <1>4, <1>10 DEF Types
<1>12. Types'
  <2>1. importing' \in [Clients -> ImportStates]
    BY <1>10 DEF Types
  <2>2. crossed' \subseteq Workspaces /\ upsets' \in Nat
    BY <1>2, <1>3, <1>4 DEF Types
  <2>3. events' \in [Clients -> Seq(Ops)]
    BY <1>4 DEF Types
  <2>4. calls' \subseteq Calls
    BY <1>7 DEF Forsaken
  <2> QED
    BY <1>2, <1>4, <1>6, <1>8, <2>1, <2>2, <2>3, <2>4 DEF Types
<1>13. Queues'
  BY <1>4, <1>8 DEF Queues
<1>14. (\A w : ~Imports(c, w)') /\ \A d \in Clients \ {c} : \A w : Imports(d, w)' <=> Imports(d, w)
  BY <1>11 DEF Imports
<1>15. Shape'
  <2>1. ASSUME NEW k \in calls, k.from # c
        PROVE  CallShape(k)'
    <3>1. CallShape(k)
      BY DEF Shape
    <3>2. k.by = "queue" => queue'[k.from] = queue[k.from]
      BY <1>8, <2>1, <3>1 DEF CallShape
    <3>3. k.by = "import" => k.from \in Clients /\ Imports(k.from, k.w)'
      BY <1>14, <2>1, <3>1 DEF CallShape
    <3> QED
      BY <1>2, <3>1, <3>2, <3>3 DEF CallShape
  <2>2. ASSUME NEW k \in calls', ~(k \in calls /\ k.from # c)
        PROVE  k.by = "nobody" /\ CallShape(k)'
    <3>1. /\ k.from = c /\ k.by = "nobody" /\ k.step # "done"
          /\ \/ \E j \in calls : j.from = c /\ j.w = k.w
             \/ queue[c] # <<>> /\ k.w = queue[c][1][1].w
      BY <1>7, <2>2 DEF Forsaken
    <3>2. k.w \in Missed(c) \cup gone
      <4>1. CASE \E j \in calls : j.from = c /\ j.w = k.w
        <5>1. k.w \in Workspaces
          BY <4>1, CallIsMine
        <5> QED
          BY <4>1, <5>1 DEF Missed
      <4>2. CASE queue[c] # <<>> /\ k.w = queue[c][1][1].w
        BY <1>1, <4>2
      <4> QED
        BY <3>1, <4>1, <4>2
    <3> QED
      BY <1>2, <3>1, <3>2 DEF CallShape
  <2>3. \A j, k \in calls' : j.from = k.from /\ j.by = k.by /\ j.by # "nobody" => j = k
    BY <2>2 DEF Shape
  <2>4. \A d \in Clients : importing'[d].step = "saving" =>
           \E k \in calls' : k.from = d /\ k.by = "import"
    <3>1. TAKE d \in Clients
    <3>2. HAVE importing'[d].step = "saving"
    <3>3. d # c /\ importing[d].step = "saving"
      BY <1>11, <3>2
    <3>4. PICK k \in calls : k.from = d /\ k.by = "import"
      BY <3>3 DEF Shape
    <3> QED
      BY <1>7, <3>3, <3>4 DEF Forsaken
  <2> QED
    BY <2>1, <2>2, <2>3, <2>4 DEF Shape
<1>16. ASSUME NEW w \in Workspaces \ crossed'
       PROVE  Uncrossed(w)'
  <2>1. Uncrossed(w) /\ w \notin Missed(c) /\ w \notin gone
    BY <1>2
  <2>2. ~InEvents(c, w) /\ \A k \in calls : k.w = w => k.from # c
    BY <2>1 DEF Missed
  <2>3. ~Imports(c, w)
    BY <2>2, ImportCall
  <2>4. GivenUp(c, w)
    BY <1>8, <2>1 DEF Uncrossed
  <2>5. \A d \in Clients \ {c} : Kept(d, w)
    BY <1>4, <1>6, <1>8, <1>11, ClientKept DEF KeptClient
  <2>6. KeptCalls(w)
    <3>1. ASSUME NEW k \in calls', k.w = w
          PROVE  k \in calls
      <4>1. \A j \in calls : ~(j.from = c /\ j.w = w)
        BY <2>2
      <4>2. ~(queue[c] # <<>> /\ w = queue[c][1][1].w)
        BY <1>1, <2>1
      <4> QED
        BY <1>7, <3>1, <4>1, <4>2 DEF Forsaken
    <3>2. ASSUME NEW k \in calls, k.w = w
          PROVE  k \in calls'
      BY <1>7, <2>2, <3>2 DEF Forsaken
    <3> QED
      BY <3>1, <3>2 DEF KeptCalls
  <2>7. ~InEvents(c, w)' /\ \A s : ~LastEvent(events'[c], w, s)
    BY <1>11 DEF InEvents, LastEvent
  <2> QED
    BY <1>4, <1>6, <1>14, <2>1, <2>2, <2>3, <2>4, <2>5, <2>6, <2>7, UncrossedGivenUp
<1> QED
  BY <1>8, <1>12, <1>13, <1>15, <1>16

(* A page that is loaded again has what the database has, and the calls of  *)
(* the one before it are left to themselves.                                *)
LEMMA ReloadStep ==
    ASSUME IInv, NEW c \in Clients, Reload(c)
    PROVE  IInv'
<1> USE DEF IInv
<1>1. PICK p : p = [w \in Workspaces |-> 0]
  OBVIOUS
<1>2. PICK i : i = NoImport
  OBVIOUS
<1>3. /\ board' = [board EXCEPT ![c] = db] /\ queued' = [queued EXCEPT ![c] = db]
      /\ known' = [known EXCEPT ![c] = db] /\ pending' = [pending EXCEPT ![c] = p]
      /\ queue' = [queue EXCEPT ![c] = <<>>] /\ importing' = [importing EXCEPT ![c] = i]
      /\ watching' = [watching EXCEPT ![c] = FALSE] /\ events' = [events EXCEPT ![c] = <<>>]
      /\ UNCHANGED <<db, created, removed, crossed, clashed, changes>> /\ upsets' = upsets + 1
  BY <1>1, <1>2 DEF Reload, Upset
<1>4. Forsaken(c, None)
  BY CallsForsaken DEF Reload
<1>5. i \in ImportStates /\ i.step = "none"
  BY <1>2 DEF ImportStates, NoImport
<1>6. /\ board'[c] = db /\ queued'[c] = db /\ known'[c] = db /\ pending'[c] = p
      /\ queue'[c] = <<>> /\ importing'[c] = i /\ events'[c] = <<>>
  BY <1>3 DEF Types
<1>7. \A d \in Clients \ {c} : KeptClient(d) /\ pending'[d] = pending[d]
  BY <1>3 DEF Types, KeptClient
<1>8. Types'
  <2>1. /\ board' \in [Clients -> [Workspaces -> Snapshots]]
        /\ queued' \in [Clients -> [Workspaces -> Snapshots]]
        /\ known' \in [Clients -> [Workspaces -> Snapshots]]
    BY <1>3 DEF Types
  <2>2. pending' \in [Clients -> [Workspaces -> Nat]]
    <3>1. p \in [Workspaces -> Nat]
      BY <1>1
    <3> QED
      BY <1>3, <3>1 DEF Types
  <2>3. queue' \in [Clients -> Seq(Seq(Ops))] /\ events' \in [Clients -> Seq(Ops)]
    BY <1>3 DEF Types
  <2>4. importing' \in [Clients -> ImportStates] /\ watching' \in [Clients -> BOOLEAN]
    BY <1>3, <1>5 DEF Types
  <2>5. calls' \subseteq Calls
    BY <1>4 DEF Forsaken
  <2> QED
    BY <1>3, <2>1, <2>2, <2>3, <2>4, <2>5 DEF Types
<1>9. \A w : Batches(queue'[c], w) = {} /\ ~InQueue(c, w)' /\ ~InEvents(c, w)' /\ ~Imports(c, w)'
  BY <1>5, <1>6 DEF Batches, InQueue, InEvents, Imports
<1>10. Queues'
  <2>1. QueueOk(queue'[c], pending'[c], changes')
    <3>1. \A w \in Workspaces : p[w] = Cardinality(Batches(queue'[c], w))
      BY <1>1, <1>9, FS_EmptySet
    <3>2. Len(queue'[c]) <= changes'
      BY <1>3, <1>6 DEF Types
    <3> QED
      BY <1>6, <3>1, <3>2 DEF QueueOk
  <2> QED
    BY <1>3, <1>7, <2>1 DEF Queues, KeptClient
<1>11. Saved'
  BY <1>6, <1>7 DEF Saved, KeptClient
<1>12. \A d \in Clients \ {c} : \A w : Kept(d, w)
  BY <1>7, ClientKept
<1>13. ASSUME NEW k \in calls', ~(k \in calls /\ k.from # c)
       PROVE  /\ k \in Calls /\ k.from = None /\ k.by = "nobody" /\ k.step # "done"
              /\ \/ \E j \in calls : /\ j.from = c /\ j.w = k.w /\ j.snap = k.snap
                                     /\ j.step = k.step
                 \/ /\ queue[c] # <<>> /\ Asked(c, "queue") = {} /\ k.step = "sent"
                    /\ k.w = queue[c][1][1].w /\ k.snap = queue[c][1][1].snap
  BY <1>4, <1>13 DEF Forsaken
<1>14. Shape'
  <2>1. ASSUME NEW k \in calls, k.from # c
        PROVE  CallShape(k)'
    <3>1. CallShape(k)
      BY DEF Shape
    <3>2. k.by = "queue" => queue'[k.from] = queue[k.from]
      BY <1>7, <2>1, <3>1 DEF CallShape, KeptClient
    <3>3. k.by = "import" => k.from \in Clients /\ Imports(k.from, k.w)'
      BY <1>12, <2>1, <3>1 DEF CallShape, Kept
    <3> QED
      BY <1>3, <3>1, <3>2, <3>3 DEF CallShape
  <2>2. ASSUME NEW k \in calls', ~(k \in calls /\ k.from # c)
        PROVE  k.by = "nobody" /\ CallShape(k)'
    <3>1. k.from = None /\ k.by = "nobody" /\ k.step # "done"
      BY <1>13, <2>2
    <3> QED
      BY <3>1 DEF CallShape
  <2>3. \A j, k \in calls' : j.from = k.from /\ j.by = k.by /\ j.by # "nobody" => j = k
    BY <2>2 DEF Shape
  <2>4. \A d \in Clients : importing'[d].step = "saving" =>
           \E k \in calls' : k.from = d /\ k.by = "import"
    <3>1. TAKE d \in Clients
    <3>2. HAVE importing'[d].step = "saving"
    <3>3. d # c /\ importing[d].step = "saving"
      BY <1>5, <1>6, <1>7, <3>2 DEF KeptClient
    <3>4. PICK k \in calls : k.from = d /\ k.by = "import"
      BY <3>3 DEF Shape
    <3> QED
      BY <1>4, <3>3, <3>4 DEF Forsaken
  <2> QED
    BY <2>1, <2>2, <2>3, <2>4 DEF Shape
<1>15. ASSUME NEW w \in Workspaces \ crossed'
       PROVE  Uncrossed(w)'
  <2>1. Uncrossed(w) /\ db' = db
    BY <1>3
  <2>2. ASSUME queue[c] # <<>>, Asked(c, "queue") = {}, w = queue[c][1][1].w,
               NEW j \in calls, j.w = w
        PROVE  FALSE
    <3>1. InQueue(c, w) /\ Mine(c, w)
      BY <2>2, FirstOp DEF Mine
    <3>2. j.from = c /\ j.by # "nobody" /\ ~Imports(c, w)
      BY <2>1, <2>2, <3>1 DEF Uncrossed, ClientOk
    <3>3. j.by # "queue"
      BY <2>2, <3>2 DEF Asked
    <3> QED
      BY <2>2, <3>2, <3>3, CallIsMine
  <2>3. ASSUME NEW j \in calls', NEW k \in calls', j.w = w, k.w = w
        PROVE  j = k
    <3>1. CASE (j \in calls /\ j.from # c) /\ (k \in calls /\ k.from # c)
      BY <2>1, <2>3, <3>1 DEF Uncrossed, CallsOk
    <3>2. CASE (j \in calls /\ j.from # c) /\ ~(k \in calls /\ k.from # c)
      <4>1. CASE \E a \in calls : a.from = c /\ a.w = w
        BY <2>1, <2>3, <3>2, <4>1 DEF Uncrossed, CallsOk
      <4>2. CASE queue[c] # <<>> /\ Asked(c, "queue") = {} /\ w = queue[c][1][1].w
        BY <2>2, <2>3, <3>2, <4>2
      <4> QED
        BY <1>13, <2>3, <3>2, <4>1, <4>2
    <3>3. CASE ~(j \in calls /\ j.from # c) /\ (k \in calls /\ k.from # c)
      <4>1. CASE \E a \in calls : a.from = c /\ a.w = w
        BY <2>1, <2>3, <3>3, <4>1 DEF Uncrossed, CallsOk
      <4>2. CASE queue[c] # <<>> /\ Asked(c, "queue") = {} /\ w = queue[c][1][1].w
        BY <2>2, <2>3, <3>3, <4>2
      <4> QED
        BY <1>13, <2>3, <3>3, <4>1, <4>2
    <3>4. CASE ~(j \in calls /\ j.from # c) /\ ~(k \in calls /\ k.from # c)
      <4>1. j \in Calls /\ k \in Calls /\ j.from = k.from /\ j.by = k.by
        BY <1>13, <3>4
      <4>2. j.snap = k.snap /\ j.step = k.step
        <5>1. CASE \E a \in calls : a.from = c /\ a.w = w
          <6>1. PICK a \in calls : a.from = c /\ a.w = w
            BY <5>1
          <6>2. ~(queue[c] # <<>> /\ Asked(c, "queue") = {} /\ w = queue[c][1][1].w)
            BY <2>2, <6>1
          <6>3. \A b \in calls : b.w = w => b = a
            BY <2>1, <6>1 DEF Uncrossed, CallsOk
          <6>4. j.snap = a.snap /\ j.step = a.step
            BY <1>13, <2>3, <3>4, <6>2, <6>3
          <6>5. k.snap = a.snap /\ k.step = a.step
            BY <1>13, <2>3, <3>4, <6>2, <6>3
          <6> QED
            BY <6>4, <6>5
        <5>2. CASE ~\E a \in calls : a.from = c /\ a.w = w
          <6>1. j.snap = queue[c][1][1].snap /\ j.step = "sent"
            BY <1>13, <2>3, <3>4, <5>2
          <6>2. k.snap = queue[c][1][1].snap /\ k.step = "sent"
            BY <1>13, <2>3, <3>4, <5>2
          <6> QED
            BY <6>1, <6>2
        <5> QED
          BY <5>1, <5>2
      <4> QED
        BY <2>3, <4>1, <4>2 DEF Calls
    <3> QED
      BY <3>1, <3>2, <3>3, <3>4
  <2>4. ASSUME NEW k \in calls', k.w = w, k.step # "sent"
        PROVE  \E j \in calls : j.w = w /\ j.snap = k.snap /\ j.step = k.step
    <3>1. CASE k \in calls
      BY <2>4, <3>1
    <3>2. CASE k \notin calls
      BY <1>13, <2>4, <3>2
    <3> QED
      BY <3>1, <3>2
  <2>5. CallsOk(w)'
    BY <2>1, <2>3, <2>4 DEF Uncrossed, CallsOk
  <2>6. Landing(w)' <=> Landing(w)
    <3>1. Landing(w)' => Landing(w)
      BY <2>4 DEF Landing
    <3>2. ASSUME NEW j \in calls, j.w = w, j.step = "written"
          PROVE  \E k \in calls' : k.w = w /\ k.step = "written"
      <4>1. CASE j.from = c
        BY <1>4, <3>2, <4>1 DEF Forsaken
      <4>2. CASE j.from # c
        BY <1>4, <3>2, <4>2 DEF Forsaken
      <4> QED
        BY <4>1, <4>2
    <3> QED
      BY <3>1, <3>2 DEF Landing
  <2>7. ClientOk(c, w)'
    <3>1. ~Mine(c, w)' /\ (\A s : ~LastSave(queue'[c], w, s))
      BY <1>9 DEF Mine, LastSave
    <3>2. \A s : ~LastEvent(events'[c], w, s)
      BY <1>6 DEF LastEvent
    <3> QED
      BY <1>6, <1>9, <2>1, <3>1, <3>2 DEF ClientOk
  <2>8. ASSUME NEW d \in Clients, d # c
        PROVE  ClientOk(d, w)'
    <3>1. ClientOk(d, w) /\ Kept(d, w)
      BY <1>12, <2>1, <2>8 DEF Uncrossed
    <3>2. Mine(d, w)' <=> Mine(d, w)
      BY <3>1 DEF Kept, Mine
    <3>3. \A e \in Clients : Mine(e, w)' => Mine(e, w)
      BY <1>9, <1>12 DEF Kept, Mine
    <3>4. ASSUME Mine(d, w), NEW k \in calls', k.w = w
          PROVE  k.from = d /\ k.by # "nobody"
      <4>1. /\ \A j \in calls : j.w = w => j.from = d /\ j.by # "nobody"
            /\ ~Mine(c, w)
        BY <2>8, <3>1, <3>4 DEF ClientOk
      <4>2. ~(queue[c] # <<>> /\ w = queue[c][1][1].w)
        BY <4>1, FirstOp DEF Mine
      <4>3. ~\E j \in calls : j.from = c /\ j.w = w
        BY <2>8, <4>1
      <4>4. k \in calls
        BY <1>13, <3>4, <4>2, <4>3
      <4> QED
        BY <3>4, <4>1, <4>4
    <3>5. Mine(d, w)' => /\ ~InEvents(d, w)'
                         /\ \A e \in Clients : Mine(e, w)' => e = d
                         /\ \A k \in calls' : k.w = w => k.from = d /\ k.by # "nobody"
      BY <3>1, <3>2, <3>3, <3>4 DEF ClientOk, Kept
    <3> QED
      BY <2>1, <2>6, <3>1, <3>2, <3>5 DEF ClientOk, Kept
  <2> QED
    BY <2>5, <2>7, <2>8 DEF Uncrossed
<1> QED
  BY <1>8, <1>10, <1>11, <1>14, <1>15

-----------------------------------------------------------------------------
(* Changes of boards.                                                       *)

(* What of w is on its way from c once the client has persisted items.      *)
Persisted(c, w, items) ==
    /\ items[w] # queued[c][w] =>
         InQueue(c, w)' /\ \A s : LastSave(queue'[c], w, s) => s = items[w]
    /\ items[w] = queued[c][w] =>
         /\ InQueue(c, w)' <=> InQueue(c, w)
         /\ \A s : LastSave(queue'[c], w, s) => LastSave(queue[c], w, s)

LEMMA HasPersisted ==
    ASSUME Types, Queues, NEW c \in Clients, NEW items \in [Workspaces -> Snapshots],
           Persist(c, items)
    PROVE  /\ board' = [board EXCEPT ![c] = items] /\ queued' = [queued EXCEPT ![c] = items]
           /\ pending' \in [Clients -> [Workspaces -> Nat]]
           /\ queue' \in [Clients -> Seq(Seq(Ops))]
           /\ QueueOk(queue'[c], pending'[c], changes + 1)
           /\ \A d \in Clients \ {c} : pending'[d] = pending[d] /\ queue'[d] = queue[d]
           /\ queue[c] # <<>> => queue'[c] # <<>> /\ queue'[c][1] = queue[c][1]
           /\ \A w \in Workspaces : Persisted(c, w, items)
<1>1. PICK q : q = queue[c]
  OBVIOUS
<1>2. PICK p : p = pending[c]
  OBVIOUS
<1>3. PICK b : b = Batch(c, items)
  OBVIOUS
<1>4. PICK x : x = CountedIn(p, b)
  OBVIOUS
<1>5. PICK r : r = IF b = <<>> THEN q ELSE Append(q, b)
  OBVIOUS
<1>6. /\ q \in Seq(Seq(Ops)) /\ p \in [Workspaces -> Nat] /\ QueueOk(q, p, changes)
      /\ changes \in Nat
  BY <1>1, <1>2 DEF Types, Queues
<1>7. /\ b \in Seq(Ops) /\ Distinct(b)
      /\ \A w \in Workspaces : Has(b, w) <=> items[w] # queued[c][w]
      /\ \A j \in DOMAIN b : b[j].snap = items[b[j].w]
  BY <1>3, BoardStoreAssumption, BatchSaves
<1>8. board' = [board EXCEPT ![c] = items] /\ queued' = [queued EXCEPT ![c] = items]
  BY DEF Persist
<1>9. pending' = [pending EXCEPT ![c] = x]
  <2>1. pending' = [pending EXCEPT ![c] = [w \in Workspaces |->
                       pending[c][w] + Cardinality({i \in DOMAIN b : b[i].w = w})]]
    BY <1>3 DEF Persist
  <2> QED
    BY <1>2, <1>4, <2>1 DEF CountedIn
<1>10. queue' = [queue EXCEPT ![c] = r]
  <2>1. queue' = IF b = <<>> THEN queue ELSE [queue EXCEPT ![c] = Append(q, b)]
    BY <1>1, <1>3 DEF Persist
  <2>2. CASE b = <<>>
    BY <1>1, <1>5, <2>1, <2>2 DEF Types
  <2>3. CASE b # <<>>
    BY <1>5, <2>1, <2>3
  <2> QED
    BY <2>2, <2>3
<1>11. x \in [Workspaces -> Nat] /\ QueueOk(r, x, changes + 1) /\ r \in Seq(Seq(Ops))
  <2>1. CASE b # <<>>
    <3>1. r = Append(q, b)
      BY <1>5, <2>1
    <3>2. PICK n : n = changes
      OBVIOUS
    <3>3. QueueOk(q, p, n) /\ n \in Nat
      BY <1>6, <3>2
    <3>4. x \in [Workspaces -> Nat] /\ QueueOk(r, x, n + 1)
      BY <1>4, <1>6, <1>7, <2>1, <3>1, <3>3, PersistQueue
    <3>5. r \in Seq(Seq(Ops))
      <4>1. Extended(q, b, r)
        BY <1>6, <1>7, <3>1, IsExtended
      <4> QED
        BY <4>1 DEF Extended
    <3> QED
      BY <3>2, <3>4, <3>5
  <2>2. CASE b = <<>>
    <3>1. r = q
      BY <1>5, <2>2
    <3>2. \A w \in Workspaces : ~Has(b, w)
      BY <2>2 DEF Has
    <3>5. ASSUME NEW w \in Workspaces
          PROVE  x[w] = p[w]
      <4>1. PICK k : k = Cardinality({i \in DOMAIN b : b[i].w = w})
        OBVIOUS
      <4>2. k = 0
        BY <1>7, <3>2, <4>1, OncePerBatch
      <4>3. x[w] = p[w] + k
        BY <1>4, <4>1 DEF CountedIn
      <4>4. p[w] \in Nat
        BY <1>6
      <4> QED
        BY <4>2, <4>3, <4>4
    <3>6. x \in [Workspaces -> Nat]
      BY <1>4, <1>6, <3>5 DEF CountedIn
    <3>7. Len(q) \in Nat
      BY <1>6
    <3>8. QueueOk(r, x, changes + 1)
      BY <1>6, <3>1, <3>5, <3>7 DEF QueueOk
    <3> QED
      BY <1>6, <3>1, <3>6, <3>8
  <2> QED
    BY <2>1, <2>2
<1>12. queue'[c] = r /\ pending'[c] = x
  BY <1>9, <1>10 DEF Types
<1>13. pending' \in [Clients -> [Workspaces -> Nat]] /\ queue' \in [Clients -> Seq(Seq(Ops))]
  BY <1>9, <1>10, <1>11 DEF Types
<1>14. \A d \in Clients \ {c} : pending'[d] = pending[d] /\ queue'[d] = queue[d]
  BY <1>9, <1>10 DEF Types
<1>15. \A w : InQueue(c, w)' <=> Batches(r, w) # {}
  <2>1. \A w : InQueue(c, w)' <=> \E i \in DOMAIN r : \E j \in DOMAIN r[i] : r[i][j].w = w
    BY <1>12 DEF InQueue
  <2> QED
    BY <2>1 DEF Batches, Has
<1>16. CASE b = <<>>
  <2>1. r = q
    BY <1>5, <1>16
  <2>2. \A w \in Workspaces : items[w] = queued[c][w]
    <3>1. \A w \in Workspaces : ~Has(b, w)
      BY <1>16 DEF Has
    <3> QED
      BY <1>7, <3>1
  <2>3. \A w : InQueue(c, w)' <=> InQueue(c, w)
    BY <1>1, <1>15, <2>1, InQueueBatches
  <2> QED
    BY <1>1, <1>8, <1>11, <1>12, <1>13, <1>14, <2>1, <2>2, <2>3 DEF Persisted
<1>17. CASE b # <<>>
  <2>1. r = Append(q, b)
    BY <1>5, <1>17
  <2>2. Extended(q, b, r)
    BY <1>6, <1>7, <2>1, IsExtended
  <2>3. /\ Len(r) = Len(q) + 1 /\ r[Len(q) + 1] = b
        /\ \A i \in 1 .. Len(q) : r[i] = q[i]
        /\ DOMAIN q = 1 .. Len(q) /\ DOMAIN r = 1 .. Len(r) /\ Len(q) \in Nat
    BY <2>2 DEF Extended
  <2>4. q # <<>> => r # <<>> /\ r[1] = q[1]
    <3>1. ASSUME q # <<>>
          PROVE  r # <<>> /\ r[1] = q[1]
      <4>1. 1 \in DOMAIN q
        BY <1>6, <3>1, BatchGone
      <4>2. Len(r) # 0
        BY <2>3
      <4> QED
        BY <2>3, <4>1, <4>2
    <3> QED
      BY <3>1
  <2>5. ASSUME NEW w \in Workspaces
        PROVE  Persisted(c, w, items)
    <3>1. /\ Has(b, w) => Cardinality(Batches(r, w)) = Cardinality(Batches(q, w)) + 1
          /\ ~Has(b, w) => Cardinality(Batches(r, w)) = Cardinality(Batches(q, w))
      BY <1>6, <1>7, <2>2, AppendedCounted
    <3>2. /\ Cardinality(Batches(q, w)) \in Nat /\ Cardinality(Batches(r, w)) \in Nat
          /\ Cardinality(Batches(q, w)) = 0 <=> Batches(q, w) = {}
          /\ Cardinality(Batches(r, w)) = 0 <=> Batches(r, w) = {}
      BY <1>6, <1>11, BatchesFinite
    <3>3. InQueue(c, w) <=> Batches(q, w) # {}
      BY <1>1, InQueueBatches
    <3>4. CASE Has(b, w)
      <4>1. InQueue(c, w)'
        BY <1>15, <3>1, <3>2, <3>4
      <4>2. ASSUME NEW s, LastSave(r, w, s)
            PROVE  s = items[w]
        <5>1. PICK j \in DOMAIN b : b[j].w = w /\ b[j].snap = s
          BY <1>6, <1>7, <2>2, <3>4, <4>2, AppendedLast
        <5> QED
          BY <1>7, <5>1
      <4> QED
        BY <1>7, <1>12, <3>4, <4>1, <4>2 DEF Persisted
    <3>5. CASE ~Has(b, w)
      <4>1. InQueue(c, w)' <=> InQueue(c, w)
        BY <1>15, <3>1, <3>2, <3>3, <3>5
      <4>2. \A s : LastSave(r, w, s) => LastSave(q, w, s)
        BY <1>6, <1>7, <2>2, <3>5, AppendedLast
      <4> QED
        BY <1>1, <1>7, <1>12, <3>5, <4>1, <4>2 DEF Persisted
    <3> QED
      BY <3>4, <3>5
  <2> QED
    BY <1>1, <1>8, <1>11, <1>12, <1>13, <1>14, <2>4, <2>5
<1> QED
  BY <1>16, <1>17

LEMMA ChangeStep ==
    ASSUME IInv, NEW c \in Clients, NEW read, NEW items \in [Workspaces -> Snapshots],
           Change(c, read, items), created' \subseteq Tasks, removed' \subseteq Tasks
    PROVE  IInv'
<1> USE DEF IInv
<1>1. /\ Persist(c, items) /\ changes' = changes + 1 /\ changes < MaxChanges
      /\ UNCHANGED <<db, importing, watching, calls, events, known, upsets>>
  BY DEF Change
<1>2. /\ board' = [board EXCEPT ![c] = items] /\ queued' = [queued EXCEPT ![c] = items]
      /\ pending' \in [Clients -> [Workspaces -> Nat]]
      /\ queue' \in [Clients -> Seq(Seq(Ops))]
      /\ QueueOk(queue'[c], pending'[c], changes + 1)
      /\ \A d \in Clients \ {c} : pending'[d] = pending[d] /\ queue'[d] = queue[d]
      /\ queue[c] # <<>> => queue'[c] # <<>> /\ queue'[c][1] = queue[c][1]
      /\ \A w \in Workspaces : Persisted(c, w, items)
  BY <1>1, HasPersisted
<1>3. PICK met : met = {w \in Workspaces :
                          (w \in read \/ items[w] # queued[c][w]) /\ Unheard(c, w)}
  OBVIOUS
<1>4. PICK left : left = {w \in Workspaces :
                            items[w] = None /\ board[c][w] # None /\ queued[c][w] = None}
  OBVIOUS
<1>5. crossed' = crossed \cup (met \cup left) /\ clashed' \in BOOLEAN
  BY <1>3, <1>4 DEF Change, Cross, Crossing, Types
<1>6. /\ board'[c] = items /\ queued'[c] = items
      /\ \A d \in Clients \ {c} : board'[d] = board[d] /\ queued'[d] = queued[d]
  BY <1>2 DEF Types
<1>7. \A d \in Clients \ {c} : KeptClient(d) /\ pending'[d] = pending[d]
  BY <1>1, <1>2, <1>6 DEF KeptClient
<1>8. Types'
  <2>1. board' \in [Clients -> [Workspaces -> Snapshots]]
        /\ queued' \in [Clients -> [Workspaces -> Snapshots]]
    BY <1>2 DEF Types
  <2>2. crossed' \subseteq Workspaces
    BY <1>3, <1>4, <1>5 DEF Types
  <2>3. changes' \in Nat /\ changes' <= MaxChanges
    BY <1>1, BoardStoreAssumption DEF Types
  <2> QED
    BY <1>1, <1>2, <1>5, <2>1, <2>2, <2>3 DEF Types
<1>9. Queues'
  <2>1. ASSUME NEW d \in Clients
        PROVE  QueueOk(queue'[d], pending'[d], changes')
    <3>1. CASE d = c
      BY <1>1, <1>2, <3>1
    <3>2. CASE d # c
      <4>1. QueueOk(queue[d], pending[d], changes) /\ Len(queue[d]) \in Nat /\ changes \in Nat
        BY DEF Queues, Types
      <4>2. Len(queue[d]) <= changes'
        BY <1>1, <4>1 DEF QueueOk
      <4>3. QueueOk(queue[d], pending[d], changes')
        BY <4>1, <4>2 DEF QueueOk
      <4> QED
        BY <1>2, <3>2, <4>3
    <3> QED
      BY <3>1, <3>2
  <2> QED
    BY <2>1 DEF Queues
<1>10. Saved'
  BY <1>6 DEF Saved
<1>11. \A d, w : (Imports(d, w)' <=> Imports(d, w)) /\ (InEvents(d, w)' <=> InEvents(d, w))
  BY <1>1 DEF Imports, InEvents
<1>12. Shape'
  <2>1. ASSUME NEW k \in calls
        PROVE  CallShape(k)'
    <3>1. CallShape(k)
      BY DEF Shape
    <3>2. ASSUME k.by = "queue"
          PROVE  queue'[k.from] # <<>> /\ queue'[k.from][1] = queue[k.from][1]
      <4>1. k.from \in Clients /\ queue[k.from] # <<>>
        BY <3>1, <3>2 DEF CallShape
      <4> QED
        BY <1>2, <4>1
    <3> QED
      BY <1>5, <1>11, <3>1, <3>2 DEF CallShape
  <2> QED
    BY <1>1, <2>1 DEF Shape
<1>13. \A d \in Clients \ {c} : \A w : Kept(d, w)
  BY <1>7, ClientKept
<1>14. \A w : KeptCalls(w)
  BY <1>1 DEF KeptCalls
<1>15. ASSUME NEW w \in Workspaces \ crossed'
       PROVE  Uncrossed(w)'
  <2>1. Uncrossed(w) /\ w \notin met /\ w \notin left
    BY <1>5
  <2>2. Persisted(c, w, items)
    BY <1>2
  <2>3. CASE items[w] = queued[c][w]
    <3>1. board[c][w] = queued[c][w]
      BY <1>4, <2>1, <2>3 DEF Saved
    <3>2. Kept(c, w)
      BY <1>1, <1>6, <1>11, <2>2, <2>3, <3>1 DEF Persisted, Kept
    <3>3. \A d \in Clients : Kept(d, w)
      BY <1>13, <3>2
    <3> QED
      BY <1>1, <1>14, <2>1, <3>3, WorkspaceKept
  <2>4. CASE items[w] # queued[c][w]
    <3>1. ~Unheard(c, w)
      BY <1>3, <2>1, <2>4
    <3>2. /\ \A k \in calls : k.w = w => k.from = c /\ k.by = "queue"
          /\ ~InEvents(c, w) /\ ~Imports(c, w)
          /\ \A d \in Clients \ {c} : ~Mine(d, w)
      BY <3>1 DEF Unheard, Mine
    <3>3. /\ InQueue(c, w)' /\ \A s : LastSave(queue'[c], w, s) => s = items[w]
      BY <2>2, <2>4 DEF Persisted
    <3>4. CallsOk(w)' /\ (Landing(w)' <=> Landing(w))
      BY <1>1, <1>14, <2>1, CallsKept DEF Uncrossed
    <3>5. Mine(c, w)' /\ \A d \in Clients \ {c} : ~Mine(d, w)'
      BY <1>13, <3>2, <3>3 DEF Mine, Kept
    <3>6. ClientOk(c, w)'
      <4>1. \A s : ~LastEvent(events'[c], w, s)
        BY <1>1, <3>2, LastIn
      <4>2. Mine(c, w)' => /\ ~InEvents(c, w)'
                           /\ \A d \in Clients : Mine(d, w)' => d = c
                           /\ \A k \in calls' : k.w = w => k.from = c /\ k.by # "nobody"
        BY <1>1, <1>11, <3>2, <3>5
      <4> QED
        BY <1>6, <1>11, <3>2, <3>3, <3>5, <4>1, <4>2 DEF ClientOk
    <3>7. ASSUME NEW d \in Clients, d # c
          PROVE  ClientOk(d, w)'
      <4>1. ClientOk(d, w) /\ Kept(d, w) /\ ~Mine(d, w) /\ ~Mine(d, w)'
        BY <1>13, <2>1, <3>2, <3>5, <3>7 DEF Uncrossed
      <4> QED
        BY <1>1, <3>4, <4>1 DEF ClientOk, Kept
    <3> QED
      BY <3>4, <3>6, <3>7 DEF Uncrossed
  <2> QED
    BY <2>3, <2>4
<1> QED
  BY <1>8, <1>9, <1>10, <1>12, <1>15

LEMMA CreateTaskStep ==
    ASSUME IInv, NEW c \in Clients, NEW w \in Workspaces, NEW k \in Tasks, CreateTask(c, w, k)
    PROVE  IInv'
<1>1. Types /\ board[c] \in [Workspaces -> Snapshots] /\ board[c][w] # None
  BY DEF IInv, Types, CreateTask
<1>2. PICK s : s = board[c][w] \cup {k}
  OBVIOUS
<1>3. s \in Snapshots
  <2>1. board[c][w] \subseteq Tasks
    BY <1>1 DEF Snapshots
  <2> QED
    BY <1>2, <2>1 DEF Snapshots
<1>4. PICK items : items = [board[c] EXCEPT ![w] = s]
  OBVIOUS
<1>5. items \in [Workspaces -> Snapshots]
  BY <1>1, <1>3, <1>4
<1>6. Change(c, {w}, items)
  BY <1>2, <1>4 DEF CreateTask
<1>7. created' \subseteq Tasks /\ removed' \subseteq Tasks
  BY <1>1 DEF CreateTask, Types
<1> QED
  BY <1>5, <1>6, <1>7, ChangeStep

LEMMA DeleteTaskStep ==
    ASSUME IInv, NEW c \in Clients, NEW w \in Workspaces, NEW k \in Tasks, DeleteTask(c, w, k)
    PROVE  IInv'
<1>1. Types /\ board[c] \in [Workspaces -> Snapshots] /\ board[c][w] # None
  BY DEF IInv, Types, DeleteTask
<1>2. PICK s : s = board[c][w] \ {k}
  OBVIOUS
<1>3. s \in Snapshots
  <2>1. board[c][w] \subseteq Tasks
    BY <1>1 DEF Snapshots
  <2> QED
    BY <1>2, <2>1 DEF Snapshots
<1>4. PICK items : items = [board[c] EXCEPT ![w] = s]
  OBVIOUS
<1>5. items \in [Workspaces -> Snapshots]
  BY <1>1, <1>3, <1>4
<1>6. Change(c, {w}, items)
  BY <1>2, <1>4 DEF DeleteTask
<1>7. created' \subseteq Tasks /\ removed' \subseteq Tasks
  BY <1>1 DEF DeleteTask, Types
<1> QED
  BY <1>5, <1>6, <1>7, ChangeStep

LEMMA DeleteWorkspaceStep ==
    ASSUME IInv, NEW c \in Clients, NEW w \in Workspaces, DeleteWorkspace(c, w)
    PROVE  IInv'
<1>1. Types /\ board[c] \in [Workspaces -> Snapshots] /\ board[c][w] # None
  BY DEF IInv, Types, DeleteWorkspace
<1>2. board[c][w] \subseteq Tasks /\ None \in Snapshots
  BY <1>1 DEF Snapshots
<1>3. PICK items : items = [board[c] EXCEPT ![w] = None]
  OBVIOUS
<1>4. items \in [Workspaces -> Snapshots]
  BY <1>1, <1>2, <1>3
<1>5. Change(c, {w}, items)
  BY <1>3 DEF DeleteWorkspace
<1>6. created' \subseteq Tasks /\ removed' \subseteq Tasks
  BY <1>1, <1>2 DEF DeleteWorkspace, Types
<1> QED
  BY <1>4, <1>5, <1>6, ChangeStep

LEMMA MergeStep ==
    ASSUME IInv, NEW c \in Clients, NEW v \in Workspaces, NEW w \in Workspaces, Merge(c, v, w)
    PROVE  IInv'
<1>1. /\ Types /\ board[c] \in [Workspaces -> Snapshots]
      /\ board[c][v] # None /\ board[c][w] # None
  BY DEF IInv, Types, Merge
<1>2. PICK s : s = board[c][w] \cup board[c][v]
  OBVIOUS
<1>3. s \in Snapshots /\ None \in Snapshots
  <2>1. board[c][w] \subseteq Tasks /\ board[c][v] \subseteq Tasks
    BY <1>1 DEF Snapshots
  <2> QED
    BY <1>2, <2>1 DEF Snapshots
<1>4. PICK items : items = [board[c] EXCEPT ![w] = s, ![v] = None]
  OBVIOUS
<1>5. items \in [Workspaces -> Snapshots]
  BY <1>1, <1>3, <1>4
<1>6. Change(c, {v, w}, items)
  BY <1>2, <1>4 DEF Merge
<1>7. created' \subseteq Tasks /\ removed' \subseteq Tasks
  BY <1>1 DEF Merge, Types
<1> QED
  BY <1>5, <1>6, <1>7, ChangeStep

-----------------------------------------------------------------------------
(* The invariant holds.                                                     *)

LEMMA InitInvariant == Init => IInv
<1> SUFFICES ASSUME Init PROVE IInv
  OBVIOUS
<1>1. {} \in Snapshots /\ NoImport \in ImportStates /\ NoImport.step = "none"
  BY DEF Snapshots, ImportStates, NoImport
<1>2. \A c \in Clients : /\ board[c] = db /\ queued[c] = db /\ known[c] = db
                         /\ queue[c] = <<>> /\ events[c] = <<>> /\ importing[c] = NoImport
                         /\ pending[c] = [w \in Workspaces |-> 0]
  BY DEF Init
<1>3. Types
  <2>1. db \in [Workspaces -> Snapshots]
    BY <1>1 DEF Init
  <2>2. /\ board \in [Clients -> [Workspaces -> Snapshots]]
        /\ queued \in [Clients -> [Workspaces -> Snapshots]]
        /\ known \in [Clients -> [Workspaces -> Snapshots]]
    BY <2>1 DEF Init
  <2>3. pending \in [Clients -> [Workspaces -> Nat]]
    BY DEF Init
  <2>4. queue \in [Clients -> Seq(Seq(Ops))] /\ events \in [Clients -> Seq(Ops)]
    BY DEF Init
  <2>5. importing \in [Clients -> ImportStates] /\ watching \in [Clients -> BOOLEAN]
    BY <1>1 DEF Init
  <2>6. /\ calls \subseteq Calls /\ created \subseteq Tasks /\ removed \subseteq Tasks
        /\ crossed \subseteq Workspaces /\ clashed \in BOOLEAN
    BY DEF Init
  <2>7. changes \in Nat /\ changes <= MaxChanges /\ upsets \in Nat
    BY BoardStoreAssumption DEF Init
  <2> QED
    BY <2>1, <2>2, <2>3, <2>4, <2>5, <2>6, <2>7 DEF Types
<1>4. \A c \in Clients : \A w : /\ Batches(queue[c], w) = {} /\ ~InQueue(c, w) /\ ~InEvents(c, w)
                                /\ ~Imports(c, w) /\ ~Mine(c, w)
  BY <1>1, <1>2 DEF Batches, InQueue, InEvents, Imports, Mine
<1>5. Queues
  <2>1. ASSUME NEW c \in Clients
        PROVE  QueueOk(queue[c], pending[c], changes)
    <3>1. \A w \in Workspaces : pending[c][w] = Cardinality(Batches(queue[c], w))
      BY <1>2, <1>4, FS_EmptySet
    <3>2. Len(queue[c]) <= changes
      BY <1>2 DEF Init
    <3> QED
      BY <1>2, <3>1, <3>2 DEF QueueOk
  <2> QED
    BY <2>1 DEF Queues
<1>6. Saved
  BY <1>2 DEF Saved
<1>7. Shape
  BY <1>1, <1>2 DEF Init, Shape
<1>8. ASSUME NEW w \in Workspaces
      PROVE  Uncrossed(w)
  <2>1. CallsOk(w)
    BY DEF Init, CallsOk
  <2>2. ASSUME NEW c \in Clients
        PROVE  ClientOk(c, w)
    <3>1. \A s : ~LastEvent(events[c], w, s) /\ ~LastSave(queue[c], w, s)
      BY <1>4, LastIn, LastQueued
    <3> QED
      BY <1>2, <1>4, <3>1 DEF ClientOk
  <2> QED
    BY <2>1, <2>2 DEF Uncrossed
<1> QED
  BY <1>3, <1>5, <1>6, <1>7, <1>8 DEF IInv

LEMMA StutterInvariant ==
    ASSUME IInv, UNCHANGED vars
    PROVE  IInv'
<1>1. /\ UNCHANGED <<db, board, queued, pending, queue, calls, events, ghosts, upsets>>
      /\ UNCHANGED <<watching, changes, importing>>
  BY DEF vars, client, bounds
<1>2. /\ watching \in [Clients -> BOOLEAN] /\ changes \in Nat /\ changes <= MaxChanges
      /\ importing \in [Clients -> ImportStates]
  BY DEF IInv, Types
<1> QED
  BY <1>1, <1>2, QuietStep

LEMMA NextInvariant ==
    ASSUME IInv, [Next]_vars
    PROVE  IInv'
<1>1. CASE UNCHANGED vars
  BY <1>1, StutterInvariant
<1>2. ASSUME NEW c \in Clients, NEW w \in Workspaces, NEW k \in Tasks,
             CreateTask(c, w, k) \/ DeleteTask(c, w, k)
      PROVE  IInv'
  BY <1>2, CreateTaskStep, DeleteTaskStep
<1>3. ASSUME NEW c \in Clients, NEW w \in Workspaces,
             DeleteWorkspace(c, w) \/ StartImport(c, w) \/ \E v \in Workspaces : Merge(c, w, v)
      PROVE  IInv'
  BY <1>3, DeleteWorkspaceStep, StartImportStep, MergeStep
<1>4. ASSUME NEW c \in Clients,
             \/ Write(c) \/ Refuse(c) \/ WriteImport(c) \/ FailImport(c)
             \/ Hear(c) \/ Drop(c) \/ Reload(c) \/ Watch(c)
      PROVE  IInv'
  BY <1>4, WriteStep, RefuseStep, WriteImportStep, FailImportStep, HearStep, DropStep,
     ReloadStep, WatchStep
<1>5. ASSUME NEW c \in Clients, NEW k \in calls, Answer(c, k) \/ FinishImport(c, k)
      PROVE  IInv'
  BY <1>5, AnswerStep, FinishImportStep
<1>6. ASSUME NEW k \in calls, LateWrite(k) \/ Broadcast(k)
      PROVE  IInv'
  BY <1>6, LateWriteStep, BroadcastStep
<1> QED
  BY <1>1, <1>2, <1>3, <1>4, <1>5, <1>6 DEF Next

LEMMA Invariance == Spec => []IInv
<1>1. IInv /\ [Next]_vars => IInv'
  BY NextInvariant
<1> QED
  BY <1>1, InitInvariant, PTL DEF Spec

-----------------------------------------------------------------------------
(* What it is for.                                                          *)

LEMMA InvariantTypes == IInv => TypeOK
<1> SUFFICES ASSUME IInv PROVE TypeOK
  OBVIOUS
<1>1. Types
  BY DEF IInv
<1>2. \A c \in Clients : importing[c].step \in {"none", "waiting", "saving"}
  BY <1>1, NearerImport
<1> QED
  BY <1>1, <1>2 DEF Types, TypeOK

(* The operations of w in a queue, one of a batch, and the batches.         *)
LEMMA OperationsCounted ==
    ASSUME Types, Queues, NEW c \in Clients, NEW w \in Workspaces, NEW P,
           P = {p \in (1 .. MaxChanges) \X (1 .. Cardinality(Workspaces)) :
                  /\ p[1] \in DOMAIN queue[c] /\ p[2] \in DOMAIN queue[c][p[1]]
                  /\ queue[c][p[1]][p[2]].w = w}
    PROVE  Cardinality(P) = Cardinality(Batches(queue[c], w))
<1>1. PICK q : q = queue[c]
  OBVIOUS
<1>2. PICK n : n = Cardinality(Workspaces)
  OBVIOUS
<1>3. n \in Nat /\ MaxChanges \in Nat /\ IsFiniteSet(Workspaces)
  BY <1>2, FS_CardinalityType, BoardStoreAssumption
<1>4. /\ q \in Seq(Seq(Ops)) /\ DOMAIN q = 1 .. Len(q) /\ Len(q) \in Nat
      /\ Len(q) <= MaxChanges /\ \A i \in DOMAIN q : Distinct(q[i]) /\ q[i] \in Seq(Ops)
  <2>1. q \in Seq(Seq(Ops)) /\ changes \in Nat /\ changes <= MaxChanges
    BY <1>1 DEF Types
  <2>2. DOMAIN q = 1 .. Len(q) /\ Len(q) \in Nat
    BY <2>1, LenProperties
  <2>3. Len(q) <= changes /\ \A i \in DOMAIN q : Distinct(q[i])
    BY <1>1 DEF Queues, QueueOk
  <2>4. \A i \in DOMAIN q : q[i] \in Seq(Ops)
    BY <2>1, <2>2, ElementOfSeq
  <2>5. Len(q) <= MaxChanges
    BY <1>3, <2>1, <2>2, <2>3
  <2> QED
    BY <2>1, <2>2, <2>3, <2>4, <2>5
<1>5. ASSUME NEW b \in Seq(Ops), Distinct(b)
      PROVE  DOMAIN b \subseteq 1 .. n
  <2>1. PICK l : l = Len(b)
    OBVIOUS
  <2>2. l \in Nat /\ DOMAIN b = 1 .. l
    BY <2>1, LenProperties
  <2>3. ASSUME NEW i \in 1 .. l
        PROVE  b[i].w \in Workspaces
    <3>1. PICK o : o = b[i]
      OBVIOUS
    <3>2. o \in Ops
      BY <2>1, <3>1, ElementOfSeq
    <3> QED
      BY <3>1, <3>2 DEF Ops
  <2>4. PICK f : f = [i \in 1 .. l |-> b[i].w]
    OBVIOUS
  <2>5. f \in [1 .. l -> Workspaces]
    BY <2>3, <2>4
  <2>6. \A i, j \in 1 .. l : f[i] = f[j] => i = j
    BY <1>5, <2>2, <2>4 DEF Distinct
  <2>7. f \in Injection(1 .. l, Workspaces)
    BY <2>5, <2>6 DEF Injection, IsInjective
  <2>8. Cardinality(1 .. l) = l
    BY <2>2, FS_Interval
  <2>9. l <= n
    BY <1>2, <1>3, <2>7, <2>8, FS_Injection
  <2> QED
    BY <1>3, <2>2, <2>9
<1>6. PICK g : g = [p \in P |-> p[1]]
  OBVIOUS
<1>7. \A p \in P : /\ p[1] \in DOMAIN q /\ p[2] \in DOMAIN q[p[1]] /\ q[p[1]][p[2]].w = w
                   /\ p = <<p[1], p[2]>>
  BY <1>1
<1>8. g \in Bijection(P, Batches(q, w))
  <2>1. g \in [P -> Batches(q, w)]
    BY <1>6, <1>7 DEF Batches, Has
  <2>2. ASSUME NEW p \in P, NEW r \in P, g[p] = g[r]
        PROVE  p = r
    <3>1. p[1] = r[1]
      BY <1>6, <2>2
    <3>2. p[2] = r[2]
      BY <1>4, <1>7, <3>1 DEF Distinct
    <3> QED
      BY <1>7, <3>1, <3>2
  <2>3. ASSUME NEW i \in Batches(q, w)
        PROVE  \E p \in P : g[p] = i
    <3>1. i \in DOMAIN q
      BY DEF Batches
    <3>2. PICK j \in DOMAIN q[i] : q[i][j].w = w
      BY DEF Batches, Has
    <3>3. i \in 1 .. MaxChanges
      BY <1>3, <1>4, <3>1
    <3>4. j \in 1 .. n
      BY <1>4, <1>5, <3>1, <3>2
    <3>5. <<i, j>> \in P
      BY <1>1, <1>2, <3>1, <3>2, <3>3, <3>4
    <3> QED
      BY <1>6, <3>5
  <2>4. DOMAIN g = P
    BY <1>6
  <2> QED
    BY <2>1, <2>2, <2>3, <2>4 DEF Bijection, Injection, Surjection, IsInjective
<1>9. IsFiniteSet(P)
  <2>1. IsFiniteSet(1 .. MaxChanges) /\ IsFiniteSet(1 .. n)
    BY <1>3, FS_Interval
  <2>2. IsFiniteSet((1 .. MaxChanges) \X (1 .. n))
    BY <2>1, FS_Product
  <2>3. P \subseteq (1 .. MaxChanges) \X (1 .. n)
    BY <1>2
  <2> QED
    BY <2>2, <2>3, FS_Subset
<1>10. ExistsBijection(P, Batches(q, w))
  BY <1>8 DEF ExistsBijection
<1> QED
  BY <1>1, <1>9, <1>10, FS_Bijection

LEMMA InvariantAccounts == IInv => SavesAccounted
<1> SUFFICES ASSUME IInv PROVE SavesAccounted
  OBVIOUS
<1> USE DEF IInv
<1>1. PendingMatchesQueue
  <2>1. ASSUME NEW c \in Clients, NEW w \in Workspaces, NEW P,
               P = {p \in (1 .. MaxChanges) \X (1 .. Cardinality(Workspaces)) :
                      /\ p[1] \in DOMAIN queue[c] /\ p[2] \in DOMAIN queue[c][p[1]]
                      /\ queue[c][p[1]][p[2]].w = w}
        PROVE  pending[c][w] = Cardinality(P)
    <3>1. Cardinality(P) = Cardinality(Batches(queue[c], w))
      BY <2>1, OperationsCounted
    <3>2. pending[c][w] = Cardinality(Batches(queue[c], w))
      BY DEF Queues, QueueOk
    <3> QED
      BY <3>1, <3>2
  <2> QED
    BY <2>1 DEF PendingMatchesQueue
<1>2. SavedIsKnown
  <2>1. ASSUME NEW c \in Clients, NEW w \in Workspaces \ crossed, pending[c][w] = 0,
               ~InEvents(c, w), ~Imports(c, w), queued[c][w] # None
        PROVE  queued[c][w] = known[c][w]
    <3>1. ~Mine(c, w)
      BY <2>1, PendingQueued DEF Mine
    <3> QED
      BY <2>1, <3>1 DEF Uncrossed, ClientOk
  <2> QED
    BY <2>1 DEF SavedIsKnown
<1> QED
  BY <1>1, <1>2 DEF SavesAccounted

LEMMA InvariantConverges == IInv => ChangesConverge
<1> SUFFICES ASSUME IInv, NEW w \in Workspaces \ crossed, Settled(w), NEW c \in Clients,
                    board[c][w] = queued[c][w]
             PROVE  board[c][w] = db[w]
  BY DEF ChangesConverge
<1>1. ClientOk(c, w)
  BY DEF IInv, Uncrossed
<1>2. ~InEvents(c, w) /\ ~Mine(c, w) /\ ~Landing(w)
  BY DEF Settled, Mine, Landing, InCalls
<1> QED
  BY <1>1, <1>2 DEF ClientOk

(* The variables of the boards hold what they are meant to hold: board rows *)
(* of the database, batches of operations, calls of clients that exist.     *)
THEOREM BoardTypes == Spec => []TypeOK
<1> QED
  BY Invariance, InvariantTypes, PTL

(* pendingWorkspaceIds counts exactly the operations queued, whatever is    *)
(* changed, answered, refused or broken off in between (persist,            *)
(* completePersistence, drainMutationQueue); and a board that counts as     *)
(* saved is what the client was last told, by answer or by event.           *)
THEOREM BoardAccounts == Spec => []SavesAccounted
<1> QED
  BY Invariance, InvariantAccounts, PTL

(* Once every call, event and batch of a board is through, each client      *)
(* whose board counts as saved shows the row of the database, if the        *)
(* changes since the boards last met did not cross.                         *)
THEOREM BoardConverges == Spec => []ChangesConverge
<1> QED
  BY Invariance, InvariantConverges, PTL
=============================================================================
