---------------------------- MODULE OracleProofs ----------------------------
(***************************************************************************)
(* What is proved of the oracle, for every set of denoms, pairs, sources   *)
(* and any trades: the types of what it stores; that the snapshots of a    *)
(* denom are few; that recording them moves no price; that price sources   *)
(* given to new denoms never form a cycle; that a TWAP price is the        *)
(* average of what its pair traded at.                                     *)
(***************************************************************************)
EXTENDS OracleProperties, FiniteSetTheorems, TLAPS

\* What holds of 0 and of n + 1 when it holds of n holds of every number.
LEMMA LeastCounterexample ==
    ASSUME NEW T, 0 \in T, \A n \in Nat : n \in T => n + 1 \in T
    PROVE  Nat \subseteq T
  <1> DEFINE Rest == Nat \ T
  <1> SUFFICES ASSUME Rest # {} PROVE FALSE
    OBVIOUS
  <1>1. PICK n \in Rest : \A m \in Rest : ~(<<m, n>> \in OpToRel(<, Nat))
    <2>1. Rest \subseteq Nat
      OBVIOUS
    <2> HIDE DEF Rest
    <2> QED
      BY <2>1, WFMin, NatLessThanWellFounded
  <1>2. \A m \in Nat : m < n => m \in T
    BY <1>1 DEF OpToRel
  <1>3. n # 0 /\ n - 1 \in Nat
    OBVIOUS
  <1> QED
    BY <1>2, <1>3

-----------------------------------------------------------------------------
(***************************************************************************)
(* Lists                                                                   *)
(***************************************************************************)

RetainStep(list, kept, r, n) ==
    IF n = 0 THEN <<>>
    ELSE IF n \in kept THEN Append(r[n - 1], list[n])
    ELSE r[n - 1]

IsRetaining(list, kept, r) ==
    r = [n \in 0 .. Len(list) |-> 
            IF n = 0 THEN <<>>
            ELSE IF n \in kept THEN Append(r[n - 1], list[n])
            ELSE r[n - 1]]

Retaining(list, kept) == CHOOSE r : IsRetaining(list, kept, r)

LEMMA RetainIsRecursive ==
    ASSUME NEW list, NEW kept
    PROVE  Retain(list, kept) = Retaining(list, kept)[Len(list)]
  BY DEF Retain, Retaining, IsRetaining

\* The recursion that defines Retain has a solution, whatever the list.
LEMMA RetainingExists ==
    ASSUME NEW list, NEW kept, Len(list) \in Nat
    PROVE  \A n \in 0 .. Len(list) :
             Retaining(list, kept)[n] = RetainStep(list, kept, Retaining(list, kept), n)
  <1> DEFINE Correct(h, n) == \A m \in 0 .. n : h[m] = RetainStep(list, kept, h, m)
             T == {n \in Nat : \E h : Correct(h, n)}
  <1>1. 0 \in T
    <2> DEFINE h == [m \in {0} |-> <<>>]
    <2>1. Correct(h, 0)
      BY DEF RetainStep
    <2> QED
      BY <2>1
  <1>2. ASSUME NEW n \in Nat, n \in T PROVE n + 1 \in T
    <2>1. PICK h : Correct(h, n)
      BY <1>2
    <2> DEFINE g == [m \in 0 .. n + 1 |-> IF m <= n THEN h[m] ELSE RetainStep(list, kept, h, m)]
    <2>2. ASSUME NEW m \in 0 .. n + 1
          PROVE  g[m] = RetainStep(list, kept, h, m) /\ RetainStep(list, kept, g, m) = RetainStep(list, kept, h, m)
      <3>1. g[m] = RetainStep(list, kept, h, m)
        BY <2>1
      <3>2. m # 0 => m - 1 \in 0 .. n /\ g[m - 1] = h[m - 1]
        OBVIOUS
      <3> HIDE DEF g
      <3> QED
        BY <3>1, <3>2 DEF RetainStep
    <2> HIDE DEF g
    <2>3. Correct(g, n + 1)
      BY <2>2
    <2> HIDE DEF Correct
    <2> QED
      BY <2>3
  <1>3. PICK h : Correct(h, Len(list))
    <2> HIDE DEF T
    <2>1. Len(list) \in T
      BY <1>1, <1>2, LeastCounterexample
    <2> QED
      BY <2>1 DEF T
  <1> DEFINE r == [n \in 0 .. Len(list) |-> h[n]]
  <1>4. ASSUME NEW n \in 0 .. Len(list)
        PROVE  RetainStep(list, kept, r, n) = RetainStep(list, kept, h, n) /\ r[n] = RetainStep(list, kept, h, n)
    <2>1. n # 0 => r[n - 1] = h[n - 1]
      OBVIOUS
    <2>2. r[n] = h[n]
      OBVIOUS
    <2> HIDE DEF r
    <2> QED
      BY <1>3, <2>1, <2>2 DEF RetainStep
  <1>5. IsRetaining(list, kept, r)
    <2>1. r = [n \in 0 .. Len(list) |-> r[n]]
      OBVIOUS
    <2>2. \A n \in 0 .. Len(list) : r[n] = RetainStep(list, kept, r, n)
      BY <1>4
    <2> HIDE DEF r
    <2> QED
      BY <2>1, <2>2 DEF IsRetaining, RetainStep
  <1> HIDE DEF r
  <1>6. IsRetaining(list, kept, Retaining(list, kept))
    BY <1>5 DEF Retaining
  <1> HIDE DEF Retaining
  <1> DEFINE q == Retaining(list, kept)
  <1>7. IsRetaining(list, kept, q)
    BY <1>6
  <1> HIDE DEF q
  <1>8. \A n \in 0 .. Len(list) : q[n] = RetainStep(list, kept, q, n)
    BY <1>7 DEF IsRetaining, RetainStep
  <1> QED
    BY <1>8 DEF q


\* r has the elements of list at the indexes in kept up to n; pos says where
\* each comes from.
Selects(list, kept, n, r, pos) ==
    /\ pos \in [1 .. Len(r) -> kept]
    /\ \A i \in 1 .. Len(r) : pos[i] <= n /\ r[i] = list[pos[i]]
    /\ \A i, j \in 1 .. Len(r) : i <= j => j - i <= pos[j] - pos[i]
    /\ \A k \in kept : k <= n => \E i \in 1 .. Len(r) : pos[i] = k

LEMMA SelectsOneMore ==
    ASSUME NEW S, NEW list \in Seq(S), NEW kept \in SUBSET (1 .. Len(list)),
           NEW n \in Nat, n + 1 \in kept,
           NEW r \in Seq(S), NEW pos, Selects(list, kept, n, r, pos)
    PROVE  Selects(list, kept, n + 1, Append(r, list[n + 1]),
                   [i \in 1 .. Len(r) + 1 |-> IF i <= Len(r) THEN pos[i] ELSE n + 1])
  <1> DEFINE s == Append(r, list[n + 1])
             p == [i \in 1 .. Len(r) + 1 |-> IF i <= Len(r) THEN pos[i] ELSE n + 1]
  <1>1. Len(r) \in Nat /\ Len(s) = Len(r) + 1
    OBVIOUS
  <1> kept \subseteq Nat
    OBVIOUS
  <1>2. \A i \in 1 .. Len(r) : s[i] = r[i] /\ p[i] = pos[i]
    OBVIOUS
  <1>3. s[Len(r) + 1] = list[n + 1] /\ p[Len(r) + 1] = n + 1
    OBVIOUS
  <1>4. p \in [1 .. Len(s) -> kept]
    BY <1>1 DEF Selects
  <1>5. ASSUME NEW i \in 1 .. Len(s) PROVE p[i] <= n + 1 /\ s[i] = list[p[i]]
    <2> HIDE DEF s, p
    <2>1. CASE i = Len(r) + 1
      BY <1>3, <2>1
    <2>2. CASE i # Len(r) + 1
      <3>1. i \in 1 .. Len(r)
        BY <1>1, <2>2
      <3>2. pos[i] \in Nat /\ pos[i] <= n
        <4>1. pos[i] \in kept /\ pos[i] <= n
          BY <3>1 DEF Selects
        <4> QED
          BY <4>1
      <3> QED
        <4>1. r[i] = list[pos[i]]
          BY <3>1 DEF Selects
        <4> QED
          BY <1>2, <3>1, <3>2, <4>1
    <2> QED
      BY <2>1, <2>2
  <1>6. ASSUME NEW i \in 1 .. Len(s), NEW j \in 1 .. Len(s), i <= j
        PROVE  j - i <= p[j] - p[i]
    <2> HIDE DEF s, p
    <2>1. CASE j # Len(r) + 1
      <3>1. i \in 1 .. Len(r) /\ j \in 1 .. Len(r)
        BY <1>1, <1>6, <2>1
      <3> QED
        BY <1>2, <1>6, <3>1 DEF Selects
    <2>2. CASE j = Len(r) + 1 /\ i = Len(r) + 1
      BY <1>1, <1>3, <2>2
    <2>3. CASE j = Len(r) + 1 /\ i # Len(r) + 1
      <3>1. i \in 1 .. Len(r) /\ Len(r) \in 1 .. Len(r)
        BY <1>1, <1>6, <2>3
      <3>2. Len(r) - i <= pos[Len(r)] - pos[i] /\ pos[Len(r)] <= n
            /\ pos[i] \in Nat /\ pos[Len(r)] \in Nat
        <4>1. pos[i] \in kept /\ pos[Len(r)] \in kept /\ pos[Len(r)] <= n
          BY <3>1 DEF Selects
        <4>2. Len(r) - i <= pos[Len(r)] - pos[i]
          BY <1>1, <3>1 DEF Selects
        <4> QED
          BY <4>1, <4>2
      <3> QED
        <4>1. p[i] = pos[i] /\ p[j] = n + 1
          BY <1>2, <1>3, <2>3, <3>1
        <4> HIDE DEF Selects
        <4> QED
          BY <1>1, <2>3, <3>1, <3>2, <4>1
    <2> QED
      BY <2>1, <2>2, <2>3
  <1>7. ASSUME NEW k \in kept, k <= n + 1 PROVE \E i \in 1 .. Len(s) : p[i] = k
    <2> HIDE DEF s, p
    <2>1. CASE k = n + 1
      BY <1>1, <1>3, <2>1
    <2>2. CASE k # n + 1
      <3>1. k <= n
        BY <1>7, <2>2
      <3>2. PICK i \in 1 .. Len(r) : pos[i] = k
        BY <3>1 DEF Selects
      <3> QED
        BY <1>1, <1>2, <3>2
    <2> QED
      BY <2>1, <2>2
  <1> HIDE DEF s, p
  <1>8. Selects(list, kept, n + 1, s, p)
    BY <1>4, <1>5, <1>6, <1>7 DEF Selects
  <1> QED
    BY <1>8 DEF s, p

\* Retaining keeps what it is told to, each once and in order.
LEMMA RetainSelects ==
    ASSUME NEW S, NEW list \in Seq(S), NEW kept \in SUBSET (1 .. Len(list))
    PROVE  /\ Retain(list, kept) \in Seq(S)
           /\ \E pos : Selects(list, kept, Len(list), Retain(list, kept), pos)
  <1> DEFINE q == Retaining(list, kept)
             Good(n) == q[n] \in Seq(S) /\ \E pos : Selects(list, kept, n, q[n], pos)
             T == {n \in Nat : n <= Len(list) => Good(n)}
  <1>1. Len(list) \in Nat
    OBVIOUS
  <1>2. \A n \in 0 .. Len(list) : q[n] = RetainStep(list, kept, q, n)
    BY <1>1, RetainingExists
  <1> HIDE DEF q
  <1>3. 0 \in T
    <2>1. q[0] = <<>>
      BY <1>1, <1>2 DEF RetainStep
    <2> DEFINE pos == [i \in 1 .. 0 |-> 0]
    <2>2. Len(<<>>) = 0 /\ 1 .. 0 = {} /\ <<>> \in Seq(S)
      OBVIOUS
    <2>3. pos \in [1 .. 0 -> kept] /\ \A k \in kept : ~(k <= 0)
      BY <2>2
    <2> HIDE DEF pos
    <2>4. Selects(list, kept, 0, <<>>, pos)
      BY <2>2, <2>3 DEF Selects
    <2> QED
      BY <2>1, <2>2, <2>4
  <1>4. ASSUME NEW n \in Nat, n \in T PROVE n + 1 \in T
    <2> SUFFICES ASSUME n + 1 <= Len(list) PROVE Good(n + 1)
      OBVIOUS
    <2>1. q[n] \in Seq(S)
      BY <1>1, <1>4
    <2>2. PICK pos : Selects(list, kept, n, q[n], pos)
      BY <1>1, <1>4
    <2>3. q[n + 1] = IF n + 1 \in kept THEN Append(q[n], list[n + 1]) ELSE q[n]
      BY <1>1, <1>2 DEF RetainStep
    <2>4. CASE n + 1 \in kept
      <3>1. q[n + 1] \in Seq(S)
        BY <2>1, <2>3, <2>4
      <3>2. Selects(list, kept, n + 1, q[n + 1],
                    [i \in 1 .. Len(q[n]) + 1 |-> IF i <= Len(q[n]) THEN pos[i] ELSE n + 1])
        BY <2>1, <2>2, <2>3, <2>4, SelectsOneMore
      <3> QED
        BY <3>1, <3>2
    <2>5. CASE n + 1 \notin kept
      <3>1. q[n + 1] = q[n]
        BY <2>3, <2>5
      <3>2. \A k \in kept : k <= n + 1 => k <= n
        BY <2>5
      <3>3. \A i \in 1 .. Len(q[n]) : pos[i] \in Nat /\ pos[i] <= n
        <4>1. kept \subseteq Nat
          OBVIOUS
        <4>2. \A i \in 1 .. Len(q[n]) : pos[i] \in kept /\ pos[i] <= n
          BY <2>2 DEF Selects
        <4> QED
          BY <4>1, <4>2
      <3>4. Selects(list, kept, n + 1, q[n], pos)
        <4>1. \A i \in 1 .. Len(q[n]) : pos[i] <= n + 1
          BY <3>3
        <4> QED
          BY <2>2, <3>2, <4>1 DEF Selects
      <3> QED
        BY <2>1, <3>1, <3>4
    <2> QED
      BY <2>4, <2>5
  <1>5. Good(Len(list))
    <2> HIDE DEF T
    <2>1. Len(list) \in T
      BY <1>1, <1>3, <1>4, LeastCounterexample
    <2> QED
      BY <2>1, <1>1 DEF T
  <1>6. Retain(list, kept) = q[Len(list)]
    BY RetainIsRecursive DEF q
  <1> QED
    BY <1>5, <1>6

-----------------------------------------------------------------------------
(***************************************************************************)
(* Snapshots                                                               *)
(***************************************************************************)

Ordered(list) ==
    \A i, j \in 1 .. Len(list) : i <= j => list[i].timestamp <= list[j].timestamp

Past(list, time) == \A i \in 1 .. Len(list) : list[i].timestamp <= time

Spaced(list, gap) ==
    \A i, j \in 1 .. Len(list) :
        i <= j => (j - i) * gap <= list[j].timestamp - list[i].timestamp

Spans(list, reach) ==
    \A i, j \in 1 .. Len(list) : list[j].timestamp - list[i].timestamp <= reach

LEMMA SnapshotFields ==
    ASSUME NEW list \in Seq(Snapshot)
    PROVE  /\ Len(list) \in Nat
           /\ \A i \in 1 .. Len(list) : list[i] \in Snapshot /\ list[i].timestamp \in Nat
  <1>1. Len(list) \in Nat /\ \A i \in 1 .. Len(list) : list[i] \in Snapshot
    OBVIOUS
  <1>2. \A s \in Snapshot : s.timestamp \in Nat
    BY DEF Snapshot
  <1> QED
    BY <1>1, <1>2

LEMMA MoreTimesGap ==
    ASSUME NEW a \in Nat, NEW b \in Nat, NEW gap \in Nat, a <= b
    PROVE  a * gap <= b * gap
  <1> DEFINE c == b - a
             x == a * gap
             y == b * gap
             z == c * gap
  <1>1. c \in Nat /\ b = a + c
    OBVIOUS
  <1> HIDE DEF c
  <1>2. z \in Nat /\ x \in Nat
    BY <1>1
  <1>3. y = x + z
    BY <1>1
  <1> HIDE DEF x, y, z
  <1>4. x <= y
    BY <1>2, <1>3
  <1> QED
    BY <1>4 DEF x, y

LEMMA OneMoreGap ==
    ASSUME NEW a \in Int, NEW gap \in Nat
    PROVE  (a + 1) * gap = a * gap + gap
  OBVIOUS

LEMMA SelectedIsOrdered ==
    ASSUME NEW list \in Seq(Snapshot), NEW r \in Seq(Snapshot), NEW pos,
           NEW kept \in SUBSET (1 .. Len(list)), NEW n,
           Selects(list, kept, n, r, pos)
    PROVE  /\ Ordered(list) => Ordered(r)
           /\ \A time : Past(list, time) => Past(r, time)
           /\ \A gap \in Nat : Spaced(list, gap) => Spaced(r, gap)
  <1>1. \A i \in 1 .. Len(r) : pos[i] \in 1 .. Len(list) /\ r[i] = list[pos[i]]
    <2>1. \A i \in 1 .. Len(r) : pos[i] \in kept /\ r[i] = list[pos[i]]
      BY DEF Selects
    <2> QED
      BY <2>1
  <1>2. \A i, j \in 1 .. Len(r) : i <= j => j - i <= pos[j] - pos[i]
    BY DEF Selects
  <1>3. Len(list) \in Nat /\ Len(r) \in Nat
    OBVIOUS
  <1>4. ASSUME NEW i \in 1 .. Len(r), NEW j \in 1 .. Len(r), i <= j
        PROVE  pos[i] <= pos[j] /\ j - i \in Nat /\ pos[j] - pos[i] \in Nat
    BY <1>1, <1>2, <1>3, <1>4
  <1>5. Ordered(list) => Ordered(r)
    BY <1>1, <1>4 DEF Ordered
  <1>6. ASSUME NEW time, Past(list, time) PROVE Past(r, time)
    BY <1>1, <1>6 DEF Past
  <1>7. ASSUME NEW gap \in Nat, Spaced(list, gap) PROVE Spaced(r, gap)
    <2> SUFFICES ASSUME NEW i \in 1 .. Len(r), NEW j \in 1 .. Len(r), i <= j
                 PROVE  (j - i) * gap <= r[j].timestamp - r[i].timestamp
      BY DEF Spaced
    <2>1. (j - i) * gap <= (pos[j] - pos[i]) * gap
      BY <1>2, <1>4, MoreTimesGap
    <2>2. (pos[j] - pos[i]) * gap <= list[pos[j]].timestamp - list[pos[i]].timestamp
      BY <1>1, <1>4, <1>7 DEF Spaced
    <2>3. r[j].timestamp = list[pos[j]].timestamp /\ r[i].timestamp = list[pos[i]].timestamp
      BY <1>1
    <2>4. r[j].timestamp \in Nat /\ r[i].timestamp \in Nat
      BY SnapshotFields
    <2> DEFINE x == (j - i) * gap
               y == (pos[j] - pos[i]) * gap
    <2>5. x \in Int /\ y \in Int
      BY <1>4
    <2> HIDE DEF x, y
    <2>6. x <= y
      BY <2>1 DEF x, y
    <2>7. y <= r[j].timestamp - r[i].timestamp
      BY <2>2, <2>3 DEF y
    <2>8. x <= r[j].timestamp - r[i].timestamp
      BY <2>4, <2>5, <2>6, <2>7
    <2> QED
      BY <2>8 DEF x
  <1> QED
    BY <1>5, <1>6, <1>7

\* One more snapshot, taken now.
LEMMA AppendedIsOrdered ==
    ASSUME NEW list \in Seq(Snapshot), NEW time \in Nat, Past(list, time),
           NEW s \in Snapshot, s.timestamp = time
    PROVE  LET r == Append(list, s)
           IN  /\ r \in Seq(Snapshot)
               /\ Ordered(list) => Ordered(r)
               /\ Past(r, time)
               /\ \A gap \in Nat :
                    /\ Spaced(list, gap)
                    /\ \A i \in 1 .. Len(list) : gap <= time - list[i].timestamp
                    => Spaced(r, gap)
               /\ \A reach \in Nat :
                    /\ Ordered(list)
                    /\ \A i \in 1 .. Len(list) : time - list[i].timestamp <= reach
                    => Spans(r, reach)
  <1> DEFINE r == Append(list, s)
             n == Len(list)
  <1>1. n \in Nat /\ Len(r) = n + 1 /\ r \in Seq(Snapshot)
    OBVIOUS
  <1>2. \A i \in 1 .. n : r[i] = list[i]
    OBVIOUS
  <1>3. r[n + 1] = s
    OBVIOUS
  <1> HIDE DEF r
  <1>4. \A i \in 1 .. Len(r) : i \in 1 .. n \/ i = n + 1
    BY <1>1
  <1>5. \A i \in 1 .. n : list[i].timestamp \in Nat /\ list[i].timestamp <= time
    BY SnapshotFields DEF Past
  <1>6. Past(r, time)
    BY <1>1, <1>2, <1>3, <1>4, <1>5 DEF Past
  <1>7. ASSUME Ordered(list) PROVE Ordered(r)
    <2> SUFFICES ASSUME NEW i \in 1 .. Len(r), NEW j \in 1 .. Len(r), i <= j
                 PROVE  r[i].timestamp <= r[j].timestamp
      BY DEF Ordered
    <2>1. CASE j \in 1 .. n
      <3>1. i \in 1 .. n
        BY <1>1, <2>1
      <3> QED
        BY <1>2, <1>7, <2>1, <3>1 DEF Ordered
    <2>2. CASE j = n + 1
      BY <1>2, <1>3, <1>4, <1>5, <2>2
    <2> QED
      BY <1>4, <2>1, <2>2
  <1>8. ASSUME NEW gap \in Nat, Spaced(list, gap),
               \A i \in 1 .. n : gap <= time - list[i].timestamp
        PROVE  Spaced(r, gap)
    <2> SUFFICES ASSUME NEW i \in 1 .. Len(r), NEW j \in 1 .. Len(r), i <= j
                 PROVE  (j - i) * gap <= r[j].timestamp - r[i].timestamp
      BY DEF Spaced
    <2>1. CASE j \in 1 .. n
      <3>1. i \in 1 .. n
        BY <1>1, <2>1
      <3> QED
        BY <1>2, <1>8, <2>1, <3>1 DEF Spaced
    <2>2. CASE j = n + 1 /\ i = n + 1
      BY <1>1, <1>3, <2>2
    <2>3. CASE j = n + 1 /\ i \in 1 .. n
      <3>1. n \in 1 .. n /\ i <= n
        BY <1>1, <2>3
      <3>2. (n - i) * gap <= list[n].timestamp - list[i].timestamp
        BY <1>8, <2>3, <3>1 DEF Spaced
      <3>3. gap <= time - list[n].timestamp
        BY <1>8, <3>1
      <3>4. (j - i) * gap = (n - i) * gap + gap
        <4>1. j - i = (n - i) + 1 /\ n - i \in Int
          BY <1>1, <2>3
        <4>2. (n - i + 1) * gap = (n - i) * gap + gap
          BY <4>1, OneMoreGap
        <4> QED
          BY <4>1, <4>2, Zenon
      <3>5. list[n].timestamp \in Nat /\ list[i].timestamp \in Nat
        BY <1>5, <2>3, <3>1
      <3>6. r[j].timestamp = time /\ r[i].timestamp = list[i].timestamp
        BY <1>2, <1>3, <2>3
      <3> DEFINE x == (j - i) * gap
                 y == (n - i) * gap
      <3>7. y \in Int
        BY <1>1, <2>3
      <3> HIDE DEF x, y
      <3>9. x = y + gap
        BY <3>4 DEF x, y
      <3>10. y <= list[n].timestamp - list[i].timestamp
        BY <3>2 DEF y
      <3>8. x <= r[j].timestamp - r[i].timestamp
        <4> DEFINE last == list[n].timestamp
                   first == list[i].timestamp
        <4>1. last \in Nat /\ first \in Nat /\ gap <= time - last /\ y <= last - first
          BY <3>3, <3>5, <3>10
        <4>2. r[j].timestamp = time /\ r[i].timestamp = first
          BY <3>6
        <4> HIDE DEF last, first
        <4>3. x <= time - first
          BY <3>7, <3>9, <4>1
        <4> QED
          BY <4>2, <4>3
      <3> QED
        BY <3>8 DEF x
    <2> QED
      BY <1>4, <2>1, <2>2, <2>3
  <1>9. ASSUME NEW reach \in Nat, Ordered(list),
               \A i \in 1 .. n : time - list[i].timestamp <= reach
        PROVE  Spans(r, reach)
    <2> SUFFICES ASSUME NEW i \in 1 .. Len(r), NEW j \in 1 .. Len(r)
                 PROVE  r[j].timestamp - r[i].timestamp <= reach
      BY DEF Spans
    <2>1. r[j].timestamp \in Nat /\ r[j].timestamp <= time
      BY <1>2, <1>3, <1>4, <1>5
    <2>2. r[i].timestamp \in Nat /\ time - r[i].timestamp <= reach
      BY <1>2, <1>3, <1>4, <1>5, <1>9
    <2> QED
      BY <2>1, <2>2
  <1> QED
    BY <1>1, <1>6, <1>7, <1>8, <1>9 DEF r

-----------------------------------------------------------------------------
(***************************************************************************)
(* The inductive invariant                                                 *)
(***************************************************************************)

SourcesValid ==
    \A d \in DOMAIN price_sources :
        LET source == price_sources[d]
        IN  /\ source.type \in {"astroport_spot", "astroport_twap"} => PairPrices(source.pair, d)
            /\ source.type = "astroport_twap" =>
                /\ source.tolerance < source.window_size
                /\ source \in TwapInputs(d)

ListsTyped ==
    /\ DOMAIN snapshots \subseteq Denom
    /\ \A d \in DOMAIN snapshots : snapshots[d] \in Seq(Snapshot)

ListsOrdered ==
    \A d \in DOMAIN snapshots : Ordered(snapshots[d]) /\ Past(snapshots[d], now)

\* The inductive invariant: the types of OracleTypeOK, with the fields of every
\* source such as its validation left them, so that the pair of a TWAP source
\* always knows the denom it is asked for.
OracleSound ==
    /\ role \in Role
    /\ base_denom \in Denom
    /\ now \in Nat
    /\ IsMap(price_sources, Denom, PriceSource)
    /\ SourcesValid
    /\ ListsTyped
    /\ ListsOrdered
    /\ swap \in [Side -> Nat]
    /\ cumulative \in [Side -> 0 .. MaxCumulative]

LEMMA PairDenoms ==
    ASSUME NEW pair \in Pair, NEW d \in Denom, PairPrices(pair, d)
    PROVE  OtherDenom(pair, d) \in Denom
  <1>1. PairAssets[pair] \in Seq(ElementsOf(PairAssets[pair])) /\ Len(PairAssets[pair]) = 2
    BY OracleAssumption DEF PairPrices
  <1>2. 1 \in DOMAIN PairAssets[pair] /\ 2 \in DOMAIN PairAssets[pair]
    BY <1>1
  <1>3. PairAssets[pair][1] \in Denom /\ PairAssets[pair][2] \in Denom
    BY <1>2 DEF PairPrices, ElementsOf
  <1> QED
    BY <1>3 DEF OtherDenom

LEMMA TwapSource ==
    ASSUME NEW s \in PriceSource, s.type = "astroport_twap"
    PROVE  s.pair \in Pair /\ s.window_size \in Nat /\ s.tolerance \in Nat
  BY DEF PriceSource

LEMMA TwapInputsTyped ==
    ASSUME NEW d, NEW s \in TwapInputs(d)
    PROVE  s \in PriceSource /\ s.type = "astroport_twap"
  BY OracleAssumption DEF TwapInputs

LEMMA InitOracleSound == Init => OracleSound
  <1> SUFFICES ASSUME Init PROVE OracleSound
    OBVIOUS
  <1>1. role \in Role
    BY DEF Init, InitialRole, Role
  <1>2. base_denom \in Denom
    BY OracleAssumption DEF Init
  <1> DEFINE fixed == [type |-> "fixed", price |-> One]
  <1>3. fixed \in PriceSource /\ fixed.type = "fixed"
    BY OneAssumption DEF PriceSource, Decimal
  <1>4. DOMAIN price_sources = {base_denom} /\ price_sources[base_denom] = fixed
        /\ price_sources \in [{base_denom} -> PriceSource]
    BY <1>3 DEF Init, Save, EmptyMap
  <1>5. IsMap(price_sources, Denom, PriceSource)
    BY <1>2, <1>4 DEF IsMap
  <1>6. SourcesValid
    BY <1>3, <1>4 DEF SourcesValid
  <1>7. ListsTyped /\ ListsOrdered
    BY DEF Init, EmptyMap, ListsTyped, ListsOrdered
  <1>8. swap \in [Side -> Nat]
    <2>1. swap \in [Side -> UNION {Return[k] : k \in Side}] /\ \A k \in Side : swap[k] \in Return[k]
      BY DEF Init
    <2>2. \A k \in Side : swap[k] \in Nat
      BY <2>1, OracleAssumption
    <2> QED
      BY <2>1, <2>2
  <1>9. cumulative \in [Side -> 0 .. MaxCumulative]
    BY OracleAssumption DEF Init
  <1> QED
    BY <1>1, <1>2, <1>5, <1>6, <1>7, <1>8, <1>9 DEF Init, OracleSound

-----------------------------------------------------------------------------
(***************************************************************************)
(* The owner's messages                                                    *)
(***************************************************************************)

LEMMA UpdateOwnerSound ==
    ASSUME OracleSound, NEW sender \in Admin, NEW update \in OwnerInput,
           UpdateOwner(sender, update)
    PROVE  role' \in Role
  <1>1. role \in Role /\ update \in OwnerUpdates
    BY OracleAssumption DEF OracleSound
  <1>2. role' \in UpdatedRoles(role, update, sender)
    BY DEF UpdateOwner
  <1>3. CASE update = "accept_proposed"
    BY <1>1, <1>2, <1>3 DEF UpdatedRoles, Role
  <1>4. CASE update = "propose_new_owner"
    BY <1>1, <1>2, <1>4 DEF UpdatedRoles, Role
  <1>5. CASE update = "clear_proposed"
    BY <1>1, <1>2, <1>5 DEF UpdatedRoles, Role
  <1>6. CASE update = "set_emergency_owner"
    BY <1>1, <1>2, <1>6 DEF UpdatedRoles, Role
  <1>7. CASE update = "clear_emergency_owner"
    BY <1>1, <1>2, <1>7 DEF UpdatedRoles, Role
  <1>8. CASE update = "abolish_owner_role"
    BY <1>1, <1>2, <1>8 DEF UpdatedRoles, Role
  <1> QED
    BY <1>1, <1>3, <1>4, <1>5, <1>6, <1>7, <1>8 DEF OwnerUpdates

LEMMA SourceInputTyped ==
    ASSUME NEW input \in SourceInput
    PROVE  /\ input[1] \in Denom
           /\ input[2] \in PriceSource
           /\ input[2].type = "astroport_twap" => input[2] \in TwapInputs(input[1])
  <1>1. input \in Denom \X PriceSource
    BY OracleAssumption
  <1> QED
    BY <1>1 DEF TwapInputs

LEMMA SetPriceSourceSound ==
    ASSUME OracleSound, NEW sender \in Admin, NEW input \in SourceInput,
           SetPriceSource(sender, input[1], input[2])
    PROVE  IsMap(price_sources, Denom, PriceSource)' /\ SourcesValid'
  <1> DEFINE d == input[1]
             s == input[2]
  <1>1. d \in Denom /\ s \in PriceSource
        /\ (s.type = "astroport_twap" => s \in TwapInputs(d))
    BY SourceInputTyped
  <1>2. price_sources' = Save(price_sources, d, s) /\ ValidSource(d, s)
    BY DEF SetPriceSource
  <1> HIDE DEF d, s
  <1>3. DOMAIN price_sources' = DOMAIN price_sources \cup {d}
        /\ \A e \in DOMAIN price_sources' :
              price_sources'[e] = IF e = d THEN s ELSE price_sources[e]
    BY <1>2 DEF Save
  <1>4. DOMAIN price_sources \subseteq Denom /\ price_sources \in [DOMAIN price_sources -> PriceSource]
    BY DEF OracleSound, IsMap
  <1>5. price_sources' \in [DOMAIN price_sources' -> PriceSource]
    BY <1>1, <1>2, <1>4 DEF Save
  <1>6. IsMap(price_sources, Denom, PriceSource)'
    BY <1>1, <1>3, <1>4, <1>5 DEF IsMap
  <1>7. SourcesValid'
    <2> SUFFICES ASSUME NEW e \in DOMAIN price_sources'
                 PROVE  LET source == price_sources'[e]
                        IN  /\ source.type \in {"astroport_spot", "astroport_twap"} => PairPrices(source.pair, e)
                            /\ source.type = "astroport_twap" =>
                                /\ source.tolerance < source.window_size
                                /\ source \in TwapInputs(e)
      BY DEF SourcesValid
    <2>1. CASE e = d
      BY <1>1, <1>2, <1>3, <2>1 DEF ValidSource, ValidPair
    <2>2. CASE e # d
      BY <1>3, <2>2 DEF OracleSound, SourcesValid
    <2> QED
      BY <2>1, <2>2
  <1> QED
    BY <1>6, <1>7

LEMMA RemovePriceSourceSound ==
    ASSUME OracleSound, NEW sender \in Admin, NEW d \in Denom, RemovePriceSource(sender, d)
    PROVE  IsMap(price_sources, Denom, PriceSource)' /\ SourcesValid'
  <1>1. price_sources' = Remove(price_sources, d)
    BY DEF RemovePriceSource
  <1>2. DOMAIN price_sources' = DOMAIN price_sources \ {d}
        /\ \A e \in DOMAIN price_sources' : price_sources'[e] = price_sources[e]
    BY <1>1 DEF Remove
  <1>3. DOMAIN price_sources \subseteq Denom /\ price_sources \in [DOMAIN price_sources -> PriceSource]
    BY DEF OracleSound, IsMap
  <1>4. price_sources' \in [DOMAIN price_sources' -> PriceSource]
    BY <1>1, <1>3 DEF Remove
  <1>5. SourcesValid'
    BY <1>2 DEF OracleSound, SourcesValid
  <1> QED
    BY <1>2, <1>3, <1>4, <1>5 DEF IsMap

LEMMA OwnerStepSound == ASSUME OracleSound, OwnerStep PROVE OracleSound'
  <1> PICK sender \in Admin :
        \/ \E update \in OwnerInput : UpdateOwner(sender, update)
        \/ \E input \in SourceInput : SetPriceSource(sender, input[1], input[2])
        \/ \E d \in Denom : RemovePriceSource(sender, d)
        \/ \E d \in BaseInput : UpdateConfig(sender, d)
    BY DEF OwnerStep
  <1>1. ASSUME NEW update \in OwnerInput, UpdateOwner(sender, update) PROVE OracleSound'
    <2>1. role' \in Role
      BY <1>1, UpdateOwnerSound
    <2> QED
      BY <1>1, <2>1
      DEF UpdateOwner, OracleSound, IsMap, SourcesValid, ListsTyped, ListsOrdered, Past, Ordered, market
  <1>2. ASSUME NEW input \in SourceInput, SetPriceSource(sender, input[1], input[2])
        PROVE  OracleSound'
    <2>1. IsMap(price_sources, Denom, PriceSource)' /\ SourcesValid'
      BY <1>2, SetPriceSourceSound
    <2> QED
      BY <1>2, <2>1 DEF SetPriceSource, OracleSound, ListsTyped, ListsOrdered, Past, Ordered, market
  <1>3. ASSUME NEW d \in Denom, RemovePriceSource(sender, d) PROVE OracleSound'
    <2>1. IsMap(price_sources, Denom, PriceSource)' /\ SourcesValid'
      BY <1>3, RemovePriceSourceSound
    <2> QED
      BY <1>3, <2>1 DEF RemovePriceSource, OracleSound, ListsTyped, ListsOrdered, Past, Ordered, market
  <1>4. ASSUME NEW d \in BaseInput, UpdateConfig(sender, d) PROVE OracleSound'
    <2>1. base_denom' \in Denom
      BY <1>4, OracleAssumption DEF UpdateConfig
    <2> QED
      BY <1>4, <2>1
      DEF UpdateConfig, OracleSound, IsMap, SourcesValid, ListsTyped, ListsOrdered, Past, Ordered, market
  <1> QED
    BY <1>1, <1>2, <1>3, <1>4

-----------------------------------------------------------------------------
(***************************************************************************)
(* Recording                                                               *)
(***************************************************************************)

ListOf(d) == LoadOr(snapshots, d, <<>>)

RecentEnough(list, source) ==
    {i \in DOMAIN list : now - list[i].timestamp <= source.window_size + source.tolerance}

SnapshotNow(d) ==
    [timestamp |-> now, price_cumulative |-> cumulative[<<price_sources[d].pair, d>>]]

LEMMA ListOfTyped ==
    ASSUME OracleSound, NEW d
    PROVE  ListOf(d) \in Seq(Snapshot) /\ Ordered(ListOf(d)) /\ Past(ListOf(d), now)
  <1>1. CASE d \in DOMAIN snapshots
    BY <1>1 DEF OracleSound, ListsTyped, ListsOrdered, ListOf, LoadOr
  <1>2. CASE d \notin DOMAIN snapshots
    BY <1>2 DEF ListOf, LoadOr, Ordered, Past
  <1> QED
    BY <1>1, <1>2

LEMMA TwapDenom ==
    ASSUME OracleSound, NEW d, HasTwap(d)
    PROVE  /\ d \in Denom
           /\ price_sources[d] \in PriceSource /\ price_sources[d].type = "astroport_twap"
           /\ price_sources[d].pair \in Pair /\ PairPrices(price_sources[d].pair, d)
           /\ <<price_sources[d].pair, d>> \in Side
           /\ price_sources[d].window_size \in Nat /\ price_sources[d].tolerance \in Nat
           /\ price_sources[d].tolerance < price_sources[d].window_size
           /\ price_sources[d] \in TwapInputs(d)
  <1>1. d \in Denom /\ price_sources[d] \in PriceSource /\ price_sources[d].type = "astroport_twap"
    BY DEF OracleSound, IsMap, HasTwap
  <1>2. /\ PairPrices(price_sources[d].pair, d)
        /\ price_sources[d].tolerance < price_sources[d].window_size
        /\ price_sources[d] \in TwapInputs(d)
    BY <1>1 DEF OracleSound, SourcesValid, HasTwap
  <1>3. /\ price_sources[d].pair \in Pair
        /\ price_sources[d].window_size \in Nat /\ price_sources[d].tolerance \in Nat
    BY <1>1, TwapSource
  <1>4. <<price_sources[d].pair, d>> \in Side
    BY <1>1, <1>2, <1>3 DEF Side
  <1> QED
    BY <1>1, <1>2, <1>3, <1>4

LEMMA SnapshotNowTyped ==
    ASSUME OracleSound, NEW d, HasTwap(d)
    PROVE  SnapshotNow(d) \in Snapshot /\ SnapshotNow(d).timestamp = now
  <1>1. <<price_sources[d].pair, d>> \in Side
    BY TwapDenom
  <1>2. cumulative[<<price_sources[d].pair, d>>] \in 0 .. MaxCumulative /\ now \in Nat
    BY <1>1 DEF OracleSound
  <1> QED
    BY <1>2 DEF SnapshotNow, Snapshot

\* Recording does nothing, or purges and appends.
LEMMA RecordedIs ==
    ASSUME OracleSound, NEW d, HasTwap(d)
    PROVE  IF TooSoon(ListOf(d), price_sources[d]) THEN Recorded(d) = ListOf(d)
           ELSE \E r, pos :
                  /\ r \in Seq(Snapshot)
                  /\ Selects(ListOf(d), RecentEnough(ListOf(d), price_sources[d]),
                             Len(ListOf(d)), r, pos)
                  /\ Recorded(d) = Append(r, SnapshotNow(d))
  <1> DEFINE list == ListOf(d)
             kept == RecentEnough(list, price_sources[d])
             r == Retain(list, kept)
  <1>1. Recorded(d) = IF TooSoon(list, price_sources[d]) THEN list
                      ELSE Append(r, SnapshotNow(d))
    BY DEF Recorded, Retained, RecentEnough, SnapshotNow, ListOf
  <1>2. list \in Seq(Snapshot)
    BY ListOfTyped
  <1>3. kept \in SUBSET (1 .. Len(list))
    BY <1>2 DEF RecentEnough
  <1> HIDE DEF list, kept, r
  <1>4. r \in Seq(Snapshot) /\ \E pos : Selects(list, kept, Len(list), r, pos)
    BY <1>2, <1>3, RetainSelects DEF r
  <1> QED
    BY <1>1, <1>4 DEF list, kept

LEMMA RecentIndexes ==
    ASSUME OracleSound, NEW d, NEW source
    PROVE  RecentEnough(ListOf(d), source) \in SUBSET (1 .. Len(ListOf(d)))
  BY ListOfTyped DEF RecentEnough

LEMMA RecordedTyped ==
    ASSUME OracleSound, NEW d, HasTwap(d)
    PROVE  Recorded(d) \in Seq(Snapshot) /\ Ordered(Recorded(d)) /\ Past(Recorded(d), now)
  <1>1. CASE TooSoon(ListOf(d), price_sources[d])
    BY <1>1, RecordedIs, ListOfTyped
  <1>2. CASE ~TooSoon(ListOf(d), price_sources[d])
    <2>1. PICK r, pos :
                  /\ r \in Seq(Snapshot)
                  /\ Selects(ListOf(d), RecentEnough(ListOf(d), price_sources[d]),
                             Len(ListOf(d)), r, pos)
                  /\ Recorded(d) = Append(r, SnapshotNow(d))
      BY <1>2, RecordedIs
    <2>2. Ordered(r) /\ Past(r, now)
      BY <2>1, ListOfTyped, RecentIndexes, SelectedIsOrdered
    <2>3. now \in Nat
      BY DEF OracleSound
    <2> QED
      BY <2>1, <2>2, <2>3, SnapshotNowTyped, AppendedIsOrdered
  <1> QED
    BY <1>1, <1>2

LEMMA RecordSteps ==
    ASSUME NEW denoms, RecordTwapSnapshots(denoms)
    PROVE  /\ \A d \in denoms : HasTwap(d)
           /\ DOMAIN snapshots' = DOMAIN snapshots \cup denoms
           /\ \A d \in denoms : snapshots'[d] = Recorded(d)
           /\ \A d \in DOMAIN snapshots' \ denoms :
                d \in DOMAIN snapshots /\ snapshots'[d] = snapshots[d]
           /\ UNCHANGED <<role, base_denom, price_sources, swap, cumulative, feeds, now>>
  BY DEF RecordTwapSnapshots, HasTwap, market

LEMMA RecordSound ==
    ASSUME OracleSound, NEW denoms, RecordTwapSnapshots(denoms)
    PROVE  OracleSound'
  <1>3. \A d \in denoms : HasTwap(d)
    BY DEF RecordTwapSnapshots, HasTwap
  <1>4. \A d \in denoms : snapshots'[d] = Recorded(d)
    BY RecordSteps
  <1>5. \A d \in DOMAIN snapshots' \ denoms :
            d \in DOMAIN snapshots /\ snapshots'[d] = snapshots[d]
    BY RecordSteps
  <1>6. now' = now
    BY RecordSteps
  <1>7. \A d \in denoms : /\ Recorded(d) \in Seq(Snapshot)
                         /\ Ordered(Recorded(d)) /\ Past(Recorded(d), now)
    BY <1>3, RecordedTyped
  <1>1. ListsTyped'
    <2>1. DOMAIN snapshots' \subseteq Denom
      BY RecordSteps, TwapDenom DEF OracleSound, ListsTyped
    <2>2. ASSUME NEW d \in DOMAIN snapshots' PROVE snapshots'[d] \in Seq(Snapshot)
      <3>1. CASE d \in denoms
        BY <1>4, <1>7, <3>1
      <3>2. CASE d \notin denoms
        BY <1>5, <3>2 DEF OracleSound, ListsTyped
      <3> QED
        BY <3>1, <3>2
    <2> QED
      BY <2>1, <2>2 DEF ListsTyped
  <1>2. ListsOrdered'
    <2> SUFFICES ASSUME NEW d \in DOMAIN snapshots'
                 PROVE  Ordered(snapshots'[d]) /\ Past(snapshots'[d], now')
      BY DEF ListsOrdered, Ordered, Past
    <2>1. CASE d \in denoms
      BY <1>4, <1>6, <1>7, <2>1
    <2>2. CASE d \notin denoms
      BY <1>5, <1>6, <2>2 DEF OracleSound, ListsOrdered
    <2> QED
      BY <2>1, <2>2
  <1> QED
    BY <1>1, <1>2, RecordSteps DEF OracleSound, IsMap, SourcesValid

-----------------------------------------------------------------------------
(***************************************************************************)
(* Time and trades                                                         *)
(***************************************************************************)

LEMMA TickSound == ASSUME OracleSound, NEW seconds \in Nat, Tick(seconds) PROVE OracleSound'
  <1>1. seconds \in Nat /\ now \in Nat
    BY DEF OracleSound
  <1>2. now' = now + seconds /\ UNCHANGED <<role, base_denom, price_sources, snapshots, swap, feeds>>
    BY DEF Tick, contract
  <1>3. ListsOrdered'
    <2> SUFFICES ASSUME NEW d \in DOMAIN snapshots'
                 PROVE  Ordered(snapshots'[d]) /\ Past(snapshots'[d], now')
      BY DEF ListsOrdered, Ordered, Past
    <2>1. snapshots'[d] = snapshots[d] /\ d \in DOMAIN snapshots
      BY <1>2
    <2> DEFINE list == snapshots[d]
    <2>2. list \in Seq(Snapshot) /\ Ordered(list) /\ Past(list, now)
      BY <2>1 DEF OracleSound, ListsTyped, ListsOrdered
    <2> HIDE DEF list
    <2>3. Past(list, now + seconds)
      BY <1>1, <2>2, SnapshotFields DEF Past
    <2> QED
      BY <1>2, <2>1, <2>2, <2>3 DEF list
  <1>4. cumulative' \in [Side -> 0 .. MaxCumulative]
    <2> SUFFICES ASSUME NEW k \in Side
                 PROVE  (cumulative[k] + seconds * PricePerSecond(k[1], k[2])) % (MaxCumulative + 1)
                            \in 0 .. MaxCumulative
      BY DEF Tick
    <2>1. k[1] \in Pair /\ k[2] \in Denom /\ PairPrices(k[1], k[2]) /\ k = <<k[1], k[2]>>
      BY DEF Side
    <2>2. OtherDenom(k[1], k[2]) \in Denom
      BY <2>1, PairDenoms
    <2> DEFINE unit == Unit[IF PairType[k[1]] = "stable" THEN OtherDenom(k[1], k[2]) ELSE k[2]]
    <2>3. unit \in Nat \ {0}
      BY <2>1, <2>2, OracleAssumption
    <2>4. swap[<<k[1], k[2]>>] \in Nat
      BY <2>1 DEF OracleSound
    <2> HIDE DEF unit
    <2> DEFINE price == (swap[<<k[1], k[2]>>] * TwapUnit) \div unit
               coins == swap[<<k[1], k[2]>>] * TwapUnit
    <2>5. coins \in Nat
      BY <2>4, OracleAssumption
    <2> HIDE DEF coins
    <2>6. coins \div unit \in Nat
      BY <2>3, <2>5
    <2>7. price \in Nat
      BY <2>6 DEF coins
    <2> HIDE DEF price
    <2>8. PricePerSecond(k[1], k[2]) = price
      BY DEF PricePerSecond, price, unit
    <2> DEFINE sum == cumulative[k] + seconds * price
    <2>9. seconds * price \in Nat
      BY <1>1, <2>7
    <2>10. cumulative[k] \in Nat /\ MaxCumulative \in Nat
      BY OracleAssumption DEF OracleSound
    <2>11. sum \in Nat
      BY <2>9, <2>10
    <2> HIDE DEF sum
    <2>12. sum % (MaxCumulative + 1) \in 0 .. MaxCumulative
      BY <2>10, <2>11
    <2> QED
      BY <2>8, <2>12 DEF sum
  <1> QED
    BY <1>1, <1>2, <1>3, <1>4 DEF OracleSound, IsMap, SourcesValid, ListsTyped

LEMMA TradeSound ==
    ASSUME OracleSound, NEW side \in Side, NEW coins \in Return[side], Trade(side, coins)
    PROVE  OracleSound'
  <1>1. coins \in Nat
    BY OracleAssumption
  <1>2. swap' \in [Side -> Nat]
    BY <1>1 DEF Trade, OracleSound
  <1> QED
    BY <1>2 DEF Trade, contract, OracleSound, IsMap, SourcesValid, ListsTyped, ListsOrdered, Ordered, Past

LEMMA NextOracleSound == OracleSound /\ [Next]_oracleVars => OracleSound'
  <1> SUFFICES ASSUME OracleSound, [Next]_oracleVars PROVE OracleSound'
    OBVIOUS
  <1>1. CASE OwnerStep
    BY <1>1, OwnerStepSound
  <1>2. ASSUME NEW denoms \in RecordInput, RecordTwapSnapshots(denoms) PROVE OracleSound'
    BY <1>2, RecordSound
  <1>3. ASSUME NEW seconds \in TimeStep, Tick(seconds) PROVE OracleSound'
    BY <1>3, OracleAssumption, TickSound
  <1>4. ASSUME NEW side \in Side, NEW coins \in Return[side], Trade(side, coins) PROVE OracleSound'
    BY <1>4, TradeSound
  <1>5. ASSUME NEW feed \in Feed, NEW quote \in Quote, Publish(feed, quote) PROVE OracleSound'
    BY <1>5 DEF Publish, contract, OracleSound, IsMap, SourcesValid, ListsTyped, ListsOrdered, Ordered, Past
  <1>6. CASE UNCHANGED oracleVars
    BY <1>6 DEF oracleVars, contract, market, OracleSound, IsMap, SourcesValid, ListsTyped, ListsOrdered, Ordered, Past
  <1> QED
    BY <1>1, <1>2, <1>3, <1>4, <1>5, <1>6 DEF Next, MarketStep

LEMMA OracleSoundAlways == Spec => []OracleSound
  BY InitOracleSound, NextOracleSound, PTL DEF Spec

LEMMA HistoryIsOracle == HistorySpec => Spec
  <1>1. HistoryInit => Init
    BY DEF HistoryInit
  <1>2. [HistoryNext]_<<oracleVars, traded>> => [Next]_oracleVars
    BY DEF HistoryNext
  <1> QED
    BY <1>1, <1>2, PTL DEF HistorySpec, Spec

LEMMA SoundHasTypes == OracleSound => OracleTypeOK
  <1> SUFFICES ASSUME OracleSound PROVE OracleTypeOK
    OBVIOUS
  <1>1. ASSUME NEW d \in DOMAIN snapshots
        PROVE  /\ \A i \in DOMAIN snapshots[d] :
                    snapshots[d][i] \in Snapshot /\ snapshots[d][i].timestamp <= now
               /\ \A i, j \in DOMAIN snapshots[d] :
                    i <= j => snapshots[d][i].timestamp <= snapshots[d][j].timestamp
    <2> DEFINE list == snapshots[d]
    <2>1. list \in Seq(Snapshot) /\ Ordered(list) /\ Past(list, now)
      BY DEF OracleSound, ListsTyped, ListsOrdered
    <2> HIDE DEF list
    <2>2. DOMAIN list = 1 .. Len(list) /\ \A i \in 1 .. Len(list) : list[i] \in Snapshot
      BY <2>1
    <2>3. /\ \A i \in DOMAIN list : list[i] \in Snapshot /\ list[i].timestamp <= now
          /\ \A i, j \in DOMAIN list : i <= j => list[i].timestamp <= list[j].timestamp
      BY <2>1, <2>2 DEF Ordered, Past
    <2> QED
      BY <2>3 DEF list
  <1> QED
    BY <1>1 DEF OracleSound, OracleTypeOK, ListsTyped

\* Everything the oracle stores has the type the Rust structs declare, whatever
\* the messages and the trades: snapshots are in order and never later than now,
\* so no difference of timestamps that recording or averaging takes underflows.
THEOREM OracleTypeCorrect == HistorySpec => []OracleTypeOK
  BY HistoryIsOracle, OracleSoundAlways, SoundHasTypes, PTL

-----------------------------------------------------------------------------
(***************************************************************************)
(* How many snapshots there are                                            *)
(***************************************************************************)

LEMMA MinIsLeast ==
    ASSUME NEW S \in SUBSET Nat, S # {}
    PROVE  Min(S) \in S /\ \A y \in S : Min(S) <= y
  <1>1. \E x \in S : \A y \in S : x <= y
    <2>1. PICK x \in S : \A y \in S : ~(<<y, x>> \in OpToRel(<, Nat))
      BY WFMin, NatLessThanWellFounded
    <2>2. \A y \in S : ~(y < x)
      BY <2>1 DEF OpToRel
    <2>3. x \in Nat /\ \A y \in S : y \in Nat
      OBVIOUS
    <2> QED
      BY <2>2, <2>3
  <1> QED
    BY <1>1 DEF Min

LEMMA FiniteHasMax ==
    ASSUME NEW S \in SUBSET Nat, S # {}, IsFiniteSet(S)
    PROVE  \E x \in S : \A y \in S : x >= y
  <1> DEFINE HasMax(R) == \E x \in R : \A y \in R : x >= y
             T == {n \in Nat : \A R \in SUBSET Nat :
                      R # {} /\ IsFiniteSet(R) /\ Cardinality(R) = n => HasMax(R)}
  <1>1. 0 \in T
    BY FS_EmptySet
  <1>2. ASSUME NEW n \in Nat, n \in T PROVE n + 1 \in T
    <2> SUFFICES ASSUME NEW R \in SUBSET Nat, R # {}, IsFiniteSet(R), Cardinality(R) = n + 1
                 PROVE  HasMax(R)
      OBVIOUS
    <2>1. PICK x \in R : TRUE
      OBVIOUS
    <2> DEFINE Q == R \ {x}
    <2>2. Q \in SUBSET Nat /\ IsFiniteSet(Q) /\ Cardinality(Q) = n
      <3>1. IsFiniteSet(Q) /\ Cardinality(Q) = Cardinality(R) - 1
        BY FS_RemoveElement
      <3> QED
        BY <3>1
    <2>3. CASE Q = {}
      BY <2>3
    <2>4. CASE Q # {}
      <3>1. HasMax(Q)
        BY <1>2, <2>2, <2>4
      <3>2. PICK m \in Q : \A y \in Q : m >= y
        BY <3>1
      <3>3. CASE x >= m
        BY <3>2, <3>3
      <3>4. CASE ~(x >= m)
        BY <3>2, <3>4
      <3> QED
        BY <3>3, <3>4
    <2> QED
      BY <2>3, <2>4
  <1>3. Cardinality(S) \in Nat
    BY FS_CardinalityType
  <1>4. Cardinality(S) \in T
    <2> HIDE DEF T
    <2> QED
      BY <1>1, <1>2, <1>3, LeastCounterexample
  <1> QED
    BY <1>4

LEMMA MaxIsGreatest ==
    ASSUME NEW S \in SUBSET Nat, S # {}, IsFiniteSet(S)
    PROVE  Max(S) \in S /\ \A y \in S : y <= Max(S)
  <1>1. \E x \in S : \A y \in S : x >= y
    BY FiniteHasMax
  <1>2. Max(S) \in S /\ \A y \in S : Max(S) >= y
    BY <1>1 DEF Max
  <1> QED
    BY <1>2

Tolerances(d) == {s.tolerance : s \in TwapInputs(d)}

Reaches(d) == {s.window_size + s.tolerance : s \in TwapInputs(d)}

LEMMA TwapInputsFinite == ASSUME NEW d PROVE IsFiniteSet(TwapInputs(d))
  <1> DEFINE S == {i \in SourceInput : i[1] = d /\ i[2].type = "astroport_twap"}
  <1>1. IsFiniteSet(S)
    BY SourcesFinite, FS_Subset
  <1> HIDE DEF S
  <1>2. IsFiniteSet({i[2] : i \in S})
    <2> DEFINE f == [i \in S |-> i[2]]
    <2>1. f \in Surjection(S, {i[2] : i \in S})
      BY DEF Surjection
    <2> QED
      BY <1>1, <2>1, FS_Surjection
  <1> QED
    BY <1>2 DEF S, TwapInputs

LEMMA ReachesFinite == ASSUME NEW d PROVE IsFiniteSet(Reaches(d))
  <1> DEFINE S == TwapInputs(d)
             f == [s \in S |-> s.window_size + s.tolerance]
  <1>1. IsFiniteSet(S)
    BY TwapInputsFinite
  <1> HIDE DEF S
  <1>2. f \in Surjection(S, {s.window_size + s.tolerance : s \in S})
    BY DEF Surjection
  <1> QED
    BY <1>1, <1>2, FS_Surjection DEF S, Reaches

Gap(d) == Min(Tolerances(d))

Reach(d) == Max(Reaches(d))

LEMMA GapAndReach ==
    ASSUME NEW d, TwapInputs(d) # {}
    PROVE  /\ Gap(d) \in Nat /\ Reach(d) \in Nat
           /\ \A s \in TwapInputs(d) : Gap(d) <= s.tolerance
                                       /\ s.window_size + s.tolerance <= Reach(d)
  <1>1. \A s \in TwapInputs(d) : s.tolerance \in Nat /\ s.window_size + s.tolerance \in Nat
    BY TwapInputsTyped, TwapSource
  <1>2. Tolerances(d) \in SUBSET Nat /\ Tolerances(d) # {}
    BY <1>1 DEF Tolerances
  <1>3. Reaches(d) \in SUBSET Nat /\ Reaches(d) # {}
    BY <1>1 DEF Reaches
  <1>4. Gap(d) \in Tolerances(d) /\ \A y \in Tolerances(d) : Gap(d) <= y
    BY <1>2, MinIsLeast DEF Gap
  <1>5. Reach(d) \in Reaches(d) /\ \A y \in Reaches(d) : y <= Reach(d)
    BY <1>3, ReachesFinite, MaxIsGreatest DEF Reach
  <1>6. \A s \in TwapInputs(d) : s.tolerance \in Tolerances(d)
                                 /\ s.window_size + s.tolerance \in Reaches(d)
    BY DEF Tolerances, Reaches
  <1> QED
    BY <1>2, <1>3, <1>4, <1>5, <1>6

\* The inductive invariant behind the bound on the snapshots.
SnapshotsSpaced ==
    \A d \in DOMAIN snapshots :
        /\ TwapInputs(d) # {}
        /\ Spaced(snapshots[d], Gap(d))
        /\ Spans(snapshots[d], Reach(d))

\* What is appended comes a tolerance after the last, and what is kept lies in
\* one window and tolerance.
LEMMA RecordedSpaced ==
    ASSUME OracleSound, SnapshotsSpaced, NEW d, HasTwap(d)
    PROVE  /\ TwapInputs(d) # {}
           /\ Spaced(Recorded(d), Gap(d))
           /\ Spans(Recorded(d), Reach(d))
  <1> DEFINE list == ListOf(d)
             source == price_sources[d]
  <1>1. source \in TwapInputs(d) /\ source.tolerance \in Nat /\ source.window_size \in Nat
    BY TwapDenom
  <1>2. Gap(d) \in Nat /\ Reach(d) \in Nat /\ Gap(d) <= source.tolerance
        /\ source.window_size + source.tolerance <= Reach(d)
    BY <1>1, GapAndReach
  <1>3. list \in Seq(Snapshot) /\ Ordered(list) /\ Past(list, now) /\ now \in Nat
    BY ListOfTyped DEF OracleSound
  <1>4. Spaced(list, Gap(d)) /\ Spans(list, Reach(d))
    <2>1. CASE d \in DOMAIN snapshots
      BY <2>1 DEF SnapshotsSpaced, ListOf, LoadOr
    <2>2. CASE d \notin DOMAIN snapshots
      BY <2>2 DEF ListOf, LoadOr, Spaced, Spans
    <2> QED
      BY <2>1, <2>2
  <1>5. CASE TooSoon(list, source)
    BY <1>1, <1>4, <1>5, RecordedIs
  <1>6. CASE ~TooSoon(list, source)
    <2> DEFINE kept == RecentEnough(list, source)
    <2>1. PICK r, pos :
                  /\ r \in Seq(Snapshot)
                  /\ Selects(list, kept, Len(list), r, pos)
                  /\ Recorded(d) = Append(r, SnapshotNow(d))
      BY <1>6, RecordedIs
    <2>2. kept \in SUBSET (1 .. Len(list))
      BY RecentIndexes
    <2>3. Ordered(r) /\ Past(r, now) /\ Spaced(r, Gap(d))
      <3> HIDE DEF list, kept
      <3> QED
        BY <1>2, <1>3, <1>4, <2>1, <2>2, SelectedIsOrdered
    <2>4. ASSUME NEW i \in 1 .. Len(r)
          PROVE  Gap(d) <= now - r[i].timestamp /\ now - r[i].timestamp <= Reach(d)
      <3>1. pos[i] \in kept /\ r[i] = list[pos[i]]
        BY <2>1 DEF Selects
      <3>2. pos[i] \in 1 .. Len(list) /\ list # <<>> /\ Len(list) \in 1 .. Len(list) /\ Len(list) \in Nat
        <4> HIDE DEF list, kept
        <4>1. Len(list) \in Nat
          BY <1>3
        <4>2. pos[i] \in 1 .. Len(list)
          BY <2>2, <3>1
        <4>3. Len(list) # 0
          BY <4>1, <4>2
        <4> QED
          BY <1>3, <4>1, <4>2, <4>3
      <3>3. now - list[pos[i]].timestamp <= source.window_size + source.tolerance
        BY <3>1 DEF RecentEnough
      <3>4. ~(now - list[Len(list)].timestamp < source.tolerance)
        BY <1>6, <3>2 DEF TooSoon
      <3> HIDE DEF list, source, kept
      <3>5. list[pos[i]].timestamp <= list[Len(list)].timestamp
        BY <1>3, <3>2 DEF Ordered
      <3>6. list[pos[i]].timestamp \in Nat /\ list[Len(list)].timestamp \in Nat
        BY <1>3, <3>2, SnapshotFields
      <3> DEFINE a == list[pos[i]].timestamp
                 b == list[Len(list)].timestamp
      <3>7. a \in Nat /\ b \in Nat /\ a <= b /\ ~(now - b < source.tolerance)
            /\ now - a <= source.window_size + source.tolerance
        BY <3>3, <3>4, <3>5, <3>6
      <3>8. r[i].timestamp = a
        BY <3>1
      <3> HIDE DEF a, b
      <3>9. Gap(d) <= now - a /\ now - a <= Reach(d)
        BY <1>1, <1>2, <1>3, <3>7
      <3> QED
        BY <3>8, <3>9
    <2> HIDE DEF list, source, kept
    <2>5. SnapshotNow(d) \in Snapshot /\ SnapshotNow(d).timestamp = now
      BY SnapshotNowTyped
    <2> DEFINE s == SnapshotNow(d)
    <2>6. s \in Snapshot /\ s.timestamp = now
      BY <2>5
    <2> HIDE DEF s
    <2>7. r \in Seq(Snapshot)
      BY <2>1
    <2>8. Spaced(Append(r, s), Gap(d)) /\ Spans(Append(r, s), Reach(d))
      BY <1>2, <1>3, <2>3, <2>4, <2>6, <2>7, AppendedIsOrdered
    <2> QED
      BY <1>1, <2>1, <2>8 DEF s
  <1> QED
    BY <1>5, <1>6

LEMMA SnapshotsStaySpaced ==
    OracleSound /\ SnapshotsSpaced /\ [Next]_oracleVars => SnapshotsSpaced'
  <1> SUFFICES ASSUME OracleSound, SnapshotsSpaced, [Next]_oracleVars PROVE SnapshotsSpaced'
    OBVIOUS
  <1>1. CASE UNCHANGED snapshots
    BY <1>1 DEF SnapshotsSpaced
  <1>2. ASSUME NEW denoms \in RecordInput, RecordTwapSnapshots(denoms) PROVE SnapshotsSpaced'
    <2>1. \A d \in denoms : HasTwap(d)
      BY <1>2 DEF RecordTwapSnapshots, HasTwap
    <2>2. \A d \in denoms : snapshots'[d] = Recorded(d)
      BY <1>2, RecordSteps
    <2>3. \A d \in DOMAIN snapshots' \ denoms :
              d \in DOMAIN snapshots /\ snapshots'[d] = snapshots[d]
      BY <1>2, RecordSteps
    <2>4. \A d \in denoms : TwapInputs(d) # {} /\ Spaced(Recorded(d), Gap(d))
                            /\ Spans(Recorded(d), Reach(d))
      BY <2>1, RecordedSpaced
    <2> QED
      BY <2>2, <2>3, <2>4 DEF SnapshotsSpaced
  <1>3. UNCHANGED snapshots \/ \E denoms \in RecordInput : RecordTwapSnapshots(denoms)
    BY DEF Next, OwnerStep, MarketStep, UpdateOwner, SetPriceSource, RemovePriceSource,
           UpdateConfig, Tick, Trade, Publish, oracleVars, contract
  <1> QED
    BY <1>1, <1>2, <1>3

\* n snapshots a gap apart span (n - 1) gaps.
LEMMA SpacedIsBounded ==
    ASSUME OracleSound, SnapshotsSpaced
    PROVE  SnapshotsBounded
  <1> SUFFICES ASSUME NEW d \in DOMAIN snapshots, Gap(d) > 0
               PROVE  Len(snapshots[d]) <= 1 + Reach(d) \div Gap(d)
    BY DEF SnapshotsBounded, Gap, Reach, Tolerances, Reaches
  <1> DEFINE list == snapshots[d]
             n == Len(list)
             gap == Gap(d)
             reach == Reach(d)
  <1>1. gap \in Nat /\ reach \in Nat /\ gap > 0
    BY GapAndReach DEF SnapshotsSpaced
  <1>2. Spaced(list, gap) /\ Spans(list, reach)
    BY DEF SnapshotsSpaced
  <1>3. list \in Seq(Snapshot)
    BY DEF OracleSound, ListsTyped
  <1> HIDE DEF list, gap, reach
  <1>4. n \in Nat
    BY <1>3
  <1>5. CASE n = 0
    <2>1. reach \div gap \in Nat
      BY <1>1
    <2> QED
      BY <1>5, <2>1 DEF list, gap, reach
  <1>6. CASE n # 0
    <2>1. 1 \in 1 .. n /\ n \in 1 .. n
      BY <1>4, <1>6
    <2>2. (n - 1) * gap <= list[n].timestamp - list[1].timestamp
      BY <1>2, <2>1 DEF Spaced
    <2>3. list[n].timestamp - list[1].timestamp <= reach
      BY <1>2, <2>1 DEF Spans
    <2>4. list[n].timestamp \in Nat /\ list[1].timestamp \in Nat
      BY <1>3, <2>1, SnapshotFields
    <2> DEFINE k == n - 1
               x == k * gap
    <2>5. k \in Nat /\ n = k + 1
      BY <1>4, <1>6
    <2> HIDE DEF k
    <2>6. x \in Nat
      BY <1>1, <2>5
    <2>7. x <= list[n].timestamp - list[1].timestamp
      BY <2>2 DEF k
    <2> HIDE DEF x
    <2>8. x <= reach
      BY <1>1, <2>3, <2>4, <2>6, <2>7
    <2>9. k <= reach \div gap
      BY <1>1, <2>5, <2>8 DEF x
    <2>10. reach \div gap \in Nat
      BY <1>1
    <2> DEFINE q == reach \div gap
    <2> HIDE DEF q
    <2>11. n <= 1 + q
      BY <2>5, <2>9, <2>10 DEF q
    <2> QED
      BY <2>11 DEF list, gap, reach, q
  <1> QED
    BY <1>5, <1>6

\* The list a TWAP query searches stays short however often anybody records and
\* however the owner changes the source: one snapshot more than the longest
\* window and tolerance hold of the shortest tolerance.
THEOREM SnapshotsAlwaysBounded == HistorySpec => []SnapshotsBounded
  <1>1. Init => SnapshotsSpaced
    BY DEF Init, EmptyMap, SnapshotsSpaced
  <1>2. OracleSound /\ SnapshotsSpaced => SnapshotsBounded
    BY SpacedIsBounded
  <1> QED
    BY <1>1, <1>2, HistoryIsOracle, OracleSoundAlways, SnapshotsStaySpaced, PTL DEF Spec

-----------------------------------------------------------------------------
(***************************************************************************)
(* Prices                                                                  *)
(***************************************************************************)

Converted(prices, others) ==
    {DecimalMul(price, other) : price \in prices, other \in others}

UsdPriced(source, usd_prices) ==
    {ScalePythPrice(feeds[source.feed].price, feeds[source.feed].expo,
                    source.denom_decimals, usd) : usd \in usd_prices}

\* The price of a pair's source, where p has the prices of one link less.
PairPriced(p, links, d, prices) ==
    IF ReadsThrough(d, price_sources[d]) = {} THEN prices
    ELSE Converted(prices, p[links - 1][OtherDenom(price_sources[d].pair, d)])

PriceStep(p, links, d) ==
    IF links = 0 \/ d \notin DOMAIN price_sources THEN {}
    ELSE CASE price_sources[d].type = "fixed" -> {price_sources[d].price}
           [] price_sources[d].type = "astroport_spot" ->
                PairPriced(p, links, d, SpotPrices(d, price_sources[d].pair))
           [] price_sources[d].type = "astroport_twap" ->
                PairPriced(p, links, d, TwapPrices(d, price_sources[d]))
           [] price_sources[d].type = "pyth" ->
                IF FeedUsable(price_sources[d])
                THEN UsdPriced(price_sources[d], p[links - 1][Usd]) ELSE {}

IsPricing(p) == p = [links \in 0 .. Cardinality(Denom) |-> [d \in Denom |->
        LET source == price_sources[d]
            InBaseDenom(prices) ==
                IF ReadsThrough(d, source) = {} THEN prices
                ELSE {DecimalMul(price, other) :
                        price \in prices,
                        other \in p[links - 1][OtherDenom(source.pair, d)]}
        IN  IF links = 0 \/ d \notin DOMAIN price_sources THEN {}
            ELSE CASE source.type = "fixed" -> {source.price}
                   [] source.type = "astroport_spot" -> InBaseDenom(SpotPrices(d, source.pair))
                   [] source.type = "astroport_twap" -> InBaseDenom(TwapPrices(d, source))
                   [] source.type = "pyth" ->
                        IF FeedUsable(source)
                        THEN {ScalePythPrice(feeds[source.feed].price, feeds[source.feed].expo,
                                             source.denom_decimals, usd) :
                                usd \in p[links - 1][Usd]}
                        ELSE {}]]

IsPricingBySteps(p) ==
    p = [links \in 0 .. Cardinality(Denom) |-> [d \in Denom |-> PriceStep(p, links, d)]]

LEMMA PricingSteps == ASSUME NEW p PROVE IsPricing(p) <=> IsPricingBySteps(p)
  BY DEF IsPricing, IsPricingBySteps, PriceStep, PairPriced, Converted, UsdPriced

LEMMA PriceWithinIs == PriceWithin = CHOOSE p : IsPricing(p)
  BY DEF PriceWithin, IsPricing

LEMMA SourceTypes ==
    ASSUME OracleSound, NEW d \in DOMAIN price_sources
    PROVE  /\ d \in Denom
           /\ price_sources[d] \in PriceSource
           /\ price_sources[d].type \in {"fixed", "astroport_spot", "astroport_twap", "pyth"}
           /\ price_sources[d].type \in {"astroport_spot", "astroport_twap"} =>
                /\ price_sources[d].pair \in Pair
                /\ PairPrices(price_sources[d].pair, d)
                /\ OtherDenom(price_sources[d].pair, d) \in Denom
  <1>1. d \in Denom /\ price_sources[d] \in PriceSource
    BY DEF OracleSound, IsMap
  <1>2. price_sources[d].type \in {"fixed", "astroport_spot", "astroport_twap", "pyth"}
    BY <1>1 DEF PriceSource
  <1>3. ASSUME price_sources[d].type \in {"astroport_spot", "astroport_twap"}
        PROVE  /\ price_sources[d].pair \in Pair
               /\ PairPrices(price_sources[d].pair, d)
               /\ OtherDenom(price_sources[d].pair, d) \in Denom
    <2>1. price_sources[d].pair \in Pair
      BY <1>1, <1>3 DEF PriceSource
    <2>2. PairPrices(price_sources[d].pair, d)
      BY <1>3 DEF OracleSound, SourcesValid
    <2> QED
      BY <1>1, <2>1, <2>2, PairDenoms
  <1> QED
    BY <1>1, <1>2, <1>3

\* A price depends on the prices of one link less and on nothing else of p.
LEMMA PriceStepReads ==
    ASSUME OracleSound, NEW p, NEW q, NEW links, NEW d \in Denom,
           links # 0 => \A e \in Denom : p[links - 1][e] = q[links - 1][e]
    PROVE  PriceStep(p, links, d) = PriceStep(q, links, d)
  <1>1. CASE links = 0 \/ d \notin DOMAIN price_sources
    BY <1>1 DEF PriceStep
  <1>2. CASE links # 0 /\ d \in DOMAIN price_sources
    <2>1. Usd \in Denom
      BY OracleAssumption
    <2>2. p[links - 1][Usd] = q[links - 1][Usd]
      BY <1>2, <2>1
    <2>3. ASSUME price_sources[d].type \in {"astroport_spot", "astroport_twap"}, NEW prices
          PROVE  PairPriced(p, links, d, prices) = PairPriced(q, links, d, prices)
      <3>1. OtherDenom(price_sources[d].pair, d) \in Denom
        BY <1>2, <2>3, SourceTypes
      <3>2. p[links - 1][OtherDenom(price_sources[d].pair, d)]
                = q[links - 1][OtherDenom(price_sources[d].pair, d)]
        BY <1>2, <3>1
      <3> QED
        BY <3>2 DEF PairPriced
    <2>4. price_sources[d].type \in {"fixed", "astroport_spot", "astroport_twap", "pyth"}
      BY <1>2, SourceTypes
    <2>5. CASE price_sources[d].type = "fixed"
      BY <1>2, <2>5 DEF PriceStep
    <2>6. CASE price_sources[d].type = "astroport_spot"
      BY <1>2, <2>3, <2>6 DEF PriceStep
    <2>7. CASE price_sources[d].type = "astroport_twap"
      BY <1>2, <2>3, <2>7 DEF PriceStep
    <2>8. CASE price_sources[d].type = "pyth"
      BY <1>2, <2>2, <2>8 DEF PriceStep
    <2> QED
      BY <2>4, <2>5, <2>6, <2>7, <2>8
  <1> QED
    BY <1>1, <1>2

LEMMA DenomsCounted == Cardinality(Denom) \in Nat
  BY DenomAssumption, FS_CardinalityType

\* The recursion that defines the prices has a solution: each number of links
\* needs only the prices of one link less.
LEMMA PricingExists == ASSUME OracleSound PROVE \E p : IsPricingBySteps(p)
  <1> DEFINE N == Cardinality(Denom)
             Correct(h, n) == \A m \in 0 .. n : \A d \in Denom : h[m][d] = PriceStep(h, m, d)
             T == {n \in Nat : \E h : Correct(h, n)}
  <1>0. N \in Nat
    BY DenomsCounted
  <1> HIDE DEF N
  <1>1. 0 \in T
    <2> DEFINE h == [m \in {0} |-> [d \in Denom |-> {}]]
    <2>1. \A d \in Denom : h[0][d] = {}
      OBVIOUS
    <2> HIDE DEF h
    <2>2. Correct(h, 0)
      BY <2>1 DEF PriceStep
    <2> QED
      BY <2>2
  <1>2. ASSUME NEW n \in Nat, n \in T PROVE n + 1 \in T
    <2>1. PICK h : Correct(h, n)
      BY <1>2
    <2> DEFINE g == [m \in 0 .. n + 1 |-> [d \in Denom |->
                        IF m <= n THEN h[m][d] ELSE PriceStep(h, m, d)]]
    <2>2. ASSUME NEW m \in 0 .. n + 1, NEW d \in Denom
          PROVE  g[m][d] = PriceStep(g, m, d)
      <3>1. g[m][d] = PriceStep(h, m, d)
        BY <2>1
      <3>2. ASSUME m # 0, NEW e \in Denom PROVE g[m - 1][e] = h[m - 1][e]
        <4>1. m - 1 \in 0 .. n + 1 /\ m - 1 <= n
          BY <3>2
        <4> QED
          BY <4>1
      <3> HIDE DEF g
      <3>3. PriceStep(g, m, d) = PriceStep(h, m, d)
        BY <3>2, PriceStepReads
      <3> QED
        BY <3>1, <3>3
    <2> HIDE DEF g
    <2>3. Correct(g, n + 1)
      BY <2>2
    <2> HIDE DEF Correct
    <2> QED
      BY <2>3
  <1>3. PICK h : Correct(h, N)
    <2> HIDE DEF T
    <2>1. N \in T
      BY <1>0, <1>1, <1>2, LeastCounterexample
    <2> QED
      BY <2>1 DEF T
  <1> DEFINE p == [n \in 0 .. N |-> [d \in Denom |-> h[n][d]]]
  <1>4. ASSUME NEW n \in 0 .. N, NEW d \in Denom PROVE p[n][d] = PriceStep(p, n, d)
    <2>1. p[n][d] = PriceStep(h, n, d)
      BY <1>3
    <2>2. ASSUME n # 0, NEW e \in Denom PROVE p[n - 1][e] = h[n - 1][e]
      <3>1. n - 1 \in 0 .. N
        BY <1>0, <2>2
      <3> QED
        BY <3>1
    <2> HIDE DEF p
    <2>3. PriceStep(p, n, d) = PriceStep(h, n, d)
      BY <2>2, PriceStepReads
    <2> QED
      BY <2>1, <2>3
  <1>5. p = [n \in 0 .. N |-> [d \in Denom |-> p[n][d]]]
    OBVIOUS
  <1> HIDE DEF p
  <1>6. p = [n \in 0 .. N |-> [d \in Denom |-> PriceStep(p, n, d)]]
    BY <1>4, <1>5
  <1>7. IsPricingBySteps(p)
    BY <1>6 DEF IsPricingBySteps, N
  <1> QED
    BY <1>7

PricesFollow ==
    \A links \in 0 .. Cardinality(Denom), d \in Denom :
        PriceWithin[links][d] = PriceStep(PriceWithin, links, d)

LEMMA SoundPricesFollow == OracleSound => PricesFollow
  <1> SUFFICES ASSUME OracleSound PROVE PricesFollow
    OBVIOUS
  <1>1. \E p : IsPricing(p)
    BY PricingExists, PricingSteps
  <1> DEFINE p == PriceWithin
  <1>2. IsPricing(p)
    BY <1>1, PriceWithinIs
  <1> HIDE DEF p
  <1>3. IsPricingBySteps(p)
    BY <1>2, PricingSteps
  <1>4. p = [links \in 0 .. Cardinality(Denom) |-> [d \in Denom |-> PriceStep(p, links, d)]]
    BY <1>3 DEF IsPricingBySteps
  <1>5. ASSUME NEW links \in 0 .. Cardinality(Denom), NEW d \in Denom
        PROVE  p[links][d] = PriceStep(p, links, d)
    <2>1. p[links] = [e \in Denom |-> PriceStep(p, links, e)]
      BY <1>4, Zenon
    <2> QED
      BY <2>1, Zenon
  <1> QED
    BY <1>5 DEF PricesFollow, p

-----------------------------------------------------------------------------
(***************************************************************************)
(* Recording moves no price                                                *)
(***************************************************************************)

LEMMA PreviousIs ==
    ASSUME NEW list, NEW source, NEW k,
           DOMAIN list \subseteq Nat, k \in Usable(list, source),
           \A j \in Usable(list, source) : k <= j
    PROVE  PreviousSnapshot(list, source) = list[k]
  <1>1. Usable(list, source) \subseteq Nat
    BY DEF Usable
  <1> DEFINE i == CHOOSE i \in Usable(list, source) : \A j \in Usable(list, source) : i <= j
  <1>2. i \in Usable(list, source) /\ \A j \in Usable(list, source) : i <= j
    OBVIOUS
  <1> HIDE DEF i
  <1>3. i = k
    BY <1>1, <1>2
  <1> QED
    BY <1>3 DEF PreviousSnapshot, i

LEMMA FirstUsable ==
    ASSUME NEW list, NEW source, DOMAIN list \subseteq Nat, Usable(list, source) # {}
    PROVE  \E k \in Usable(list, source) : \A j \in Usable(list, source) : k <= j
  <1>1. Usable(list, source) \in SUBSET Nat
    BY DEF Usable
  <1> DEFINE k == Min(Usable(list, source))
  <1>2. k \in Usable(list, source) /\ \A j \in Usable(list, source) : k <= j
    BY <1>1, MinIsLeast
  <1> QED
    BY <1>2

LEMMA UsableIsRecent ==
    ASSUME OracleSound, NEW d, HasTwap(d)
    PROVE  Usable(ListOf(d), price_sources[d]) \subseteq RecentEnough(ListOf(d), price_sources[d])
  <1> DEFINE list == ListOf(d)
             source == price_sources[d]
  <1> SUFFICES ASSUME NEW i \in Usable(list, source)
               PROVE  i \in RecentEnough(list, source)
    OBVIOUS
  <1>1. list \in Seq(Snapshot) /\ Past(list, now) /\ now \in Nat
    BY ListOfTyped DEF OracleSound
  <1>2. source.window_size \in Nat /\ source.tolerance \in Nat
    BY TwapDenom
  <1> HIDE DEF list, source
  <1>3. i \in DOMAIN list /\ WithinWindow(list[i], source) /\ i \in 1 .. Len(list)
    BY <1>1 DEF Usable
  <1> DEFINE t == list[i].timestamp
  <1>4. t \in Nat /\ t <= now
    BY <1>1, <1>3, SnapshotFields DEF Past
  <1>5. AbsDiff(AbsDiff(now, t), source.window_size) <= source.tolerance
    BY <1>3 DEF WithinWindow
  <1> HIDE DEF t
  <1>6. AbsDiff(now, t) = now - t
    BY <1>1, <1>4 DEF AbsDiff
  <1>7. now - t <= source.window_size + source.tolerance
    BY <1>1, <1>2, <1>4, <1>5, <1>6 DEF AbsDiff
  <1> QED
    BY <1>3, <1>7 DEF RecentEnough, t

LEMMA NowUnusable ==
    ASSUME OracleSound, NEW d, HasTwap(d), NEW s, s.timestamp = now
    PROVE  ~WithinWindow(s, price_sources[d])
  <1>1. /\ price_sources[d].window_size \in Nat /\ price_sources[d].tolerance \in Nat
        /\ price_sources[d].tolerance < price_sources[d].window_size
        /\ now \in Nat
    BY TwapDenom DEF OracleSound
  <1>2. AbsDiff(now, s.timestamp) = 0
    BY <1>1 DEF AbsDiff
  <1>3. AbsDiff(0, price_sources[d].window_size) = price_sources[d].window_size
    BY <1>1 DEF AbsDiff
  <1> QED
    BY <1>1, <1>2, <1>3 DEF WithinWindow

\* An average that can be told has the same beginning after a recording.
LEMMA RecordedKeepsPrevious ==
    ASSUME OracleSound, NEW d, HasTwap(d), Len(ListOf(d)) >= 2,
           Usable(ListOf(d), price_sources[d]) # {}
    PROVE  /\ Len(Recorded(d)) >= 2
           /\ Usable(Recorded(d), price_sources[d]) # {}
           /\ PreviousSnapshot(Recorded(d), price_sources[d])
                = PreviousSnapshot(ListOf(d), price_sources[d])
  <1> DEFINE list == ListOf(d)
             source == price_sources[d]
             s == SnapshotNow(d)
  <1>1. CASE TooSoon(list, source)
    BY <1>1, RecordedIs
  <1>2. CASE ~TooSoon(list, source)
    <2> DEFINE kept == RecentEnough(list, source)
    <2>1. PICK r, pos :
                  /\ r \in Seq(Snapshot)
                  /\ Selects(list, kept, Len(list), r, pos)
                  /\ Recorded(d) = Append(r, s)
      BY <1>2, RecordedIs
    <2>2. kept \in SUBSET (1 .. Len(list)) /\ list \in Seq(Snapshot) /\ DOMAIN list \subseteq Nat
      BY RecentIndexes, ListOfTyped
    <2>3. s \in Snapshot /\ ~WithinWindow(s, source)
      BY SnapshotNowTyped, NowUnusable
    <2>4. PICK k \in Usable(list, source) : \A j \in Usable(list, source) : k <= j
      BY <2>2, FirstUsable
    <2>5. k \in kept
      BY UsableIsRecent
    <2>6. PreviousSnapshot(list, source) = list[k]
      BY <2>2, <2>4, PreviousIs
    <2> HIDE DEF list, source, s, kept
    <2>7. k \in 1 .. Len(list) /\ k <= Len(list)
      BY <2>2, <2>5
    <2>8. PICK i \in 1 .. Len(r) : pos[i] = k
      BY <2>1, <2>5, <2>7 DEF Selects
    <2> DEFINE l == Append(r, s)
    <2>9. Len(r) \in Nat /\ Len(l) = Len(r) + 1 /\ DOMAIN l = 1 .. Len(r) + 1
          /\ (\A j \in 1 .. Len(r) : l[j] = r[j]) /\ l[Len(r) + 1] = s
      BY <2>3
    <2> HIDE DEF l
    <2>10. \A j \in 1 .. Len(r) : pos[j] \in kept /\ r[j] = list[pos[j]]
      BY <2>1 DEF Selects
    <2>11. l[i] = list[k]
      BY <2>8, <2>9, <2>10
    <2>12. WithinWindow(list[k], source)
      BY <2>4 DEF Usable
    <2>13. i \in Usable(l, source)
      BY <2>8, <2>9, <2>11, <2>12 DEF Usable
    <2>14. ASSUME NEW j \in Usable(l, source) PROVE i <= j
      <3>1. j \in 1 .. Len(r) + 1 /\ WithinWindow(l[j], source)
        BY <2>9 DEF Usable
      <3>2. j # Len(r) + 1
        BY <2>3, <2>9, <3>1
      <3>3. j \in 1 .. Len(r)
        BY <2>9, <3>1, <3>2
      <3>4. pos[j] \in kept /\ WithinWindow(list[pos[j]], source)
        BY <2>9, <2>10, <3>1, <3>3
      <3>5. pos[j] \in Usable(list, source)
        <4>1. pos[j] \in DOMAIN list
          <5>1. pos[j] \in 1 .. Len(list)
            BY <2>2, <3>4
          <5>2. DOMAIN list = 1 .. Len(list)
            BY <2>2
          <5> QED
            BY <5>1, <5>2
        <4> QED
          BY <3>4, <4>1 DEF Usable
      <3>6. k <= pos[j]
        BY <2>4, <3>5
      <3>7. j <= i => i - j <= pos[i] - pos[j]
        BY <2>1, <2>8, <3>3 DEF Selects
      <3>8. pos[j] \in Nat /\ k \in Nat
        <4>1. Len(list) \in Nat
          BY <2>2
        <4>2. pos[j] \in 1 .. Len(list)
          BY <2>2, <3>4
        <4> QED
          BY <2>7, <4>1, <4>2
      <3> QED
        BY <2>8, <2>9, <3>3, <3>6, <3>7, <3>8
    <2>15. PreviousSnapshot(l, source) = l[i]
      BY <2>9, <2>13, <2>14, PreviousIs
    <2>16. Len(l) >= 2
      BY <2>8, <2>9
    <2> QED
      BY <2>1, <2>6, <2>11, <2>13, <2>15, <2>16 DEF l, list, source, s
  <1> QED
    BY <1>1, <1>2

TwapOf(d) == TwapPrices(d, price_sources[d])

LEMMA TwapUnmoved ==
    ASSUME OracleSound, NEW denoms, RecordTwapSnapshots(denoms),
           NEW d, HasTwap(d), TwapOf(d) # {}
    PROVE  TwapOf(d)' = TwapOf(d)
  <1> DEFINE source == price_sources[d]
  <1>1. UNCHANGED <<price_sources, cumulative, now>>
    BY RecordSteps
  <1>2. d \in DOMAIN snapshots /\ Len(snapshots[d]) >= 2 /\ Usable(snapshots[d], source) # {}
    BY DEF TwapOf, TwapPrices, TwapAvailable
  <1>3. ListOf(d) = snapshots[d]
    BY <1>2 DEF ListOf, LoadOr
  <1> DEFINE l == snapshots'[d]
  <1>4. /\ d \in DOMAIN snapshots'
        /\ Len(l) >= 2
        /\ Usable(l, source) # {}
        /\ PreviousSnapshot(l, source) = PreviousSnapshot(snapshots[d], source)
    <2>1. d \in DOMAIN snapshots'
      BY <1>2, RecordSteps
    <2>2. CASE d \in denoms
      <3>1. l = Recorded(d)
        BY <2>2, RecordSteps
      <3> QED
        BY <1>2, <1>3, <2>1, <3>1, RecordedKeepsPrevious
    <2>3. CASE d \notin denoms
      <3>1. l = snapshots[d]
        BY <2>1, <2>3, RecordSteps
      <3> QED
        BY <1>2, <2>1, <3>1
    <2> QED
      BY <2>2, <2>3
  <1> DEFINE From(available, previous) ==
        IF /\ available
           /\ cumulative[<<source.pair, d>>] # previous.price_cumulative
           /\ PairType[source.pair] # "custom"
        THEN {AveragePrice(source.pair, d,
                           PriceDelta(cumulative[<<source.pair, d>>], previous.price_cumulative),
                           now - previous.timestamp)}
        ELSE {}
  <1>5. TwapOf(d) = From(TwapAvailable(d, source), PreviousSnapshot(snapshots[d], source))
    BY DEF TwapOf, TwapPrices
  <1>6. TwapOf(d)' = From(TwapAvailable(d, source)', PreviousSnapshot(l, source))
    BY <1>1 DEF TwapOf, TwapPrices, PreviousSnapshot, Usable, WithinWindow, AveragePrice, PriceDelta,
                AdjustPrecision, OtherDenom, FromRatio, AbsDiff
  <1>7. TwapAvailable(d, source)
    BY <1>2 DEF TwapAvailable
  <1>8. TwapAvailable(d, source)'
    BY <1>1, <1>4 DEF TwapAvailable, Usable, WithinWindow, AbsDiff
  <1> QED
    BY <1>4, <1>5, <1>6, <1>7, <1>8

PriceFollows(links, d) == PriceWithin[links][d] = PriceStep(PriceWithin, links, d)

LEMMA NextPriceFollows ==
    ASSUME NEW links \in 0 .. Cardinality(Denom), NEW d \in Denom
    PROVE  OracleSound' => PriceFollows(links, d)'
  <1>1. OracleSound => PriceFollows(links, d)
    BY SoundPricesFollow DEF PricesFollow, PriceFollows
  <1> QED
    BY <1>1, PTL

\* The step in the next state, with everything but the averages as it was.
LEMMA NextPairPriced ==
    ASSUME OracleSound, NEW links, links # 0, NEW d \in DOMAIN price_sources,
           UNCHANGED <<base_denom, price_sources, swap>>
    PROVE  LET source == price_sources[d]
               others == PriceWithin'[links - 1][OtherDenom(source.pair, d)]
               Paired(prices) == IF ReadsThrough(d, source) = {} THEN prices
                                 ELSE Converted(prices, others)
           IN  /\ source.type = "astroport_spot" =>
                    PriceStep(PriceWithin, links, d)' = Paired(SpotPrices(d, source.pair))
               /\ source.type = "astroport_twap" =>
                    PriceStep(PriceWithin, links, d)' = Paired(TwapOf(d)')
  <1> DEFINE source == price_sources[d]
             others == PriceWithin'[links - 1][OtherDenom(source.pair, d)]
             Paired(prices) == IF ReadsThrough(d, source) = {} THEN prices
                               ELSE Converted(prices, others)
  <1>1. ReadsThrough(d, price_sources[d])' = ReadsThrough(d, source)
    BY DEF ReadsThrough, OtherDenom
  <1>2. PairPriced(PriceWithin, links, d, SpotPrices(d, price_sources[d].pair))'
            = Paired(SpotPrices(d, source.pair))
    BY <1>1 DEF PairPriced, SpotPrices, OtherDenom, Converted
  <1>3. PairPriced(PriceWithin, links, d, TwapOf(d))' = Paired(TwapOf(d)')
    BY <1>1 DEF PairPriced, OtherDenom, Converted
  <1>4. ASSUME source.type = "astroport_spot"
        PROVE  PriceStep(PriceWithin, links, d)'
                 = PairPriced(PriceWithin, links, d, SpotPrices(d, price_sources[d].pair))'
    BY <1>4 DEF PriceStep
  <1>5. ASSUME source.type = "astroport_twap"
        PROVE  PriceStep(PriceWithin, links, d)' = PairPriced(PriceWithin, links, d, TwapOf(d))'
    BY <1>5 DEF PriceStep, TwapOf
  <1> QED
    BY <1>2, <1>3, <1>4, <1>5

LEMMA PricesUnmoved ==
    ASSUME OracleSound, OracleSound', NEW denoms, RecordTwapSnapshots(denoms)
    PROVE  \A links \in 0 .. Cardinality(Denom), d \in Denom :
              PriceWithin[links][d] # {} => PriceWithin'[links][d] = PriceWithin[links][d]
  <1> DEFINE N == Cardinality(Denom)
             p == PriceWithin
             q == PriceWithin'
             Kept(n) == \A d \in Denom : p[n][d] # {} => q[n][d] = p[n][d]
             T == {n \in Nat : n <= N => Kept(n)}
  <1>1. UNCHANGED <<base_denom, price_sources, swap, cumulative, feeds, now>>
    BY RecordSteps
  <1>2. N \in Nat
    BY DenomsCounted
  <1>3. \A n \in 0 .. N, d \in Denom : p[n][d] = PriceStep(p, n, d)
    <2>1. PricesFollow
      BY SoundPricesFollow
    <2> QED
      BY <2>1 DEF PricesFollow
  <1>5. 0 \in T
    <2>1. ASSUME NEW d \in Denom PROVE p[0][d] = {}
      <3>1. p[0][d] = PriceStep(p, 0, d)
        BY <1>2, <1>3
      <3>2. PriceStep(p, 0, d) = {}
        BY DEF PriceStep
      <3> QED
        BY <3>1, <3>2
    <2> QED
      BY <2>1
  <1>6. ASSUME NEW n \in Nat, n \in T PROVE n + 1 \in T
    <2> SUFFICES ASSUME n + 1 <= N, NEW d \in Denom, p[n + 1][d] # {}
                 PROVE  q[n + 1][d] = p[n + 1][d]
      OBVIOUS
    <2>1. Kept(n)
      BY <1>2, <1>6
    <2>2. p[n + 1][d] = PriceStep(p, n + 1, d) /\ q[n + 1][d] = PriceStep(PriceWithin, n + 1, d)'
      <3>1. n + 1 \in 0 .. N
        BY <1>2
      <3>2. PriceFollows(n + 1, d)'
        BY <3>1, NextPriceFollows
      <3> QED
        BY <1>3, <3>1, <3>2 DEF PriceFollows
    <2>3. n + 1 # 0 /\ (n + 1) - 1 = n
      OBVIOUS
    <2>4. d \in DOMAIN price_sources
      BY <2>2 DEF PriceStep
    <2> DEFINE source == price_sources[d]
               other == OtherDenom(source.pair, d)
               Paired(prices, others) ==
                    IF ReadsThrough(d, source) = {} THEN prices ELSE Converted(prices, others)
    <2>5. /\ source.type \in {"fixed", "astroport_spot", "astroport_twap", "pyth"}
          /\ source.type \in {"astroport_spot", "astroport_twap"} => other \in Denom
      BY <2>4, SourceTypes
    <2>6. CASE source.type = "fixed"
      BY <1>1, <2>2, <2>3, <2>4, <2>6 DEF PriceStep
    <2>7. ASSUME NEW prices, NEW prices_next, prices # {} => prices_next = prices,
                 Paired(prices, p[n][other]) # {}, other \in Denom
          PROVE  Paired(prices_next, q[n][other]) = Paired(prices, p[n][other])
      <3>1. prices # {}
        BY <2>7 DEF Converted
      <3>2. CASE ReadsThrough(d, source) = {}
        BY <2>7, <3>1, <3>2
      <3>3. CASE ReadsThrough(d, source) # {}
        <4>1. p[n][other] # {}
          BY <2>7, <3>3 DEF Converted
        <4>2. q[n][other] = p[n][other]
          BY <2>1, <2>7, <4>1
        <4> QED
          BY <2>7, <3>1, <4>2
      <3> QED
        BY <3>2, <3>3
    <2>8. CASE source.type = "astroport_spot"
      <3> DEFINE prices == SpotPrices(d, source.pair)
      <3>1. p[n + 1][d] = Paired(prices, p[n][other])
        BY <2>2, <2>3, <2>4, <2>8 DEF PriceStep, PairPriced
      <3>2. q[n + 1][d] = Paired(prices, q[n][other])
        BY <1>1, <2>2, <2>3, <2>4, <2>8, NextPairPriced
      <3> HIDE DEF prices
      <3> QED
        BY <2>5, <2>7, <2>8, <3>1, <3>2
    <2>9. CASE source.type = "astroport_twap"
      <3> DEFINE prices == TwapOf(d)
                 next == TwapOf(d)'
      <3>1. p[n + 1][d] = Paired(prices, p[n][other])
        BY <2>2, <2>3, <2>4, <2>9 DEF PriceStep, PairPriced, TwapOf
      <3>2. q[n + 1][d] = Paired(next, q[n][other])
        BY <1>1, <2>2, <2>3, <2>4, <2>9, NextPairPriced
      <3>3. HasTwap(d)
        BY <2>4, <2>9 DEF HasTwap
      <3>4. prices # {} => next = prices
        BY <3>3, TwapUnmoved
      <3> HIDE DEF prices, next
      <3> QED
        BY <2>5, <2>7, <2>9, <3>1, <3>2, <3>4
    <2>10. CASE source.type = "pyth"
      <3>1. p[n + 1][d] = IF FeedUsable(source) THEN UsdPriced(source, p[n][Usd]) ELSE {}
        BY <2>2, <2>3, <2>4, <2>10 DEF PriceStep
      <3>2. q[n + 1][d] = IF FeedUsable(source) THEN UsdPriced(source, q[n][Usd]) ELSE {}
        BY <1>1, <2>2, <2>3, <2>4, <2>10
        DEF PriceStep, FeedUsable, UsdPriced, AbsDiff, ScalePythPrice, FromRatio, DecimalMul
      <3>3. FeedUsable(source) /\ p[n][Usd] # {}
        BY <3>1 DEF UsdPriced
      <3>4. q[n][Usd] = p[n][Usd]
        BY <2>1, <3>3, OracleAssumption
      <3> QED
        BY <3>1, <3>2, <3>4
    <2> QED
      BY <2>5, <2>6, <2>8, <2>9, <2>10
  <1> HIDE DEF N, T
  <1>7. \A n \in 0 .. N : n \in T
    BY <1>5, <1>6, LeastCounterexample
  <1> QED
    BY <1>7 DEF N, T

LEMMA PriceUnmoved ==
    ASSUME OracleSound, OracleSound', NEW denoms, RecordTwapSnapshots(denoms),
           NEW d \in Denom, Price(d) # {}
    PROVE  Price(d)' = Price(d)
  <1>1. Cardinality(Denom) \in 0 .. Cardinality(Denom)
    BY DenomsCounted
  <1> QED
    BY <1>1, PricesUnmoved DEF Price

\* No price that can be told, of any denom and through any chain of sources, is
\* moved by anybody recording snapshots at whatever moment suits them.
THEOREM RecordingNeverMovesAPrice == HistorySpec => RecordingMovesNoPrice
  <1>1. /\ OracleSound /\ OracleSound'
        /\ [HistoryNext]_<<oracleVars, traded>>
        => [snapshots' # snapshots =>
              \A d \in Denom : Price(d) # {} => Price(d)' = Price(d)]_<<oracleVars, traded>>
    <2> SUFFICES ASSUME OracleSound, OracleSound', HistoryNext,
                        snapshots' # snapshots, NEW d \in Denom, Price(d) # {}
                 PROVE  Price(d)' = Price(d)
      OBVIOUS
    <2>1. PICK denoms \in RecordInput : RecordTwapSnapshots(denoms)
      BY DEF HistoryNext, Next, OwnerStep, MarketStep, UpdateOwner, SetPriceSource,
             RemovePriceSource, UpdateConfig, Tick, Trade, Publish, contract
    <2> QED
      BY <2>1, PriceUnmoved
  <1> QED
    BY <1>1, HistoryIsOracle, OracleSoundAlways, PTL
    DEF HistorySpec, RecordingMovesNoPrice

-----------------------------------------------------------------------------
(***************************************************************************)
(* Prices are unsigned                                                     *)
(***************************************************************************)

IsPowers(p) == p = [n \in Nat |-> IF n = 0 THEN 1 ELSE 10 * p[n - 1]]

LEMMA TenToIs == TenTo = CHOOSE p : IsPowers(p)
  BY DEF TenTo, IsPowers

PowersUpTo(h, n) ==
    \A m \in 0 .. n : h[m] \in Nat \ {0} /\ h[m] = IF m = 0 THEN 1 ELSE 10 * h[m - 1]

LEMMA PowersUpToExist == \A n \in Nat : \E h : PowersUpTo(h, n)
  <1> DEFINE T == {n \in Nat : \E h : PowersUpTo(h, n)}
  <1>1. 0 \in T
    <2> DEFINE h == [m \in {0} |-> 1]
    <2>1. h[0] = 1
      OBVIOUS
    <2> HIDE DEF h
    <2>2. PowersUpTo(h, 0)
      BY <2>1 DEF PowersUpTo
    <2> QED
      BY <2>2
  <1>2. ASSUME NEW n \in Nat, n \in T PROVE n + 1 \in T
    <2>1. PICK h : PowersUpTo(h, n)
      BY <1>2
    <2> DEFINE g == [m \in 0 .. n + 1 |-> IF m <= n THEN h[m] ELSE 10 * h[n]]
    <2>2. \A m \in 0 .. n : g[m] = h[m]
      OBVIOUS
    <2>3. g[n + 1] = 10 * h[n]
      OBVIOUS
    <2> HIDE DEF g
    <2>4. ASSUME NEW m \in 0 .. n + 1
          PROVE  g[m] \in Nat \ {0} /\ g[m] = IF m = 0 THEN 1 ELSE 10 * g[m - 1]
      <3>1. CASE m \in 0 .. n
        <4>1. m # 0 => m - 1 \in 0 .. n
          BY <3>1
        <4> QED
          BY <2>1, <2>2, <3>1, <4>1 DEF PowersUpTo
      <3>2. CASE m = n + 1
        <4>1. n \in 0 .. n /\ m - 1 = n /\ m # 0
          BY <3>2
        <4>2. h[n] \in Nat \ {0}
          BY <2>1, <4>1 DEF PowersUpTo
        <4> QED
          BY <2>2, <2>3, <3>2, <4>1, <4>2
      <3> QED
        BY <3>1, <3>2
    <2>5. PowersUpTo(g, n + 1)
      BY <2>4 DEF PowersUpTo
    <2> QED
      BY <2>5
  <1> HIDE DEF T
  <1>3. Nat \subseteq T
    BY <1>1, <1>2, LeastCounterexample
  <1> QED
    BY <1>3 DEF T

LEMMA PowersAreUnique ==
    ASSUME NEW n \in Nat, NEW k \in Nat, NEW h, NEW g, PowersUpTo(h, n), PowersUpTo(g, k)
    PROVE  \A m \in Nat : m <= n /\ m <= k => h[m] = g[m]
  <1> DEFINE T == {m \in Nat : m <= n /\ m <= k => h[m] = g[m]}
  <1>1. 0 \in T
    BY DEF PowersUpTo
  <1>2. ASSUME NEW m \in Nat, m \in T PROVE m + 1 \in T
    <2> SUFFICES ASSUME m + 1 <= n, m + 1 <= k PROVE h[m + 1] = g[m + 1]
      OBVIOUS
    <2>1. m + 1 \in 0 .. n /\ m + 1 \in 0 .. k /\ (m + 1) - 1 = m /\ m + 1 # 0
      OBVIOUS
    <2>2. h[m + 1] = 10 * h[m] /\ g[m + 1] = 10 * g[m]
      BY <2>1 DEF PowersUpTo
    <2> QED
      BY <1>2, <2>2
  <1> HIDE DEF T
  <1>3. Nat \subseteq T
    BY <1>1, <1>2, LeastCounterexample
  <1> QED
    BY <1>3 DEF T

LEMMA PowersArePositive == \A n \in Nat : TenTo[n] \in Nat \ {0}
  <1> DEFINE up[n \in Nat] == CHOOSE h : PowersUpTo(h, n)
             p == [n \in Nat |-> up[n][n]]
  <1>1. \A n \in Nat : PowersUpTo(up[n], n)
    BY PowersUpToExist
  <1>2. \A n \in Nat : p[n] = up[n][n]
    OBVIOUS
  <1>3. p = [n \in Nat |-> p[n]]
    OBVIOUS
  <1> HIDE DEF up, p
  <1>4. ASSUME NEW n \in Nat
        PROVE  p[n] \in Nat \ {0} /\ p[n] = IF n = 0 THEN 1 ELSE 10 * p[n - 1]
    <2>1. n \in 0 .. n /\ (n # 0 => n - 1 \in Nat)
      OBVIOUS
    <2>2. up[n][n] \in Nat \ {0} /\ up[n][n] = IF n = 0 THEN 1 ELSE 10 * up[n][n - 1]
      BY <1>1, <2>1 DEF PowersUpTo
    <2>3. n # 0 => up[n][n - 1] = up[n - 1][n - 1]
      BY <1>1, <2>1, PowersAreUnique
    <2> QED
      BY <1>2, <2>1, <2>2, <2>3
  <1>5. p = [n \in Nat |-> IF n = 0 THEN 1 ELSE 10 * p[n - 1]]
    BY <1>3, <1>4
  <1>6. IsPowers(TenTo)
    BY <1>5, TenToIs DEF IsPowers
  <1> DEFINE t == TenTo
  <1>7. t = [n \in Nat |-> IF n = 0 THEN 1 ELSE 10 * t[n - 1]]
    BY <1>6 DEF IsPowers
  <1> HIDE DEF t
  <1> DEFINE T == {n \in Nat : t[n] \in Nat \ {0}}
  <1>8. 0 \in T
    BY <1>7
  <1>9. ASSUME NEW n \in Nat, n \in T PROVE n + 1 \in T
    <2>1. t[n + 1] = 10 * t[n]
      BY <1>7
    <2> QED
      BY <1>9, <2>1
  <1> HIDE DEF T
  <1>10. Nat \subseteq T
    BY <1>8, <1>9, LeastCounterexample
  <1> QED
    BY <1>10 DEF T, t

LEMMA RatioIsUnsigned ==
    ASSUME NEW a \in Nat, NEW b \in Nat \ {0}
    PROVE  FromRatio(a, b) \in Nat
  <1>1. a * One \in Nat
    BY OneAssumption
  <1> DEFINE x == a * One
  <1> HIDE DEF x
  <1>2. x \div b \in Nat
    BY <1>1 DEF x
  <1> QED
    BY <1>2 DEF FromRatio, x

LEMMA ProductIsUnsigned ==
    ASSUME NEW a \in Nat, NEW b \in Nat
    PROVE  DecimalMul(a, b) \in Nat
  <1>1. a * b \in Nat
    OBVIOUS
  <1> DEFINE x == a * b
  <1> HIDE DEF x
  <1>2. x \div One \in Nat
    BY <1>1, OneAssumption DEF x
  <1> QED
    BY <1>2 DEF DecimalMul, x

\* An average is taken over a time that has passed, of a difference that the
\* wrap-around cannot make negative.
LEMMA AverageIsUnsigned ==
    ASSUME OracleSound, NEW d, HasTwap(d)
    PROVE  TwapOf(d) \subseteq Nat
  <1> DEFINE source == price_sources[d]
             list == snapshots[d]
             previous == PreviousSnapshot(list, source)
             current == cumulative[<<source.pair, d>>]
  <1> SUFFICES ASSUME NEW price \in TwapOf(d) PROVE price \in Nat
    OBVIOUS
  <1>1. /\ TwapAvailable(d, source)
        /\ PairType[source.pair] # "custom"
        /\ price = AveragePrice(source.pair, d, PriceDelta(current, previous.price_cumulative),
                                now - previous.timestamp)
    BY DEF TwapOf, TwapPrices
  <1>2. /\ d \in Denom /\ source.pair \in Pair /\ <<source.pair, d>> \in Side
        /\ OtherDenom(source.pair, d) \in Denom
        /\ source.window_size \in Nat /\ source.tolerance \in Nat
        /\ source.tolerance < source.window_size
    BY TwapDenom, PairDenoms
  <1>3. list \in Seq(Snapshot) /\ d \in DOMAIN snapshots /\ Usable(list, source) # {}
    BY <1>1 DEF TwapAvailable, OracleSound, ListsTyped
  <1>4. Past(list, now)
    BY <1>3 DEF OracleSound, ListsOrdered
  <1>5. current \in 0 .. MaxCumulative /\ MaxCumulative \in Nat /\ now \in Nat
    BY <1>2, OracleAssumption DEF OracleSound
  <1>6. /\ Unit[d] \in Nat \ {0} /\ Unit[OtherDenom(source.pair, d)] \in Nat \ {0}
        /\ TwapUnit \in Nat \ {0}
    BY <1>2, OracleAssumption
  <1> HIDE DEF list, source, previous, current
  <1>7. PICK i \in Usable(list, source) : previous = list[i]
    BY <1>3, FirstUsable, PreviousIs DEF previous
  <1>8. i \in 1 .. Len(list) /\ WithinWindow(list[i], source)
    BY <1>3 DEF Usable
  <1>9. list[i] \in Snapshot
    BY <1>3, <1>8
  <1> DEFINE before == list[i].price_cumulative
             t == list[i].timestamp
             delta == PriceDelta(current, before)
             period == now - t
  <1>10. before \in 0 .. MaxCumulative /\ t \in Nat
    BY <1>9 DEF Snapshot
  <1>11. t <= now
    BY <1>4, <1>8 DEF Past
  <1>12. delta \in Nat
    BY <1>5, <1>10 DEF PriceDelta
  <1>13. AbsDiff(AbsDiff(now, t), source.window_size) <= source.tolerance
    BY <1>8 DEF WithinWindow
  <1> HIDE DEF before, t, delta
  <1>14. period \in Nat \ {0}
    <2>1. AbsDiff(now, t) = period
      BY <1>5, <1>10, <1>11 DEF AbsDiff
    <2> QED
      BY <1>2, <1>5, <1>10, <1>11, <1>13, <2>1 DEF AbsDiff
  <1> HIDE DEF period
  <1>15. price = AveragePrice(source.pair, d, delta, period)
    BY <1>1, <1>7 DEF delta, period, before, t
  <1>16. TwapUnit * period \in Nat \ {0} /\ Unit[d] * period \in Nat \ {0}
    BY <1>6, <1>14
  <1>17. AdjustPrecision(delta, TwapUnit, Unit[OtherDenom(source.pair, d)]) \in Nat
    <2> DEFINE x == delta * Unit[OtherDenom(source.pair, d)]
    <2>1. x \in Nat
      BY <1>6, <1>12
    <2> HIDE DEF x
    <2>2. x \div TwapUnit \in Nat
      BY <1>6, <2>1
    <2> QED
      BY <2>2 DEF AdjustPrecision, x
  <1> QED
    BY <1>12, <1>15, <1>16, <1>17, RatioIsUnsigned DEF AveragePrice

FeedsTyped == \A feed \in DOMAIN feeds : feeds[feed].price \in Int /\ feeds[feed].expo \in Int

LEMMA FeedsStayTyped == FeedsTyped /\ [Next]_oracleVars => FeedsTyped'
  <1> SUFFICES ASSUME FeedsTyped, [Next]_oracleVars PROVE FeedsTyped'
    OBVIOUS
  <1>1. CASE UNCHANGED feeds
    BY <1>1 DEF FeedsTyped
  <1>2. ASSUME NEW feed \in Feed, NEW quote \in Quote, Publish(feed, quote) PROVE FeedsTyped'
    <2>1. quote.price \in Int /\ quote.expo \in Int
      BY OracleAssumption
    <2>2. feeds' = Save(feeds, feed, [price |-> quote.price, expo |-> quote.expo,
                                      publish_time |-> now])
      BY <1>2 DEF Publish
    <2>3. \A f \in DOMAIN feeds' :
             \/ f = feed /\ feeds'[f].price = quote.price /\ feeds'[f].expo = quote.expo
             \/ f \in DOMAIN feeds /\ feeds'[f] = feeds[f]
      BY <2>2 DEF Save
    <2> QED
      BY <2>1, <2>3 DEF FeedsTyped
  <1> QED
    BY <1>1, <1>2
    DEF Next, OwnerStep, MarketStep, UpdateOwner, SetPriceSource, RemovePriceSource, UpdateConfig,
        RecordTwapSnapshots, Tick, Trade, oracleVars, market, contract

\* A quote is multiplied or divided by a power of ten, whatever its exponent.
LEMMA QuoteIsUnsigned ==
    ASSUME OracleSound, FeedsTyped, NEW d \in DOMAIN price_sources, price_sources[d].type = "pyth",
           FeedUsable(price_sources[d]), NEW usd \in Nat
    PROVE  ScalePythPrice(feeds[price_sources[d].feed].price, feeds[price_sources[d].feed].expo,
                          price_sources[d].denom_decimals, usd) \in Nat
  <1> DEFINE value == feeds[price_sources[d].feed].price
             expo == feeds[price_sources[d].feed].expo
             decimals == price_sources[d].denom_decimals
  <1>1. value \in Nat /\ expo \in Int
    BY DEF FeedUsable, FeedsTyped
  <1>2. decimals \in Nat
    BY DEF OracleSound, IsMap, PriceSource
  <1> HIDE DEF value, expo, decimals
  <1> DEFINE pyth_price == IF expo < 0 THEN FromRatio(value, TenTo[-expo])
                           ELSE FromRatio(value * TenTo[expo], 1)
             scaled == FromRatio(1, TenTo[decimals])
  <1>3. pyth_price \in Nat
    <2>1. CASE expo < 0
      <3>1. TenTo[-expo] \in Nat \ {0}
        BY <1>1, <2>1, PowersArePositive
      <3> QED
        BY <1>1, <2>1, <3>1, RatioIsUnsigned
    <2>2. CASE ~(expo < 0)
      <3>1. TenTo[expo] \in Nat \ {0}
        BY <1>1, <2>2, PowersArePositive
      <3>2. value * TenTo[expo] \in Nat
        BY <1>1, <3>1
      <3> QED
        BY <2>2, <3>2, RatioIsUnsigned
    <2> QED
      BY <2>1, <2>2
  <1>4. scaled \in Nat
    BY <1>2, PowersArePositive, RatioIsUnsigned
  <1> HIDE DEF pyth_price, scaled
  <1>5. DecimalMul(DecimalMul(usd, scaled), pyth_price) \in Nat
    BY <1>3, <1>4, ProductIsUnsigned
  <1> QED
    BY <1>5 DEF ScalePythPrice, pyth_price, scaled, value, expo, decimals

\* A price that can be told is an unsigned number, through every chain of
\* sources.
LEMMA PricesAreUnsigned ==
    ASSUME OracleSound, FeedsTyped, NEW p, IsPricing(p), NEW d \in Denom
    PROVE  p[Cardinality(Denom)][d] \subseteq Nat
  <1> DEFINE N == Cardinality(Denom)
             T == {n \in Nat : n <= N => \A e \in Denom : p[n][e] \subseteq Nat}
  <1>1. N \in Nat
    BY DenomsCounted
  <1>2. p = [links \in 0 .. N |-> [e \in Denom |-> PriceStep(p, links, e)]]
    BY PricingSteps DEF IsPricingBySteps
  <1>3. ASSUME NEW n \in 0 .. N, NEW e \in Denom PROVE p[n][e] = PriceStep(p, n, e)
    <2>1. p[n] = [f \in Denom |-> PriceStep(p, n, f)]
      BY <1>2, Zenon
    <2> QED
      BY <2>1, Zenon
  <1> HIDE DEF N
  <1>4. 0 \in T
    <2>1. \A e \in Denom : PriceStep(p, 0, e) = {}
      BY DEF PriceStep
    <2>2. 0 \in 0 .. N
      BY <1>1
    <2>3. \A e \in Denom : p[0][e] = {}
      BY <1>3, <2>1, <2>2
    <2> QED
      BY <2>3
  <1>5. ASSUME NEW n \in Nat, n \in T PROVE n + 1 \in T
    <2> SUFFICES ASSUME n + 1 <= N, NEW e \in Denom, e \in DOMAIN price_sources
                 PROVE  PriceStep(p, n + 1, e) \subseteq Nat
      <3>1. \A e \in Denom : e \notin DOMAIN price_sources => PriceStep(p, n + 1, e) = {}
        BY DEF PriceStep
      <3>2. n + 1 <= N => n + 1 \in 0 .. N
        BY <1>1
      <3> QED
        BY <1>3, <3>1, <3>2
    <2> DEFINE source == price_sources[e]
    <2>1. /\ n + 1 # 0 /\ (n + 1) - 1 = n /\ n <= N
          /\ \A f \in Denom : p[n][f] \subseteq Nat
      BY <1>1, <1>5
    <2>2. ASSUME source.type \in {"astroport_spot", "astroport_twap"}, NEW prices \in SUBSET Nat
          PROVE  PairPriced(p, n + 1, e, prices) \subseteq Nat
      <3>1. OtherDenom(source.pair, e) \in Denom
        BY <2>2, SourceTypes
      <3>2. p[n][OtherDenom(source.pair, e)] \subseteq Nat
        BY <2>1, <3>1
      <3> DEFINE others == p[n][OtherDenom(source.pair, e)]
      <3> HIDE DEF others
      <3>3. Converted(prices, others) \subseteq Nat
        <4>1. others \subseteq Nat
          BY <3>2 DEF others
        <4> QED
          BY <4>1, ProductIsUnsigned DEF Converted
      <3>4. PairPriced(p, n + 1, e, prices) \in {prices, Converted(prices, others)}
        <4>1. (n + 1) - 1 = n
          OBVIOUS
        <4> QED
          BY <4>1, Zenon DEF PairPriced, others
      <3> QED
        BY <3>3, <3>4
    <2>3. source.type \in {"fixed", "astroport_spot", "astroport_twap", "pyth"}
      BY SourceTypes
    <2>4. CASE source.type = "fixed"
      <3>1. source.price \in Nat
        BY <2>4 DEF OracleSound, IsMap, PriceSource, Decimal
      <3> QED
        BY <2>1, <2>4, <3>1 DEF PriceStep
    <2>5. CASE source.type = "astroport_spot"
      <3>1. <<source.pair, e>> \in Side
        BY <2>5, SourceTypes DEF Side
      <3>2. swap[<<source.pair, e>>] \in Nat /\ Unit[e] \in Nat \ {0}
        BY <3>1, OracleAssumption DEF OracleSound
      <3>3. SpotPrices(e, source.pair) \in SUBSET Nat
        BY <3>2, RatioIsUnsigned DEF SpotPrices
      <3> QED
        BY <2>1, <2>2, <2>5, <3>3 DEF PriceStep
    <2>6. CASE source.type = "astroport_twap"
      <3>1. TwapPrices(e, source) \in SUBSET Nat
        BY <2>6, AverageIsUnsigned DEF HasTwap, TwapOf
      <3> QED
        BY <2>1, <2>2, <2>6, <3>1 DEF PriceStep
    <2>7. CASE source.type = "pyth"
      <3>1. p[n][Usd] \subseteq Nat
        BY <2>1, OracleAssumption
      <3>2. FeedUsable(source) => UsdPriced(source, p[n][Usd]) \subseteq Nat
        BY <2>7, <3>1, QuoteIsUnsigned DEF UsdPriced
      <3> QED
        BY <2>1, <2>7, <3>2 DEF PriceStep
    <2> QED
      BY <2>3, <2>4, <2>5, <2>6, <2>7
  <1> HIDE DEF T
  <1>6. N \in T
    BY <1>1, <1>4, <1>5, LeastCounterexample
  <1> QED
    BY <1>1, <1>6 DEF T, N

-----------------------------------------------------------------------------
(***************************************************************************)
(* Chains                                                                  *)
(***************************************************************************)

Links == Cardinality(Denom)

IsResolving(r) == r = [links \in 0 .. Cardinality(Denom) |->
    {d \in DOMAIN price_sources :
        links > 0 /\ ReadsThrough(d, price_sources[d]) \subseteq r[links - 1]}]

LEMMA ResolvedWithinIs == ResolvedWithin = CHOOSE r : IsResolving(r)
  BY DEF ResolvedWithin, IsResolving

ResolvedFrom(links, previous) ==
    {d \in DOMAIN price_sources :
        links > 0 /\ ReadsThrough(d, price_sources[d]) \subseteq previous}

LEMMA ResolvingExists == \E r : IsResolving(r)
  <1> DEFINE Correct(h, n) == \A m \in 0 .. n : h[m] = ResolvedFrom(m, h[m - 1])
             T == {n \in Nat : \E h : Correct(h, n)}
  <1>0. Links \in Nat
    BY DenomsCounted DEF Links
  <1>1. 0 \in T
    <2> DEFINE h == [m \in {0} |-> {}]
    <2>1. h[0] = {}
      OBVIOUS
    <2> HIDE DEF h
    <2>2. Correct(h, 0)
      BY <2>1 DEF ResolvedFrom
    <2> QED
      BY <2>2
  <1>2. ASSUME NEW n \in Nat, n \in T PROVE n + 1 \in T
    <2>1. PICK h : Correct(h, n)
      BY <1>2
    <2> DEFINE g == [m \in 0 .. n + 1 |-> IF m <= n THEN h[m] ELSE ResolvedFrom(m, h[m - 1])]
    <2>2. ASSUME NEW m \in 0 .. n + 1 PROVE g[m] = ResolvedFrom(m, g[m - 1])
      <3>1. g[m] = ResolvedFrom(m, h[m - 1])
        BY <2>1
      <3>2. m # 0 => g[m - 1] = h[m - 1]
        OBVIOUS
      <3> HIDE DEF g
      <3>3. m = 0 => ResolvedFrom(m, h[m - 1]) = ResolvedFrom(m, g[m - 1])
        BY DEF ResolvedFrom
      <3> QED
        BY <3>1, <3>2, <3>3
    <2> HIDE DEF g
    <2>3. Correct(g, n + 1)
      BY <2>2
    <2> HIDE DEF Correct
    <2> QED
      BY <2>3
  <1>3. PICK h : Correct(h, Links)
    <2> HIDE DEF T
    <2>1. Links \in T
      BY <1>0, <1>1, <1>2, LeastCounterexample
    <2> QED
      BY <2>1 DEF T
  <1> DEFINE r == [n \in 0 .. Links |-> h[n]]
  <1>4. ASSUME NEW n \in 0 .. Links PROVE r[n] = ResolvedFrom(n, r[n - 1])
    <2>1. r[n] = ResolvedFrom(n, h[n - 1])
      BY <1>3
    <2>2. n # 0 => r[n - 1] = h[n - 1]
      BY <1>0
    <2> HIDE DEF r
    <2>3. n = 0 => ResolvedFrom(n, h[n - 1]) = ResolvedFrom(n, r[n - 1])
      BY DEF ResolvedFrom
    <2> QED
      BY <2>1, <2>2, <2>3
  <1>5. r = [n \in 0 .. Links |-> r[n]]
    OBVIOUS
  <1> HIDE DEF r
  <1>6. r = [n \in 0 .. Links |-> ResolvedFrom(n, r[n - 1])]
    BY <1>4, <1>5
  <1>7. IsResolving(r)
    BY <1>6 DEF IsResolving, ResolvedFrom, Links
  <1> QED
    BY <1>7

ResolvedFollows(links, d) ==
    d \in ResolvedWithin[links] <=>
        /\ d \in DOMAIN price_sources
        /\ links > 0
        /\ ReadsThrough(d, price_sources[d]) \subseteq ResolvedWithin[links - 1]

LEMMA DenomResolves ==
    ASSUME NEW links \in 0 .. Links, NEW d
    PROVE  ResolvedFollows(links, d)
  <1> DEFINE r == ResolvedWithin
  <1>1. IsResolving(r)
    BY ResolvingExists, ResolvedWithinIs
  <1> HIDE DEF r
  <1>2. r[links] = {e \in DOMAIN price_sources :
            links > 0 /\ ReadsThrough(e, price_sources[e]) \subseteq r[links - 1]}
    BY <1>1 DEF IsResolving, Links
  <1>3. d \in r[links] <=> /\ d \in DOMAIN price_sources
                           /\ links > 0
                           /\ ReadsThrough(d, price_sources[d]) \subseteq r[links - 1]
    BY <1>2
  <1> QED
    BY <1>3 DEF ResolvedFollows, r

LEMMA NextDenomResolves ==
    ASSUME NEW links \in 0 .. Links, NEW d
    PROVE  ResolvedFollows(links, d)'
  <1>1. ResolvedFollows(links, d)
    BY DenomResolves
  <1> QED
    BY <1>1, PTL

LEMMA NoneResolvesWithoutLinks == ASSUME NEW d PROVE d \notin ResolvedWithin[0]
  <1>1. 0 \in 0 .. Links
    BY DenomsCounted DEF Links
  <1> QED
    BY <1>1, DenomResolves DEF ResolvedFollows

LEMMA OneMoreLink ==
    ASSUME NEW n \in Nat, n + 1 <= Links, NEW d
    PROVE  d \in ResolvedWithin[n + 1] <=>
              /\ d \in DOMAIN price_sources
              /\ ReadsThrough(d, price_sources[d]) \subseteq ResolvedWithin[n]
  <1>1. n + 1 \in 0 .. Links /\ n + 1 > 0 /\ (n + 1) - 1 = n
    BY DenomsCounted DEF Links
  <1>2. ResolvedFollows(n + 1, d)
    BY <1>1, DenomResolves
  <1> QED
    BY <1>1, <1>2 DEF ResolvedFollows

LEMMA OneMoreLinkNext ==
    ASSUME NEW n \in Nat, n + 1 <= Links, NEW d
    PROVE  d \in ResolvedWithin'[n + 1] <=>
              /\ d \in DOMAIN price_sources'
              /\ ReadsThrough(d, price_sources[d])' \subseteq ResolvedWithin'[n]
  <1>1. n + 1 \in 0 .. Links /\ n + 1 > 0 /\ (n + 1) - 1 = n
    BY DenomsCounted DEF Links
  <1>2. ResolvedFollows(n + 1, d)'
    BY <1>1, NextDenomResolves
  <1> QED
    BY <1>1, <1>2 DEF ResolvedFollows

LEMMA MoreLinksResolveMore ==
    \A n \in Nat : n + 1 <= Links => ResolvedWithin[n] \subseteq ResolvedWithin[n + 1]
  <1> DEFINE T == {n \in Nat : n + 1 <= Links => ResolvedWithin[n] \subseteq ResolvedWithin[n + 1]}
  <1>1. 0 \in T
    BY NoneResolvesWithoutLinks
  <1>2. ASSUME NEW n \in Nat, n \in T PROVE n + 1 \in T
    <2> SUFFICES ASSUME (n + 1) + 1 <= Links, NEW d \in ResolvedWithin[n + 1]
                 PROVE  d \in ResolvedWithin[(n + 1) + 1]
      OBVIOUS
    <2>0. Links \in Nat /\ n + 1 <= Links
      BY DenomsCounted DEF Links
    <2>1. d \in DOMAIN price_sources /\ ReadsThrough(d, price_sources[d]) \subseteq ResolvedWithin[n]
      BY <2>0, OneMoreLink
    <2>2. ResolvedWithin[n] \subseteq ResolvedWithin[n + 1]
      BY <1>2, <2>0
    <2>3. n + 1 \in Nat
      OBVIOUS
    <2> QED
      BY <2>1, <2>2, <2>3, OneMoreLink
  <1> HIDE DEF T
  <1>3. Nat \subseteq T
    BY <1>1, <1>2, LeastCounterexample
  <1> QED
    BY <1>3 DEF T

LEMMA ResolvedArePriced ==
    ASSUME NEW n \in 0 .. Links
    PROVE  ResolvedWithin[n] \subseteq DOMAIN price_sources
  BY DenomResolves DEF ResolvedFollows

LEMMA LinksReach ==
    ASSUME NEW n \in Nat, NEW m \in Nat, m + n <= Links
    PROVE  ResolvedWithin[m] \subseteq ResolvedWithin[m + n]
  <1> DEFINE T == {k \in Nat : m + k <= Links => ResolvedWithin[m] \subseteq ResolvedWithin[m + k]}
  <1>1. 0 \in T
    OBVIOUS
  <1>2. ASSUME NEW k \in Nat, k \in T PROVE k + 1 \in T
    <2> SUFFICES ASSUME m + (k + 1) <= Links
                 PROVE  ResolvedWithin[m] \subseteq ResolvedWithin[m + (k + 1)]
      OBVIOUS
    <2>1. Links \in Nat /\ m + k <= Links /\ m + k \in Nat /\ (m + k) + 1 = m + (k + 1)
      BY DenomsCounted DEF Links
    <2>2. ResolvedWithin[m + k] \subseteq ResolvedWithin[(m + k) + 1]
      BY <2>1, MoreLinksResolveMore
    <2> QED
      BY <1>2, <2>1, <2>2
  <1> HIDE DEF T
  <1>3. Nat \subseteq T
    BY <1>1, <1>2, LeastCounterexample
  <1> QED
    BY <1>3 DEF T

\* When one more link resolves nothing more, none ever does.
LEMMA NoMoreEver ==
    ASSUME NEW n \in Nat, n + 1 <= Links, ResolvedWithin[n + 1] \subseteq ResolvedWithin[n]
    PROVE  ResolvedWithin[Links] \subseteq ResolvedWithin[n]
  <1> DEFINE T == {m \in Nat : m <= Links => ResolvedWithin[m] \subseteq ResolvedWithin[n]}
  <1>1. 0 \in T
    BY NoneResolvesWithoutLinks
  <1>2. ASSUME NEW m \in Nat, m \in T PROVE m + 1 \in T
    <2> SUFFICES ASSUME m + 1 <= Links, NEW d \in ResolvedWithin[m + 1]
                 PROVE  d \in ResolvedWithin[n]
      OBVIOUS
    <2>1. Links \in Nat /\ m <= Links
      BY DenomsCounted DEF Links
    <2>2. d \in DOMAIN price_sources /\ ReadsThrough(d, price_sources[d]) \subseteq ResolvedWithin[m]
      BY OneMoreLink
    <2>3. ResolvedWithin[m] \subseteq ResolvedWithin[n]
      BY <1>2, <2>1
    <2> QED
      BY <2>2, <2>3, OneMoreLink
  <1> HIDE DEF T
  <1>3. Links \in T
    BY <1>1, <1>2, LeastCounterexample, DenomsCounted DEF Links
  <1> QED
    BY <1>3, DenomsCounted DEF T, Links

\* Without a cycle a chain is no longer than there are denoms with a source.
LEMMA ChainsAreShort ==
    ASSUME OracleSound, AllResolve
    PROVE  LET n == Cardinality(DOMAIN price_sources)
           IN  n \in 0 .. Links /\ IsFiniteSet(DOMAIN price_sources)
               /\ DOMAIN price_sources \subseteq ResolvedWithin[n]
  <1> DEFINE D == DOMAIN price_sources
             n == Cardinality(D)
  <1>1. D \subseteq Denom
    BY DEF OracleSound, IsMap
  <1>2. IsFiniteSet(D) /\ n \in Nat /\ n <= Links /\ Links \in Nat
    BY <1>1, DenomAssumption, FS_Subset, FS_CardinalityType DEF Links
  <1>3. D \subseteq ResolvedWithin[Links]
    BY DEF AllResolve, Links
  <1> DEFINE All(m) == D \subseteq ResolvedWithin[m]
             T == {m \in Nat : m <= Links => All(m) \/ m <= Cardinality(ResolvedWithin[m])}
  <1>4. \A m \in 0 .. Links : ResolvedWithin[m] \subseteq D
    BY ResolvedArePriced
  <1> HIDE DEF D
  <1>5. \A m \in 0 .. Links : /\ IsFiniteSet(ResolvedWithin[m])
                              /\ Cardinality(ResolvedWithin[m]) \in Nat
    BY <1>2, <1>4, FS_Subset, FS_CardinalityType
  <1>6. 0 \in T
    BY <1>2, <1>5
  <1>7. ASSUME NEW m \in Nat, m \in T PROVE m + 1 \in T
    <2> SUFFICES ASSUME m + 1 <= Links, ~All(m + 1)
                 PROVE  m + 1 <= Cardinality(ResolvedWithin[m + 1])
      OBVIOUS
    <2>1. m \in 0 .. Links /\ m + 1 \in 0 .. Links
      BY <1>2
    <2>2. ResolvedWithin[m] \subseteq ResolvedWithin[m + 1]
      BY MoreLinksResolveMore
    <2>3. ~All(m)
      BY <2>2
    <2>4. m <= Cardinality(ResolvedWithin[m])
      BY <1>7, <2>1, <2>3
    <2>5. ResolvedWithin[m] # ResolvedWithin[m + 1]
      <3> SUFFICES ASSUME ResolvedWithin[m] = ResolvedWithin[m + 1] PROVE FALSE
        OBVIOUS
      <3>1. ResolvedWithin[Links] \subseteq ResolvedWithin[m]
        BY NoMoreEver
      <3> QED
        BY <1>3, <2>3, <3>1
    <2>6. Cardinality(ResolvedWithin[m]) < Cardinality(ResolvedWithin[m + 1])
      <3>1. IsFiniteSet(ResolvedWithin[m + 1])
        BY <1>5, <2>1
      <3>2. /\ Cardinality(ResolvedWithin[m]) <= Cardinality(ResolvedWithin[m + 1])
            /\ Cardinality(ResolvedWithin[m]) = Cardinality(ResolvedWithin[m + 1])
                  => ResolvedWithin[m] = ResolvedWithin[m + 1]
        BY <2>2, <3>1, FS_Subset
      <3> QED
        BY <1>5, <2>1, <2>5, <3>2
    <2> QED
      BY <1>5, <2>1, <2>4, <2>6
  <1> HIDE DEF T
  <1>8. n \in T
    BY <1>2, <1>6, <1>7, LeastCounterexample
  <1>9. All(n)
    <2> SUFFICES ASSUME n <= Cardinality(ResolvedWithin[n]) PROVE All(n)
      BY <1>2, <1>8 DEF T
    <2>1. n \in 0 .. Links
      BY <1>2
    <2>2. ResolvedWithin[n] \subseteq D
      BY <1>4, <2>1
    <2>3. Cardinality(ResolvedWithin[n]) <= Cardinality(D)
          /\ (Cardinality(ResolvedWithin[n]) = Cardinality(D) => ResolvedWithin[n] = D)
      BY <1>2, <2>2, FS_Subset
    <2>4. Cardinality(ResolvedWithin[n]) \in Nat
      BY <1>5, <2>1
    <2> QED
      BY <1>2, <2>3, <2>4
  <1> QED
    BY <1>2, <1>9 DEF D

\* What can be resolved stays so as long as no source it rests on is replaced.
LEMMA ResolvedStays ==
    ASSUME base_denom' = base_denom,
           \A d \in DOMAIN price_sources :
                d \in DOMAIN price_sources' /\ price_sources'[d] = price_sources[d]
    PROVE  \A n \in 0 .. Links : ResolvedWithin[n] \subseteq ResolvedWithin'[n]
  <1> DEFINE T == {n \in Nat : n <= Links => ResolvedWithin[n] \subseteq ResolvedWithin'[n]}
  <1>1. 0 \in T
    BY NoneResolvesWithoutLinks
  <1>2. ASSUME NEW n \in Nat, n \in T PROVE n + 1 \in T
    <2> SUFFICES ASSUME n + 1 <= Links, NEW d \in ResolvedWithin[n + 1]
                 PROVE  d \in ResolvedWithin'[n + 1]
      OBVIOUS
    <2>1. n <= Links
      BY DenomsCounted DEF Links
    <2>2. d \in DOMAIN price_sources /\ ReadsThrough(d, price_sources[d]) \subseteq ResolvedWithin[n]
      BY OneMoreLink
    <2>3. ReadsThrough(d, price_sources[d])' = ReadsThrough(d, price_sources[d])
      BY <2>2 DEF ReadsThrough, OtherDenom
    <2>4. d \in DOMAIN price_sources' /\ ReadsThrough(d, price_sources[d])' \subseteq ResolvedWithin'[n]
      BY <1>2, <2>1, <2>2, <2>3
    <2> QED
      BY <2>4, OneMoreLinkNext
  <1> HIDE DEF T
  <1>3. Nat \subseteq T
    BY <1>1, <1>2, LeastCounterexample
  <1> QED
    BY <1>3, DenomsCounted DEF T, Links

LEMMA NewSourceRests ==
    ASSUME OracleSound, NEW d, NEW source \in PriceSource, ValidSource(d, source)
    PROVE  ReadsThrough(d, source) \subseteq DOMAIN price_sources
  <1>1. source.type \in {"fixed", "astroport_spot", "astroport_twap", "pyth"}
    BY DEF PriceSource
  <1>2. CASE source.type = "fixed"
    BY <1>2 DEF ReadsThrough
  <1>3. CASE source.type = "pyth"
    BY <1>3 DEF ReadsThrough, ValidSource
  <1>4. CASE source.type \in {"astroport_spot", "astroport_twap"}
    BY <1>4 DEF ReadsThrough, ValidSource, ValidPair
  <1> QED
    BY <1>1, <1>2, <1>3, <1>4

Reaching(n, m) == ResolvedWithin[m] \subseteq ResolvedWithin[m + n]

LEMMA LinksReachNext ==
    ASSUME NEW n \in Nat, NEW m \in Nat, m + n <= Cardinality(Denom)
    PROVE  Reaching(n, m)'
  <1>1. Reaching(n, m)
    BY LinksReach DEF Reaching, Links
  <1> QED
    BY <1>1, PTL

LEMMA AllReachedNext ==
    ASSUME NEW m \in Nat, m <= Links
    PROVE  ResolvedWithin'[m] \subseteq ResolvedWithin'[Links]
  <1>1. PICK n \in Nat : m + n = Links
    <2>1. Links \in Nat /\ Links - m \in Nat /\ m + (Links - m) = Links
      BY DenomsCounted DEF Links
    <2> QED
      BY <2>1
  <1>2. Reaching(n, m)'
    BY <1>1, DenomsCounted, LinksReachNext DEF Links
  <1>3. ResolvedWithin'[m] \subseteq ResolvedWithin'[m + n]
    BY <1>2 DEF Reaching
  <1> QED
    BY <1>1, <1>3

\* A source that validation accepts rests on sources that are there: the chain
\* of a new denom is one link longer than the longest there was.
LEMMA NewSourceResolves ==
    ASSUME OracleSound, AllResolve, NEW sender, NEW input \in SourceInput,
           SetPriceSource(sender, input[1], input[2]), input[1] \notin DOMAIN price_sources
    PROVE  AllResolve'
  <1> DEFINE d == input[1]
             s == input[2]
             n == Cardinality(DOMAIN price_sources)
  <1>1. d \in Denom /\ s \in PriceSource
    BY SourceInputTyped
  <1>2. ValidSource(d, s) /\ price_sources' = Save(price_sources, d, s) /\ UNCHANGED base_denom
    BY DEF SetPriceSource
  <1>3. /\ DOMAIN price_sources' = DOMAIN price_sources \cup {d}
        /\ price_sources'[d] = s
        /\ \A e \in DOMAIN price_sources : price_sources'[e] = price_sources[e]
    BY <1>2 DEF Save
  <1>4. n \in 0 .. Links /\ DOMAIN price_sources \subseteq ResolvedWithin[n]
    BY ChainsAreShort
  <1>5. \A m \in 0 .. Links : ResolvedWithin[m] \subseteq ResolvedWithin'[m]
    BY <1>2, <1>3, ResolvedStays
  <1>6. n + 1 <= Links
    <2>1. DOMAIN price_sources \cup {d} \subseteq Denom
      BY <1>1 DEF OracleSound, IsMap
    <2>2. IsFiniteSet(DOMAIN price_sources)
      BY ChainsAreShort
    <2>3. Cardinality(DOMAIN price_sources \cup {d}) = n + 1
      BY <2>2, FS_AddElement
    <2> QED
      BY <2>1, <2>3, DenomAssumption, FS_Subset DEF Links
  <1>7. ReadsThrough(d, price_sources[d])' \subseteq ResolvedWithin'[n]
    <2>1. ReadsThrough(d, price_sources[d])' = ReadsThrough(d, s)
      BY <1>2, <1>3 DEF ReadsThrough, OtherDenom
    <2>2. ReadsThrough(d, s) \subseteq DOMAIN price_sources
      BY <1>1, <1>2, NewSourceRests
    <2> QED
      BY <1>4, <1>5, <2>1, <2>2
  <1> HIDE DEF n
  <1>8. d \in ResolvedWithin'[n + 1]
    BY <1>3, <1>4, <1>6, <1>7, OneMoreLinkNext
  <1>9. ResolvedWithin'[n + 1] \subseteq ResolvedWithin'[Links]
    BY <1>4, <1>6, AllReachedNext
  <1>10. DOMAIN price_sources \subseteq ResolvedWithin'[Links]
    <2>1. DOMAIN price_sources \subseteq ResolvedWithin[Links]
      BY DEF AllResolve, Links
    <2>2. Links \in 0 .. Links
      BY DenomsCounted DEF Links
    <2> QED
      BY <1>5, <2>1, <2>2
  <1>11. DOMAIN price_sources' \subseteq ResolvedWithin'[Links]
    BY <1>3, <1>8, <1>9, <1>10
  <1> QED
    BY <1>11 DEF AllResolve, Links

\* A step that breaks a chain changes the base denom, or replaces or removes a
\* source.
LEMMA BrokenBySomeChange ==
    ASSUME OracleSound, HistoryNext \/ UNCHANGED <<oracleVars, traded>>, AllResolve, ~AllResolve'
    PROVE  \/ base_denom' # base_denom
           \/ \E d \in DOMAIN price_sources :
                 d \notin DOMAIN price_sources' \/ price_sources'[d] # price_sources[d]
  <1> SUFFICES ASSUME base_denom' = base_denom,
                      \A d \in DOMAIN price_sources :
                           d \in DOMAIN price_sources' /\ price_sources'[d] = price_sources[d]
               PROVE  FALSE
    OBVIOUS
  <1>0. Links \in 0 .. Links /\ Links = Cardinality(Denom)
    BY DenomsCounted DEF Links
  <1>1. DOMAIN price_sources' # DOMAIN price_sources
    <2> SUFFICES ASSUME DOMAIN price_sources' = DOMAIN price_sources PROVE FALSE
      OBVIOUS
    <2>1. ResolvedWithin[Links] \subseteq ResolvedWithin'[Links]
      BY <1>0, ResolvedStays
    <2> QED
      BY <1>0, <2>1 DEF AllResolve
  <1>2. price_sources' # price_sources
    BY <1>1
  <1>3. CASE \E sender \in Admin, input \in SourceInput : SetPriceSource(sender, input[1], input[2])
    <2>1. PICK sender \in Admin, input \in SourceInput : SetPriceSource(sender, input[1], input[2])
      BY <1>3
    <2>2. price_sources' = Save(price_sources, input[1], input[2])
      BY <2>1 DEF SetPriceSource
    <2>3. input[1] \notin DOMAIN price_sources
      BY <1>1, <2>2 DEF Save
    <2> QED
      BY <2>1, <2>3, NewSourceResolves
  <1>4. CASE \E sender \in Admin, d \in Denom : RemovePriceSource(sender, d)
    <2>1. PICK d \in Denom : price_sources' = Remove(price_sources, d)
      BY <1>4 DEF RemovePriceSource
    <2>2. DOMAIN price_sources' \subseteq DOMAIN price_sources
      BY <2>1 DEF Remove
    <2> QED
      BY <1>1, <2>2
  <1> QED
    BY <1>2, <1>3, <1>4
    DEF HistoryNext, Next, OwnerStep, MarketStep, UpdateOwner, UpdateConfig,
        RecordTwapSnapshots, Tick, Trade, Publish, contract, oracleVars

\* As long as the owner only gives sources to denoms that have none, every price
\* keeps ending at a source that reads no other: validation admits no cycle.
THEOREM NewSourcesAlwaysResolve == HistorySpec => NewSourcesResolve
  <1>1. OracleSound /\ [HistoryNext]_<<oracleVars, traded>>
        => [AllResolve /\ ~AllResolve' =>
              \/ base_denom' # base_denom
              \/ \E d \in DOMAIN price_sources :
                    \/ d \notin DOMAIN price_sources'
                    \/ price_sources'[d] # price_sources[d]]_<<oracleVars, traded>>
    BY BrokenBySomeChange
  <1> QED
    BY <1>1, HistoryIsOracle, OracleSoundAlways, PTL
    DEF HistorySpec, NewSourcesResolve

-----------------------------------------------------------------------------
(***************************************************************************)
(* Sums over the seconds of a history                                      *)
(***************************************************************************)

\* The recursion that the sum of f over a set is computed by.
SumStep(f, sums, s) ==
    IF s = {} THEN 0 ELSE LET x == CHOOSE x \in s : TRUE IN f[x] + sums[s \ {x}]

Sums(f) == CHOOSE sums : sums = [s \in SUBSET DOMAIN f |->
    IF s = {} THEN 0 ELSE LET x == CHOOSE x \in s : TRUE IN f[x] + sums[s \ {x}]]

LEMMA SmallerSet ==
    ASSUME NEW s, IsFiniteSet(s), s # {}
    PROVE  LET x == CHOOSE x \in s : TRUE
           IN  /\ x \in s
               /\ IsFiniteSet(s \ {x})
               /\ Cardinality(s \ {x}) = Cardinality(s) - 1
               /\ Cardinality(s) \in Nat \ {0}
  BY FS_RemoveElement, FS_CardinalityType, FS_EmptySet

LEMMA SumsExist ==
    ASSUME NEW S, IsFiniteSet(S), NEW f \in [S -> Nat]
    PROVE  \A s \in SUBSET S : Sums(f)[s] = SumStep(f, Sums(f), s)
  <1> DEFINE Correct(h, n) ==
                \A s \in SUBSET S : Cardinality(s) <= n => h[s] = SumStep(f, h, s)
             T == {n \in Nat : \E h : Correct(h, n)}
  <1>1. \A s \in SUBSET S : IsFiniteSet(s) /\ Cardinality(s) \in Nat
                            /\ Cardinality(s) <= Cardinality(S)
    BY FS_Subset, FS_CardinalityType
  <1>2. 0 \in T
    <2> DEFINE h == [s \in SUBSET S |-> 0]
    <2>1. ASSUME NEW s \in SUBSET S, Cardinality(s) <= 0 PROVE h[s] = SumStep(f, h, s)
      <3>1. s = {}
        BY <1>1, <2>1, FS_EmptySet
      <3> QED
        BY <3>1 DEF SumStep
    <2> QED
      BY <2>1
  <1>3. ASSUME NEW n \in Nat, n \in T PROVE n + 1 \in T
    <2>1. PICK h : Correct(h, n)
      BY <1>3
    <2> DEFINE g == [s \in SUBSET S |->
                        IF Cardinality(s) <= n THEN h[s] ELSE SumStep(f, h, s)]
    <2>2. ASSUME NEW s \in SUBSET S, Cardinality(s) <= n + 1
          PROVE  g[s] = SumStep(f, h, s) /\ SumStep(f, g, s) = SumStep(f, h, s)
      <3>1. g[s] = SumStep(f, h, s)
        BY <2>1
      <3>2. CASE s = {}
        BY <3>1, <3>2 DEF SumStep
      <3>3. CASE s # {}
        <4> DEFINE x == CHOOSE x \in s : TRUE
        <4>1. s \ {x} \in SUBSET S /\ Cardinality(s \ {x}) <= n
          BY <1>1, <2>2, <3>3, SmallerSet
        <4>2. g[s \ {x}] = h[s \ {x}]
          BY <4>1
        <4> HIDE DEF g
        <4> QED
          BY <3>1, <3>3, <4>2 DEF SumStep
      <3> QED
        BY <3>1, <3>2, <3>3
    <2> HIDE DEF g
    <2>3. Correct(g, n + 1)
      BY <2>2
    <2>4. n + 1 \in Nat
      OBVIOUS
    <2> HIDE DEF Correct
    <2> QED
      BY <2>3, <2>4
  <1>4. Cardinality(S) \in T
    <2> HIDE DEF T
    <2> QED
      BY <1>1, <1>2, <1>3, LeastCounterexample
  <1>5. PICK h : Correct(h, Cardinality(S))
    BY <1>4
  <1> DEFINE g == [s \in SUBSET S |-> h[s]]
  <1>6. ASSUME NEW s \in SUBSET S PROVE g[s] = SumStep(f, g, s)
    <2>1. h[s] = SumStep(f, h, s)
      BY <1>1, <1>5
    <2>2. SumStep(f, g, s) = SumStep(f, h, s)
      BY DEF SumStep
    <2> QED
      BY <2>1, <2>2
  <1> HIDE DEF g
  <1>7. g = [s \in SUBSET DOMAIN f |->
             IF s = {} THEN 0 ELSE LET x == CHOOSE x \in s : TRUE IN f[x] + g[s \ {x}]]
    BY <1>6 DEF g, SumStep
  <1>8. Sums(f) = [s \in SUBSET DOMAIN f |->
             IF s = {} THEN 0 ELSE LET x == CHOOSE x \in s : TRUE IN f[x] + Sums(f)[s \ {x}]]
    BY <1>7 DEF Sums
  <1> QED
    BY <1>8 DEF SumStep

LEMMA SumEquations ==
    ASSUME NEW S, IsFiniteSet(S), NEW f \in [S -> Nat]
    PROVE  /\ Sums(f)[{}] = 0
           /\ \A s \in (SUBSET S) \ {{}} :
                LET x == CHOOSE x \in s : TRUE
                IN  Sums(f)[s] = f[x] + Sums(f)[s \ {x}]
  <1>1. \A s \in SUBSET S : Sums(f)[s] = SumStep(f, Sums(f), s)
    BY SumsExist
  <1> QED
    BY <1>1 DEF SumStep

\* A sum over any part of the domain is one.
LEMMA PartialSumType ==
    ASSUME NEW S, IsFiniteSet(S), NEW f \in [S -> Nat]
    PROVE  \A s \in SUBSET S : Sums(f)[s] \in Nat
  <1> DEFINE T == {n \in Nat : \A s \in SUBSET S : Cardinality(s) = n => Sums(f)[s] \in Nat}
  <1>1. \A s \in SUBSET S : IsFiniteSet(s) /\ Cardinality(s) \in Nat
    BY FS_Subset, FS_CardinalityType
  <1>2. 0 \in T
    <2>1. ASSUME NEW s \in SUBSET S, Cardinality(s) = 0 PROVE Sums(f)[s] \in Nat
      <3>1. s = {}
        BY <1>1, <2>1, FS_EmptySet
      <3> QED
        BY <3>1, SumEquations
    <2> QED
      BY <2>1
  <1>3. ASSUME NEW n \in Nat, n \in T PROVE n + 1 \in T
    <2>1. ASSUME NEW s \in SUBSET S, Cardinality(s) = n + 1 PROVE Sums(f)[s] \in Nat
      <3> DEFINE x == CHOOSE x \in s : TRUE
      <3>1. s # {}
        BY <2>1, FS_EmptySet
      <3>2. x \in s /\ s \ {x} \in SUBSET S /\ Cardinality(s \ {x}) = n
        BY <1>1, <2>1, <3>1, SmallerSet
      <3>3. Sums(f)[s] = f[x] + Sums(f)[s \ {x}]
        BY <3>1, SumEquations
      <3>4. Sums(f)[s \ {x}] \in Nat
        BY <1>3, <3>2
      <3> HIDE DEF x
      <3>5. f[x] \in Nat
        BY <3>2
      <3> QED
        BY <3>3, <3>4, <3>5
    <2> QED
      BY <2>1
  <1>4. Nat \subseteq T
    <2> HIDE DEF T
    <2> QED
      BY <1>2, <1>3, LeastCounterexample
  <1> QED
    BY <1>1, <1>4

\* The order in which a sum is taken does not matter: any term can be the first.
LEMMA SumSplit ==
    ASSUME NEW S, IsFiniteSet(S), NEW f \in [S -> Nat]
    PROVE  \A s \in SUBSET S : \A v \in s : Sums(f)[s] = f[v] + Sums(f)[s \ {v}]
  <1> DEFINE Correct(s) == \A v \in s : Sums(f)[s] = f[v] + Sums(f)[s \ {v}]
             T == {n \in Nat : \A s \in SUBSET S : Cardinality(s) = n => Correct(s)}
  <1>1. \A s \in SUBSET S : IsFiniteSet(s) /\ Cardinality(s) \in Nat /\ Sums(f)[s] \in Nat
    BY FS_Subset, FS_CardinalityType, PartialSumType
  <1>2. 0 \in T
    <2>1. ASSUME NEW s \in SUBSET S, Cardinality(s) = 0 PROVE Correct(s)
      BY <1>1, <2>1, FS_EmptySet
    <2> HIDE DEF Correct
    <2> QED
      BY <2>1
  <1>3. ASSUME NEW n \in Nat, n \in T PROVE n + 1 \in T
    <2>1. ASSUME NEW s \in SUBSET S, Cardinality(s) = n + 1 PROVE Correct(s)
      <3> DEFINE x == CHOOSE x \in s : TRUE
      <3>1. s # {}
        BY <2>1, FS_EmptySet
      <3>2. x \in s /\ s \ {x} \in SUBSET S /\ Cardinality(s \ {x}) = n
        BY <1>1, <2>1, <3>1, SmallerSet
      <3>3. Sums(f)[s] = f[x] + Sums(f)[s \ {x}]
        BY <3>1, SumEquations
      <3> HIDE DEF x
      <3>4. ASSUME NEW v \in s, v # x PROVE Sums(f)[s] = f[v] + Sums(f)[s \ {v}]
        <4>1. /\ v \in s \ {x} /\ x \in s \ {v}
              /\ s \ {v} \in SUBSET S /\ Cardinality(s \ {v}) = n
              /\ (s \ {v}) \ {x} = (s \ {x}) \ {v}
              /\ (s \ {v}) \ {x} \in SUBSET S
          BY <1>1, <2>1, <3>2, <3>4, FS_RemoveElement
        <4>2. Correct(s \ {x}) /\ Correct(s \ {v})
          BY <1>3, <3>2, <4>1
        <4> DEFINE most == Sums(f)[(s \ {v}) \ {x}]
        <4>3. Sums(f)[s \ {x}] = f[v] + most
          BY <4>1, <4>2
        <4>4. Sums(f)[s \ {v}] = f[x] + most
          BY <4>1, <4>2
        <4>5. f[x] \in Nat /\ f[v] \in Nat /\ most \in Nat
          BY <1>1, <3>2, <4>1
        <4> HIDE DEF most
        <4> QED
          BY <3>3, <4>3, <4>4, <4>5
      <3> QED
        BY <3>3, <3>4
    <2> HIDE DEF Correct
    <2> QED
      BY <2>1
  <1>4. Nat \subseteq T
    <2> HIDE DEF T
    <2> QED
      BY <1>2, <1>3, LeastCounterexample
  <1> QED
    BY <1>1, <1>4

\* The sum over a set does not depend on what f is outside of it.
LEMMA SumsAgree ==
    ASSUME NEW S, IsFiniteSet(S), NEW f \in [S -> Nat],
           NEW R, IsFiniteSet(R), NEW g \in [R -> Nat],
           NEW s \in SUBSET S, s \in SUBSET R, \A x \in s : f[x] = g[x]
    PROVE  Sums(f)[s] = Sums(g)[s]
  <1> DEFINE T == {n \in Nat : \A r \in SUBSET s : Cardinality(r) = n => Sums(f)[r] = Sums(g)[r]}
  <1>1. \A r \in SUBSET s : IsFiniteSet(r) /\ Cardinality(r) \in Nat
    BY FS_Subset, FS_CardinalityType
  <1>2. 0 \in T
    <2>1. ASSUME NEW r \in SUBSET s, Cardinality(r) = 0 PROVE Sums(f)[r] = Sums(g)[r]
      <3>1. r = {}
        BY <1>1, <2>1, FS_EmptySet
      <3> QED
        BY <3>1, SumEquations
    <2> QED
      BY <2>1
  <1>3. ASSUME NEW n \in Nat, n \in T PROVE n + 1 \in T
    <2>1. ASSUME NEW r \in SUBSET s, Cardinality(r) = n + 1 PROVE Sums(f)[r] = Sums(g)[r]
      <3> DEFINE x == CHOOSE x \in r : TRUE
      <3>1. r # {}
        BY <2>1, FS_EmptySet
      <3>2. x \in r /\ r \ {x} \in SUBSET s /\ Cardinality(r \ {x}) = n
        BY <1>1, <2>1, <3>1, SmallerSet
      <3>3. r \in (SUBSET S) \ {{}} /\ r \in (SUBSET R) \ {{}}
        BY <3>1
      <3>4. Sums(f)[r] = f[x] + Sums(f)[r \ {x}] /\ Sums(g)[r] = g[x] + Sums(g)[r \ {x}]
        BY <3>3, SumEquations
      <3>5. Sums(f)[r \ {x}] = Sums(g)[r \ {x}]
        BY <1>3, <3>2
      <3> HIDE DEF x
      <3>6. f[x] = g[x]
        BY <3>2
      <3> QED
        BY <3>4, <3>5, <3>6
    <2> QED
      BY <2>1
  <1>4. Nat \subseteq T
    <2> HIDE DEF T
    <2> QED
      BY <1>2, <1>3, LeastCounterexample
  <1> QED
    BY <1>1, <1>4

SameOn(f, g, s) == \A x \in s : f[x] = g[x]

LEMMA SumWithOneMore ==
    ASSUME NEW S, IsFiniteSet(S), NEW f \in [S -> Nat],
           NEW R, IsFiniteSet(R), NEW g \in [R -> Nat],
           NEW r \in SUBSET R, NEW v \in r, NEW s \in SUBSET S, s = r \ {v}, SameOn(f, g, s)
    PROVE  Sums(g)[r] = Sums(f)[s] + g[v]
  <1>1. Sums(g)[r] = g[v] + Sums(g)[s]
    BY SumSplit
  <1>2. Sums(f)[s] = Sums(g)[s]
    BY SumsAgree DEF SameOn
  <1>3. Sums(f)[s] \in Nat /\ g[v] \in Nat
    BY PartialSumType
  <1> QED
    BY <1>1, <1>2, <1>3

\* The terms of the first n seconds, and others that continue them.
TermsOf(n) == [1 .. n -> Nat]

Continues(f, g, n) == \A t \in 1 .. n : f[t] = g[t]

\* The sum over an interval, and over one that is longer by one.
SumOver(f, a, b) == Sums(f)[a + 1 .. b]

LEMMA SumOverNothing ==
    ASSUME NEW n \in Nat, NEW f \in TermsOf(n)
    PROVE  SumOver(f, n, n) = 0
  <1>1. IsFiniteSet(1 .. n) /\ n + 1 .. n = {}
    BY FS_Interval
  <1> QED
    BY <1>1, SumEquations DEF SumOver, TermsOf

LEMMA SumOverType ==
    ASSUME NEW n \in Nat, NEW f \in TermsOf(n), NEW a \in Nat, a <= n
    PROVE  SumOver(f, a, n) \in Nat
  <1>1. IsFiniteSet(1 .. n) /\ a + 1 .. n \in SUBSET (1 .. n)
    BY FS_Interval
  <1> QED
    BY <1>1, PartialSumType DEF SumOver, TermsOf

LEMMA SumOverMore ==
    ASSUME NEW n \in Nat, NEW f \in TermsOf(n), NEW a \in Nat, a <= n,
           NEW g \in TermsOf(n + 1), Continues(f, g, n)
    PROVE  SumOver(g, a, n + 1) = SumOver(f, a, n) + g[n + 1]
  <1> DEFINE S == 1 .. n
             R == 1 .. n + 1
             s == a + 1 .. n
             r == a + 1 .. n + 1
             v == n + 1
  <1>1. IsFiniteSet(S) /\ IsFiniteSet(R)
    BY FS_Interval
  <1>2. r \in SUBSET R /\ v \in r /\ s \in SUBSET S /\ s = r \ {v}
    OBVIOUS
  <1>3. f \in [S -> Nat] /\ g \in [R -> Nat] /\ SameOn(f, g, s)
    BY DEF SameOn, TermsOf, Continues
  <1> HIDE DEF S, R, s, r, v
  <1>4. Sums(g)[r] = Sums(f)[s] + g[v]
    BY <1>1, <1>2, <1>3, SumWithOneMore
  <1> QED
    BY <1>4 DEF SumOver, s, r, v

\* Further terms that are all the same.
LEMMA SumOverMany ==
    ASSUME NEW n \in Nat, NEW f \in TermsOf(n), NEW a \in Nat, a <= n, NEW more \in Nat,
           NEW x \in Nat, NEW g \in TermsOf(n + more), Continues(f, g, n),
           \A t \in n + 1 .. n + more : g[t] = x
    PROVE  SumOver(g, a, n + more) = SumOver(f, a, n) + more * x
  <1> DEFINE part(k) == [t \in 1 .. n + k |-> g[t]]
             T == {k \in Nat : k <= more =>
                        SumOver(part(k), a, n + k) = SumOver(f, a, n) + k * x}
  <1>1. 0 \in T
    <2>1. part(0) = f
      BY DEF TermsOf, Continues
    <2>2. SumOver(f, a, n) \in Nat
      BY SumOverType
    <2> HIDE DEF part
    <2> QED
      BY <2>1, <2>2
  <1>2. ASSUME NEW k \in Nat, k \in T PROVE k + 1 \in T
    <2> SUFFICES ASSUME k + 1 <= more
                 PROVE  SumOver(part(k + 1), a, n + (k + 1)) = SumOver(f, a, n) + (k + 1) * x
      OBVIOUS
    <2> DEFINE p == part(k)
               q == part(k + 1)
               m == n + k
    <2>1. /\ m \in Nat /\ a <= m /\ m + 1 = n + (k + 1)
          /\ p \in TermsOf(m) /\ q \in TermsOf(m + 1)
          /\ Continues(p, q, m)
          /\ q[m + 1] = x
      BY DEF TermsOf, Continues
    <2>2. SumOver(p, a, m) = SumOver(f, a, n) + k * x
      BY <1>2
    <2>3. SumOver(f, a, n) \in Nat
      BY SumOverType
    <2> HIDE DEF p, q, m
    <2>4. SumOver(q, a, m + 1) = SumOver(p, a, m) + q[m + 1]
      BY <2>1, SumOverMore
    <2> DEFINE before == SumOver(f, a, n)
    <2>5. k * x + x = (k + 1) * x /\ k * x \in Nat
      OBVIOUS
    <2> HIDE DEF before
    <2>6. SumOver(q, a, m + 1) = before + (k + 1) * x
      BY <2>1, <2>2, <2>3, <2>4, <2>5 DEF before
    <2> QED
      BY <2>1, <2>6 DEF q, before
  <1>3. more \in T
    <2> HIDE DEF T
    <2> QED
      BY <1>1, <1>2, LeastCounterexample
  <1>4. part(more) = g
    BY DEF TermsOf
  <1> HIDE DEF part
  <1> QED
    BY <1>3, <1>4

\* Division with a remainder.
LEMMA Division ==
    ASSUME NEW a \in Nat, NEW b \in Nat \ {0}
    PROVE  a \div b \in Nat /\ a % b \in Nat /\ a % b < b /\ a = b * (a \div b) + (a % b)
  BY SMT

LEMMA Quotient ==
    ASSUME NEW a \in Nat, NEW b \in Nat \ {0}
    PROVE  a \div b \in Nat /\ (a \div b) * b <= a /\ a < (a \div b) * b + b
  <1> DEFINE q == a \div b
             r == a % b
  <1>1. q \in Nat /\ r \in Nat /\ r < b /\ a = b * q + r
    BY Division
  <1>2. b * q = q * b /\ q * b \in Nat
    BY <1>1, SMT
  <1> HIDE DEF q, r
  <1>3. q \in Nat /\ q * b <= a /\ a < q * b + b
    BY <1>1, <1>2
  <1> QED
    BY <1>3 DEF q

LEMMA RemainderIs ==
    ASSUME NEW m \in Nat \ {0}, NEW q \in Nat, NEW r \in Nat, r < m
    PROVE  (m * q + r) % m = r
  BY SMT

\* It does not matter whether a sum wraps once or at each term.
LEMMA WrapsOnceMore ==
    ASSUME NEW a \in Nat, NEW b \in Nat, NEW m \in Nat \ {0}
    PROVE  ((a % m) + b) % m = (a + b) % m
  <1> DEFINE q == a \div m
             r == a % m
             p == (r + b) \div m
             s == (r + b) % m
  <1>1. q \in Nat /\ r \in Nat /\ a = m * q + r
    BY Division
  <1>2. r + b \in Nat
    BY <1>1
  <1>3. p \in Nat /\ s \in Nat /\ s < m /\ r + b = m * p + s
    BY <1>2, Division
  <1> HIDE DEF q, r, p, s
  <1>4. m * q + m * p = m * (q + p) /\ m * q \in Nat /\ m * p \in Nat /\ q + p \in Nat
    BY <1>1, <1>3, SMT
  <1>5. a + b = m * (q + p) + s
    BY <1>1, <1>3, <1>4
  <1>6. (a + b) % m = s
    BY <1>3, <1>4, <1>5, RemainderIs
  <1> QED
    BY <1>6 DEF r, s

\* What a truncating division of every term loses of their sum.
Quotients(c, e, n, u, d) ==
    \A t \in 1 .. n : e[t] * d <= c[t] * u /\ c[t] * u <= e[t] * d + d

LEMMA SumsOfQuotients ==
    ASSUME NEW n \in Nat, NEW c \in TermsOf(n), NEW e \in TermsOf(n),
           NEW u \in Nat, NEW d \in Nat, Quotients(c, e, n, u, d), NEW a \in Nat, a <= n
    PROVE  /\ SumOver(e, a, n) * d <= SumOver(c, a, n) * u
           /\ SumOver(c, a, n) * u <= SumOver(e, a, n) * d + (n - a) * d
  <1> DEFINE cc(k) == [t \in 1 .. a + k |-> c[t]]
             ee(k) == [t \in 1 .. a + k |-> e[t]]
             C(k) == SumOver(cc(k), a, a + k)
             E(k) == SumOver(ee(k), a, a + k)
             Bracket(x, y, k) == y * d <= x * u /\ x * u <= y * d + k * d
             T == {k \in Nat : k <= n - a => Bracket(C(k), E(k), k)}
  <1>1. ASSUME NEW k \in Nat, k <= n - a
        PROVE  /\ a + k \in Nat /\ a <= a + k
               /\ cc(k) \in TermsOf(a + k) /\ ee(k) \in TermsOf(a + k)
    BY <1>1 DEF TermsOf
  <1>2. ASSUME NEW k \in Nat, k <= n - a
        PROVE  C(k) \in Nat /\ E(k) \in Nat
    <2> HIDE DEF cc, ee
    <2> QED
      BY <1>1, <1>2, SumOverType
  <1>3. 0 \in T
    <2>1. cc(0) \in TermsOf(a) /\ ee(0) \in TermsOf(a) /\ a + 0 = a
      BY DEF TermsOf
    <2> HIDE DEF cc, ee
    <2>2. C(0) = 0 /\ E(0) = 0
      BY <2>1, SumOverNothing
    <2> HIDE DEF C, E
    <2> QED
      BY <2>2
  <1>4. ASSUME NEW k \in Nat, k \in T PROVE k + 1 \in T
    <2> SUFFICES ASSUME k + 1 <= n - a PROVE Bracket(C(k + 1), E(k + 1), k + 1)
      OBVIOUS
    <2> DEFINE m == a + k
               x == c[m + 1]
               y == e[m + 1]
    <2>1. Bracket(C(k), E(k), k) /\ C(k) \in Nat /\ E(k) \in Nat
      BY <1>2, <1>4
    <2>2. /\ m \in Nat /\ a <= m /\ m + 1 = a + (k + 1) /\ m + 1 \in 1 .. n
          /\ cc(k) \in TermsOf(m) /\ cc(k + 1) \in TermsOf(m + 1)
          /\ ee(k) \in TermsOf(m) /\ ee(k + 1) \in TermsOf(m + 1)
          /\ Continues(cc(k), cc(k + 1), m) /\ Continues(ee(k), ee(k + 1), m)
          /\ cc(k + 1)[m + 1] = x /\ ee(k + 1)[m + 1] = y
      BY DEF TermsOf, Continues
    <2>3. x \in Nat /\ y \in Nat
      BY <2>2 DEF TermsOf
    <2>4. y * d <= x * u /\ x * u <= y * d + d
      BY <2>2 DEF Quotients
    <2> DEFINE p == cc(k)
               pp == cc(k + 1)
               q == ee(k)
               qq == ee(k + 1)
    <2>5. /\ m \in Nat /\ a <= m /\ m + 1 = a + (k + 1)
          /\ p \in TermsOf(m) /\ pp \in TermsOf(m + 1) /\ Continues(p, pp, m)
          /\ q \in TermsOf(m) /\ qq \in TermsOf(m + 1) /\ Continues(q, qq, m)
          /\ pp[m + 1] = x /\ qq[m + 1] = y
      BY <2>2
    <2>6. /\ C(k) = SumOver(p, a, m) /\ C(k + 1) = SumOver(pp, a, m + 1)
          /\ E(k) = SumOver(q, a, m) /\ E(k + 1) = SumOver(qq, a, m + 1)
      BY <2>2
    <2> HIDE DEF m, x, y, p, pp, q, qq, C, E, cc, ee
    <2>7. C(k + 1) = C(k) + x /\ E(k + 1) = E(k) + y
      BY <2>5, <2>6, SumOverMore
    <2> DEFINE X == C(k)
               Y == E(k)
    <2>8. X \in Nat /\ Y \in Nat /\ Y * d <= X * u /\ X * u <= Y * d + k * d
      BY <2>1
    <2> HIDE DEF X, Y
    <2>9. /\ (X + x) * u = X * u + x * u /\ (Y + y) * d = Y * d + y * d
          /\ (k + 1) * d = k * d + d
          /\ X * u \in Nat /\ x * u \in Nat /\ Y * d \in Nat /\ y * d \in Nat /\ k * d \in Nat
      BY <2>3, <2>8, SMT
    <2>10. (Y + y) * d <= (X + x) * u /\ (X + x) * u <= (Y + y) * d + (k + 1) * d
      BY <2>4, <2>8, <2>9
    <2> QED
      BY <2>7, <2>10 DEF X, Y
  <1>5. n - a \in Nat /\ n - a \in T
    <2>1. n - a \in Nat
      OBVIOUS
    <2> HIDE DEF T
    <2> QED
      BY <1>3, <1>4, <2>1, LeastCounterexample
  <1>6. cc(n - a) = c /\ ee(n - a) = e /\ a + (n - a) = n
    BY DEF TermsOf
  <1>7. Bracket(C(n - a), E(n - a), n - a)
    BY <1>5
  <1> HIDE DEF cc, ee
  <1> QED
    BY <1>6, <1>7

-----------------------------------------------------------------------------
(***************************************************************************)
(* Averages                                                                *)
(***************************************************************************)

\* Every denom's average is one of a single pair, whatever the owner sets.  The
\* snapshots of a denom stay when its source is moved to another pair, and the
\* next average mixes both.
OnePairEach ==
    \A d \in Denom : \A s, t \in TwapInputs(d) : s.pair = t.pair

\* By what the adjustment of precisions divides.
Digit(k) == Unit[IF PairType[k[1]] = "stable" THEN OtherDenom(k[1], k[2]) ELSE k[2]]

\* Second by second: the coins that a side returned, and what its cumulative
\* price grew by.
CoinsOf(k, history) == [t \in 1 .. Len(history) |-> history[t][k]]

StepsOf(k, history) == [t \in 1 .. Len(history) |-> (history[t][k] * TwapUnit) \div Digit(k)]

HistoryTyped == traded \in Seq([Side -> Nat]) /\ Len(traded) = now

\* The cumulative price is that of the snapshot and what it grew by since, with
\* the wrap-around.
Accounted(snapshot, k) ==
    cumulative[k] = (snapshot.price_cumulative
                        + SumOver(StepsOf(k, traded), snapshot.timestamp, now))
                            % (MaxCumulative + 1)

SnapshotsAccounted ==
    \A d \in DOMAIN snapshots : \A s \in TwapInputs(d) :
        /\ <<s.pair, d>> \in Side
        /\ \A i \in 1 .. Len(snapshots[d]) : Accounted(snapshots[d][i], <<s.pair, d>>)

LEMMA SideIs ==
    ASSUME NEW k \in Side
    PROVE  /\ k = <<k[1], k[2]>> /\ k[1] \in Pair /\ k[2] \in Denom
           /\ Digit(k) \in Nat \ {0}
           /\ PricePerSecond(k[1], k[2]) = (swap[k] * TwapUnit) \div Digit(k)
  <1>1. k = <<k[1], k[2]>> /\ k[1] \in Pair /\ k[2] \in Denom /\ PairPrices(k[1], k[2])
    BY DEF Side
  <1>2. OtherDenom(k[1], k[2]) \in Denom
    BY <1>1, PairDenoms
  <1>3. Digit(k) \in Nat \ {0}
    BY <1>1, <1>2, OracleAssumption DEF Digit
  <1>4. PricePerSecond(k[1], k[2]) = (swap[k] * TwapUnit) \div Digit(k)
    BY <1>1 DEF PricePerSecond, Digit
  <1> QED
    BY <1>1, <1>3, <1>4

LEMMA StepType ==
    ASSUME NEW k \in Side, NEW coins \in Nat
    PROVE  (coins * TwapUnit) \div Digit(k) \in Nat
  <1>1. Digit(k) \in Nat \ {0} /\ TwapUnit \in Nat
    BY SideIs, OracleAssumption
  <1> DEFINE x == coins * TwapUnit
  <1>2. x \in Nat
    BY <1>1
  <1> HIDE DEF x
  <1>3. x \div Digit(k) \in Nat
    BY <1>1, <1>2, Quotient
  <1> QED
    BY <1>3 DEF x

LEMMA HistoryTerms ==
    ASSUME NEW history \in Seq([Side -> Nat]), NEW k \in Side
    PROVE  CoinsOf(k, history) \in TermsOf(Len(history))
           /\ StepsOf(k, history) \in TermsOf(Len(history))
  <1>1. ASSUME NEW t \in 1 .. Len(history) PROVE history[t][k] \in Nat
    <2>1. history[t] \in [Side -> Nat]
      OBVIOUS
    <2> QED
      BY <2>1
  <1>2. ASSUME NEW t \in 1 .. Len(history)
        PROVE  (history[t][k] * TwapUnit) \div Digit(k) \in Nat
    BY <1>1, StepType
  <1> QED
    BY <1>1, <1>2 DEF CoinsOf, StepsOf, TermsOf

\* What a sequence is made of when it is another with a second one after it.
Joins(S, h, s, t) ==
    /\ h \in Seq(S)
    /\ Len(h) = Len(s) + Len(t)
    /\ \A i \in 1 .. Len(s) : h[i] = s[i]
    /\ \A i \in 1 .. Len(t) : h[i + Len(s)] = t[i]

LEMMA Joined ==
    ASSUME NEW S, NEW s \in Seq(S), NEW t \in Seq(S)
    PROVE  Joins(S, s \o t, s, t)
  BY DEF Joins

LEMMA HistoryStays ==
    ASSUME OracleSound, HistoryTyped, HistoryNext, now' = now
    PROVE  traded' = traded
  <1> DEFINE more == [t \in 1 .. now' - now |-> swap]
  <1>1. now' - now = 0
    BY DEF OracleSound
  <1>2. more = <<>>
    BY <1>1
  <1>3. traded' = traded \o more
    BY DEF HistoryNext
  <1> HIDE DEF more
  <1> QED
    BY <1>2, <1>3 DEF HistoryTyped

\* What a second adds to the history.
LEMMA HistoryGrows ==
    ASSUME OracleSound, HistoryTyped, HistoryNext, NEW seconds \in Nat, Tick(seconds)
    PROVE  /\ HistoryTyped'
           /\ Len(traded') = now + seconds
           /\ \A t \in 1 .. now : traded'[t] = traded[t]
           /\ \A t \in now + 1 .. now + seconds : traded'[t] = swap
  <1> DEFINE more == [t \in 1 .. now' - now |-> swap]
             S == [Side -> Nat]
  <1>1. now' = now + seconds /\ now' - now = seconds /\ swap \in S /\ now \in Nat
    BY DEF Tick, OracleSound
  <1>2. /\ more \in Seq(S) /\ Len(more) = seconds
        /\ \A t \in 1 .. seconds : more[t] = swap
    BY <1>1
  <1>3. traded' = traded \o more
    BY DEF HistoryNext
  <1>4. traded \in Seq(S) /\ Len(traded) = now
    BY DEF HistoryTyped
  <1> HIDE DEF more, S
  <1>5. /\ traded' \in Seq(S) /\ Len(traded') = now + seconds
        /\ \A t \in 1 .. now : traded'[t] = traded[t]
        /\ \A t \in 1 .. seconds : traded'[t + now] = more[t]
    <2>1. Joins(S, traded \o more, traded, more)
      BY <1>2, <1>4, Joined
    <2> QED
      BY <1>2, <1>3, <1>4, <2>1 DEF Joins
  <1>6. ASSUME NEW t \in now + 1 .. now + seconds PROVE traded'[t] = swap
    <2>1. t - now \in 1 .. seconds /\ (t - now) + now = t
      BY <1>1
    <2> QED
      BY <1>2, <1>5, <2>1
  <1> QED
    BY <1>1, <1>5, <1>6 DEF HistoryTyped, S

\* As time passes the cumulative price and the sum grow by the same.
LEMMA TickAccounts ==
    ASSUME OracleSound, HistoryTyped, HistoryNext, NEW seconds \in Nat, Tick(seconds),
           NEW k \in Side, NEW snapshot \in Snapshot, snapshot.timestamp <= now,
           Accounted(snapshot, k)
    PROVE  Accounted(snapshot, k)'
  <1> DEFINE f == StepsOf(k, traded)
             g == StepsOf(k, traded')
             x == PricePerSecond(k[1], k[2])
             a == snapshot.timestamp
             pc == snapshot.price_cumulative
             m == MaxCumulative + 1
  <1>1. now \in Nat /\ a \in Nat /\ a <= now /\ pc \in Nat /\ m \in Nat \ {0}
    BY OracleAssumption DEF OracleSound, Snapshot
  <1>2. /\ traded \in Seq([Side -> Nat]) /\ Len(traded) = now
        /\ traded' \in Seq([Side -> Nat]) /\ Len(traded') = now + seconds
        /\ \A t \in 1 .. now : traded'[t] = traded[t]
        /\ \A t \in now + 1 .. now + seconds : traded'[t] = swap
    BY HistoryGrows DEF HistoryTyped
  <1>3. f \in TermsOf(now) /\ g \in TermsOf(now + seconds)
    BY <1>2, HistoryTerms
  <1>4. swap[k] \in Nat
    BY DEF OracleSound
  <1>5. x \in Nat /\ x = (swap[k] * TwapUnit) \div Digit(k)
    BY <1>4, SideIs, StepType
  <1>6. Continues(f, g, now)
    BY <1>1, <1>2 DEF Continues, StepsOf
  <1>7. \A t \in now + 1 .. now + seconds : g[t] = x
    BY <1>1, <1>2, <1>5 DEF StepsOf
  <1> HIDE DEF f, g, x, a, pc, m
  <1>8. SumOver(g, a, now + seconds) = SumOver(f, a, now) + seconds * x
    BY <1>1, <1>3, <1>5, <1>6, <1>7, SumOverMany
  <1>9. cumulative[k] = (pc + SumOver(f, a, now)) % m
    BY DEF Accounted, f, a, pc, m
  <1>10. cumulative'[k] = (cumulative[k] + seconds * x) % m
    BY DEF Tick, x, m
  <1> DEFINE s == SumOver(f, a, now)
             y == seconds * x
  <1>11. s \in Nat /\ y \in Nat /\ pc + s \in Nat
    BY <1>1, <1>3, <1>5, SumOverType
  <1> HIDE DEF s, y
  <1>12. cumulative'[k] = ((pc + s) + y) % m
    BY <1>1, <1>9, <1>10, <1>11, WrapsOnceMore DEF s, y
  <1>13. (pc + s) + y = pc + SumOver(g, a, now + seconds)
    BY <1>1, <1>8, <1>11 DEF s, y
  <1>14. now' = now + seconds
    BY DEF Tick
  <1> QED
    BY <1>12, <1>13, <1>14 DEF Accounted, g, a, pc, m

\* What recording leaves was there, or is new.
LEMMA RecordedIsOldOrNew ==
    ASSUME OracleSound, NEW d, HasTwap(d), NEW i \in 1 .. Len(Recorded(d))
    PROVE  \/ \E j \in 1 .. Len(ListOf(d)) : Recorded(d)[i] = ListOf(d)[j]
           \/ Recorded(d)[i] = SnapshotNow(d)
  <1> DEFINE list == ListOf(d)
             source == price_sources[d]
  <1>1. CASE TooSoon(list, source)
    BY <1>1, RecordedIs
  <1>2. CASE ~TooSoon(list, source)
    <2>1. PICK r, pos :
                  /\ r \in Seq(Snapshot)
                  /\ Selects(list, RecentEnough(list, source), Len(list), r, pos)
                  /\ Recorded(d) = Append(r, SnapshotNow(d))
      BY <1>2, RecordedIs
    <2>2. list \in Seq(Snapshot) /\ RecentEnough(list, source) \in SUBSET (1 .. Len(list))
      BY ListOfTyped, RecentIndexes
    <2>3. i \in 1 .. Len(r) + 1
      BY <2>1
    <2>4. CASE i = Len(r) + 1
      BY <2>1, <2>4
    <2>5. CASE i \in 1 .. Len(r)
      <3>1. Recorded(d)[i] = r[i]
        BY <2>1, <2>5
      <3>2. pos[i] \in RecentEnough(list, source) /\ r[i] = list[pos[i]]
        BY <2>1, <2>5 DEF Selects
      <3> QED
        BY <2>2, <3>1, <3>2
    <2> QED
      BY <2>3, <2>4, <2>5
  <1> QED
    BY <1>1, <1>2

LEMMA RecordAccounts ==
    ASSUME OnePairEach, OracleSound, HistoryTyped, SnapshotsAccounted, HistoryNext,
           NEW denoms, RecordTwapSnapshots(denoms)
    PROVE  HistoryTyped' /\ SnapshotsAccounted'
  <1>1. now' = now /\ cumulative' = cumulative
    BY RecordSteps
  <1>2. traded' = traded
    BY <1>1, HistoryStays
  <1> SUFFICES ASSUME NEW d \in DOMAIN snapshots', NEW s \in TwapInputs(d)
               PROVE  /\ <<s.pair, d>> \in Side
                      /\ \A i \in 1 .. Len(snapshots'[d]) :
                            Accounted(snapshots'[d][i], <<s.pair, d>>)
    BY <1>1, <1>2 DEF HistoryTyped, SnapshotsAccounted, Accounted
  <1> DEFINE k == <<s.pair, d>>
  <1>3. CASE d \notin denoms
    <2>1. d \in DOMAIN snapshots /\ snapshots'[d] = snapshots[d]
      BY <1>3, RecordSteps
    <2> QED
      BY <2>1 DEF SnapshotsAccounted
  <1>4. CASE d \in denoms
    <2>1. HasTwap(d) /\ snapshots'[d] = Recorded(d)
      BY <1>4, RecordSteps
    <2>2. d \in Denom /\ price_sources[d] \in TwapInputs(d) /\ <<price_sources[d].pair, d>> \in Side
      BY <2>1, TwapDenom
    <2>3. price_sources[d].pair = s.pair
      BY <2>2 DEF OnePairEach
    <2>4. k \in Side
      BY <2>2, <2>3
    <2>5. ASSUME NEW j \in 1 .. Len(ListOf(d)) PROVE Accounted(ListOf(d)[j], k)
      <3>1. d \in DOMAIN snapshots /\ ListOf(d) = snapshots[d]
        BY <2>5 DEF ListOf, LoadOr
      <3> QED
        BY <2>5, <3>1 DEF SnapshotsAccounted
    <2>6. Accounted(SnapshotNow(d), k)
      <3>1. /\ SnapshotNow(d).timestamp = now
            /\ SnapshotNow(d).price_cumulative = cumulative[k]
        BY <2>3 DEF SnapshotNow
      <3>2. SumOver(StepsOf(k, traded), now, now) = 0
        <4>1. StepsOf(k, traded) \in TermsOf(now) /\ now \in Nat
          BY <2>4, HistoryTerms DEF HistoryTyped, OracleSound
        <4> QED
          BY <4>1, SumOverNothing
      <3> DEFINE c == cumulative[k]
      <3>3. c \in 0 .. MaxCumulative /\ MaxCumulative \in Nat
        BY <2>4, OracleAssumption DEF OracleSound
      <3> HIDE DEF c
      <3>4. (c + 0) % (MaxCumulative + 1) = c
        BY <3>3
      <3> QED
        BY <3>1, <3>2, <3>4 DEF Accounted, c
    <2> HIDE DEF k
    <2>7. \A i \in 1 .. Len(Recorded(d)) : Accounted(Recorded(d)[i], k)
      BY <2>1, <2>5, <2>6, RecordedIsOldOrNew
    <2> QED
      BY <2>1, <2>4, <2>7 DEF k
  <1> QED
    BY <1>3, <1>4

\* What neither records nor lets time pass changes no snapshot and no cumulative
\* price.
LEMMA OthersKeepAccounts ==
    ASSUME OracleSound, HistoryTyped, SnapshotsAccounted, HistoryNext,
           UNCHANGED <<snapshots, cumulative, now>>
    PROVE  HistoryTyped' /\ SnapshotsAccounted'
  <1>1. traded' = traded
    BY HistoryStays
  <1> QED
    BY <1>1 DEF HistoryTyped, SnapshotsAccounted, Accounted

LEMMA AccountsStep ==
    ASSUME OnePairEach, OracleSound, HistoryTyped, SnapshotsAccounted,
           [HistoryNext]_<<oracleVars, traded>>
    PROVE  HistoryTyped' /\ SnapshotsAccounted'
  <1>1. CASE UNCHANGED <<oracleVars, traded>>
    BY <1>1 DEF oracleVars, contract, market, HistoryTyped, SnapshotsAccounted, Accounted
  <1>2. CASE HistoryNext
    <2>1. CASE OwnerStep
      <3>1. UNCHANGED <<snapshots, cumulative, now>>
        BY <2>1 DEF OwnerStep, UpdateOwner, SetPriceSource, RemovePriceSource, UpdateConfig, market
      <3> QED
        BY <1>2, <3>1, OthersKeepAccounts
    <2>2. ASSUME NEW denoms \in RecordInput, RecordTwapSnapshots(denoms)
          PROVE  HistoryTyped' /\ SnapshotsAccounted'
      BY <1>2, <2>2, RecordAccounts
    <2>3. ASSUME NEW seconds \in TimeStep, Tick(seconds)
          PROVE  HistoryTyped' /\ SnapshotsAccounted'
      <3>1. seconds \in Nat /\ snapshots' = snapshots
        BY <2>3, OracleAssumption DEF Tick, contract
      <3>2. HistoryTyped'
        BY <1>2, <2>3, <3>1, HistoryGrows
      <3>3. ASSUME NEW d \in DOMAIN snapshots, NEW s \in TwapInputs(d)
            PROVE  /\ <<s.pair, d>> \in Side
                   /\ \A i \in 1 .. Len(snapshots[d]) : Accounted(snapshots[d][i], <<s.pair, d>>)'
        <4>1. snapshots[d] \in Seq(Snapshot) /\ Past(snapshots[d], now)
          BY DEF OracleSound, ListsTyped, ListsOrdered
        <4>2. <<s.pair, d>> \in Side
          BY DEF SnapshotsAccounted
        <4>3. ASSUME NEW i \in 1 .. Len(snapshots[d])
              PROVE  Accounted(snapshots[d][i], <<s.pair, d>>)'
          <5> DEFINE x == snapshots[d][i]
          <5>1. x \in Snapshot /\ x.timestamp <= now /\ Accounted(x, <<s.pair, d>>)
            BY <4>1 DEF SnapshotsAccounted, Past
          <5>2. x' = x
            BY <3>1
          <5>3. ASSUME NEW y \in Snapshot, y.timestamp <= now, NEW k \in Side, Accounted(y, k)
                PROVE  cumulative'[k] = (y.price_cumulative
                            + SumOver(StepsOf(k, traded'), y.timestamp, now')) % (MaxCumulative + 1)
            BY <1>2, <2>3, <3>1, <5>3, TickAccounts DEF Accounted
          <5> QED
            BY <4>2, <5>1, <5>2, <5>3 DEF Accounted
        <4> QED
          BY <4>2, <4>3
      <3> QED
        BY <3>1, <3>2, <3>3 DEF SnapshotsAccounted
    <2>4. ASSUME NEW side \in Side, NEW coins \in Return[side], Trade(side, coins)
          PROVE  HistoryTyped' /\ SnapshotsAccounted'
      BY <1>2, <2>4, OthersKeepAccounts DEF Trade, contract
    <2>5. ASSUME NEW feed \in Feed, NEW quote \in Quote, Publish(feed, quote)
          PROVE  HistoryTyped' /\ SnapshotsAccounted'
      BY <1>2, <2>5, OthersKeepAccounts DEF Publish, contract
    <2> QED
      BY <1>2, <2>1, <2>2, <2>3, <2>4, <2>5 DEF HistoryNext, Next, MarketStep
  <1> QED
    BY <1>1, <1>2

-----------------------------------------------------------------------------

\* The coins of side k traded from time a on, as TradedSince sums them.
CoinsSince(k, a) == MapThenSumSet(LAMBDA t : traded[t][k], a + 1 .. now)

\* The coins of TradedSince are a part of the sum over the whole history.
LEMMA CoinsTraded ==
    ASSUME HistoryTyped, now \in Nat, NEW k \in Side, NEW a \in Nat, a <= now
    PROVE  CoinsSince(k, a) = SumOver(CoinsOf(k, traded), a, now)
  <1> DEFINE D == a + 1 .. now
             f == [t \in D |-> traded[t][k]]
             V(t) == traded[t][k]
             Body(h) == [s \in SUBSET D |-> IF s = {} THEN 0
                           ELSE LET x == CHOOSE x \in s : TRUE IN V(x) + h[s \ {x}]]
             Terms(h) == [s \in SUBSET DOMAIN f |-> IF s = {} THEN 0
                           ELSE LET x == CHOOSE x \in s : TRUE IN f[x] + h[s \ {x}]]
  <1>1. D = DOMAIN f /\ \A x \in D : f[x] = V(x)
    OBVIOUS
  <1>2. \A h : Body(h) = Terms(h)
    <2> HIDE DEF f, D, V
    <2>1. \A s \in SUBSET D : s # {} => (CHOOSE x \in s : TRUE) \in D
      OBVIOUS
    <2> QED
      BY <1>1, <2>1
  <1>3. MapThenSumSet(LAMBDA t : traded[t][k], D) = (CHOOSE h : h = Body(h))[D]
    BY DEF MapThenSumSet, MapThenFoldSet
  <1>4. Sums(f) = (CHOOSE h : h = Terms(h))
    BY DEF Sums
  <1>5. (CHOOSE h : h = Body(h)) = (CHOOSE h : h = Terms(h))
    <2> HIDE DEF Body, Terms
    <2> QED
      BY <1>2, Zenon
  <1>6. MapThenSumSet(LAMBDA t : traded[t][k], D) = Sums(f)[D]
    BY <1>3, <1>4, <1>5
  <1> DEFINE S == 1 .. now
             g == CoinsOf(k, traded)
  <1>7. D \in SUBSET S /\ D \in SUBSET D /\ IsFiniteSet(S) /\ IsFiniteSet(D)
    BY FS_Interval
  <1>8. g \in [S -> Nat]
    BY HistoryTerms DEF HistoryTyped, TermsOf
  <1>9. f \in [D -> Nat] /\ \A x \in D : f[x] = g[x]
    <2>1. \A x \in D : f[x] = g[x]
      BY <1>7 DEF CoinsOf, HistoryTyped
    <2> QED
      BY <1>7, <1>8, <2>1
  <1> HIDE DEF D, f, S, g
  <1>10. Sums(f)[D] = Sums(g)[D]
    BY <1>7, <1>8, <1>9, SumsAgree
  <1> QED
    BY <1>6, <1>10 DEF SumOver, CoinsSince, D, g

\* What the difference of two cumulative prices is, when the pair's did not grow
\* by more than fits between them: as much, or one less when it wrapped.
LEMMA DeltaIsGrowth ==
    ASSUME NEW m \in Nat, NEW before \in 0 .. m, NEW grown \in 0 .. m, NEW after,
           after = (before + grown) % (m + 1), after # before, m = MaxCumulative
    PROVE  /\ PriceDelta(after, before) \in Nat
           /\ PriceDelta(after, before) <= grown
           /\ grown <= PriceDelta(after, before) + 1
  <1>1. CASE before + grown <= m
    <2>1. after = before + grown
      BY <1>1
    <2> QED
      BY <2>1 DEF PriceDelta
  <1>2. CASE before + grown > m
    <2> DEFINE r == before + grown - (m + 1)
    <2>1. r \in Nat /\ r < m + 1 /\ (m + 1) * 1 + r = before + grown
      BY <1>2
    <2>2. ((m + 1) * 1 + r) % (m + 1) = r
      <3> HIDE DEF r
      <3> QED
        BY <2>1, RemainderIs
    <2>3. after = r
      BY <2>1, <2>2
    <2> QED
      BY <1>2, <2>3 DEF PriceDelta
  <1> QED
    BY <1>1, <1>2

\* The average over a time of n seconds in which the coins c were traded and the
\* cumulative price grew by e.  u is TwapUnit, g the digit, d the unit of the denom.
LEMMA XykAverage ==
    ASSUME NEW n \in Nat \ {0}, NEW c \in Nat, NEW e \in Nat, NEW delta \in Nat,
           NEW g \in Nat \ {0}, NEW u \in Nat \ {0},
           delta <= e, e <= delta + 1,
           e * g <= c * u, c * u <= e * g + n * g
    PROVE  LET price == FromRatio(delta, u * n)
           IN  /\ price * (g * n) <= c * One
               /\ (c * u - (n + 1) * g) * One <= (price + 1) * (g * n) * u
  <1> DEFINE a == delta * One
             b == u * n
             price == FromRatio(delta, b)
  <1>1. One \in Nat \ {0} /\ a \in Nat /\ b \in Nat \ {0}
    BY OneAssumption
  <1> HIDE DEF a, b
  <1>2. price = a \div b /\ price \in Nat /\ price * b <= a /\ a < price * b + b
    BY <1>1, Quotient DEF FromRatio, a
  <1> HIDE DEF price
  <1>3. price * (g * n) <= c * One
    <2> SUFFICES ASSUME c * One < price * (g * n) PROVE FALSE
      BY <1>1, <1>2, SMT
    <2>1. (price * b) * g <= (delta * One) * g
      BY <1>1, <1>2, SMT DEF a
    <2>2. (delta * One) * g = (delta * g) * One
      BY <1>1, SMT
    <2>3. delta * g <= e * g
      BY SMT
    <2>4. delta * g <= c * u
      BY <2>3, SMT
    <2>5. (delta * g) * One <= (c * u) * One
      BY <1>1, <2>4, SMT
    <2>6. (price * b) * g = (price * (g * n)) * u
      BY <1>1, <1>2, SMT DEF b
    <2>7. (c * u) * One = (c * One) * u
      BY <1>1, SMT
    <2> DEFINE x == price * (g * n)
               y == c * One
    <2>8. x \in Nat /\ y \in Nat /\ y < x
      BY <1>1, <1>2, SMT
    <2> HIDE DEF x, y
    <2>9. y * u < x * u
      BY <2>8, SMT
    <2>10. x * u <= y * u
      <3>1. x * u <= (delta * g) * One
        BY <2>1, <2>2, <2>6 DEF x
      <3>2. (delta * g) * One <= y * u
        BY <2>5, <2>7 DEF y
      <3>3. (delta * g) * One \in Nat /\ x * u \in Nat /\ y * u \in Nat
        BY <1>1, <2>8, SMT
      <3> QED
        BY <3>1, <3>2, <3>3
    <2>11. x * u \in Nat /\ y * u \in Nat
      BY <2>8, SMT
    <2> QED
      BY <2>9, <2>10, <2>11
  <1>4. (c * u - (n + 1) * g) * One <= (price + 1) * (g * n) * u
    <2>1. c * u <= (delta + 1) * g + n * g
      <3>1. e * g <= (delta + 1) * g
        BY SMT
      <3> DEFINE p == e * g
                 q == (delta + 1) * g
                 r == n * g
                 s == c * u
      <3>2. p \in Nat /\ q \in Nat /\ r \in Nat /\ s \in Nat /\ p <= q /\ s <= p + r
        BY <3>1, SMT
      <3> HIDE DEF p, q, r, s
      <3>3. s <= q + r
        BY <3>2
      <3> QED
        BY <3>3 DEF q, r, s
    <2>2. c * u - (n + 1) * g <= delta * g
      <3>1. (delta + 1) * g = delta * g + g /\ (n + 1) * g = n * g + g
        BY SMT
      <3> DEFINE p == delta * g
                 r == n * g
                 s == c * u
      <3>2. p \in Nat /\ r \in Nat /\ s \in Nat /\ s <= p + g + r
        BY <2>1, <3>1, SMT
      <3> HIDE DEF p, r, s
      <3>3. s - (r + g) <= p
        BY <3>2
      <3> QED
        BY <3>1, <3>3 DEF p, r, s
    <2> DEFINE lhs == c * u - (n + 1) * g
               p == delta * g
    <2>3. lhs \in Int /\ p \in Nat /\ lhs <= p
      BY <2>2, SMT
    <2> HIDE DEF lhs, p
    <2>4. lhs * One <= p * One
      BY <1>1, <2>3, SMT
    <2>5. p * One = a * g
      BY <1>1, SMT DEF p, a
    <2>6. a * g <= ((price + 1) * b) * g
      <3>1. (price + 1) * b = price * b + b
        BY <1>1, <1>2, SMT
      <3> DEFINE q == (price + 1) * b
      <3>2. q \in Nat /\ a <= q
        BY <1>1, <1>2, <3>1, SMT
      <3> HIDE DEF q
      <3>3. a * g <= q * g
        BY <1>1, <3>2, SMT
      <3> QED
        BY <3>3 DEF q
    <2>7. ((price + 1) * b) * g = (price + 1) * (g * n) * u
      BY <1>1, <1>2, SMT DEF b
    <2>8. lhs * One \in Int /\ p * One \in Nat /\ (price + 1) * (g * n) * u \in Nat
      BY <1>1, <1>2, <2>3, SMT
    <2>9. lhs * One <= (price + 1) * (g * n) * u
      BY <2>4, <2>5, <2>6, <2>7, <2>8
    <2> QED
      BY <2>9 DEF lhs
  <1> QED
    BY <1>3, <1>4 DEF price, b

\* A stable pair's cumulative price has the digits of the other denom, which are
\* cut to those of the coins first.
LEMMA StableAverage ==
    ASSUME NEW n \in Nat \ {0}, NEW c \in Nat, NEW e \in Nat, NEW delta \in Nat,
           NEW g \in Nat \ {0}, NEW d \in Nat \ {0}, NEW u \in Nat \ {0},
           delta <= e, e <= delta + 1,
           e * g <= c * u, c * u <= e * g + n * g
    PROVE  LET price == FromRatio(AdjustPrecision(delta, u, g), d * n)
           IN  /\ price * (d * n) <= c * One
               /\ (c * u - ((n + 1) * g + u)) * One <= (price + 1) * (d * n) * u
  <1> DEFINE b == d * n
             adjusted == AdjustPrecision(delta, u, g)
             a == adjusted * One
             price == FromRatio(adjusted, b)
             p == delta * g
  <1>1. One \in Nat \ {0} /\ b \in Nat \ {0} /\ p \in Nat
    BY OneAssumption
  <1> HIDE DEF b, p
  <1>2. adjusted \in Nat /\ adjusted * u <= p /\ p < adjusted * u + u
    BY <1>1, Quotient DEF AdjustPrecision, p
  <1> HIDE DEF adjusted
  <1>3. a \in Nat
    BY <1>1, <1>2
  <1> HIDE DEF a
  <1>4. price \in Nat /\ price * b <= a /\ a < price * b + b
    BY <1>1, <1>3, Quotient DEF FromRatio, a
  <1> HIDE DEF price
  <1>5. p <= c * u /\ c * u \in Nat
    <2>1. delta * g <= e * g
      BY SMT
    <2> DEFINE q == e * g
               s == c * u
    <2>2. q \in Nat /\ s \in Nat /\ q <= s /\ p <= q
      BY <2>1, SMT DEF p
    <2> HIDE DEF q, s
    <2>3. p <= s /\ s \in Nat
      BY <1>1, <2>2
    <2> QED
      BY <2>3 DEF s
  <1>6. adjusted <= c
    <2> SUFFICES ASSUME c < adjusted PROVE FALSE
      BY <1>2
    <2>1. (c + 1) * u <= adjusted * u
      BY <1>2, SMT
    <2>2. (c + 1) * u = c * u + u /\ adjusted * u \in Nat
      BY <1>2, SMT
    <2> DEFINE s == c * u
               t == adjusted * u
    <2> HIDE DEF s, t
    <2>3. s + u <= t /\ t <= p /\ p <= s /\ s \in Nat /\ t \in Nat
      BY <1>2, <1>5, <2>1, <2>2 DEF s, t
    <2> QED
      BY <1>1, <2>3
  <1>7. price * b <= c * One
    <2>1. adjusted * One <= c * One
      BY <1>1, <1>2, <1>6, SMT
    <2> DEFINE x == price * b
               y == c * One
    <2>2. x \in Nat /\ y \in Nat /\ x <= a /\ a <= y
      BY <1>1, <1>4, <2>1, SMT DEF a
    <2> HIDE DEF x, y
    <2>3. x <= y
      BY <1>3, <2>2
    <2> QED
      BY <2>3 DEF x, y
  <1>8. (c * u - ((n + 1) * g + u)) * One <= (price + 1) * b * u
    <2>1. c * u <= (delta + 1) * g + n * g
      <3>1. e * g <= (delta + 1) * g
        BY SMT
      <3> DEFINE w == e * g
                 q == (delta + 1) * g
                 r == n * g
                 s == c * u
      <3>2. w \in Nat /\ q \in Nat /\ r \in Nat /\ s \in Nat /\ w <= q /\ s <= w + r
        BY <3>1, SMT
      <3> HIDE DEF w, q, r, s
      <3>3. s <= q + r
        BY <3>2
      <3> QED
        BY <3>3 DEF q, r, s
    <2>2. c * u - ((n + 1) * g + u) <= adjusted * u
      <3>1. (delta + 1) * g = p + g /\ (n + 1) * g = n * g + g
        BY SMT DEF p
      <3> DEFINE r == n * g
                 s == c * u
                 t == adjusted * u
      <3>2. r \in Nat /\ s \in Nat /\ t \in Nat /\ s <= p + g + r /\ p < t + u
        BY <1>1, <1>2, <2>1, <3>1, SMT
      <3> HIDE DEF r, s, t
      <3>3. s - ((r + g) + u) <= t
        BY <1>1, <3>2
      <3> QED
        BY <3>1, <3>3 DEF r, s, t
    <2> DEFINE lhs == c * u - ((n + 1) * g + u)
               t == adjusted * u
    <2>3. lhs \in Int /\ t \in Nat /\ lhs <= t
      BY <1>2, <2>2, SMT
    <2> HIDE DEF lhs, t
    <2>4. lhs * One <= t * One
      BY <1>1, <2>3, SMT
    <2>5. t * One = a * u
      BY <1>1, <1>2, SMT DEF t, a
    <2>6. a * u <= ((price + 1) * b) * u
      <3>1. (price + 1) * b = price * b + b
        BY <1>1, <1>4, SMT
      <3> DEFINE q == (price + 1) * b
      <3>2. q \in Nat /\ a <= q
        BY <1>1, <1>3, <1>4, <3>1, SMT
      <3> HIDE DEF q
      <3>3. a * u <= q * u
        BY <1>3, <3>2, SMT
      <3> QED
        BY <3>3 DEF q
    <2>7. lhs * One \in Int /\ t * One \in Nat /\ ((price + 1) * b) * u \in Nat
      BY <1>1, <1>4, <2>3, SMT
    <2>8. lhs * One <= ((price + 1) * b) * u
      BY <2>4, <2>5, <2>6, <2>7
    <2> QED
      BY <2>8 DEF lhs
  <1> QED
    BY <1>7, <1>8 DEF price, b, adjusted

\* Where an average starts: at a snapshot of the past.
LEMMA AverageStarts ==
    ASSUME OracleSound, NEW d, HasTwap(d), TwapAvailable(d, price_sources[d])
    PROVE  \E i \in 1 .. Len(snapshots[d]) :
              /\ d \in DOMAIN snapshots
              /\ PreviousSnapshot(snapshots[d], price_sources[d]) = snapshots[d][i]
              /\ snapshots[d][i] \in Snapshot
              /\ snapshots[d][i].timestamp < now
  <1> DEFINE source == price_sources[d]
             list == snapshots[d]
  <1>1. list \in Seq(Snapshot) /\ d \in DOMAIN snapshots /\ Usable(list, source) # {}
    BY DEF TwapAvailable, OracleSound, ListsTyped
  <1>2. Past(list, now) /\ now \in Nat
    BY <1>1 DEF OracleSound, ListsOrdered
  <1>3. /\ source.window_size \in Nat /\ source.tolerance \in Nat
        /\ source.tolerance < source.window_size
    BY TwapDenom
  <1> HIDE DEF source, list
  <1>4. PICK i \in Usable(list, source) : PreviousSnapshot(list, source) = list[i]
    BY <1>1, FirstUsable, PreviousIs
  <1>5. i \in 1 .. Len(list) /\ WithinWindow(list[i], source)
    BY <1>1 DEF Usable
  <1>6. list[i] \in Snapshot
    BY <1>1, <1>5
  <1> DEFINE t == list[i].timestamp
  <1>7. t \in Nat /\ t <= now
    BY <1>2, <1>5, <1>6 DEF Snapshot, Past
  <1>8. AbsDiff(AbsDiff(now, t), source.window_size) <= source.tolerance
    BY <1>5 DEF WithinWindow
  <1> HIDE DEF t
  <1>9. AbsDiff(now, t) = now - t
    BY <1>2, <1>7 DEF AbsDiff
  <1>10. t < now
    BY <1>2, <1>3, <1>7, <1>8, <1>9 DEF AbsDiff
  <1> QED
    BY <1>1, <1>4, <1>5, <1>6, <1>10 DEF t, list, source

\* The growth of a cumulative price fits when the coins do.
LEMMA GrowthFits ==
    ASSUME NEW c \in Nat, NEW e \in Nat, NEW g \in Nat \ {0}, NEW u \in Nat, NEW m \in Nat,
           e * g <= c * u, c * u <= m * g
    PROVE  e <= m
  <1> SUFFICES ASSUME m + 1 <= e PROVE FALSE
    OBVIOUS
  <1>1. (m + 1) * g <= e * g
    BY SMT
  <1> DEFINE x == e * g
             y == c * u
             z == m * g
  <1>2. (m + 1) * g = z + g /\ x \in Nat /\ y \in Nat /\ z \in Nat
    BY SMT
  <1> HIDE DEF x, y, z
  <1>3. z + g <= x /\ x <= y /\ y <= z
    BY <1>1, <1>2 DEF x, y, z
  <1> QED
    BY <1>2, <1>3

LEMMA AverageHere ==
    ASSUME OnePairEach, OracleSound, HistoryTyped, SnapshotsAccounted
    PROVE  TwapIsAverage
  <1> SUFFICES ASSUME NEW d \in Denom, HasTwap(d), WrapsAtMostOnce(d),
                      NEW price \in TwapPrices(d, price_sources[d])
               PROVE  LET p     == price_sources[d].pair
                          total == TradedSince(d)
                          stable == PairType[p] = "stable"
                          digit == Unit[IF stable THEN OtherDenom(p, d) ELSE d]
                          lost  == (total.seconds + 1) * digit + (IF stable THEN TwapUnit ELSE 0)
                          scale == Unit[d] * total.seconds
                      IN  /\ price * scale <= total.coins * One
                          /\ (total.coins * TwapUnit - lost) * One
                                <= (price + 1) * scale * TwapUnit
    BY DEF TwapIsAverage
  <1> DEFINE source == price_sources[d]
             p == source.pair
             k == <<p, d>>
             other == OtherDenom(p, d)
             u == TwapUnit
             m == MaxCumulative
             current == cumulative[k]
  <1>1. /\ TwapAvailable(d, source)
        /\ current # PreviousSnapshot(snapshots[d], source).price_cumulative
        /\ PairType[p] # "custom"
        /\ price = AveragePrice(p, d,
                        PriceDelta(current, PreviousSnapshot(snapshots[d], source).price_cumulative),
                        now - PreviousSnapshot(snapshots[d], source).timestamp)
    BY DEF TwapPrices
  <1>2. PICK i \in 1 .. Len(snapshots[d]) :
              /\ d \in DOMAIN snapshots
              /\ PreviousSnapshot(snapshots[d], source) = snapshots[d][i]
              /\ snapshots[d][i] \in Snapshot
              /\ snapshots[d][i].timestamp < now
    BY <1>1, AverageStarts
  <1> DEFINE start == snapshots[d][i]
             a == start.timestamp
             before == start.price_cumulative
             n == now - a
             c == SumOver(CoinsOf(k, traded), a, now)
             e == SumOver(StepsOf(k, traded), a, now)
             g == Digit(k)
             delta == PriceDelta(current, before)
  <1>3. /\ source \in TwapInputs(d) /\ k \in Side /\ p \in Pair /\ other \in Denom
        /\ PairType[p] \in {"xyk", "stable", "custom"}
    BY TwapDenom, PairDenoms, OracleAssumption
  <1>4. Accounted(start, k)
    BY <1>2, <1>3 DEF SnapshotsAccounted
  <1>5. a \in Nat /\ before \in 0 .. m /\ now \in Nat /\ a < now /\ n \in Nat \ {0}
    BY <1>2 DEF Snapshot, OracleSound
  <1>6. /\ u \in Nat \ {0} /\ m \in Nat /\ g \in Nat \ {0} /\ Unit[d] \in Nat \ {0}
        /\ g = Unit[IF PairType[p] = "stable" THEN other ELSE d]
    BY <1>3, SideIs, OracleAssumption DEF Digit
  <1>7. PreviousSnapshot(snapshots[d], source) = start
    BY <1>2
  <1>8. TradedSince(d) = [seconds |-> n, coins |-> c]
    <2>1. TradedSince(d) = [seconds |-> n, coins |-> CoinsSince(k, a)]
      BY <1>7 DEF TradedSince, CoinsSince
    <2>2. CoinsSince(k, a) = c
      BY <1>3, <1>5, CoinsTraded
    <2> QED
      BY <2>1, <2>2
  <1>9. CoinsOf(k, traded) \in TermsOf(now) /\ StepsOf(k, traded) \in TermsOf(now)
    BY <1>3, HistoryTerms DEF HistoryTyped
  <1>10. Quotients(CoinsOf(k, traded), StepsOf(k, traded), now, u, g)
    <2> SUFFICES ASSUME NEW t \in 1 .. now
                 PROVE  LET x == traded[t][k] * u
                        IN  (x \div g) * g <= x /\ x <= (x \div g) * g + g
      BY DEF Quotients, CoinsOf, StepsOf, HistoryTyped
    <2> DEFINE x == traded[t][k] * u
    <2>1. traded[t][k] \in Nat
      <3>1. traded[t] \in [Side -> Nat]
        BY DEF HistoryTyped
      <3> QED
        BY <1>3, <3>1
    <2>2. x \in Nat
      BY <1>6, <2>1
    <2> HIDE DEF x, g
    <2>3. x \div g \in Nat /\ (x \div g) * g <= x /\ x < (x \div g) * g + g
      BY <1>6, <2>2, Quotient
    <2> DEFINE y == (x \div g) * g
    <2>4. y \in Nat
      BY <1>6, <2>3
    <2> HIDE DEF y
    <2>5. y <= x /\ x <= y + g
      BY <1>6, <2>2, <2>3, <2>4 DEF y
    <2> QED
      BY <2>5 DEF x, y
  <1>11. c * u <= m * g
    BY <1>6, <1>8 DEF WrapsAtMostOnce
  <1>12. current = (before + e) % (m + 1) /\ current # before
    BY <1>1, <1>4, <1>7 DEF Accounted
  <1>13. price = AveragePrice(p, d, delta, n)
    BY <1>1, <1>7
  <1> HIDE DEF source, k, other, u, m, current, start, a, before, n, c, e, g, delta
  <1>14. c \in Nat /\ e \in Nat
    BY <1>5, <1>9, SumOverType DEF c, e
  <1>15. e * g <= c * u /\ c * u <= e * g + n * g
    BY <1>5, <1>6, <1>9, <1>10, SumsOfQuotients DEF c, e, n
  <1>16. e \in 0 .. m
    BY <1>6, <1>11, <1>14, <1>15, GrowthFits
  <1>17. delta \in Nat /\ delta <= e /\ e <= delta + 1
    BY <1>5, <1>6, <1>12, <1>16, DeltaIsGrowth DEF delta, m
  <1>18. CASE PairType[p] = "stable"
    <2>1. price = FromRatio(AdjustPrecision(delta, u, g), Unit[d] * n)
      BY <1>6, <1>13, <1>18 DEF AveragePrice, u, other
    <2>2. /\ price * (Unit[d] * n) <= c * One
          /\ (c * u - ((n + 1) * g + u)) * One <= (price + 1) * (Unit[d] * n) * u
      BY <1>5, <1>6, <1>14, <1>15, <1>17, <2>1, StableAverage
    <2> QED
      BY <1>6, <1>8, <1>18, <2>2 DEF source, other, u
  <1>19. CASE PairType[p] # "stable"
    <2>1. PairType[p] = "xyk" /\ g = Unit[d]
      BY <1>1, <1>3, <1>6, <1>19
    <2>2. price = FromRatio(delta, u * n)
      BY <1>13, <2>1 DEF AveragePrice, u
    <2>3. /\ price * (g * n) <= c * One
          /\ (c * u - (n + 1) * g) * One <= (price + 1) * (g * n) * u
      BY <1>5, <1>6, <1>14, <1>15, <1>17, <2>2, XykAverage
    <2>4. (n + 1) * g + 0 = (n + 1) * g
      BY <1>5, <1>6
    <2> QED
      BY <1>6, <1>8, <1>19, <2>1, <2>3, <2>4 DEF source, other, u
  <1> QED
    BY <1>18, <1>19

\* When each denom's possible TWAP sources are of one pair, an average is that of
\* what the pair traded at: for any precisions, windows and tolerances, however
\* often and in whatever order snapshots were recorded and purged, and over a
\* wrap-around of the cumulative price.
THEOREM TwapAlwaysAverage == OnePairEach /\ HistorySpec => []TwapIsAverage
  <1> SUFFICES ASSUME OnePairEach PROVE HistorySpec => []TwapIsAverage
    OBVIOUS
  <1>1. HistoryInit => HistoryTyped /\ SnapshotsAccounted
    BY DEF HistoryInit, Init, EmptyMap, HistoryTyped, SnapshotsAccounted
  <1>2. OracleSound /\ HistoryTyped /\ SnapshotsAccounted /\ [HistoryNext]_<<oracleVars, traded>>
          => HistoryTyped' /\ SnapshotsAccounted'
    BY AccountsStep
  <1>3. OracleSound /\ HistoryTyped /\ SnapshotsAccounted => TwapIsAverage
    BY AverageHere
  <1> QED
    BY <1>1, <1>2, <1>3, HistoryIsOracle, OracleSoundAlways, PTL DEF HistorySpec
=============================================================================
