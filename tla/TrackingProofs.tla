--------------------------- MODULE TrackingProofs ---------------------------
(* Theorems about TrackingBatch, for any number of vehicles, updates,       *)
(* invocations of processBatch and crashes.                                 *)
EXTENDS TrackingBatch, Extrema, SequenceTheorems

(* The invariant has one slot per invocation, besides what it promises.     *)
Exclusive == DOMAIN runs = Workers /\ OneBatch

LEMMA ExclusiveInit == Init => Exclusive
    BY DEF Init, Exclusive, OneBatch

(* processBatch: it starts only if the flag is not set, so nothing runs.    *)
LEMMA ExclusiveProcessBatch ==
    ASSUME Exclusive, NEW w \in Workers, ProcessBatch(w)
    PROVE  Exclusive'
<1>1. CASE processing \/ queue = <<>>
  BY <1>1 DEF Exclusive, OneBatch, ProcessBatch
<1>2. CASE ~(processing \/ queue = <<>>)
  <2>1. \A x \in Workers : runs[x] = Idle
    BY <1>2 DEF Exclusive, OneBatch
  <2>2. processing' /\ DOMAIN runs' = Workers
    BY <1>2 DEF ProcessBatch, Take, Exclusive
  <2>3. \A x \in Workers \ {w} : runs'[x] = Idle
    BY <1>2, <2>1 DEF ProcessBatch, Take, Exclusive
  <2> QED  BY <2>2, <2>3 DEF Exclusive, OneBatch
<1> QED  BY <1>1, <1>2

(* A step of the one invocation under way leaves the others idle.           *)
LEMMA ExclusiveRun ==
    ASSUME Exclusive, NEW w \in Workers, Commit(w) \/ RollBack(w) \/ End(w)
    PROVE  Exclusive'
<1>1. runs[w] # Idle
  BY DEF Commit, RollBack, End, Idle
<1>2. processing /\ \A x \in Workers \ {w} : runs[x] = Idle
  BY <1>1 DEF Exclusive, OneBatch
<1>3. DOMAIN runs' = Workers /\ \A x \in Workers \ {w} : runs'[x] = Idle
  BY <1>2 DEF Commit, RollBack, End, Exclusive
<1>4. CASE Commit(w) \/ RollBack(w)
  BY <1>2, <1>3, <1>4 DEF Commit, RollBack, Exclusive, OneBatch
<1>5. CASE End(w)
  <2>1. runs'[w] = Idle
    BY <1>5 DEF End, Exclusive
  <2> QED  BY <1>3, <2>1 DEF Exclusive, OneBatch
<1> QED  BY <1>4, <1>5

LEMMA ExclusiveStep ==
    ASSUME Exclusive, [Next]_vars
    PROVE  Exclusive'
<1>1. ASSUME NEW v \in Vehicles, NEW t \in Times, QueueLocationData(v, t)
      PROVE  Exclusive'
  BY <1>1 DEF QueueLocationData, Exclusive, OneBatch
<1>2. ASSUME NEW w \in Workers, Tick(w) \/ WakeUp(w)
      PROVE  Exclusive'
  BY <1>2, ExclusiveProcessBatch DEF Tick, WakeUp
<1>3. ASSUME NEW w \in Workers, Commit(w) \/ RollBack(w) \/ End(w)
      PROVE  Exclusive'
  BY <1>3, ExclusiveRun
<1>4. CASE Crash
  BY <1>4 DEF Crash, Exclusive, OneBatch
<1>5. CASE UNCHANGED vars
  BY <1>5 DEF vars, Exclusive, OneBatch
<1> QED  BY <1>1, <1>2, <1>3, <1>4, <1>5 DEF Next

(* At most one batch is between the queue and the database, whatever the    *)
(* interval timer and the setTimeouts of queueLocationData do.              *)
THEOREM BatchesExclusive == Spec => []OneBatch
<1>1. Exclusive /\ [Next]_vars => Exclusive'
  BY ExclusiveStep
<1>2. Exclusive => OneBatch
  BY DEF Exclusive
<1> QED  BY ExclusiveInit, <1>1, <1>2, PTL DEF Spec

-----------------------------------------------------------------------------
(* Sequences: their elements and the order in which they came.               *)
LEMMA ToSetOf ==
    ASSUME NEW S, NEW s \in Seq(S)
    PROVE  /\ DOMAIN s = 1..Len(s) /\ Len(s) \in Nat
           /\ \A x : x \in ToSet(s) <=> \E i \in 1..Len(s) : x = s[i]
           /\ ToSet(s) \subseteq S
<1>1. DOMAIN s = 1..Len(s) /\ Len(s) \in Nat /\ \A i \in 1..Len(s) : s[i] \in S
  OBVIOUS
<1> QED  BY <1>1 DEF ToSet

LEMMA NothingInIt ==
    \A S : <<>> \in Seq(S) /\ ToSet(<<>>) = {} /\ Sorted(<<>>)
BY DEF ToSet, Sorted

LEMMA ToSetConcat ==
    ASSUME NEW S, NEW s \in Seq(S), NEW t \in Seq(S)
    PROVE  s \o t \in Seq(S) /\ ToSet(s \o t) = ToSet(s) \cup ToSet(t)
<1>1. /\ s \o t \in Seq(S) /\ Len(s \o t) = Len(s) + Len(t)
      /\ \A i \in 1..Len(s) + Len(t) :
            (s \o t)[i] = IF i <= Len(s) THEN s[i] ELSE t[i - Len(s)]
  BY ConcatProperties
<1>2. Len(s) \in Nat /\ Len(t) \in Nat
  OBVIOUS
<1>3. ASSUME NEW x \in ToSet(s \o t)  PROVE x \in ToSet(s) \cup ToSet(t)
  <2>1. PICK i \in 1..Len(s) + Len(t) : x = (s \o t)[i]
    <3>1. \E i \in 1..Len(s \o t) : x = (s \o t)[i]
      BY <1>1, <1>3, ToSetOf
    <3> QED  BY <1>1, <3>1
  <2>2. CASE i <= Len(s)
    <3>1. i \in 1..Len(s) /\ x = s[i]
      BY <1>1, <1>2, <2>1, <2>2
    <3> QED  BY <3>1, ToSetOf
  <2>3. CASE ~(i <= Len(s))
    <3>1. i - Len(s) \in 1..Len(t) /\ x = t[i - Len(s)]
      BY <1>1, <1>2, <2>1, <2>3
    <3> QED  BY <3>1, ToSetOf
  <2> QED  BY <2>2, <2>3
<1>4. ASSUME NEW x \in ToSet(s)  PROVE x \in ToSet(s \o t)
  <2>1. PICK i \in 1..Len(s) : x = s[i]
    BY <1>4, ToSetOf
  <2>2. i \in 1..Len(s \o t) /\ x = (s \o t)[i]
    BY <1>1, <1>2, <2>1
  <2>3. \E j \in 1..Len(s \o t) : x = (s \o t)[j]
    BY <2>2
  <2> QED  BY <1>1, <2>3, ToSetOf
<1>5. ASSUME NEW x \in ToSet(t)  PROVE x \in ToSet(s \o t)
  <2>1. PICK i \in 1..Len(t) : x = t[i]
    BY <1>5, ToSetOf
  <2>2. i + Len(s) \in 1..Len(s \o t) /\ x = (s \o t)[i + Len(s)]
    BY <1>1, <1>2, <2>1
  <2>3. \E j \in 1..Len(s \o t) : x = (s \o t)[j]
    BY <2>2
  <2> QED  BY <1>1, <2>3, ToSetOf
<1> QED  BY <1>1, <1>3, <1>4, <1>5

LEMMA ToSetAppend ==
    ASSUME NEW S, NEW s \in Seq(S), NEW e \in S
    PROVE  Append(s, e) \in Seq(S) /\ ToSet(Append(s, e)) = ToSet(s) \cup {e}
<1>1. /\ Append(s, e) \in Seq(S) /\ Len(Append(s, e)) = Len(s) + 1
      /\ \A i \in 1..Len(s) : Append(s, e)[i] = s[i]
      /\ Append(s, e)[Len(s) + 1] = e
  BY AppendProperties
<1>2. Len(s) \in Nat
  OBVIOUS
<1>3. ASSUME NEW x
      PROVE  x \in ToSet(Append(s, e)) <=> x \in ToSet(s) \/ x = e
  <2>1. x \in ToSet(Append(s, e)) <=> \E i \in 1..Len(s) + 1 : x = Append(s, e)[i]
    <3>1. PICK z \in Seq(S) : z = Append(s, e)
      BY <1>1
    <3>2. Len(z) = Len(s) + 1
      BY <1>1, <3>1
    <3>3. x \in ToSet(z) <=> \E i \in 1..Len(z) : x = z[i]
      BY ToSetOf, Zenon
    <3> QED  BY <3>1, <3>2, <3>3, Zenon
  <2>2. x \in ToSet(s) <=> \E i \in 1..Len(s) : x = s[i]
    BY ToSetOf
  <2>3. Len(s) + 1 \in 1..Len(s) + 1 /\ 1..Len(s) \subseteq 1..Len(s) + 1
    BY <1>2
  <2>4. \A i \in 1..Len(s) + 1 : i \in 1..Len(s) \/ i = Len(s) + 1
    BY <1>2
  <2>5. x \in ToSet(Append(s, e)) => x \in ToSet(s) \/ x = e
    BY <1>1, <2>1, <2>2, <2>4
  <2>6. x = e => x \in ToSet(Append(s, e))
    BY <1>1, <2>1, <2>3
  <2>7. ASSUME x \in ToSet(s)  PROVE x \in ToSet(Append(s, e))
    <3>1. PICK i \in 1..Len(s) : x = s[i]
      BY <2>2, <2>7
    <3>2. i \in 1..Len(s) + 1 /\ x = Append(s, e)[i]
      BY <1>1, <2>3, <3>1
    <3> QED  BY <2>1, <3>2
  <2> QED  BY <2>5, <2>6, <2>7
<1> QED  BY <1>1, <1>3

(* The first comes before the second: all of it. *)
Ahead(X, Y) == \A x \in X, y \in Y : x.n < y.n

LEMMA SortedConcat ==
    ASSUME NEW S, NEW s \in Seq(S), NEW t \in Seq(S)
    PROVE  Sorted(s \o t) <=> Sorted(s) /\ Sorted(t) /\ Ahead(ToSet(s), ToSet(t))
<1>1. /\ s \o t \in Seq(S) /\ Len(s \o t) = Len(s) + Len(t)
      /\ \A i \in 1..Len(s) + Len(t) :
            (s \o t)[i] = IF i <= Len(s) THEN s[i] ELSE t[i - Len(s)]
  BY ConcatProperties
<1>2. /\ DOMAIN s = 1..Len(s) /\ DOMAIN t = 1..Len(t)
      /\ DOMAIN (s \o t) = 1..Len(s) + Len(t)
      /\ Len(s) \in Nat /\ Len(t) \in Nat
  BY <1>1, ToSetOf
<1>3. ASSUME Sorted(s \o t)  PROVE Sorted(s) /\ Sorted(t) /\ Ahead(ToSet(s), ToSet(t))
  <2>1. \A i, j \in 1..Len(s) + Len(t) : i < j => (s \o t)[i].n < (s \o t)[j].n
    BY <1>2, <1>3 DEF Sorted
  <2>2. ASSUME NEW i \in 1..Len(s), NEW j \in 1..Len(s), i < j
        PROVE  s[i].n < s[j].n
    <3>1. i \in 1..Len(s) + Len(t) /\ j \in 1..Len(s) + Len(t)
      BY <1>2
    <3>2. (s \o t)[i] = s[i] /\ (s \o t)[j] = s[j]
      BY <1>1, <3>1
    <3> QED  BY <2>1, <2>2, <3>1, <3>2
  <2>3. ASSUME NEW i \in 1..Len(t), NEW j \in 1..Len(t), i < j
        PROVE  t[i].n < t[j].n
    <3>1. /\ i + Len(s) \in 1..Len(s) + Len(t) /\ j + Len(s) \in 1..Len(s) + Len(t)
          /\ i + Len(s) < j + Len(s)
      BY <1>2, <2>3
    <3>2. (s \o t)[i + Len(s)] = t[i] /\ (s \o t)[j + Len(s)] = t[j]
      BY <1>1, <1>2, <3>1
    <3> QED  BY <2>1, <3>1, <3>2
  <2>4. ASSUME NEW x \in ToSet(s), NEW y \in ToSet(t)
        PROVE  x.n < y.n
    <3>1. PICK i \in 1..Len(s) : x = s[i]
      BY <2>4, ToSetOf
    <3>2. PICK j \in 1..Len(t) : y = t[j]
      BY <2>4, ToSetOf
    <3>3. /\ i \in 1..Len(s) + Len(t) /\ j + Len(s) \in 1..Len(s) + Len(t)
          /\ i < j + Len(s)
      BY <1>2
    <3>4. (s \o t)[i] = s[i] /\ (s \o t)[j + Len(s)] = t[j]
      BY <1>1, <1>2, <3>3
    <3> QED  BY <2>1, <3>1, <3>2, <3>3, <3>4
  <2> QED  BY <1>2, <2>2, <2>3, <2>4 DEF Sorted, Ahead
<1>4. ASSUME Sorted(s), Sorted(t), Ahead(ToSet(s), ToSet(t))  PROVE Sorted(s \o t)
  <2>1. SUFFICES ASSUME NEW i \in 1..Len(s) + Len(t), NEW j \in 1..Len(s) + Len(t), i < j
                 PROVE  (s \o t)[i].n < (s \o t)[j].n
    BY <1>2 DEF Sorted
  <2>2. CASE j <= Len(s)
    <3>1. i \in DOMAIN s /\ j \in DOMAIN s /\ (s \o t)[i] = s[i] /\ (s \o t)[j] = s[j]
      BY <1>1, <1>2, <2>1, <2>2
    <3> QED  BY <1>4, <2>1, <3>1 DEF Sorted
  <2>3. CASE i <= Len(s) /\ ~(j <= Len(s))
    <3>1. /\ i \in 1..Len(s) /\ j - Len(s) \in 1..Len(t)
          /\ (s \o t)[i] = s[i] /\ (s \o t)[j] = t[j - Len(s)]
      BY <1>1, <1>2, <2>1, <2>3
    <3>2. s[i] \in ToSet(s) /\ t[j - Len(s)] \in ToSet(t)
      BY <3>1, ToSetOf
    <3> QED  BY <1>4, <3>1, <3>2 DEF Ahead
  <2>4. CASE ~(i <= Len(s))
    <3>1. /\ i - Len(s) \in DOMAIN t /\ j - Len(s) \in DOMAIN t
          /\ i - Len(s) < j - Len(s)
          /\ (s \o t)[i] = t[i - Len(s)] /\ (s \o t)[j] = t[j - Len(s)]
      BY <1>1, <1>2, <2>1, <2>4
    <3> QED  BY <1>4, <3>1 DEF Sorted
  <2> QED  BY <1>2, <2>1, <2>2, <2>3, <2>4
<1> QED  BY <1>3, <1>4

LEMMA SortedAppend ==
    ASSUME NEW S, NEW s \in Seq(S), NEW e \in S
    PROVE  Sorted(Append(s, e)) <=> Sorted(s) /\ Ahead(ToSet(s), {e})
<1>1. Append(s, e) = s \o <<e>> /\ <<e>> \in Seq(S)
  BY AppendIsConcat
<1>2. ToSet(<<e>>) = {e}
  BY DEF ToSet
<1>3. Sorted(<<e>>)
  <2>1. \A i \in DOMAIN <<e>> : i = 1
    OBVIOUS
  <2> QED  BY <2>1 DEF Sorted
<1> QED  BY <1>1, <1>2, <1>3, SortedConcat

-----------------------------------------------------------------------------
(* What a failed batch gives back. The recursive function of Important is    *)
(* there for every batch, as a least length without it shows, and so are the *)
(* properties of what it collects.                                           *)
Collects(batch, g, n) ==
    g = [i \in 0..n |->
            IF i = 0 THEN <<>>
            ELSE IF Keeps(i) THEN Append(g[i - 1], batch[i])
            ELSE g[i - 1]]

LEMMA CollectsExists ==
    ASSUME NEW batch, NEW length \in Nat
    PROVE  \E g : Collects(batch, g, length)
<1> DEFINE Failing == {n \in Nat : ~ \E g : Collects(batch, g, n)}
<1>1. SUFFICES ASSUME Failing # {}  PROVE FALSE
  OBVIOUS
<1>2. PICK n \in Failing : \A m \in Failing : n <= m
  <2>1. Failing \subseteq Nat
    OBVIOUS
  <2> HIDE DEF Failing
  <2> QED  BY <1>1, <2>1, Least, Zenon
<1>3. n # 0
  <2>1. \A i \in 0..0 : i = 0
    OBVIOUS
  <2>2. Collects(batch, [i \in 0..0 |-> <<>>], 0)
    BY <2>1 DEF Collects
  <2> QED  BY <2>2
<1>4. n \in Nat /\ n - 1 \in Nat /\ ~(n <= n - 1)
  BY <1>3
<1>5. n - 1 \notin Failing
  BY <1>2, <1>4
<1>6. PICK f : Collects(batch, f, n - 1)
  BY <1>4, <1>5
<1> DEFINE last == IF Keeps(n) THEN Append(f[n - 1], batch[n]) ELSE f[n - 1]
           g == [i \in 0..n |-> IF i = n THEN last ELSE f[i]]
<1>7. Collects(batch, g, n)
  <2>1. \A i \in 0..n - 1 :
            f[i] = IF i = 0 THEN <<>>
                   ELSE IF Keeps(i) THEN Append(f[i - 1], batch[i]) ELSE f[i - 1]
    <3>1. f = [i \in 0..n - 1 |->
                  IF i = 0 THEN <<>>
                  ELSE IF Keeps(i) THEN Append(f[i - 1], batch[i]) ELSE f[i - 1]]
      BY <1>6 DEF Collects
    <3> QED  BY <3>1
  <2>2. \A i \in 0..n : i # 0 => i - 1 \in 0..n /\ i - 1 # n /\ g[i - 1] = f[i - 1]
    BY <1>4
  <2>3. \A i \in 0..n : i # n => i \in 0..n - 1
    BY <1>4
  <2>4. \A i \in 0..n :
            g[i] = IF i = 0 THEN <<>>
                   ELSE IF Keeps(i) THEN Append(g[i - 1], batch[i]) ELSE g[i - 1]
    <3>1. TAKE i \in 0..n
    <3>2. CASE i = n
      <4>1. g[i] = last /\ g[n - 1] = f[n - 1]
        BY <1>3, <2>2, <3>2
      <4> QED  BY <1>3, <3>2, <4>1
    <3>3. CASE i # n
      <4>1. g[i] = f[i] /\ i \in 0..n - 1
        BY <2>3, <3>3
      <4>2. i # 0 => g[i - 1] = f[i - 1]
        BY <2>2
      <4> HIDE DEF g
      <4> QED  BY <2>1, <4>1, <4>2
    <3> QED  BY <3>2, <3>3
  <2>5. g = [i \in 0..n |-> g[i]]
    OBVIOUS
  <2> HIDE DEF g
  <2> QED  BY <2>4, <2>5 DEF Collects
<1> QED  BY <1>2, <1>7

LEMMA ImportantCollects ==
    ASSUME NEW S, NEW batch \in Seq(S)
    PROVE  \E g : Collects(batch, g, Len(batch)) /\ Important(batch) = g[Len(batch)]
<1> DEFINE kept == CHOOSE k :
               k = [i \in 0..Len(batch) |->
                       IF i = 0 THEN <<>>
                       ELSE IF Keeps(i) THEN Append(k[i - 1], batch[i])
                       ELSE k[i - 1]]
<1>1. Important(batch) = kept[Len(batch)]
  BY Zenon DEF Important
<1>2. Len(batch) \in Nat
  OBVIOUS
<1>3. \E k : k = [i \in 0..Len(batch) |->
                     IF i = 0 THEN <<>>
                     ELSE IF Keeps(i) THEN Append(k[i - 1], batch[i])
                     ELSE k[i - 1]]
  BY <1>2, CollectsExists, Zenon DEF Collects
<1>4. Collects(batch, kept, Len(batch))
  BY <1>3, Zenon DEF Collects
<1> HIDE DEF kept
<1> QED  BY <1>1, <1>4

(* What is given back are the important updates, in the order they had.      *)
LEMMA ImportantOf ==
    ASSUME NEW S, NEW batch \in Seq(S)
    PROVE  /\ Important(batch) \in Seq(S)
           /\ \A x : x \in ToSet(Important(batch)) <=>
                  \E m \in 1..Len(batch) : Keeps(m) /\ x = batch[m]
           /\ Sorted(batch) => Sorted(Important(batch))
<1> DEFINE Fine(s, i) ==
               /\ s \in Seq(S)
               /\ \A x : x \in ToSet(s) <=> \E m \in 1..i : Keeps(m) /\ x = batch[m]
               /\ Sorted(batch) => Sorted(s)
<1>1. PICK g : Collects(batch, g, Len(batch)) /\ Important(batch) = g[Len(batch)]
  BY ImportantCollects
<1>2. /\ Len(batch) \in Nat /\ DOMAIN batch = 1..Len(batch)
      /\ \A i \in 1..Len(batch) : batch[i] \in S
  OBVIOUS
<1>3. \A i \in 0..Len(batch) :
          g[i] = IF i = 0 THEN <<>>
                 ELSE IF Keeps(i) THEN Append(g[i - 1], batch[i]) ELSE g[i - 1]
  <2>1. g = [i \in 0..Len(batch) |->
                IF i = 0 THEN <<>>
                ELSE IF Keeps(i) THEN Append(g[i - 1], batch[i]) ELSE g[i - 1]]
    BY <1>1 DEF Collects
  <2> QED  BY <2>1
<1> DEFINE Failing == {i \in 0..Len(batch) : ~Fine(g[i], i)}
<1>4. Fine(g[0], 0)
  <2>1. g[0] = <<>>
    BY <1>2, <1>3
  <2>2. <<>> \in Seq(S) /\ ToSet(<<>>) = {} /\ Sorted(<<>>)
    BY NothingInIt
  <2>3. ~ \E m \in 1..0 : TRUE
    OBVIOUS
  <2> QED  BY <2>1, <2>2, <2>3
<1>5. ASSUME NEW i \in 0..Len(batch), i # 0, Fine(g[i - 1], i - 1)
      PROVE  Fine(g[i], i)
  <2>1. i \in 1..Len(batch) /\ i - 1 \in Nat /\ batch[i] \in S
    BY <1>2, <1>5
  <2>2. \A m \in 1..i : m \in 1..i - 1 \/ m = i
    BY <2>1
  <2>3. i \in 1..i /\ 1..i - 1 \subseteq 1..i
    BY <2>1
  <2>4. CASE ~Keeps(i)
    <3>1. g[i] = g[i - 1]
      BY <1>3, <1>5, <2>4
    <3> QED  BY <1>5, <2>2, <2>3, <2>4, <3>1
  <2>5. CASE Keeps(i)
    <3>1. PICK s \in Seq(S) : s = g[i - 1]
      BY <1>5
    <3>2. PICK e \in S : e = batch[i]
      BY <2>1
    <3>3. g[i] = Append(s, e)
      BY <1>3, <1>5, <2>5, <3>1, <3>2
    <3>4. Append(s, e) \in Seq(S) /\ ToSet(Append(s, e)) = ToSet(s) \cup {e}
      BY ToSetAppend
    <3>5. \A x : x \in ToSet(s) <=> \E m \in 1..i - 1 : Keeps(m) /\ x = batch[m]
      BY <1>5, <3>1
    <3>6. ASSUME NEW x
          PROVE  x \in ToSet(g[i]) <=> \E m \in 1..i : Keeps(m) /\ x = batch[m]
      <4>1. x \in ToSet(g[i]) <=> x \in ToSet(s) \/ x = e
        BY <3>3, <3>4, Zenon
      <4> QED  BY <2>2, <2>3, <2>5, <3>2, <3>5, <4>1, Zenon
    <3>7. ASSUME Sorted(batch)  PROVE Sorted(g[i])
      <4>1. Sorted(s)
        BY <1>5, <3>1, <3>7
      <4>2. ASSUME NEW x \in ToSet(s)  PROVE x.n < e.n
        <5>1. PICK m \in 1..i - 1 : x = batch[m]
          BY <3>5, <4>2
        <5>2. m \in DOMAIN batch /\ i \in DOMAIN batch /\ m < i
          BY <1>2, <2>1
        <5> QED  BY <3>2, <3>7, <5>1, <5>2 DEF Sorted
      <4> QED  BY <3>3, <4>1, <4>2, SortedAppend DEF Ahead
    <3> QED  BY <3>3, <3>4, <3>6, <3>7
  <2> QED  BY <2>4, <2>5
<1>6. Failing = {}
  <2>1. SUFFICES ASSUME Failing # {}  PROVE FALSE
    OBVIOUS
  <2>2. Failing \subseteq Nat
    BY <1>2
  <2>3. PICK i \in Failing : \A j \in Failing : i <= j
    <3> HIDE DEF Failing
    <3> QED  BY <2>1, <2>2, Least, Zenon
  <2>4. i \in 0..Len(batch) /\ ~Fine(g[i], i)
    BY <2>3
  <2> HIDE DEF Fine
  <2>5. i # 0
    BY <1>4, <2>4
  <2>6. i - 1 \in 0..Len(batch) /\ ~(i <= i - 1)
    BY <1>2, <2>4, <2>5
  <2>7. Fine(g[i - 1], i - 1)
    BY <2>3, <2>6
  <2> QED  BY <1>5, <2>4, <2>5, <2>7
<1>7. Fine(g[Len(batch)], Len(batch))
  <2>1. Len(batch) \in 0..Len(batch)
    BY <1>2
  <2> HIDE DEF Fine
  <2> QED  BY <1>6, <2>1
<1> QED  BY <1>1, <1>7
-----------------------------------------------------------------------------
(* Thinning saves some of the updates, the latest of them always.            *)
LEMMA UpdateFields ==
    \A u \in Update : u.n \in Nat /\ u.n <= MaxUpdates /\ u.t \in Nat /\ u.v \in Vehicles
<1>1. TAKE u \in Update
<1>2. u.n \in 1..MaxUpdates /\ u.v \in Vehicles /\ u.t \in Times
  BY DEF Update
<1>3. MaxUpdates \in Nat /\ Times \subseteq Nat
  BY TrackingAssumption
<1>4. \A k \in 1..MaxUpdates : k \in Nat /\ k <= MaxUpdates
  BY <1>3
<1>5. u.t \in Nat
  BY <1>2, <1>3
<1> QED  BY <1>2, <1>4, <1>5, Zenon

LEMMA ToSaveSome == \A us : ToSave(us) \subseteq us
BY DEF ToSave

LEMMA ToSaveNewest ==
    ASSUME NEW us, us \subseteq Update, IsFiniteSet(us), us # {}
    PROVE  \E x \in ToSave(us) : \A u \in us : x.t >= u.t
<1> DEFINE time == [u \in us |-> u.t]
<1>1. \A u \in us : u.n \in Nat /\ u.t \in Nat
  BY UpdateFields
<1>2. PICK latest \in us : \A u \in us : u.t <= latest.t
  <2>1. time \in [us -> Nat] /\ \A u \in us : time[u] = u.t
    BY <1>1
  <2> HIDE DEF time
  <2>2. \E m \in us : \A u \in us : time[u] <= time[m]
    BY <2>1, HighestExists
  <2> QED  BY <2>1, <2>2
<1> DEFINE places == {u.n : u \in {x \in us : x.t = latest.t}}
<1>3. PICK k \in places : \A i \in places : k <= i
  <2>1. places \subseteq Nat /\ latest.n \in places
    BY <1>1
  <2> HIDE DEF places
  <2> QED  BY <2>1, Least
<1>4. PICK x \in us : x.t = latest.t /\ x.n = k
  BY <1>3
<1>5. \A u \in us : x.t >= u.t
  BY <1>1, <1>2, <1>4
<1>6. \A u \in us : ~LatestFirst(u, x)
  <2>1. TAKE u \in us
  <2>2. CASE u.t = x.t
    <3>1. u.n \in places
      BY <1>4, <2>2
    <3>2. x.n <= u.n
      BY <1>3, <1>4, <3>1
    <3> QED  BY <1>1, <2>2, <3>2 DEF LatestFirst
  <2>3. CASE u.t # x.t
    BY <1>1, <1>5, <2>3 DEF LatestFirst
  <2> QED  BY <2>2, <2>3
<1>7. Place(us, x) = 0
  <2>1. {u \in us : LatestFirst(u, x)} = {}
    BY <1>6
  <2> QED  BY <2>1, FS_EmptySet DEF Place
<1>8. 0 % KeepEvery = 0
  <2>1. KeepEvery \in Nat \ {0}
    BY TrackingAssumption
  <2> QED  BY <2>1
<1>9. x \in ToSave(us)
  BY <1>4, <1>7, <1>8 DEF ToSave
<1> QED  BY <1>5, <1>9

LEMMA FiniteBatch ==
    ASSUME NEW S, NEW s \in Seq(S)
    PROVE  IsFiniteSet(ToSet(s))
<1>1. \A i \in 1..Len(s) : s[i] \in ToSet(s)
  BY ToSetOf
<1>2. s \in Seq(ToSet(s))
  BY <1>1
<1>3. \A x \in ToSet(s) : \E n \in 1..Len(s) : s[n] = x
  BY ToSetOf
<1> QED  BY <1>2, <1>3 DEF IsFiniteSet

-----------------------------------------------------------------------------
(* The inductive invariant: queue and batch under way form one line, sorted  *)
(* by arrival, of updates that are not stored.                               *)
Run == [at : {"idle", "saving", "ending"}, batch : Seq(Update)]

Typed ==
    /\ queue \in Seq(Update) /\ processing \in BOOLEAN
    /\ runs \in [Workers -> Run]
    /\ wake \in 0..arrived /\ arrived \in 0..MaxUpdates /\ crashes \in 0..MaxCrashes
    /\ rows \subseteq Update

ToBeStored(s) == Sorted(s) /\ \A u \in ToSet(s) : u.n <= arrived /\ u \notin rows

Line ==
    /\ ToBeStored(queue)
    /\ \A w \in Workers : runs[w].at = "saving" =>
          ToBeStored(runs[w].batch) /\ Ahead(ToSet(runs[w].batch), ToSet(queue))
    /\ \A u \in rows : u.n <= arrived

BatchInv == Typed /\ Exclusive /\ Line

LEMMA LineInit == Init => BatchInv
<1> SUFFICES ASSUME Init PROVE BatchInv
  OBVIOUS
<1>1. /\ <<>> \in Seq(Update) /\ ToSet(<<>>) = {} /\ Sorted(<<>>)
  BY NothingInIt
<1>2. Idle \in Run /\ Idle.at = "idle"
  BY <1>1 DEF Idle, Run
<1>3. Typed
  <2>1. MaxUpdates \in Nat /\ MaxCrashes \in Nat
    BY TrackingAssumption
  <2>2. 0 \in 0..0 /\ 0 \in 0..MaxUpdates /\ 0 \in 0..MaxCrashes
    BY <2>1
  <2> QED  BY <1>1, <1>2, <2>2 DEF Init, Typed
<1>4. Line
  BY <1>1, <1>2 DEF Init, Line, ToBeStored
<1> QED  BY <1>3, <1>4, ExclusiveInit DEF BatchInv

LEMMA LineQueue ==
    ASSUME Typed, Line, NEW v \in Vehicles, NEW t \in Times, QueueLocationData(v, t)
    PROVE  Typed' /\ Line'
<1> DEFINE e == [n |-> arrived + 1, v |-> v, t |-> t]
<1>1. arrived \in Nat /\ MaxUpdates \in Nat /\ arrived < MaxUpdates
  BY TrackingAssumption DEF QueueLocationData, Typed
<1>2. e \in Update /\ e.n = arrived + 1
  BY <1>1 DEF Update
<1>3. arrived' = arrived + 1 /\ queue' = Append(queue, e) /\ rows' = rows /\ runs' = runs
  BY DEF QueueLocationData
<1> HIDE DEF e
<1>4. queue \in Seq(Update) /\ ToSet(queue) \subseteq Update
  BY ToSetOf DEF Typed
<1>5. queue' \in Seq(Update) /\ ToSet(queue') = ToSet(queue) \cup {e}
  BY <1>2, <1>3, <1>4, ToSetAppend
<1>6. Typed'
  <2>1. wake' \in 0..arrived'
    <3>1. wake' \in {wake, wake + 1}
      BY DEF QueueLocationData
    <3>2. wake \in 0..arrived
      BY DEF Typed
    <3> QED  BY <1>1, <1>3, <3>1, <3>2
  <2>2. arrived' \in 0..MaxUpdates
    BY <1>1, <1>3
  <2> QED  BY <1>5, <2>1, <2>2 DEF QueueLocationData, Typed
<1>7. \A u \in Update : u.n \in Nat
  BY UpdateFields
<1>8. ASSUME NEW X, X \subseteq Update, \A u \in X : u.n <= arrived
      PROVE  /\ \A u \in X : u.n <= arrived'
             /\ Ahead(X, {e})
  BY <1>1, <1>2, <1>3, <1>7, <1>8 DEF Ahead
<1>9. e \notin rows
  BY <1>1, <1>2 DEF Line
<1>10. ToBeStored(queue)'
  <2>1. Ahead(ToSet(queue), {e}) /\ \A u \in ToSet(queue) : u.n <= arrived'
    BY <1>4, <1>8 DEF Line, ToBeStored
  <2>2. Sorted(queue')
    BY <1>2, <1>3, <1>4, <2>1, SortedAppend DEF Line, ToBeStored
  <2>3. e.n <= arrived'
    BY <1>1, <1>2, <1>3
  <2> QED  BY <1>3, <1>5, <1>9, <2>1, <2>2, <2>3 DEF Line, ToBeStored
<1>11. ASSUME NEW w \in Workers, runs[w].at = "saving"
       PROVE  ToBeStored(runs[w].batch)' /\ Ahead(ToSet(runs[w].batch), ToSet(queue'))
  <2>1. ToBeStored(runs[w].batch) /\ Ahead(ToSet(runs[w].batch), ToSet(queue))
    BY <1>11 DEF Line
  <2>2. ToSet(runs[w].batch) \subseteq Update
    <3>1. runs[w].batch \in Seq(Update)
      BY DEF Typed, Run
    <3> QED  BY <3>1, ToSetOf
  <2>3. /\ \A u \in ToSet(runs[w].batch) : u.n <= arrived'
        /\ Ahead(ToSet(runs[w].batch), {e})
    BY <1>8, <2>1, <2>2 DEF ToBeStored
  <2> QED  BY <1>3, <1>5, <2>1, <2>3 DEF ToBeStored, Ahead
<1>12. \A u \in rows' : u.n <= arrived'
  BY <1>3, <1>8 DEF Line, Typed
<1>13. Line'
  BY <1>3, <1>10, <1>11, <1>12 DEF Line
<1> QED  BY <1>6, <1>13

(* The batch that is taken is the queue.                                     *)
LEMMA LineProcessBatch ==
    ASSUME Typed, Line, NEW w \in Workers, ProcessBatch(w)
    PROVE  /\ Line' /\ queue' \in Seq(Update) /\ processing' \in BOOLEAN
           /\ runs' \in [Workers -> Run]
<1>1. CASE UNCHANGED <<queue, processing, runs>>
  <2>1. Line'
    BY <1>1 DEF ProcessBatch, Line, ToBeStored
  <2> QED  BY <1>1, <2>1 DEF Typed
<1>2. CASE Take(w)
  <2>1. <<>> \in Seq(Update) /\ ToSet(<<>>) = {} /\ Sorted(<<>>)
    BY NothingInIt
  <2>2. [at |-> "saving", batch |-> queue] \in Run
    BY DEF Run, Typed
  <2>3. /\ queue' = <<>> /\ processing' = TRUE /\ rows' = rows /\ arrived' = arrived
        /\ runs' = [runs EXCEPT ![w] = [at |-> "saving", batch |-> queue]]
    BY <1>2 DEF Take, ProcessBatch
  <2>4. runs' \in [Workers -> Run]
    BY <2>2, <2>3 DEF Typed
  <2>5. \A x \in Workers :
            runs'[x] = IF x = w THEN [at |-> "saving", batch |-> queue] ELSE runs[x]
    BY <2>3 DEF Typed
  <2>6. \A x \in Workers : runs'[x].at = "saving" => ToBeStored(runs'[x].batch)
    BY <2>5 DEF Line
  <2>7. Line'
    BY <2>1, <2>3, <2>6 DEF Line, ToBeStored, Ahead
  <2> QED  BY <2>1, <2>3, <2>4, <2>7
<1> QED  BY <1>1, <1>2 DEF ProcessBatch

(* A commit stores some of the batch, which is nowhere else.                 *)
Stored(batch) == UNION {ToSave({u \in ToSet(batch) : u.v = v}) : v \in Vehicles}

LEMMA StoredSome == \A batch : Stored(batch) \subseteq ToSet(batch)
BY ToSaveSome DEF Stored

LEMMA LineCommit ==
    ASSUME BatchInv, NEW w \in Workers, Commit(w)
    PROVE  Typed' /\ Line'
<1>1. /\ runs[w].at = "saving" /\ rows' = rows \cup Stored(runs[w].batch)
      /\ UNCHANGED <<queue, processing, wake, arrived, crashes>>
      /\ runs' = [runs EXCEPT ![w].at = "ending"]
  BY DEF Commit, Stored
<1>2. runs \in [Workers -> Run] /\ \A x \in Workers : runs[x] \in Run
  BY DEF BatchInv, Typed
<1>3. runs[w].batch \in Seq(Update) /\ [runs[w] EXCEPT !.at = "ending"] \in Run
  BY <1>2 DEF Run
<1>4. /\ runs' \in [Workers -> Run] /\ runs'[w].at = "ending"
      /\ \A x \in Workers \ {w} : runs'[x] = runs[x]
  BY <1>1, <1>2, <1>3
<1>5. \A x \in Workers \ {w} : runs[x].at = "idle"
  <2>1. runs[w] # Idle
    BY <1>1 DEF Idle
  <2> QED  BY <2>1 DEF BatchInv, Exclusive, OneBatch, Idle
<1>6. Stored(runs[w].batch) \subseteq ToSet(runs[w].batch)
      /\ ToSet(runs[w].batch) \subseteq Update
  BY <1>3, StoredSome, ToSetOf
<1>7. Typed'
  BY <1>1, <1>4, <1>6 DEF BatchInv, Typed
<1>8. ToBeStored(runs[w].batch) /\ Ahead(ToSet(runs[w].batch), ToSet(queue))
  BY <1>1 DEF BatchInv, Line
<1>9. \A u \in ToSet(queue) : u \notin ToSet(runs[w].batch)
  <2>1. \A u \in ToSet(queue) : u.n \in Nat
    BY UpdateFields, ToSetOf DEF BatchInv, Typed
  <2>2. \A u \in ToSet(queue) : ~(u.n < u.n)
    BY <2>1
  <2> QED  BY <1>8, <2>2 DEF Ahead
<1>10. ToBeStored(queue)'
  BY <1>1, <1>6, <1>9 DEF BatchInv, Line, ToBeStored
<1>11. \A u \in rows' : u.n <= arrived'
  BY <1>1, <1>6, <1>8 DEF BatchInv, Line, ToBeStored
<1>12. \A x \in Workers : runs'[x].at # "saving"
  BY <1>4, <1>5
<1> QED  BY <1>7, <1>10, <1>11, <1>12 DEF Line

(* What a failed batch gives back is in front of what came meanwhile.        *)
LEMMA LineRollBack ==
    ASSUME BatchInv, NEW w \in Workers, RollBack(w)
    PROVE  Typed' /\ Line'
<1>1. /\ runs[w].at = "saving" /\ queue' = Important(runs[w].batch) \o queue
      /\ UNCHANGED <<processing, wake, rows, arrived, crashes>>
      /\ runs' = [runs EXCEPT ![w].at = "ending"]
  BY DEF RollBack, Requeue
<1>2. runs \in [Workers -> Run] /\ \A x \in Workers : runs[x] \in Run
  BY DEF BatchInv, Typed
<1>3. runs[w].batch \in Seq(Update) /\ [runs[w] EXCEPT !.at = "ending"] \in Run
  BY <1>2 DEF Run
<1>4. /\ runs' \in [Workers -> Run] /\ runs'[w].at = "ending"
      /\ \A x \in Workers \ {w} : runs'[x] = runs[x]
  BY <1>1, <1>2, <1>3
<1>5. \A x \in Workers \ {w} : runs[x].at = "idle"
  <2>1. runs[w] # Idle
    BY <1>1 DEF Idle
  <2> QED  BY <2>1 DEF BatchInv, Exclusive, OneBatch, Idle
<1>6. ToBeStored(runs[w].batch) /\ Ahead(ToSet(runs[w].batch), ToSet(queue))
  BY <1>1 DEF BatchInv, Line
<1>7. PICK back \in Seq(Update) : back = Important(runs[w].batch)
  BY <1>3, ImportantOf
<1>8. ToSet(back) \subseteq ToSet(runs[w].batch)
  <2>1. \A x \in ToSet(back) : \E m \in 1..Len(runs[w].batch) : x = runs[w].batch[m]
    BY <1>3, <1>7, ImportantOf
  <2> QED  BY <1>3, <2>1, ToSetOf
<1>9. Sorted(back)
  BY <1>3, <1>6, <1>7, ImportantOf DEF ToBeStored
<1>10. queue \in Seq(Update) /\ ToBeStored(queue)
  BY DEF BatchInv, Typed, Line
<1>11. /\ queue' \in Seq(Update) /\ ToSet(queue') = ToSet(back) \cup ToSet(queue)
  BY <1>1, <1>7, <1>10, ToSetConcat
<1>12. Sorted(queue')
  <2>1. Ahead(ToSet(back), ToSet(queue))
    BY <1>6, <1>8 DEF Ahead
  <2> QED  BY <1>1, <1>7, <1>9, <1>10, <2>1, SortedConcat DEF ToBeStored
<1>13. ToBeStored(queue)'
  BY <1>1, <1>6, <1>8, <1>10, <1>11, <1>12 DEF ToBeStored
<1>14. Typed'
  BY <1>1, <1>4, <1>11 DEF BatchInv, Typed
<1>15. \A x \in Workers : runs'[x].at # "saving"
  BY <1>4, <1>5
<1> QED  BY <1>1, <1>13, <1>14, <1>15 DEF BatchInv, Line

LEMMA LineEnd ==
    ASSUME BatchInv, NEW w \in Workers, End(w)
    PROVE  Typed' /\ Line'
<1>1. Idle \in Run /\ Idle.at = "idle"
  BY NothingInIt DEF Idle, Run
<1>2. runs \in [Workers -> Run]
  BY DEF BatchInv, Typed
<1>3. /\ runs' \in [Workers -> Run]
      /\ \A x \in Workers : runs'[x] = IF x = w THEN Idle ELSE runs[x]
  BY <1>1, <1>2 DEF End
<1>4. Typed'
  BY <1>3 DEF End, BatchInv, Typed
<1>5. \A x \in Workers : runs'[x].at = "saving" => runs'[x] = runs[x]
  BY <1>1, <1>3
<1>6. Line'
  BY <1>5 DEF End, BatchInv, Line, ToBeStored
<1> QED  BY <1>4, <1>6

LEMMA LineCrash ==
    ASSUME BatchInv, Crash
    PROVE  Typed' /\ Line'
<1>1. <<>> \in Seq(Update) /\ ToSet(<<>>) = {} /\ Sorted(<<>>)
  BY NothingInIt
<1>2. Idle \in Run /\ Idle.at = "idle"
  BY <1>1 DEF Idle, Run
<1>3. arrived \in Nat /\ crashes' \in 0..MaxCrashes
  BY TrackingAssumption DEF Crash, BatchInv, Typed
<1>4. Typed'
  <2>1. 0 \in 0..arrived
    BY <1>3
  <2> QED  BY <1>1, <1>2, <1>3, <2>1 DEF Crash, BatchInv, Typed
<1>5. Line'
  BY <1>1, <1>2 DEF Crash, BatchInv, Line, ToBeStored
<1> QED  BY <1>4, <1>5

LEMMA BatchStep ==
    ASSUME BatchInv, [Next]_vars
    PROVE  BatchInv'
<1>1. Exclusive'
  BY ExclusiveStep DEF BatchInv
<1>2. ASSUME NEW v \in Vehicles, NEW t \in Times, QueueLocationData(v, t)
      PROVE  Typed' /\ Line'
  BY <1>2, LineQueue DEF BatchInv
<1>3. ASSUME NEW w \in Workers, Tick(w) \/ WakeUp(w)
      PROVE  Typed' /\ Line'
  <2>1. ProcessBatch(w)
    BY <1>3 DEF Tick, WakeUp
  <2>2. /\ Line' /\ queue' \in Seq(Update) /\ processing' \in BOOLEAN
        /\ runs' \in [Workers -> Run]
    BY <2>1, LineProcessBatch DEF BatchInv
  <2>3. wake' \in 0..arrived
    <3>1. wake \in 0..arrived /\ arrived \in Nat
      BY TrackingAssumption DEF BatchInv, Typed
    <3>2. wake' = wake \/ (wake > 0 /\ wake' = wake - 1)
      BY <1>3 DEF Tick, WakeUp
    <3> QED  BY <3>1, <3>2
  <2> QED  BY <2>1, <2>2, <2>3 DEF BatchInv, Typed, ProcessBatch
<1>4. ASSUME NEW w \in Workers, Commit(w) \/ RollBack(w) \/ End(w)
      PROVE  Typed' /\ Line'
  BY <1>4, LineCommit, LineRollBack, LineEnd
<1>5. ASSUME UNCHANGED vars
      PROVE  Typed' /\ Line'
  BY <1>5 DEF BatchInv, Typed, Line, ToBeStored, vars
<1>6. Typed' /\ Line'
  BY <1>2, <1>3, <1>4, <1>5, LineCrash DEF Next
<1> QED  BY <1>1, <1>6 DEF BatchInv

(* The inductive invariant holds throughout.                                 *)
THEOREM AlwaysInLine == Spec => []BatchInv
<1>1. BatchInv /\ [Next]_vars => BatchInv'
  BY BatchStep
<1> QED  BY LineInit, <1>1, PTL DEF Spec

(* Every variable of the batch storage has its type, and no more wake-ups    *)
(* are pending than updates have come.                                       *)
THEOREM TypeCorrect == Spec => []TypeOK
<1>1. ASSUME BatchInv  PROVE TypeOK
  <2>1. /\ queue \in Seq(Update) /\ DOMAIN runs = Workers
        /\ \A w \in Workers : /\ runs[w].at \in {"idle", "saving", "ending"}
                              /\ runs[w].batch \in Seq(Update)
    BY <1>1 DEF BatchInv, Typed, Run
  <2>2. ToSet(queue) \subseteq Update
    BY <2>1, ToSetOf
  <2>3. \A w \in Workers : ToSet(runs[w].batch) \subseteq Update
    BY <2>1, ToSetOf
  <2> QED  BY <1>1, <2>1, <2>2, <2>3 DEF BatchInv, Typed, TypeOK
<1> QED  BY <1>1, AlwaysInLine, PTL

(* Batch and queue are sorted by arrival, although a failed batch is partly  *)
(* put back while new updates come.                                          *)
THEOREM KeepsArrivalOrder == Spec => []ArrivalOrder
<1>1. ASSUME BatchInv  PROVE ArrivalOrder
  <2>1. Sorted(queue) /\ queue \in Seq(Update)
    BY <1>1 DEF BatchInv, Typed, Line, ToBeStored
  <2>2. ASSUME NEW w \in Workers, runs[w].at = "saving"
        PROVE  Sorted(runs[w].batch \o queue)
    <3>1. Sorted(runs[w].batch) /\ Ahead(ToSet(runs[w].batch), ToSet(queue))
      BY <1>1, <2>2 DEF BatchInv, Line, ToBeStored
    <3>2. runs[w].batch \in Seq(Update)
      BY <1>1 DEF BatchInv, Typed, Run
    <3> QED  BY <2>1, <3>1, <3>2, SortedConcat
  <2> QED  BY <2>1, <2>2 DEF ArrivalOrder
<1> QED  BY <1>1, AlwaysInLine, PTL

(* Nothing that is stored waits to be stored again, whatever fails.          *)
THEOREM NeverStoredTwice == Spec => []StoredOnce
<1>1. BatchInv => StoredOnce
  BY DEF BatchInv, Line, ToBeStored, StoredOnce
<1> QED  BY <1>1, AlwaysInLine, PTL

-----------------------------------------------------------------------------
(* What becomes of updates that were accepted.                               *)
LEMMA PendingIs ==
    \A u : u \in Pending <=>
        \/ u \in ToSet(queue)
        \/ \E w \in Workers : runs[w].at = "saving" /\ u \in ToSet(runs[w].batch)
BY DEF Pending

LEMMA PendingNext ==
    \A u : u \in Pending' <=>
        \/ u \in ToSet(queue')
        \/ \E w \in Workers : runs'[w].at = "saving" /\ u \in ToSet(runs'[w].batch)
BY DEF Pending

(* Only a commit, a rollback and a crash make an update disappear.           *)
LEMMA GoneBy ==
    ASSUME BatchInv, [Next]_vars, NEW u \in Gone
    PROVE  \/ Crash
           \/ \E w \in Workers : /\ Commit(w) /\ u \notin rows'
                                 /\ u \in ToSet(runs[w].batch)
           \/ \E w \in Workers : /\ RollBack(w)
                                 /\ u \in ToSet(runs[w].batch)
                                 /\ u \notin ToSet(Important(runs[w].batch))
<1>1. u \in Pending /\ u \notin Pending' /\ u \notin rows'
  BY DEF Gone
<1>2. runs \in [Workers -> Run] /\ queue \in Seq(Update)
  BY DEF BatchInv, Typed
<1>3. ASSUME NEW v \in Vehicles, NEW t \in Times, QueueLocationData(v, t)
      PROVE  FALSE
  <2>1. arrived \in Nat /\ MaxUpdates \in Nat /\ arrived < MaxUpdates
    BY <1>3, TrackingAssumption DEF QueueLocationData, BatchInv, Typed
  <2>2. [n |-> arrived + 1, v |-> v, t |-> t] \in Update
    BY <2>1 DEF Update
  <2>3. ToSet(queue) \subseteq ToSet(queue')
    BY <1>2, <1>3, <2>2, ToSetAppend DEF QueueLocationData
  <2> QED  BY <1>1, <1>3, <2>3, PendingIs, PendingNext DEF QueueLocationData
<1>4. ASSUME NEW w \in Workers, ProcessBatch(w)
      PROVE  FALSE
  <2>1. CASE UNCHANGED <<queue, processing, runs>>
    BY <1>1, <2>1, PendingIs, PendingNext
  <2>2. CASE Take(w)
    <3>1. /\ runs'[w].at = "saving" /\ runs'[w].batch = queue
          /\ \A x \in Workers \ {w} : runs'[x] = runs[x]
      BY <1>2, <2>2 DEF Take
    <3>2. runs[w].at # "saving"
      BY <1>4 DEF ProcessBatch, Idle
    <3> QED  BY <1>1, <3>1, <3>2, PendingIs, PendingNext
  <2> QED  BY <1>4, <2>1, <2>2 DEF ProcessBatch
<1>5. ASSUME NEW w \in Workers, Commit(w)
      PROVE  u \in ToSet(runs[w].batch)
  <2>1. queue' = queue /\ \A x \in Workers \ {w} : runs'[x] = runs[x]
    BY <1>2, <1>5 DEF Commit
  <2> QED  BY <1>1, <2>1, PendingIs, PendingNext
<1>6. ASSUME NEW w \in Workers, RollBack(w)
      PROVE  /\ u \in ToSet(runs[w].batch)
             /\ u \notin ToSet(Important(runs[w].batch))
  <2>1. /\ queue' = Important(runs[w].batch) \o queue
        /\ \A x \in Workers \ {w} : runs'[x] = runs[x]
    BY <1>2, <1>6 DEF RollBack, Requeue
  <2>2. runs[w].batch \in Seq(Update)
    BY <1>2 DEF Run
  <2>3. ToSet(queue') = ToSet(Important(runs[w].batch)) \cup ToSet(queue)
    BY <1>2, <2>1, <2>2, ImportantOf, ToSetConcat
  <2> QED  BY <1>1, <2>1, <2>3, PendingIs, PendingNext
<1>7. ASSUME NEW w \in Workers, End(w)
      PROVE  FALSE
  <2>1. /\ queue' = queue /\ runs[w].at # "saving"
        /\ \A x \in Workers \ {w} : runs'[x] = runs[x]
    BY <1>2, <1>7 DEF End
  <2> QED  BY <1>1, <2>1, PendingIs, PendingNext
<1>8. ~UNCHANGED vars
  <2>1. SUFFICES ASSUME UNCHANGED vars  PROVE FALSE
    OBVIOUS
  <2>2. queue' = queue /\ runs' = runs
    BY <2>1 DEF vars
  <2> QED  BY <1>1, <2>2, PendingIs, PendingNext
<1> QED  BY <1>1, <1>3, <1>4, <1>5, <1>6, <1>7, <1>8 DEF Next, Tick, WakeUp

(* A commit stores, for every update of its batch, one of the same vehicle   *)
(* at least as recent.                                                       *)
LEMMA CommitStoresNewest ==
    ASSUME BatchInv, NEW w \in Workers, Commit(w), NEW u \in ToSet(runs[w].batch)
    PROVE  \E x \in rows' : x \in ToSet(runs[w].batch) /\ x.v = u.v /\ x.t >= u.t
<1> DEFINE us == {x \in ToSet(runs[w].batch) : x.v = u.v}
<1>1. runs[w].batch \in Seq(Update)
  BY DEF BatchInv, Typed, Run
<1>2. ToSet(runs[w].batch) \subseteq Update /\ IsFiniteSet(ToSet(runs[w].batch))
  BY <1>1, ToSetOf, FiniteBatch
<1>3. us \subseteq Update /\ u \in us /\ IsFiniteSet(us)
  BY <1>2, FS_Subset
<1>4. \A x \in us : x \in ToSet(runs[w].batch) /\ x.v = u.v
  OBVIOUS
<1>5. u.v \in Vehicles
  BY <1>2, UpdateFields
<1>6. ToSave(us) \subseteq rows'
  BY <1>5 DEF Commit
<1> HIDE DEF us
<1>7. PICK x \in ToSave(us) : \A y \in us : x.t >= y.t
  BY <1>3, ToSaveNewest
<1>8. x \in us
  BY <1>7, ToSaveSome
<1> QED  BY <1>3, <1>4, <1>6, <1>7, <1>8

(* Only a crash drops an update that is among the first KeepFirst of a       *)
(* failed batch: failures alone never lose a short batch.                    *)
THEOREM FailuresSpareFirst == Spec => FailureSparesFirst
<1> DEFINE Spares ==
       crashes' = crashes /\ rows' = rows =>
          \A u \in Gone : \E w \in Workers : \E i \in DOMAIN runs[w].batch :
              i > KeepFirst /\ runs[w].batch[i] = u
<1>1. ASSUME BatchInv, [Next]_vars  PROVE Spares
  <2>1. SUFFICES ASSUME crashes' = crashes, rows' = rows, NEW u \in Gone
                 PROVE  \E w \in Workers : \E i \in DOMAIN runs[w].batch :
                            i > KeepFirst /\ runs[w].batch[i] = u
    OBVIOUS
  <2>2. ~Crash
    BY <1>1, <2>1, TrackingAssumption DEF Crash, BatchInv, Typed
  <2>3. ASSUME NEW w \in Workers, Commit(w), u \in ToSet(runs[w].batch)
        PROVE  FALSE
    <3>1. PICK x \in rows' : x \in ToSet(runs[w].batch)
      BY <1>1, <2>3, CommitStoresNewest
    <3>2. x \notin rows
      BY <1>1, <2>3, <3>1 DEF Commit, BatchInv, Line, ToBeStored
    <3> QED  BY <2>1, <3>1, <3>2
  <2>4. ASSUME NEW w \in Workers, u \in ToSet(runs[w].batch),
               u \notin ToSet(Important(runs[w].batch))
        PROVE  \E i \in DOMAIN runs[w].batch : i > KeepFirst /\ runs[w].batch[i] = u
    <3>1. runs[w].batch \in Seq(Update)
      BY <1>1 DEF BatchInv, Typed, Run
    <3>2. PICK i \in 1..Len(runs[w].batch) : u = runs[w].batch[i]
      BY <2>4, <3>1, ToSetOf
    <3>3. ~Keeps(i)
      BY <2>4, <3>1, <3>2, ImportantOf
    <3>4. i \in Nat /\ KeepFirst \in Nat
      BY TrackingAssumption
    <3>5. i > KeepFirst
      BY <3>3, <3>4 DEF Keeps
    <3> QED  BY <3>1, <3>2, <3>5, ToSetOf
  <2> QED  BY <1>1, <2>2, <2>3, <2>4, GoneBy
<1>2. BatchInv /\ [Next]_vars => [Spares]_vars
  BY <1>1
<1> QED  BY <1>2, AlwaysInLine, PTL DEF Spec, FailureSparesFirst

(* Thinning never loses where a vehicle was last.                            *)
THEOREM ThinningKeepsNewest == Spec => ThinningSparesNewest
<1> DEFINE Spares ==
       rows' # rows => \A u \in Gone : \E x \in rows' : x.v = u.v /\ x.t >= u.t
<1>1. ASSUME BatchInv, [Next]_vars  PROVE Spares
  <2>1. SUFFICES ASSUME rows' # rows, NEW u \in Gone
                 PROVE  \E x \in rows' : x.v = u.v /\ x.t >= u.t
    OBVIOUS
  <2>2. PICK w \in Workers : Commit(w) /\ u \in ToSet(runs[w].batch)
    BY <1>1, <2>1, GoneBy DEF Crash, RollBack
  <2> QED  BY <1>1, <2>2, CommitStoresNewest
<1>2. BatchInv /\ [Next]_vars => [Spares]_vars
  BY <1>1
<1> QED  BY <1>2, AlwaysInLine, PTL DEF Spec, ThinningSparesNewest

-----------------------------------------------------------------------------
(* The batch storage implements LocationStore.                               *)

LEMMA StoreInitial == Init => Locations!StoreInit
<1> SUFFICES ASSUME Init PROVE Locations!StoreInit
  OBVIOUS
<1>1. ToSet(queue) = {} /\ \A w \in Workers : runs[w].at # "saving"
  BY NothingInIt DEF Init, Idle
<1>2. Pending = {}
  BY <1>1, PendingIs
<1> QED  BY <1>2 DEF Init, Locations!StoreInit

(* Only its arrival makes an update wait: a failed batch brings back only    *)
(* what was already waiting.                                                 *)
LEMMA PendingFrom ==
    ASSUME BatchInv, [Next]_vars, NEW u \in Pending', u \notin Pending
    PROVE  \E v \in Vehicles, t \in Times :
              QueueLocationData(v, t) /\ u = [n |-> arrived + 1, v |-> v, t |-> t]
<1>1. runs \in [Workers -> Run] /\ queue \in Seq(Update)
  BY DEF BatchInv, Typed
<1>2. ASSUME NEW v \in Vehicles, NEW t \in Times, QueueLocationData(v, t)
      PROVE  u = [n |-> arrived + 1, v |-> v, t |-> t]
  <2>1. arrived \in Nat /\ MaxUpdates \in Nat /\ arrived < MaxUpdates
    BY <1>2, TrackingAssumption DEF QueueLocationData, BatchInv, Typed
  <2>2. [n |-> arrived + 1, v |-> v, t |-> t] \in Update
    BY <2>1 DEF Update
  <2>3. ToSet(queue') = ToSet(queue) \cup {[n |-> arrived + 1, v |-> v, t |-> t]}
    BY <1>1, <1>2, <2>2, ToSetAppend DEF QueueLocationData
  <2> QED  BY <1>2, <2>3, PendingIs, PendingNext DEF QueueLocationData
<1>3. ASSUME NEW w \in Workers, ProcessBatch(w)
      PROVE  FALSE
  <2>1. CASE UNCHANGED <<queue, processing, runs>>
    BY <2>1, PendingIs, PendingNext
  <2>2. CASE Take(w)
    <3>1. /\ runs'[w].batch = queue /\ ToSet(queue') = {}
          /\ \A x \in Workers \ {w} : runs'[x] = runs[x]
      BY <1>1, <2>2, NothingInIt DEF Take
    <3> QED  BY <3>1, PendingIs, PendingNext
  <2> QED  BY <1>3, <2>1, <2>2 DEF ProcessBatch
<1>4. ASSUME NEW w \in Workers, Commit(w) \/ RollBack(w)
      PROVE  FALSE
  <2>1. /\ runs'[w].at = "ending" /\ runs[w].at = "saving"
        /\ \A x \in Workers \ {w} : runs'[x] = runs[x]
    <3>1. runs[w].at = "saving" /\ runs' = [runs EXCEPT ![w].at = "ending"]
      BY <1>4 DEF Commit, RollBack
    <3>2. runs[w] \in Run /\ [runs[w] EXCEPT !.at = "ending"].at = "ending"
      BY <1>1 DEF Run
    <3> QED  BY <1>1, <3>1, <3>2
  <2>2. runs[w].batch \in Seq(Update)
    BY <1>1 DEF Run
  <2>3. ToSet(queue') \subseteq ToSet(queue) \cup ToSet(runs[w].batch)
    <3>1. CASE Commit(w)
      BY <3>1 DEF Commit
    <3>2. CASE RollBack(w)
      <4>1. ToSet(queue') = ToSet(Important(runs[w].batch)) \cup ToSet(queue)
        BY <1>1, <2>2, <3>2, ImportantOf, ToSetConcat DEF RollBack, Requeue
      <4>2. \A x \in ToSet(Important(runs[w].batch)) :
                \E m \in 1..Len(runs[w].batch) : x = runs[w].batch[m]
        BY <2>2, ImportantOf
      <4>3. ToSet(Important(runs[w].batch)) \subseteq ToSet(runs[w].batch)
        BY <2>2, <4>2, ToSetOf
      <4> QED  BY <4>1, <4>3
    <3> QED  BY <1>4, <3>1, <3>2
  <2> QED  BY <2>1, <2>3, PendingIs, PendingNext
<1>5. ASSUME NEW w \in Workers, End(w)
      PROVE  FALSE
  <2>1. /\ queue' = queue /\ \A x \in Workers : x # w => runs'[x] = runs[x]
        /\ runs'[w].at = "idle"
    BY <1>1, <1>5 DEF End, Idle
  <2> QED  BY <2>1, PendingIs, PendingNext
<1>6. ~Crash
  <2>1. SUFFICES ASSUME Crash  PROVE FALSE
    OBVIOUS
  <2>2. ToSet(queue') = {} /\ \A w \in Workers : runs'[w].at # "saving"
    BY <2>1, NothingInIt DEF Crash, Idle
  <2> QED  BY <2>2, PendingNext
<1>7. ~UNCHANGED vars
  <2>1. SUFFICES ASSUME UNCHANGED vars  PROVE FALSE
    OBVIOUS
  <2>2. queue' = queue /\ runs' = runs
    BY <2>1 DEF vars
  <2> QED  BY <2>2, PendingIs, PendingNext
<1> QED  BY <1>2, <1>3, <1>4, <1>5, <1>6, <1>7 DEF Next, Tick, WakeUp

LEMMA PendingUnsettled ==
    ASSUME BatchInv
    PROVE  \A u \in Pending : u.n <= arrived /\ u \notin rows
BY PendingIs DEF BatchInv, Line, ToBeStored

LEMMA StoreStep ==
    ASSUME BatchInv, [Next]_vars
    PROVE  [Locations!StoreNext]_(Locations!storeVars)
<1>1. ASSUME NEW v \in Vehicles, NEW t \in Times, QueueLocationData(v, t)
      PROVE  Locations!StoreNext
  <2> DEFINE e == [n |-> arrived + 1, v |-> v, t |-> t]
  <2>1. arrived \in Nat /\ MaxUpdates \in Nat /\ arrived < MaxUpdates
    BY <1>1, TrackingAssumption DEF QueueLocationData, BatchInv, Typed
  <2>2. e \in Update /\ ~(e.n <= arrived)
    BY <2>1 DEF Update
  <2>3. queue \in Seq(Update) /\ queue' = Append(queue, e) /\ runs' = runs /\ rows' = rows
    BY <1>1 DEF QueueLocationData, BatchInv, Typed
  <2> HIDE DEF e
  <2>4. ToSet(queue') = ToSet(queue) \cup {e}
    BY <2>2, <2>3, ToSetAppend
  <2>5. \A u : u \in Pending' <=> u \in Pending \cup {e}
    BY <2>3, <2>4, PendingIs, PendingNext
  <2>6. Pending' = Pending \cup {e}
    BY <2>5
  <2>7. e \notin Pending \cup rows
    BY <2>2, PendingUnsettled DEF BatchInv, Line
  <2>8. Locations!Accept(e)
    BY <2>3, <2>6, <2>7 DEF Locations!Accept
  <2> QED  BY <2>2, <2>8 DEF Locations!StoreNext
<1>2. CASE Pending' \subseteq Pending /\ rows' = rows
  BY <1>2 DEF Locations!StoreNext, Locations!Drop
<1>3. ASSUME NEW w \in Workers, Commit(w)
      PROVE  Locations!StoreNext
  <2> DEFINE batch == runs[w].batch
             kept == Stored(batch)
  <2>1. /\ runs[w].at = "saving" /\ rows' = rows \cup kept /\ queue' = queue
        /\ runs' = [runs EXCEPT ![w].at = "ending"]
    BY <1>3 DEF Commit, Stored
  <2>2. runs \in [Workers -> Run]
    BY DEF BatchInv, Typed
  <2>3. runs'[w].at = "ending" /\ \A x \in Workers \ {w} : runs'[x] = runs[x]
    BY <2>1, <2>2
  <2>4. kept \subseteq ToSet(batch) /\ ToSet(batch) \subseteq Pending
    BY <2>1, StoredSome, PendingIs
  <2>5. \A x \in Workers \ {w} : runs[x].at # "saving"
    <3>1. runs[w] # Idle
      BY <2>1 DEF Idle
    <3> QED  BY <3>1 DEF BatchInv, Exclusive, OneBatch, Idle
  <2>6. \A u \in ToSet(queue) : u \notin ToSet(batch)
    <3>1. Ahead(ToSet(batch), ToSet(queue))
      BY <2>1 DEF BatchInv, Line
    <3>2. \A u \in ToSet(queue) : u.n \in Nat
      BY UpdateFields, ToSetOf DEF BatchInv, Typed
    <3>3. \A u \in ToSet(queue) : ~(u.n < u.n)
      BY <3>2
    <3> QED  BY <3>1, <3>3 DEF Ahead
  <2>7. Pending' = Pending \ ToSet(batch)
    <3>1. \A u : u \in Pending' <=> u \in ToSet(queue)
      BY <2>1, <2>3, <2>5, PendingNext
    <3>2. \A u : u \in Pending <=> u \in ToSet(queue) \/ u \in ToSet(batch)
      BY <2>1, <2>5, PendingIs
    <3> QED  BY <2>6, <3>1, <3>2
  <2>8. ASSUME NEW u \in ToSet(batch)
        PROVE  \E x \in kept : x.v = u.v /\ x.t >= u.t
    <3>1. PICK x \in rows' : x \in ToSet(batch) /\ x.v = u.v /\ x.t >= u.t
      BY <1>3, <2>8, CommitStoresNewest
    <3>2. x \notin rows
      BY <2>4, <3>1, PendingUnsettled
    <3> QED  BY <2>1, <3>1, <3>2
  <2> HIDE DEF kept, batch
  <2>9. Locations!Store
    BY <2>1, <2>4, <2>7, <2>8 DEF Locations!Store
  <2> QED  BY <2>9 DEF Locations!StoreNext
<1>4. CASE UNCHANGED vars
  <2>1. queue' = queue /\ runs' = runs /\ rows' = rows
    BY <1>4 DEF vars
  <2>2. Pending' = Pending
    BY <2>1 DEF Pending
  <2> QED  BY <2>1, <2>2 DEF Locations!storeVars
<1>5. ASSUME \A v \in Vehicles, t \in Times : ~QueueLocationData(v, t)
      PROVE  Pending' \subseteq Pending
  BY <1>5, PendingFrom
<1>6. \/ \E v \in Vehicles, t \in Times : QueueLocationData(v, t)
      \/ \E w \in Workers : Commit(w)
      \/ rows' = rows \/ UNCHANGED vars
  BY DEF Next, Tick, WakeUp, ProcessBatch, RollBack, End, Crash
<1> QED  BY <1>1, <1>2, <1>3, <1>4, <1>5, <1>6

(* For the rest of the system queue, timers, batches and transactions are a  *)
(* store: what is accepted is stored once or dropped, and what a commit      *)
(* leaves out is older than what it stores.                                  *)
THEOREM BatchImplementsStore == Spec => StoreSpec
<1>1. BatchInv /\ [Next]_vars => [Locations!StoreNext]_(Locations!storeVars)
  BY StoreStep
<1> QED  BY <1>1, StoreInitial, AlwaysInLine, PTL DEF Spec, StoreSpec, Locations!StoreSpec

=============================================================================
