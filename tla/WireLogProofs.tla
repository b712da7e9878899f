--------------------------- MODULE WireLogProofs ---------------------------
(***************************************************************************)
(* For any number of records, turns and crashes: no batch is written while *)
(* the log is being replaced, a flush() that returns leaves nothing behind *)
(* in memory, a resume restores what a prefix of the logged records comes  *)
(* to, and compacting the log changes nothing of what it restores.         *)
(*                                                                         *)
(* The reader drops lines, so a file is never the log: what the two have   *)
(* in common is the set of records nothing later supersedes, Live.  A file *)
(* is sound when its live records are those of the log up to some number;  *)
(* every prefix a crash may leave is, and the queue in memory holds the    *)
(* records above that number.                                              *)
(***************************************************************************)
EXTENDS WireLog, SequenceTheorems, FiniteSetTheorems, TLAPS

\* Induction.
Sq == INSTANCE ConversationProofs

\* A flattened sequence of sequences is a sequence, and grows at its end.
LEMMA FlattenFacts ==
  ASSUME NEW S, NEW ss \in Seq(Seq(S)), NEW s \in Seq(S)
  PROVE  /\ FlattenSeq(ss) \in Seq(S)
         /\ FlattenSeq(Append(ss, s)) = FlattenSeq(ss) \o s
<1>1. FlattenSeq(ss) \in Seq(S)
  BY Sq!FlattenType DEF FlattenSeq, Sq!FlattenSeq
<1>2. FlattenSeq(Append(ss, s)) = FlattenSeq(ss) \o s
  BY Sq!FlattenAppend DEF FlattenSeq, Sq!FlattenSeq
<1>. QED  BY <1>1, <1>2

-----------------------------------------------------------------------------
(* What a filter leaves                                                    *)

\* The reader, the copy and the restored state are each made of what h holds at the
\* positions of s that are in I.
Pick(n, I, h) == FlattenSeq([i \in 1..n |-> IF i \in I THEN <<h[i]>> ELSE <<>>])

\* e lists the m members of S, the smallest first.
Enumerates(e, m, S) ==
  /\ m \in Nat /\ e \in [1..m -> S]
  /\ \A j, k \in 1..m : j < k => e[j] < e[k]
  /\ \A x \in S : \E k \in 1..m : e[k] = x

\* Nothing to pick from.
LEMMA PickEmpty == \A I, h : Pick(0, I, h) = <<>>
<1>. SUFFICES ASSUME NEW I, NEW h
              PROVE  Pick(0, I, h) = <<>>
  OBVIOUS
<1>1. [i \in 1..0 |-> IF i \in I THEN <<h[i]>> ELSE <<>>] = <<>>
  OBVIOUS
<1>2. FlattenSeq(<<>>) = <<>>
  BY Sq!FlattenEmpty DEF FlattenSeq, Sq!FlattenSeq
<1>. QED  BY <1>1, <1>2 DEF Pick

\* What one more position adds.
LEMMA PickOneMore ==
  ASSUME NEW V, NEW h, NEW I, NEW n \in Nat, \A i \in 1..n + 1 : h[i] \in V
  PROVE  /\ Pick(n, I, h) \in Seq(V)
         /\ Pick(n + 1, I, h) \in Seq(V)
         /\ Pick(n + 1, I, h) = IF n + 1 \in I THEN Append(Pick(n, I, h), h[n + 1])
                                ELSE Pick(n, I, h)
<1>. DEFINE part(i) == IF i \in I THEN <<h[i]>> ELSE <<>>
            a == [i \in 1..n |-> part(i)]
            b == [i \in 1..n + 1 |-> part(i)]
<1>1. \A i \in 1..n + 1 : part(i) \in Seq(V)
  <2>. TAKE i \in 1..n + 1
  <2>1. h[i] \in V
    OBVIOUS
  <2>. QED  BY <2>1, EmptySeq
<1>2. n + 1 \in 1..n + 1 /\ 1..n \subseteq 1..n + 1
  OBVIOUS
<1>3. h[n + 1] \in V
  BY <1>2
<1>4. /\ (n + 1 \in I => part(n + 1) = <<h[n + 1]>>)
      /\ (n + 1 \notin I => part(n + 1) = <<>>)
      /\ Pick(n, I, h) = FlattenSeq(a) /\ Pick(n + 1, I, h) = FlattenSeq(b)
  BY DEF Pick
<1>. HIDE DEF part
<1>5. a \in [1..n -> Seq(V)] /\ b \in [1..n + 1 -> Seq(V)] /\ part(n + 1) \in Seq(V)
  BY <1>1, <1>2
<1>6. a \in Seq(Seq(V)) /\ b \in Seq(Seq(V))
  BY <1>5, SeqDef
<1>7. b = Append(a, part(n + 1))
  <2>1. Len(a) = n /\ Len(b) = n + 1 /\ (\A i \in 1..n : a[i] = part(i))
        /\ (\A i \in 1..n + 1 : b[i] = part(i))
    BY <1>6, LenProperties
  <2>. HIDE DEF a, b
  <2>2. /\ Append(a, part(n + 1)) \in Seq(Seq(V)) /\ Len(Append(a, part(n + 1))) = n + 1
        /\ Append(a, part(n + 1))[n + 1] = part(n + 1)
        /\ \A i \in 1..n : Append(a, part(n + 1))[i] = a[i]
    BY <1>5, <1>6, <2>1, AppendProperties
  <2>3. \A i \in 1..n + 1 : b[i] = Append(a, part(n + 1))[i]
    <3>. TAKE i \in 1..n + 1
    <3>1. i = n + 1 \/ i \in 1..n
      OBVIOUS
    <3>. QED  BY <2>1, <2>2, <3>1
  <2>. QED  BY <1>6, <2>1, <2>2, <2>3, SeqEqual
<1>. HIDE DEF a, b
<1>8. /\ FlattenSeq(a) \in Seq(V) /\ FlattenSeq(b) \in Seq(V)
  BY <1>5, <1>6, FlattenFacts
<1>9. FlattenSeq(b) = FlattenSeq(a) \o part(n + 1)
  BY <1>5, <1>6, <1>7, FlattenFacts
<1>. HIDE DEF Pick
<1>10. CASE n + 1 \in I
  <2>1. FlattenSeq(a) \o <<h[n + 1]>> = Append(FlattenSeq(a), h[n + 1])
    BY <1>3, <1>8, AppendIsConcat
  <2>. QED  BY <1>4, <1>8, <1>9, <1>10, <2>1
<1>11. CASE n + 1 \notin I
  <2>1. FlattenSeq(a) \o <<>> = FlattenSeq(a)
    BY <1>8, ConcatEmptySeq
  <2>. QED  BY <1>4, <1>8, <1>9, <1>11, <2>1
<1>. QED  BY <1>10, <1>11

Picked(p, n, I, h) ==
  \E m \in Nat : \E e : Enumerates(e, m, I \cap 1..n) /\ p = [k \in 1..m |-> h[e[k]]]

\* What is picked is what h holds at the positions of I, in their order.
LEMMA PickEnumerates ==
  ASSUME NEW V, NEW n \in Nat, NEW h \in [1..n -> V], NEW I
  PROVE  /\ Pick(n, I, h) \in Seq(V)
         /\ Picked(Pick(n, I, h), n, I, h)
<1>. DEFINE Q(x, m, e) == /\ Enumerates(e, m, I \cap 1..x)
                           /\ Pick(x, I, h) = [k \in 1..m |-> h[e[k]]]
            P(x) == Pick(x, I, h) \in Seq(V) /\ \E m \in Nat : \E e : Q(x, m, e)
            T == {x \in Nat : x <= n => P(x)}
<1>1. P(0)
  <2>1. Enumerates([k \in 1..0 |-> 0], 0, I \cap 1..0)
    BY DEF Enumerates
  <2>2. Pick(0, I, h) = [k \in 1..0 |-> h[[j \in 1..0 |-> 0][k]]]
    BY PickEmpty
  <2>3. Q(0, 0, [j \in 1..0 |-> 0])
    BY <2>1, <2>2
  <2>. HIDE DEF Q
  <2>. QED  BY <2>3, PickEmpty, EmptySeq
<1>2. ASSUME NEW x \in Nat, P(x), x + 1 <= n
      PROVE  P(x + 1)
  <2>0. PICK m \in Nat : \E e : Q(x, m, e)
    BY <1>2
  <2>1. PICK e : Q(x, m, e)
    BY <2>0
  <2>. HIDE DEF T
  <2>2. /\ Pick(x, I, h) \in Seq(V) /\ Pick(x + 1, I, h) \in Seq(V)
        /\ Pick(x + 1, I, h) = IF x + 1 \in I THEN Append(Pick(x, I, h), h[x + 1])
                               ELSE Pick(x, I, h)
    <3>1. \A i \in 1..x + 1 : h[i] \in V
      <4>1. 1..x + 1 \subseteq 1..n
        BY <1>2
      <4>. QED  BY <4>1
    <3>. HIDE DEF P, Q
    <3>2. Pick(x, I, h) \in Seq(V)
      BY <3>1, PickOneMore
    <3>3. Pick(x + 1, I, h) \in Seq(V)
      BY <3>1, PickOneMore
    <3>4. Pick(x + 1, I, h) = IF x + 1 \in I THEN Append(Pick(x, I, h), h[x + 1])
                              ELSE Pick(x, I, h)
      BY <3>1, <3>2, <3>3, PickOneMore
    <3>. QED  BY <3>2, <3>3, <3>4
  <2>3. CASE x + 1 \notin I
    <3>1. I \cap 1..x + 1 = I \cap 1..x
      BY <2>3
    <3>2. Q(x + 1, m, e)
      BY <2>1, <2>2, <2>3, <3>1
    <3>. HIDE DEF Q
    <3>. QED  BY <2>2, <3>2
  <2>4. CASE x + 1 \in I
    <3>. DEFINE d == [k \in 1..m + 1 |-> IF k = m + 1 THEN x + 1 ELSE e[k]]
    <3>1. \A k \in 1..m : e[k] \in I \cap 1..x
      BY <2>1 DEF Enumerates
    <3>2. d[m + 1] = x + 1 /\ \A k \in 1..m : d[k] = e[k]
      OBVIOUS
    <3>3. d \in [1..m + 1 -> I \cap 1..x + 1]
      <4>1. ASSUME NEW k \in 1..m + 1
            PROVE  d[k] \in I \cap 1..x + 1
        <5>1. k = m + 1 \/ k \in 1..m
          OBVIOUS
        <5>2. I \cap 1..x \subseteq I \cap 1..x + 1 /\ x + 1 \in I \cap 1..x + 1
          BY <2>4
        <5>. HIDE DEF d
        <5>. QED  BY <3>1, <3>2, <5>1, <5>2
      <4>. QED  BY <4>1
    <3>. HIDE DEF d
    <3>4. ASSUME NEW j \in 1..m + 1, NEW k \in 1..m + 1, j < k
          PROVE  d[j] < d[k]
      <4>1. j \in 1..m
        BY <3>4
      <4>2. CASE k = m + 1
        BY <3>1, <3>2, <4>1, <4>2
      <4>3. CASE k \in 1..m
        BY <2>1, <3>2, <3>4, <4>1, <4>3 DEF Enumerates
      <4>. QED  BY <4>2, <4>3
    <3>5. ASSUME NEW y \in I \cap 1..x + 1
          PROVE  \E k \in 1..m + 1 : d[k] = y
      <4>1. CASE y = x + 1
        BY <3>2, <4>1
      <4>2. CASE y # x + 1
        <5>1. y \in I \cap 1..x
          BY <4>2
        <5>2. PICK k \in 1..m : e[k] = y
          BY <2>1, <5>1 DEF Enumerates
        <5>. QED  BY <3>2, <5>2
      <4>. QED  BY <4>1, <4>2
    <3>6. Enumerates(d, m + 1, I \cap 1..x + 1)
      BY <3>3, <3>4, <3>5 DEF Enumerates
    <3>7. Pick(x + 1, I, h) = [k \in 1..m + 1 |-> h[d[k]]]
      <4>. DEFINE p == Pick(x, I, h)
                  q == [k \in 1..m + 1 |-> h[d[k]]]
      <4>1. \A k \in 1..m + 1 : h[d[k]] \in V
        <5>1. \A k \in 1..m + 1 : d[k] \in 1..n
          <6>1. I \cap 1..x + 1 \subseteq 1..n
            BY <1>2
          <6>2. \A k \in 1..m + 1 : d[k] \in I \cap 1..x + 1
            BY <3>3
          <6>. QED  BY <6>1, <6>2
        <5>. QED  BY <5>1
      <4>2. q \in Seq(V) /\ Len(q) = m + 1 /\ \A k \in 1..m + 1 : q[k] = h[d[k]]
        <5>1. q \in Seq(V)
          BY <4>1, IsASeq
        <5>. QED  BY <5>1, LenProperties
      <4>3. p \in Seq(V) /\ Len(p) = m /\ \A k \in 1..m : p[k] = h[e[k]]
        BY <2>1, <2>2, LenProperties
      <4>. HIDE DEF p, q
      <4>4. h[x + 1] \in V
        BY <1>2
      <4>5. /\ Append(p, h[x + 1]) \in Seq(V) /\ Len(Append(p, h[x + 1])) = m + 1
            /\ Append(p, h[x + 1])[m + 1] = h[x + 1]
            /\ \A k \in 1..m : Append(p, h[x + 1])[k] = p[k]
        BY <4>3, <4>4, AppendProperties
      <4>6. \A k \in 1..m + 1 : Append(p, h[x + 1])[k] = q[k]
        <5>. TAKE k \in 1..m + 1
        <5>1. k = m + 1 \/ k \in 1..m
          OBVIOUS
        <5>. QED  BY <3>2, <4>2, <4>3, <4>5, <5>1
      <4>7. Append(p, h[x + 1]) = q
        BY <4>2, <4>5, <4>6, SeqEqual
      <4>. QED  BY <2>2, <2>4, <4>7 DEF p, q
    <3>8. Q(x + 1, m + 1, d) /\ m + 1 \in Nat
      BY <3>6, <3>7
    <3>. HIDE DEF Q
    <3>. QED  BY <2>2, <3>8
  <2>. QED  BY <2>3, <2>4
<1>. HIDE DEF P
<1>3. 0 \in T /\ \A x \in Nat : x \in T => x + 1 \in T
  <2>1. \A x \in Nat : x + 1 <= n => x <= n
    OBVIOUS
  <2>. QED  BY <1>1, <1>2, <2>1
<1>4. Nat \subseteq T
  <2>. HIDE DEF T
  <2>. QED  BY <1>3, Sq!Induction
<1>5. P(n)
  BY <1>4
<1>. QED  BY <1>5 DEF P, Picked

\* A set of numbers has one enumeration.
LEMMA EnumerationStarts ==
  \A S \in SUBSET Nat : \A c, m, d, n :
     Enumerates(c, m, S) /\ Enumerates(d, n, S) => \A k \in 1..m : k <= n /\ c[k] = d[k]
<1>. SUFFICES ASSUME NEW S \in SUBSET Nat, NEW c, NEW m, Enumerates(c, m, S),
                     NEW d, NEW n, Enumerates(d, n, S)
              PROVE  \A k \in 1..m : k <= n /\ c[k] = d[k]
  OBVIOUS
<1>. DEFINE T == {x \in Nat : x <= m => x <= n /\ \A k \in 1..x : c[k] = d[k]}
<1>0. /\ m \in Nat /\ n \in Nat
      /\ \A k \in 1..m : c[k] \in S /\ c[k] \in Nat
      /\ \A k \in 1..n : d[k] \in S /\ d[k] \in Nat
  BY DEF Enumerates
<1>1. 0 \in T
  BY <1>0
<1>2. ASSUME NEW x \in Nat, x \in T
      PROVE  x + 1 \in T
  <2>. SUFFICES ASSUME x + 1 <= m
                PROVE  x + 1 <= n /\ \A k \in 1..x + 1 : c[k] = d[k]
    OBVIOUS
  <2>1. x <= n /\ \A k \in 1..x : c[k] = d[k]
    BY <1>0, <1>2
  <2>. HIDE DEF T
  <2>2. PICK q \in 1..n : d[q] = c[x + 1]
    BY <1>0 DEF Enumerates
  <2>3. ~ (q <= x)
    <3>. SUFFICES ASSUME q <= x
                  PROVE  FALSE
      OBVIOUS
    <3>1. q \in 1..x /\ q \in 1..m /\ x + 1 \in 1..m /\ q < x + 1
      BY <1>0
    <3>2. c[q] = c[x + 1]
      BY <2>1, <2>2, <3>1
    <3>3. c[q] < c[x + 1]
      BY <3>1 DEF Enumerates
    <3>. QED  BY <1>0, <3>1, <3>2, <3>3
  <2>4. x + 1 <= n /\ x + 1 \in 1..n /\ x + 1 \in 1..m
    BY <1>0, <2>3
  <2>5. d[x + 1] <= c[x + 1]
    <3>1. x + 1 = q \/ x + 1 < q
      BY <2>3
    <3>2. x + 1 < q => d[x + 1] < d[q]
      BY <2>4 DEF Enumerates
    <3>. QED  BY <1>0, <2>2, <2>4, <3>1, <3>2
  <2>6. PICK p \in 1..m : c[p] = d[x + 1]
    BY <1>0, <2>4 DEF Enumerates
  <2>7. ~ (p <= x)
    <3>. SUFFICES ASSUME p <= x
                  PROVE  FALSE
      OBVIOUS
    <3>1. p \in 1..x /\ p \in 1..n /\ p < x + 1
      BY <1>0, <2>1
    <3>2. d[p] = d[x + 1]
      BY <2>1, <2>6, <3>1
    <3>3. d[p] < d[x + 1]
      BY <2>4, <3>1 DEF Enumerates
    <3>. QED  BY <1>0, <2>4, <3>1, <3>2, <3>3
  <2>8. c[x + 1] <= d[x + 1]
    <3>1. x + 1 = p \/ x + 1 < p
      BY <2>7
    <3>2. x + 1 < p => c[x + 1] < c[p]
      BY <2>4 DEF Enumerates
    <3>. QED  BY <1>0, <2>4, <2>6, <3>1, <3>2
  <2>9. c[x + 1] = d[x + 1]
    BY <1>0, <2>4, <2>5, <2>8
  <2>10. \A k \in 1..x + 1 : k = x + 1 \/ k \in 1..x
    OBVIOUS
  <2>. QED  BY <2>1, <2>4, <2>9, <2>10
<1>. HIDE DEF T
<1>3. Nat \subseteq T
  BY <1>1, <1>2, Sq!Induction
<1>4. m \in T
  BY <1>0, <1>3
<1>5. m <= n /\ \A k \in 1..m : c[k] = d[k]
  BY <1>0, <1>4 DEF T
<1>. QED  BY <1>0, <1>5

\* Two enumerations of a set of numbers are the same.
LEMMA EnumerationUnique ==
  ASSUME NEW S, S \subseteq Nat, NEW c, NEW m, Enumerates(c, m, S),
         NEW d, NEW n, Enumerates(d, n, S)
  PROVE  m = n /\ c = d
<1>1. m \in Nat /\ n \in Nat /\ c \in [1..m -> S] /\ d \in [1..n -> S]
  BY DEF Enumerates
<1>2. \A k \in 1..m : k <= n /\ c[k] = d[k]
  BY EnumerationStarts
<1>3. \A k \in 1..n : k <= m /\ d[k] = c[k]
  BY EnumerationStarts
<1>4. m = n
  <2>1. m # 0 => m <= n
    <3>1. m # 0 => m \in 1..m
      BY <1>1
    <3>. QED  BY <1>2, <3>1
  <2>2. n # 0 => n <= m
    <3>1. n # 0 => n \in 1..n
      BY <1>1
    <3>. QED  BY <1>3, <3>1
  <2>. QED  BY <1>1, <2>1, <2>2
<1>. QED  BY <1>1, <1>2, <1>4

-----------------------------------------------------------------------------
(* The reader and the copy                                                 *)

\* p is what h holds at the positions in I, in their order.
Lists(p, h, I) ==
  \E e : Enumerates(e, Len(p), I) /\ \A k \in 1..Len(p) : p[k] = h[e[k]]

\* The same for positions that are all there.
LEMMA PickFacts ==
  ASSUME NEW V, NEW n \in Nat, NEW h \in [1..n -> V], NEW I, I \subseteq 1..n
  PROVE  Pick(n, I, h) \in Seq(V) /\ Lists(Pick(n, I, h), h, I)
<1>. DEFINE p == Pick(n, I, h)
<1>3. p \in Seq(V)
  BY PickEnumerates
<1>1. PICK m \in Nat : \E e : Enumerates(e, m, I \cap 1..n) /\ p = [k \in 1..m |-> h[e[k]]]
  <2>1. Picked(p, n, I, h)
    BY <1>3, PickEnumerates
  <2>. QED  BY <2>1 DEF Picked
<1>2. PICK e : Enumerates(e, m, I \cap 1..n) /\ p = [k \in 1..m |-> h[e[k]]]
  BY <1>1
<1>4. I \cap 1..n = I
  OBVIOUS
<1>. HIDE DEF p
<1>5. Len(p) = m
  BY <1>2, <1>3, LenProperties
<1>6. \A k \in 1..Len(p) : p[k] = h[e[k]]
  BY <1>2, <1>5
<1>7. Enumerates(e, Len(p), I)
  BY <1>2, <1>4, <1>5
<1>8. Lists(p, h, I)
  BY <1>6, <1>7 DEF Lists
<1>. QED  BY <1>3, <1>8 DEF p

\* A bounded nonempty set of numbers has a greatest member.
LEMMA MaxFacts ==
  ASSUME NEW S, S \subseteq Nat, S # {}, NEW n \in Nat, \A x \in S : x <= n
  PROVE  Max(S) \in S /\ \A x \in S : x <= Max(S)
<1>. DEFINE T == {u \in Nat : \A x \in S : x <= u}
<1>1. T # {} /\ T \subseteq Nat
  OBVIOUS
<1>2. PICK u \in T : \A y \in T : u <= y
  <2>. HIDE DEF T
  <2>. QED  BY <1>1, Sq!LeastNumber
<1>3. u \in Nat /\ \A x \in S : x <= u
  OBVIOUS
<1>4. u \in S
  <2>. SUFFICES ASSUME u \notin S
                PROVE  FALSE
    OBVIOUS
  <2>1. \A x \in S : x \in Nat /\ x < u
    BY <1>3
  <2>2. u # 0
    <3>1. PICK x \in S : TRUE
      OBVIOUS
    <3>. QED  BY <1>3, <2>1, <3>1
  <2>3. u - 1 \in Nat /\ \A x \in S : x <= u - 1
    BY <1>3, <2>1, <2>2
  <2>4. u - 1 \in T
    BY <2>3
  <2>. QED  BY <1>2, <1>3, <2>4
<1>5. \E x \in S : \A y \in S : x >= y
  BY <1>3, <1>4
<1>6. Max(S) \in S /\ \A y \in S : Max(S) >= y
  BY <1>5 DEF Max
<1>. QED  BY <1>6

-----------------------------------------------------------------------------
Records == [kind : Kinds, id : Nat \ {0}]
LineSet == [rec : Records, torn : BOOLEAN, ended : BOOLEAN]

\* The last lines the reader looks for are where they are said to be.
LEMMA LastLines ==
  ASSUME NEW f \in Seq(LineSet)
  PROVE  /\ LastSnapshotLine(f) \in 0..Len(f)
         /\ LastSnapshotLine(f) # 0 =>
              f[LastSnapshotLine(f)].ended /\ f[LastSnapshotLine(f)].rec.kind = "snap"
         /\ \A i \in 1..Len(f) : f[i].ended /\ f[i].rec.kind = "snap" => i <= LastSnapshotLine(f)
         /\ \A t : /\ DraftLastLine(f, t) \in 0..Len(f)
                   /\ LET d == DraftLastLine(f, t)
                      IN  d # 0 => f[d].rec.kind = t /\ (f[d].ended \/ ~f[d].torn)
                   /\ \A i \in 1..Len(f) : f[i].rec.kind = t /\ (f[i].ended \/ ~f[i].torn)
                                             => i <= DraftLastLine(f, t)
<1>1. Len(f) \in Nat
  BY LenProperties
<1>2. ASSUME NEW T \in SUBSET (1..Len(f))
      PROVE  /\ Max({0} \cup T) \in 0..Len(f)
             /\ Max({0} \cup T) # 0 => Max({0} \cup T) \in T
             /\ \A i \in T : i <= Max({0} \cup T)
  <2>. DEFINE S == {0} \cup T
  <2>1. S \subseteq Nat /\ S # {} /\ \A x \in S : x <= Len(f)
    BY <1>1
  <2>2. T \subseteq S /\ \A x \in S : x # 0 => x \in T
    OBVIOUS
  <2>3. S \subseteq 0..Len(f)
    BY <1>1
  <2>. HIDE DEF S
  <2>4. Max(S) \in S /\ \A x \in S : x <= Max(S)
    BY <1>1, <2>1, MaxFacts
  <2>5. Max(S) \in 0..Len(f) /\ (Max(S) # 0 => Max(S) \in T) /\ \A i \in T : i <= Max(S)
    BY <2>2, <2>3, <2>4
  <2>. QED  BY <2>5 DEF S
<1>3. /\ LastSnapshotLine(f) \in 0..Len(f)
      /\ LastSnapshotLine(f) # 0 =>
           f[LastSnapshotLine(f)].ended /\ f[LastSnapshotLine(f)].rec.kind = "snap"
      /\ \A i \in 1..Len(f) : f[i].ended /\ f[i].rec.kind = "snap" => i <= LastSnapshotLine(f)
  <2>. DEFINE T == {i \in 1..Len(f) : f[i].ended /\ f[i].rec.kind = "snap"}
  <2>1. T \in SUBSET (1..Len(f)) /\ LastSnapshotLine(f) = Max({0} \cup T)
    BY DEF LastSnapshotLine
  <2>2. /\ \A i \in T : f[i].ended /\ f[i].rec.kind = "snap"
        /\ \A i \in 1..Len(f) : f[i].ended /\ f[i].rec.kind = "snap" => i \in T
    OBVIOUS
  <2>. HIDE DEF T
  <2>. QED  BY <1>2, <2>1, <2>2
<1>4. ASSUME NEW t
      PROVE  /\ DraftLastLine(f, t) \in 0..Len(f)
             /\ DraftLastLine(f, t) # 0 =>
                  f[DraftLastLine(f, t)].rec.kind = t
                  /\ (f[DraftLastLine(f, t)].ended \/ ~f[DraftLastLine(f, t)].torn)
             /\ \A i \in 1..Len(f) : f[i].rec.kind = t /\ (f[i].ended \/ ~f[i].torn)
                                       => i <= DraftLastLine(f, t)
  <2>. DEFINE T == {i \in 1..Len(f) : f[i].rec.kind = t /\ (f[i].ended \/ ~f[i].torn)}
  <2>1. T \in SUBSET (1..Len(f)) /\ DraftLastLine(f, t) = Max({0} \cup T)
    BY DEF DraftLastLine
  <2>2. /\ \A i \in T : f[i].rec.kind = t /\ (f[i].ended \/ ~f[i].torn)
        /\ \A i \in 1..Len(f) : f[i].rec.kind = t /\ (f[i].ended \/ ~f[i].torn) => i \in T
    OBVIOUS
  <2>. HIDE DEF T
  <2>. QED  BY <1>2, <2>1, <2>2
<1>. QED  BY <1>3, <1>4

KeptAt(f) == {i \in 1..Len(f) : KeepLine(f, i)}
ReadAt(f) == {i \in 1..Len(f) : KeepLine(f, i) /\ ~f[i].torn}

\* The copy holds the kept lines, in order.
LEMMA KeptPositions ==
  ASSUME NEW f \in Seq(LineSet)
  PROVE  /\ KeptLines(f) \in Seq(LineSet)
         /\ \E e : /\ Enumerates(e, Len(KeptLines(f)), KeptAt(f))
                   /\ \A k \in 1..Len(KeptLines(f)) : KeptLines(f)[k] = f[e[k]]
<1>. DEFINE n == Len(f)
<1>1. n \in Nat /\ DOMAIN f = 1..n /\ f \in [1..n -> LineSet]
  BY LenProperties
<1>2. [i \in DOMAIN f |-> IF KeepLine(f, i) THEN <<f[i]>> ELSE <<>>]
        = [i \in 1..n |-> IF i \in KeptAt(f) THEN <<f[i]>> ELSE <<>>]
  BY <1>1 DEF KeptAt
<1>3. KeptLines(f) = Pick(n, KeptAt(f), f)
  BY <1>2 DEF KeptLines, Pick
<1>4. KeptAt(f) \subseteq 1..n
  BY DEF KeptAt
<1>. HIDE DEF n
<1>5. Pick(n, KeptAt(f), f) \in Seq(LineSet) /\ Lists(Pick(n, KeptAt(f), f), f, KeptAt(f))
  BY <1>1, <1>4, PickFacts
<1>. QED  BY <1>3, <1>5 DEF Lists

\* The reader yields the records of the kept whole lines, in order.
LEMMA ReadPositions ==
  ASSUME NEW f \in Seq(LineSet)
  PROVE  /\ Read(f) \in Seq(Records)
         /\ \E e : /\ Enumerates(e, Len(Read(f)), ReadAt(f))
                   /\ \A k \in 1..Len(Read(f)) : Read(f)[k] = f[e[k]].rec
<1>. DEFINE n == Len(f)
            h == [i \in 1..n |-> f[i].rec]
<1>1. n \in Nat /\ DOMAIN f = 1..n /\ f \in [1..n -> LineSet]
  BY LenProperties
<1>2. h \in [1..n -> Records]
  BY <1>1 DEF LineSet
<1>3. [i \in DOMAIN f |-> IF KeepLine(f, i) /\ ~f[i].torn THEN <<f[i].rec>> ELSE <<>>]
        = [i \in 1..n |-> IF i \in ReadAt(f) THEN <<h[i]>> ELSE <<>>]
  BY <1>1 DEF ReadAt
<1>4. Read(f) = Pick(n, ReadAt(f), h)
  BY <1>3 DEF Read, Pick
<1>5. ReadAt(f) \subseteq 1..n /\ \A i \in 1..n : h[i] = f[i].rec
  BY DEF ReadAt
<1>. HIDE DEF n, h
<1>6. Pick(n, ReadAt(f), h) \in Seq(Records) /\ Lists(Pick(n, ReadAt(f), h), h, ReadAt(f))
  BY <1>1, <1>2, <1>5, PickFacts
<1>7. PICK e : /\ Enumerates(e, Len(Read(f)), ReadAt(f))
               /\ \A k \in 1..Len(Read(f)) : Read(f)[k] = h[e[k]]
  BY <1>4, <1>6 DEF Lists
<1>8. \A k \in 1..Len(Read(f)) : e[k] \in 1..n
  BY <1>5, <1>7 DEF Enumerates
<1>9. \A k \in 1..Len(Read(f)) : Read(f)[k] = f[e[k]].rec
  BY <1>5, <1>7, <1>8
<1>. QED  BY <1>4, <1>6, <1>7, <1>9

\* What compact() leaves, compact() leaves again.
LEMMA KeptIsKept ==
  ASSUME NEW f \in Seq(LineSet), NEW k \in 1..Len(KeptLines(f))
  PROVE  KeepLine(KeptLines(f), k)
<1>. DEFINE g == KeptLines(f)
<1>1. PICK e : /\ Enumerates(e, Len(g), KeptAt(f))
               /\ \A j \in 1..Len(g) : g[j] = f[e[j]]
  BY KeptPositions
<1>2. g \in Seq(LineSet) /\ Len(g) \in Nat /\ Len(f) \in Nat
  BY KeptPositions, LenProperties
<1>. HIDE DEF g
<1>3. \A j \in 1..Len(g) : e[j] \in 1..Len(f) /\ KeepLine(f, e[j])
  BY <1>1 DEF Enumerates, KeptAt
<1>4. e[1] = 1 /\ g[1] = f[1]
  <2>0. k \in 1..Len(g) /\ 1 \in 1..Len(g) /\ e[k] \in 1..Len(f)
    BY <1>2, <1>3 DEF g
  <2>1. 1 \in KeptAt(f)
    BY <1>2, <2>0 DEF KeptAt, KeepLine
  <2>2. PICK j \in 1..Len(g) : e[j] = 1
    BY <1>1, <2>1 DEF Enumerates
  <2>3. j = 1
    <3>1. 1 < j => e[1] < e[j]
      BY <1>1, <2>0 DEF Enumerates
    <3>2. e[1] \in Nat /\ e[1] >= 1
      BY <1>3, <2>0
    <3>. QED  BY <1>2, <2>2, <3>1, <3>2
  <2>. QED  BY <1>1, <2>0, <2>2, <2>3
<1>5. HeaderIsCurrent(g) <=> HeaderIsCurrent(f)
  <2>1. Len(g) > 0 /\ Len(f) > 0
    BY <1>2, <1>3 DEF g
  <2>. QED  BY <1>4, <2>1 DEF HeaderIsCurrent
<1>6. CASE ~ HeaderIsCurrent(f)
  BY <1>5, <1>6 DEF KeepLine, g
<1>7. CASE HeaderIsCurrent(f) /\ k # 1
  <2>. DEFINE i == e[k]
              t == g[k].rec.kind
  <2>1. k \in 1..Len(g) /\ i \in 1..Len(f) /\ KeepLine(f, i) /\ g[k] = f[i]
    BY <1>1, <1>3 DEF g
  <2>2. i # 1
    <3>1. 1 \in 1..Len(g) /\ 1 < k
      BY <1>2, <1>7, <2>1
    <3>2. e[1] < e[k]
      BY <1>1, <2>1, <3>1 DEF Enumerates
    <3>. QED  BY <1>4, <2>1, <3>2
  <2>3. /\ f[i].rec.kind \in Turns => DraftLastLine(f, f[i].rec.kind) = i
        /\ ~(f[i].rec.kind = "fold" /\ i < LastSnapshotLine(f))
    BY <1>7, <2>1, <2>2 DEF KeepLine
  <2>4. ASSUME t \in Turns
        PROVE  DraftLastLine(g, t) = k
    <3>1. DraftLastLine(f, t) = i /\ i # 0
      BY <2>1, <2>3, <2>4
    <3>2. f[i].ended \/ ~f[i].torn
      BY <3>1, LastLines
    <3>3. k <= DraftLastLine(g, t)
      BY <1>2, <2>1, <3>2, LastLines
    <3>. DEFINE d == DraftLastLine(g, t)
    <3>4. d \in 1..Len(g) /\ g[d].rec.kind = t /\ (g[d].ended \/ ~g[d].torn)
      <4>1. d \in 0..Len(g) /\ (d # 0 => g[d].rec.kind = t /\ (g[d].ended \/ ~g[d].torn))
        BY <1>2, LastLines
      <4>2. d # 0
        BY <1>2, <2>1, <3>3, <4>1
      <4>. QED  BY <1>2, <4>1, <4>2
    <3>. HIDE DEF d
    <3>5. d # 1
      BY <1>4, <1>7, <2>4, <3>4, TurnsAssumption DEF HeaderIsCurrent
    <3>6. e[d] # 1
      <4>1. 1 \in 1..Len(g) /\ 1 < d
        BY <1>2, <3>4, <3>5
      <4>2. e[1] < e[d]
        BY <1>1, <3>4, <4>1 DEF Enumerates
      <4>. QED  BY <1>3, <1>4, <3>4, <4>2
    <3>7. g[d] = f[e[d]] /\ KeepLine(f, e[d])
      BY <1>1, <1>3, <3>4
    <3>8. DraftLastLine(f, t) = e[d]
      BY <1>7, <2>4, <3>4, <3>6, <3>7 DEF KeepLine
    <3>9. ~(k < d)
      <4>1. k < d => e[k] < e[d]
        BY <1>1, <2>1, <3>4 DEF Enumerates
      <4>. QED  BY <1>3, <2>1, <3>1, <3>8, <4>1
    <3>. QED  BY <1>2, <2>1, <3>3, <3>4, <3>9 DEF d
  <2>5. ~(t = "fold" /\ k < LastSnapshotLine(g))
    <3>. SUFFICES ASSUME t = "fold", k < LastSnapshotLine(g)
                  PROVE  FALSE
      OBVIOUS
    <3>. DEFINE d == LastSnapshotLine(g)
    <3>1. d \in 1..Len(g) /\ g[d].ended /\ g[d].rec.kind = "snap"
      <4>1. d \in 0..Len(g) /\ (d # 0 => g[d].ended /\ g[d].rec.kind = "snap")
        BY <1>2, LastLines
      <4>2. d # 0
        BY <1>2, <2>1, <4>1
      <4>. QED  BY <1>2, <4>1, <4>2
    <3>2. k < d
      OBVIOUS
    <3>. HIDE DEF d
    <3>3. e[k] < e[d] /\ g[d] = f[e[d]] /\ e[d] \in 1..Len(f)
      BY <1>1, <1>3, <2>1, <3>1, <3>2 DEF Enumerates
    <3>4. e[d] <= LastSnapshotLine(f) /\ LastSnapshotLine(f) \in 0..Len(f)
      BY <3>1, <3>3, LastLines
    <3>5. i < LastSnapshotLine(f)
      BY <1>2, <2>1, <3>3, <3>4
    <3>. QED  BY <2>1, <2>3, <3>5
  <2>. QED  BY <2>4, <2>5 DEF KeepLine, g
<1>. QED  BY <1>6, <1>7 DEF KeepLine

\* Compacting a log does not change what it says.
LEMMA CompactedReads ==
  ASSUME NEW f \in Seq(LineSet)
  PROVE  Read(KeptLines(f)) = Read(f)
<1>. DEFINE g == KeptLines(f)
            a == Read(f)
            b == Read(g)
<1>1. PICK e : /\ Enumerates(e, Len(g), KeptAt(f))
               /\ \A j \in 1..Len(g) : g[j] = f[e[j]]
  BY KeptPositions
<1>2. g \in Seq(LineSet)
  BY KeptPositions
<1>3. \A j \in 1..Len(g) : KeepLine(g, j)
  BY KeptIsKept
<1>. HIDE DEF g
<1>4. PICK c : /\ Enumerates(c, Len(a), ReadAt(f))
               /\ \A k \in 1..Len(a) : a[k] = f[c[k]].rec
  BY ReadPositions
<1>5. PICK d : /\ Enumerates(d, Len(b), ReadAt(g))
               /\ \A k \in 1..Len(b) : b[k] = g[d[k]].rec
  BY <1>2, ReadPositions
<1>6. a \in Seq(Records) /\ b \in Seq(Records)
  BY <1>2, ReadPositions
<1>. HIDE DEF a, b
<1>7. \A k \in 1..Len(b) : d[k] \in 1..Len(g) /\ ~g[d[k]].torn
  BY <1>5 DEF Enumerates, ReadAt
<1>. DEFINE ed == [k \in 1..Len(b) |-> e[d[k]]]
<1>8. Enumerates(ed, Len(b), ReadAt(f))
  <2>1. Len(b) \in Nat
    BY <1>6, LenProperties
  <2>2. \A j \in 1..Len(g) : e[j] \in 1..Len(f) /\ KeepLine(f, e[j])
    BY <1>1 DEF Enumerates, KeptAt
  <2>3. \A k \in 1..Len(b) : ed[k] = e[d[k]]
    OBVIOUS
  <2>4. ed \in [1..Len(b) -> ReadAt(f)]
    <3>1. \A k \in 1..Len(b) : e[d[k]] \in ReadAt(f)
      BY <1>1, <1>7, <2>2 DEF ReadAt
    <3>. QED  BY <3>1
  <2>. HIDE DEF ed
  <2>5. ASSUME NEW j \in 1..Len(b), NEW k \in 1..Len(b), j < k
        PROVE  ed[j] < ed[k]
    <3>1. d[j] < d[k]
      BY <1>5, <2>5 DEF Enumerates
    <3>2. e[d[j]] < e[d[k]]
      BY <1>1, <1>7, <3>1 DEF Enumerates
    <3>. QED  BY <2>3, <3>2
  <2>6. ASSUME NEW x \in ReadAt(f)
        PROVE  \E k \in 1..Len(b) : ed[k] = x
    <3>1. x \in KeptAt(f) /\ ~f[x].torn
      BY DEF ReadAt, KeptAt
    <3>2. PICK j \in 1..Len(g) : e[j] = x
      BY <1>1, <3>1 DEF Enumerates
    <3>3. j \in ReadAt(g)
      BY <1>1, <1>3, <3>1, <3>2 DEF ReadAt
    <3>4. PICK k \in 1..Len(b) : d[k] = j
      BY <1>5, <3>3 DEF Enumerates
    <3>. QED  BY <2>3, <3>2, <3>4
  <2>. QED  BY <2>1, <2>4, <2>5, <2>6 DEF Enumerates
<1>9. ReadAt(f) \in SUBSET Nat
  BY LenProperties DEF ReadAt
<1>10. Len(a) = Len(b) /\ c = ed
  BY <1>4, <1>8, <1>9, EnumerationUnique
<1>11. \A k \in 1..Len(a) : a[k] = b[k]
  <2>. TAKE k \in 1..Len(a)
  <2>1. a[k] = f[e[d[k]]].rec
    BY <1>4, <1>10
  <2>2. b[k] = f[e[d[k]]].rec
    BY <1>1, <1>5, <1>7, <1>10
  <2>. QED  BY <2>1, <2>2
<1>12. a = b
  BY <1>6, <1>10, <1>11, SeqEqual
<1>. QED  BY <1>12 DEF a, b, g

-----------------------------------------------------------------------------
(* The records that count                                                  *)

\* A record as the migration of an old log leaves it.
Migrated(r) == IF r.kind = "old" THEN [r EXCEPT !.kind = "meta"] ELSE r

\* The records of a log, and those the first k lines of a file hold whole.
Recs(rs) == {Migrated(rs[i]) : i \in DOMAIN rs}
Whole(f, k) == {Migrated(f[i].rec) : i \in {j \in 1..k : ~f[j].torn}}

Supersedes(q, r) ==
  /\ q.id > r.id
  /\ \/ r.kind \in Turns /\ q.kind = r.kind
     \/ r.kind = "fold" /\ q.kind = "snap"

\* The records that count.
Live(R) == {r \in R : \A q \in R : ~Supersedes(q, r)}

Sorted(rs) == \A i, j \in DOMAIN rs : i < j => rs[i].id < rs[j].id
SortedLines(f) == \A i, j \in DOMAIN f : i < j => f[i].rec.id < f[j].rec.id

\* What a crash may leave when no line was continued: only the tail lacks its newline,
\* and only such a tail is torn.
Clean(f) == \A i \in DOMAIN f : (f[i].torn => ~f[i].ended) /\ (i < Len(f) => f[i].ended)

\* Migration changes no number and no kind that folding looks at.
LEMMA MigratedFacts ==
  ASSUME NEW r \in Records
  PROVE  /\ Migrated(r) \in Records
         /\ Migrated(r).id = r.id /\ r.id \in Nat /\ r.id # 0
         /\ \A t \in Turns : Migrated(r).kind = t <=> r.kind = t
         /\ Migrated(r).kind = "fold" <=> r.kind = "fold"
         /\ Migrated(r).kind = "snap" <=> r.kind = "snap"
<1>1. r.kind \in Kinds /\ r.id \in Nat /\ r.id # 0
  BY DEF Records
<1>2. "meta" \in Kinds /\ \A t \in Turns : t # "old" /\ t # "meta"
  BY TurnsAssumption DEF Kinds
<1>3. CASE r.kind = "old"
  <2>1. Migrated(r) = [r EXCEPT !.kind = "meta"]
    BY <1>3 DEF Migrated
  <2>2. Migrated(r).kind = "meta" /\ Migrated(r).id = r.id
    BY <2>1 DEF Records
  <2>3. Migrated(r) \in Records
    BY <1>2, <2>1 DEF Records
  <2>. QED  BY <1>1, <1>2, <1>3, <2>2, <2>3
<1>4. CASE r.kind # "old"
  BY <1>1, <1>4 DEF Migrated
<1>. QED  BY <1>3, <1>4

\* The records of a log are at its places.
LEMMA RecsFacts ==
  ASSUME NEW rs \in Seq(Records)
  PROVE  /\ Recs(rs) \subseteq Records
         /\ \A r \in Recs(rs) : \E i \in 1..Len(rs) : r = Migrated(rs[i]) /\ r.id = rs[i].id
         /\ \A i \in 1..Len(rs) : /\ rs[i] \in Records /\ rs[i].id \in Nat \ {0}
                                  /\ Migrated(rs[i]) \in Recs(rs) /\ Migrated(rs[i]).id = rs[i].id
<1>1. Len(rs) \in Nat /\ DOMAIN rs = 1..Len(rs) /\ \A i \in 1..Len(rs) : rs[i] \in Records
  BY LenProperties, ElementOfSeq
<1>2. \A i \in 1..Len(rs) : /\ Migrated(rs[i]) \in Records /\ Migrated(rs[i]).id = rs[i].id
                            /\ rs[i].id \in Nat \ {0}
  BY <1>1, MigratedFacts
<1>. QED  BY <1>1, <1>2 DEF Recs

\* The whole records of a file are on its untorn lines.
LEMMA WholeFacts ==
  ASSUME NEW f \in Seq(LineSet), NEW n \in 0..Len(f)
  PROVE  /\ Whole(f, n) \subseteq Records
         /\ \A r \in Whole(f, n) : \E i \in 1..n : ~f[i].torn /\ r = Migrated(f[i].rec) /\ r.id = f[i].rec.id
         /\ \A i \in 1..n : /\ f[i] \in LineSet /\ f[i].rec \in Records /\ f[i].rec.id \in Nat \ {0}
                            /\ Migrated(f[i].rec).id = f[i].rec.id
                            /\ ~f[i].torn => Migrated(f[i].rec) \in Whole(f, n)
<1>1. Len(f) \in Nat /\ DOMAIN f = 1..Len(f) /\ \A i \in 1..Len(f) : f[i] \in LineSet
  BY LenProperties, ElementOfSeq
<1>2. \A i \in 1..n : f[i] \in LineSet /\ f[i].rec \in Records
  BY <1>1 DEF LineSet
<1>3. \A i \in 1..n : /\ Migrated(f[i].rec) \in Records /\ Migrated(f[i].rec).id = f[i].rec.id
                      /\ f[i].rec.id \in Nat \ {0}
  BY <1>2, MigratedFacts
<1>4. ASSUME NEW i \in 1..n, ~f[i].torn
      PROVE  Migrated(f[i].rec) \in Whole(f, n)
  BY <1>4 DEF Whole
<1>5. ASSUME NEW r \in Whole(f, n)
      PROVE  /\ r \in Records
             /\ \E i \in 1..n : ~f[i].torn /\ r = Migrated(f[i].rec) /\ r.id = f[i].rec.id
  BY <1>3 DEF Whole
<1>. QED  BY <1>2, <1>3, <1>4, <1>5

\* What supersedes is superseded with what it superseded.
LEMMA SupersedesFacts ==
  ASSUME NEW p \in Records, NEW q \in Records, NEW r \in Records,
         Supersedes(p, q), Supersedes(q, r)
  PROVE  Supersedes(p, r)
<1>1. "snap" \notin Turns /\ "fold" \notin Turns
  BY TurnsAssumption
<1>2. p.id \in Nat /\ q.id \in Nat /\ r.id \in Nat
  BY DEF Records
<1>. QED  BY <1>1, <1>2 DEF Supersedes

\* Dropping what something that stays supersedes changes nothing that counts.
LEMMA LiveSame ==
  ASSUME NEW A, NEW B, A \subseteq B, B \subseteq Records,
         \A r \in B \ A : \E q \in A : Supersedes(q, r)
  PROVE  Live(A) = Live(B)
<1>1. ASSUME NEW r \in Live(A), NEW q \in B, Supersedes(q, r)
      PROVE  FALSE
  <2>1. r \in A /\ \A p \in A : ~Supersedes(p, r)
    BY DEF Live
  <2>2. PICK p \in A : Supersedes(p, q)
    BY <1>1, <2>1
  <2>3. Supersedes(p, r)
    <3>1. p \in Records /\ q \in Records /\ r \in Records
      BY <2>1
    <3>. QED  BY <1>1, <2>2, <3>1, SupersedesFacts
  <2>. QED  BY <2>1, <2>3
<1>2. \A r \in Live(A) : r \in Live(B)
  BY <1>1 DEF Live
<1>3. \A r \in Live(B) : r \in Live(A)
  BY DEF Live
<1>. QED  BY <1>2, <1>3

\* Two logs that say the same still do when the same records follow.
LEMMA LiveExtends ==
  \A A, B, X \in SUBSET Records :
     Live(A) = Live(B) /\ (\A p \in A \cup B, x \in X : ~Supersedes(p, x))
       => Live(A \cup X) = Live(B \cup X)
<1>. SUFFICES ASSUME NEW A \in SUBSET Records, NEW B \in SUBSET Records, NEW X \in SUBSET Records,
                     Live(A) = Live(B), \A p \in A \cup B, x \in X : ~Supersedes(p, x)
              PROVE  Live(A \cup X) = Live(B \cup X)
  OBVIOUS
<1>1. ASSUME NEW C, NEW D, Live(C) = Live(D), C \subseteq A \cup B, D \subseteq A \cup B,
             NEW r \in Live(C \cup X)
      PROVE  r \in Live(D \cup X)
  <2>1. r \in C \cup X /\ \A q \in C \cup X : ~Supersedes(q, r)
    BY DEF Live
  <2>3. CASE r \in X
    BY <1>1, <2>1, <2>3 DEF Live
  <2>4. CASE r \in C
    <3>1. r \in Live(C)
      BY <2>1, <2>4 DEF Live
    <3>2. r \in D /\ \A q \in D : ~Supersedes(q, r)
      BY <1>1, <3>1 DEF Live
    <3>. QED  BY <2>1, <3>2 DEF Live
  <2>. QED  BY <2>1, <2>3, <2>4
<1>2. A \subseteq A \cup B /\ B \subseteq A \cup B
  OBVIOUS
<1>3. \A r \in Live(A \cup X) : r \in Live(B \cup X)
  BY <1>1, <1>2
<1>4. \A r \in Live(B \cup X) : r \in Live(A \cup X)
  BY <1>1, <1>2
<1>. QED  BY <1>3, <1>4

\* The reader skips only what something it yields supersedes.
LEMMA ReadKeeps ==
  ASSUME NEW f \in Seq(LineSet), Clean(f), SortedLines(f)
  PROVE  /\ Recs(Read(f)) \subseteq Whole(f, Len(f))
         /\ \A r \in Whole(f, Len(f)) \ Recs(Read(f)) : \E q \in Recs(Read(f)) : Supersedes(q, r)
         /\ Sorted(Read(f))
         /\ \A k \in 1..Len(Read(f)) : \E i \in 1..Len(f) : KeepLine(f, i) /\ ~f[i].torn /\ Read(f)[k] = f[i].rec
<1>. DEFINE rs == Read(f)
            n == Len(f)
<1>1. PICK e : /\ Enumerates(e, Len(rs), ReadAt(f))
               /\ \A k \in 1..Len(rs) : rs[k] = f[e[k]].rec
  BY ReadPositions
<1>2. rs \in Seq(Records) /\ n \in Nat /\ Len(rs) \in Nat /\ DOMAIN rs = 1..Len(rs)
      /\ DOMAIN f = 1..n
  BY ReadPositions, LenProperties
<1>. HIDE DEF rs
<1>3. \A k \in 1..Len(rs) : e[k] \in 1..n /\ KeepLine(f, e[k]) /\ ~f[e[k]].torn
  BY <1>1 DEF Enumerates, ReadAt
<1>4. /\ Whole(f, n) \subseteq Records
      /\ \A r \in Whole(f, n) : \E i \in 1..n : ~f[i].torn /\ r = Migrated(f[i].rec) /\ r.id = f[i].rec.id
      /\ \A i \in 1..n : /\ f[i] \in LineSet /\ f[i].rec \in Records /\ f[i].rec.id \in Nat \ {0}
                         /\ Migrated(f[i].rec).id = f[i].rec.id
                         /\ ~f[i].torn => Migrated(f[i].rec) \in Whole(f, n)
  <2>1. n \in 0..Len(f)
    BY <1>2
  <2>. QED  BY <2>1, WholeFacts
<1>5. \A i \in ReadAt(f) : Migrated(f[i].rec) \in Recs(rs)
  <2>. TAKE i \in ReadAt(f)
  <2>1. PICK k \in 1..Len(rs) : e[k] = i
    BY <1>1 DEF Enumerates
  <2>. QED  BY <1>1, <1>2, <2>1 DEF Recs
<1>6. Recs(rs) \subseteq Whole(f, n)
  BY <1>1, <1>2, <1>3, <1>4, SMTT(30) DEF Recs
<1>7. Sorted(rs)
  <2>. SUFFICES ASSUME NEW j \in 1..Len(rs), NEW k \in 1..Len(rs), j < k
                PROVE  rs[j].id < rs[k].id
    BY <1>2 DEF Sorted
  <2>1. e[j] < e[k]
    BY <1>1 DEF Enumerates
  <2>. QED  BY <1>1, <1>2, <1>3, <2>1 DEF SortedLines
<1>8. ASSUME NEW r \in Whole(f, n), r \notin Recs(rs)
      PROVE  \E q \in Recs(rs) : Supersedes(q, r)
  <2>1. PICK i \in 1..n : ~f[i].torn /\ r = Migrated(f[i].rec) /\ r.id = f[i].rec.id
    BY <1>4
  <2>2. ~KeepLine(f, i)
    BY <1>5, <1>8, <2>1 DEF ReadAt
  <2>3. /\ i # 1 /\ HeaderIsCurrent(f)
        /\ \/ f[i].rec.kind \in Turns /\ DraftLastLine(f, f[i].rec.kind) # i
           \/ f[i].rec.kind = "fold" /\ i < LastSnapshotLine(f)
    BY <2>2 DEF KeepLine
  <2>4. f[i].rec \in Records
    BY <1>4
  <2>5. CASE f[i].rec.kind \in Turns /\ DraftLastLine(f, f[i].rec.kind) # i
    <3>. DEFINE t == f[i].rec.kind
                d == DraftLastLine(f, t)
    <3>1. /\ d \in 0..n /\ (d # 0 => f[d].rec.kind = t /\ (f[d].ended \/ ~f[d].torn)) /\ i <= d
      <4>1. d \in 0..n /\ (d # 0 => f[d].rec.kind = t /\ (f[d].ended \/ ~f[d].torn))
        BY LastLines
      <4>2. i <= d
        BY <2>1, LastLines
      <4>. QED  BY <4>1, <4>2
    <3>2. d \in 1..n /\ i < d /\ f[d].rec.kind = t /\ ~f[d].torn
      BY <1>2, <2>5, <3>1 DEF Clean
    <3>3. KeepLine(f, d)
      BY <2>5, <3>2, TurnsAssumption DEF KeepLine
    <3>. HIDE DEF d
    <3>4. Migrated(f[d].rec) \in Recs(rs)
      BY <1>5, <3>2, <3>3 DEF ReadAt
    <3>5. f[i].rec.id < f[d].rec.id
      BY <1>2, <3>2 DEF SortedLines
    <3>6. Migrated(f[d].rec).kind = t /\ r.kind = t /\ Migrated(f[d].rec).id = f[d].rec.id
      BY <1>4, <2>1, <2>4, <2>5, <3>2, MigratedFacts
    <3>7. Supersedes(Migrated(f[d].rec), r)
      BY <1>4, <2>1, <2>5, <3>2, <3>5, <3>6 DEF Supersedes
    <3>. QED  BY <3>4, <3>7
  <2>6. CASE f[i].rec.kind = "fold" /\ i < LastSnapshotLine(f)
    <3>. DEFINE d == LastSnapshotLine(f)
    <3>1. d \in 0..n /\ (d # 0 => f[d].ended /\ f[d].rec.kind = "snap")
      BY LastLines
    <3>2. d \in 1..n /\ i < d /\ f[d].rec.kind = "snap" /\ ~f[d].torn
      BY <1>2, <2>6, <3>1 DEF Clean
    <3>3. KeepLine(f, d)
      BY <3>2, TurnsAssumption DEF KeepLine
    <3>. HIDE DEF d
    <3>4. Migrated(f[d].rec) \in Recs(rs)
      BY <1>5, <3>2, <3>3 DEF ReadAt
    <3>5. f[i].rec.id < f[d].rec.id
      BY <1>2, <3>2 DEF SortedLines
    <3>6. Migrated(f[d].rec).kind = "snap" /\ r.kind = "fold" /\ Migrated(f[d].rec).id = f[d].rec.id
      BY <1>4, <2>1, <2>4, <2>6, <3>2, MigratedFacts
    <3>7. Supersedes(Migrated(f[d].rec), r)
      BY <1>4, <2>1, <3>2, <3>5, <3>6 DEF Supersedes
    <3>. QED  BY <3>4, <3>7
  <2>. QED  BY <2>3, <2>5, <2>6
<1>9. \A k \in 1..Len(rs) : \E i \in 1..n : KeepLine(f, i) /\ ~f[i].torn /\ rs[k] = f[i].rec
  BY <1>1, <1>3
<1>. QED  BY <1>6, <1>7, <1>8, <1>9 DEF rs

\* A resume restores the records that count, by their numbers.
LEMMA EffectiveLists ==
  ASSUME NEW rs \in Seq(Records), Sorted(rs)
  PROVE  /\ Effective(rs) \in Seq(Nat)
         /\ Enumerates(Effective(rs), Len(Effective(rs)), {r.id : r \in Live(Recs(rs))})
<1>. DEFINE n == Len(rs)
            h == [i \in 1..n |-> rs[i].id]
            Superseded(i) ==
               \/ rs[i].kind \in Turns /\ \E j \in i+1..n : rs[j].kind = rs[i].kind
               \/ rs[i].kind = "fold" /\ \E j \in i+1..n : rs[j].kind = "snap"
            I == {i \in 1..n : ~Superseded(i)}
            S == {r.id : r \in Live(Recs(rs))}
            p == Effective(rs)
<1>1. n \in Nat /\ DOMAIN rs = 1..n
  BY LenProperties
<1>2. /\ Recs(rs) \subseteq Records
      /\ \A r \in Recs(rs) : \E i \in 1..n : r = Migrated(rs[i]) /\ r.id = rs[i].id
      /\ \A i \in 1..n : /\ rs[i] \in Records /\ rs[i].id \in Nat \ {0}
                         /\ Migrated(rs[i]) \in Recs(rs) /\ Migrated(rs[i]).id = rs[i].id
  BY RecsFacts
<1>3. [i \in DOMAIN rs |-> IF Superseded(i) THEN <<>> ELSE <<rs[i].id>>]
        = [i \in 1..n |-> IF i \in I THEN <<h[i]>> ELSE <<>>]
  BY <1>1
<1>4. p = Pick(n, I, h)
  BY <1>3 DEF Effective, Pick
<1>5. h \in [1..n -> Nat] /\ I \subseteq 1..n /\ \A i \in 1..n : h[i] = rs[i].id
  BY <1>2
<1>6. \A i \in 1..n : i \in I <=> Migrated(rs[i]) \in Live(Recs(rs))
  <2>. TAKE i \in 1..n
  <2>1. ASSUME NEW j \in 1..n
        PROVE  Supersedes(Migrated(rs[j]), Migrated(rs[i])) <=>
                 /\ j \in i+1..n
                 /\ \/ rs[i].kind \in Turns /\ rs[j].kind = rs[i].kind
                    \/ rs[i].kind = "fold" /\ rs[j].kind = "snap"
    <3>1. rs[j].id > rs[i].id <=> j \in i+1..n
      <4>1. CASE i < j
        BY <1>1, <1>2, <4>1 DEF Sorted
      <4>2. CASE i = j
        BY <1>1, <1>2, <4>2
      <4>3. CASE j < i
        <5>1. rs[j].id < rs[i].id
          BY <1>1, <4>3 DEF Sorted
        <5>. QED  BY <1>2, <4>3, <5>1
      <4>. QED  BY <1>1, <4>1, <4>2, <4>3
    <3>2. /\ \A t \in Turns : Migrated(rs[j]).kind = t <=> rs[j].kind = t
          /\ \A t \in Turns : Migrated(rs[i]).kind = t <=> rs[i].kind = t
          /\ Migrated(rs[i]).kind = "fold" <=> rs[i].kind = "fold"
          /\ Migrated(rs[j]).kind = "snap" <=> rs[j].kind = "snap"
      BY <1>2, MigratedFacts
    <3>3. Migrated(rs[i]).id = rs[i].id /\ Migrated(rs[j]).id = rs[j].id
      BY <1>2
    <3>4. Migrated(rs[i]).kind \in Turns /\ Migrated(rs[j]).kind = Migrated(rs[i]).kind
            <=> rs[i].kind \in Turns /\ rs[j].kind = rs[i].kind
      BY <3>2
    <3>. QED  BY <3>1, <3>2, <3>3, <3>4 DEF Supersedes
  <2>2. Superseded(i) <=> \E j \in 1..n : Supersedes(Migrated(rs[j]), Migrated(rs[i]))
    <3>1. \A j \in i+1..n : j \in 1..n
      BY <1>1
    <3>. QED  BY <2>1, <3>1
  <2>3. (\E j \in 1..n : Supersedes(Migrated(rs[j]), Migrated(rs[i])))
           <=> \E q \in Recs(rs) : Supersedes(q, Migrated(rs[i]))
    BY <1>2
  <2>4. Migrated(rs[i]) \in Recs(rs)
    BY <1>2
  <2>. HIDE DEF Superseded
  <2>. QED  BY <2>2, <2>3, <2>4 DEF Live
<1>. HIDE DEF n, h, I, p
<1>7. p \in Seq(Nat) /\ Lists(p, h, I)
  BY <1>1, <1>4, <1>5, PickFacts
<1>8. PICK e : Enumerates(e, Len(p), I) /\ \A k \in 1..Len(p) : p[k] = h[e[k]]
  BY <1>7 DEF Lists
<1>9. p \in Seq(Nat) /\ Len(p) \in Nat /\ DOMAIN p = 1..Len(p)
  BY <1>7, LenProperties
<1>10. \A k \in 1..Len(p) : e[k] \in I /\ e[k] \in 1..n /\ p[k] = rs[e[k]].id
  BY <1>5, <1>8 DEF Enumerates
<1>11. \A k \in 1..Len(p) : p[k] \in S
  <2>. TAKE k \in 1..Len(p)
  <2>1. Migrated(rs[e[k]]) \in Live(Recs(rs)) /\ Migrated(rs[e[k]]).id = p[k]
    BY <1>2, <1>6, <1>10
  <2>. QED  BY <2>1
<1>12. p \in [1..Len(p) -> S]
  BY <1>9, <1>11
<1>13. \A j, k \in 1..Len(p) : j < k => p[j] < p[k]
  <2>. SUFFICES ASSUME NEW j \in 1..Len(p), NEW k \in 1..Len(p), j < k
                PROVE  p[j] < p[k]
    OBVIOUS
  <2>1. e[j] < e[k]
    BY <1>8 DEF Enumerates
  <2>. QED  BY <1>1, <1>10, <2>1 DEF Sorted
<1>14. \A x \in S : \E k \in 1..Len(p) : p[k] = x
  <2>. SUFFICES ASSUME NEW r \in Live(Recs(rs))
                PROVE  \E k \in 1..Len(p) : p[k] = r.id
    OBVIOUS
  <2>1. r \in Recs(rs)
    BY DEF Live
  <2>2. PICK i \in 1..n : r = Migrated(rs[i]) /\ r.id = rs[i].id
    BY <1>2, <2>1
  <2>3. i \in I
    BY <1>6, <2>2
  <2>4. PICK k \in 1..Len(p) : e[k] = i
    BY <1>8, <2>3 DEF Enumerates
  <2>. QED  BY <1>10, <2>2, <2>4
<1>15. Enumerates(p, Len(p), S)
  <2>. HIDE DEF S
  <2>. QED  BY <1>9, <1>12, <1>13, <1>14 DEF Enumerates
<1>. QED  BY <1>9, <1>15 DEF p

\* Logs with the same records that count restore to the same.
LEMMA EffectiveSame ==
  ASSUME NEW rs \in Seq(Records), Sorted(rs), NEW ss \in Seq(Records), Sorted(ss),
         Live(Recs(rs)) = Live(Recs(ss))
  PROVE  Effective(rs) = Effective(ss)
<1>. DEFINE S == {r.id : r \in Live(Recs(rs))}
            a == Effective(rs)
            b == Effective(ss)
<1>1. a \in Seq(Nat) /\ Enumerates(a, Len(a), S)
  BY EffectiveLists
<1>2. b \in Seq(Nat) /\ Enumerates(b, Len(b), S)
  <2>1. b \in Seq(Nat) /\ Enumerates(b, Len(b), {r.id : r \in Live(Recs(ss))})
    BY EffectiveLists
  <2>. QED  BY <2>1
<1>3. S \in SUBSET Nat
  <2>1. Recs(rs) \subseteq Records
    BY RecsFacts
  <2>. QED  BY <2>1 DEF Live, Records
<1>. HIDE DEF a, b, S
<1>. QED  BY <1>1, <1>2, <1>3, EnumerationUnique DEF a, b

-----------------------------------------------------------------------------
(* Lines, logs and queues *)

\* The records at the first m places of a log.
Firsts(rs, m) == {Migrated(rs[i]) : i \in 1..m}

\* A log's records are those at all its places.
LEMMA FirstsFacts ==
  ASSUME NEW rs \in Seq(Records)
  PROVE  /\ Recs(rs) = Firsts(rs, Len(rs)) /\ Firsts(rs, 0) = {}
         /\ Len(rs) \in Nat
         /\ \A m \in 0..Len(rs) : Firsts(rs, m) \subseteq Recs(rs)
<1>1. Len(rs) \in Nat /\ DOMAIN rs = 1..Len(rs)
  BY LenProperties
<1>2. Firsts(rs, 0) = {}
  BY DEF Firsts
<1>3. \A m \in 0..Len(rs) : 1..m \subseteq 1..Len(rs)
  BY <1>1
<1>. QED  BY <1>1, <1>2, <1>3 DEF Firsts, Recs

\* A log and another after it hold the records of both.
LEMMA RecsConcat ==
  ASSUME NEW rs \in Seq(Records), NEW ss \in Seq(Records)
  PROVE  /\ rs \o ss \in Seq(Records) /\ Len(rs \o ss) = Len(rs) + Len(ss)
         /\ Recs(rs \o ss) = Recs(rs) \cup Recs(ss)
         /\ \A i \in 1..Len(rs) : (rs \o ss)[i] = rs[i]
         /\ \A i \in 1..Len(ss) : (rs \o ss)[Len(rs) + i] = ss[i]
<1>. DEFINE q == rs \o ss
            n == Len(rs)
            m == Len(ss)
<1>1. /\ n \in Nat /\ m \in Nat /\ DOMAIN rs = 1..n /\ DOMAIN ss = 1..m
      /\ q \in Seq(Records) /\ Len(q) = n + m
      /\ \A i \in 1..n + m : q[i] = IF i <= n THEN rs[i] ELSE ss[i - n]
  BY LenProperties, ConcatProperties
<1>2. DOMAIN q = 1..n + m
  BY <1>1, LenProperties
<1>. HIDE DEF q, n, m
<1>3. \A i \in 1..n : q[i] = rs[i] /\ i \in 1..n + m
  BY <1>1
<1>4. \A i \in 1..m : q[n + i] = ss[i] /\ n + i \in 1..n + m
  <2>. TAKE i \in 1..m
  <2>1. n + i \in 1..n + m /\ ~(n + i <= n) /\ (n + i) - n = i
    BY <1>1
  <2>. QED  BY <1>1, <2>1
<1>5. \A i \in 1..n + m : i \in 1..n \/ \E j \in 1..m : i = n + j
  <2>. TAKE i \in 1..n + m
  <2>1. i \in 1..n \/ i - n \in 1..m
    BY <1>1
  <2>. QED  BY <1>1, <2>1
<1>6. Recs(q) = Recs(rs) \cup Recs(ss)
  <2>1. \A i \in 1..n + m : Migrated(q[i]) \in Recs(rs) \cup Recs(ss)
    BY <1>1, <1>3, <1>4, <1>5 DEF Recs
  <2>2. \A i \in 1..n : Migrated(rs[i]) \in Recs(q)
    BY <1>2, <1>3 DEF Recs
  <2>3. \A i \in 1..m : Migrated(ss[i]) \in Recs(q)
    BY <1>2, <1>4 DEF Recs
  <2>. QED  BY <1>1, <1>2, <2>1, <2>2, <2>3 DEF Recs
<1>. QED  BY <1>1, <1>3, <1>4, <1>6 DEF q, n, m

\* In a sorted queue, what has a number up to that of its m-th record is at its first m
\* places.
LEMMA SortedFirsts ==
  ASSUME NEW rs \in Seq(Records), Sorted(rs), NEW m \in 1..Len(rs)
  PROVE  Firsts(rs, m) = {r \in Recs(rs) : r.id <= rs[m].id}
<1>1. /\ \A r \in Recs(rs) : \E i \in 1..Len(rs) : r = Migrated(rs[i]) /\ r.id = rs[i].id
      /\ \A i \in 1..Len(rs) : /\ rs[i] \in Records /\ rs[i].id \in Nat \ {0}
                               /\ Migrated(rs[i]) \in Recs(rs) /\ Migrated(rs[i]).id = rs[i].id
  BY RecsFacts
<1>2. Len(rs) \in Nat /\ DOMAIN rs = 1..Len(rs)
  BY LenProperties
<1>3. ASSUME NEW i \in 1..Len(rs)
      PROVE  rs[i].id <= rs[m].id <=> i \in 1..m
  <2>1. i < m => rs[i].id < rs[m].id
    BY <1>2 DEF Sorted
  <2>2. m < i => rs[m].id < rs[i].id
    BY <1>2 DEF Sorted
  <2>3. rs[i].id \in Nat /\ rs[m].id \in Nat
    BY <1>1
  <2>4. CASE i < m
    BY <1>2, <2>1, <2>3, <2>4
  <2>5. CASE m < i
    BY <1>2, <2>2, <2>3, <2>5
  <2>6. CASE i = m
    BY <1>2, <2>3, <2>6
  <2>. QED  BY <1>2, <2>4, <2>5, <2>6
<1>4. \A i \in 1..m : i \in 1..Len(rs)
  BY <1>2
<1>5. \A r \in Firsts(rs, m) : r \in Recs(rs) /\ r.id <= rs[m].id
  BY <1>1, <1>3, <1>4 DEF Firsts
<1>6. ASSUME NEW r \in Recs(rs), r.id <= rs[m].id
      PROVE  r \in Firsts(rs, m)
  BY <1>1, <1>3, <1>6 DEF Firsts
<1>. QED  BY <1>5, <1>6

\* A batch becomes one whole line for each record.
LEMMA LinesFacts ==
  ASSUME NEW rs \in Seq(Records)
  PROVE  /\ Lines(rs) \in Seq(LineSet) /\ Len(Lines(rs)) = Len(rs)
         /\ \A i \in 1..Len(rs) : Lines(rs)[i] = Line(rs[i])
<1>1. Len(rs) \in Nat /\ \A i \in 1..Len(rs) : rs[i] \in Records
  BY LenProperties, ElementOfSeq
<1>2. \A i \in 1..Len(rs) : Line(rs[i]) \in LineSet
  BY <1>1 DEF Line, LineSet
<1>3. Lines(rs) \in Seq(LineSet)
  BY <1>1, <1>2, IsASeq DEF Lines
<1>. QED  BY <1>1, <1>3, LenProperties DEF Lines

\* Files that agree on their first lines hold the same there.
LEMMA WholeSame ==
  \A f, g : \A k \in Nat : (\A i \in 1..k : f[i] = g[i]) => Whole(f, k) = Whole(g, k)
BY DEF Whole

\* One more line adds its record, if it is whole.
LEMMA WholeNext ==
  \A f : \A k \in Nat : Whole(f, k + 1) =
     Whole(f, k) \cup IF f[k + 1].torn THEN {} ELSE {Migrated(f[k + 1].rec)}
<1>. TAKE f
<1>. TAKE k \in Nat
<1>1. 1..k + 1 = 1..k \cup {k + 1}
  OBVIOUS
<1>2. {j \in 1..k + 1 : ~f[j].torn}
        = {j \in 1..k : ~f[j].torn} \cup IF f[k + 1].torn THEN {} ELSE {k + 1}
  BY <1>1
<1>. QED  BY <1>2 DEF Whole

\* g is f and a whole line for each record of rs.
Continues(g, f, rs) ==
  /\ g \in Seq(LineSet) /\ Len(g) = Len(f) + Len(rs)
  /\ Len(f) \in Nat /\ Len(rs) \in Nat
  /\ \A i \in 1..Len(f) : g[i] = f[i]
  /\ \A i \in 1..Len(rs) : g[Len(f) + i] = Line(rs[i])
  /\ \A k \in 0..Len(f) : Whole(g, k) = Whole(f, k)
  /\ \A m \in 0..Len(rs) : Whole(g, Len(f) + m) = Whole(f, Len(f)) \cup Firsts(rs, m)

\* Appending a batch continues the file.
LEMMA Appended ==
  ASSUME NEW f \in Seq(LineSet), NEW rs \in Seq(Records), NEW g, g = f \o Lines(rs)
  PROVE  Continues(g, f, rs)
<1>. DEFINE ls == Lines(rs)
            n == Len(f)
            l == Len(rs)
<1>1. ls \in Seq(LineSet) /\ Len(ls) = l /\ \A i \in 1..l : ls[i] = Line(rs[i])
  BY LinesFacts
<1>2. n \in Nat /\ l \in Nat
  BY LenProperties
<1>. HIDE DEF ls
<1>3. /\ g \in Seq(LineSet) /\ Len(g) = n + l
      /\ \A i \in 1..n + l : g[i] = IF i <= n THEN f[i] ELSE ls[i - n]
  <2>1. g = f \o ls
    BY DEF ls
  <2>2. f \o ls \in Seq(LineSet)
    BY <1>1, ConcatProperties
  <2>3. Len(f \o ls) = Len(f) + Len(ls)
    BY <1>1, ConcatProperties
  <2>4. \A i \in 1..Len(f) + Len(ls) : (f \o ls)[i] = IF i <= Len(f) THEN f[i] ELSE ls[i - Len(f)]
    BY <1>1, ConcatProperties
  <2>. QED  BY <1>1, <2>1, <2>2, <2>3, <2>4
<1>. HIDE DEF n, l
<1>4. \A i \in 1..n : g[i] = f[i]
  BY <1>2, <1>3
<1>5. \A i \in 1..l : g[n + i] = Line(rs[i])
  <2>. TAKE i \in 1..l
  <2>1. n + i \in 1..n + l /\ ~(n + i <= n) /\ (n + i) - n = i
    BY <1>2
  <2>. QED  BY <1>1, <1>3, <2>1
<1>6. \A k \in 0..n : Whole(g, k) = Whole(f, k)
  <2>. TAKE k \in 0..n
  <2>1. k \in Nat /\ 1..k \subseteq 1..n
    BY <1>2
  <2>2. \A i \in 1..k : g[i] = f[i]
    BY <1>4, <2>1
  <2>. QED  BY <2>1, <2>2, WholeSame
<1>7. ASSUME NEW m \in 0..l
      PROVE  Whole(g, n + m) = Whole(f, n) \cup Firsts(rs, m)
  <2>1. ASSUME NEW i \in 1..n + m, ~g[i].torn
        PROVE  Migrated(g[i].rec) \in Whole(f, n) \cup Firsts(rs, m)
    <3>1. CASE i \in 1..n
      BY <1>4, <2>1, <3>1 DEF Whole
    <3>2. CASE i \notin 1..n
      <4>1. i - n \in 1..m /\ i - n \in 1..l /\ n + (i - n) = i
        BY <1>2, <3>2
      <4>2. g[i] = Line(rs[i - n])
        BY <1>5, <4>1
      <4>. QED  BY <4>1, <4>2 DEF Firsts, Line
    <3>. QED  BY <3>1, <3>2
  <2>2. ASSUME NEW i \in 1..n, ~f[i].torn
        PROVE  Migrated(f[i].rec) \in Whole(g, n + m)
    <3>1. i \in 1..n + m
      BY <1>2
    <3>. QED  BY <1>4, <2>2, <3>1 DEF Whole
  <2>3. ASSUME NEW i \in 1..m
        PROVE  Migrated(rs[i]) \in Whole(g, n + m)
    <3>1. n + i \in 1..n + m /\ i \in 1..l
      BY <1>2
    <3>2. ~g[n + i].torn /\ g[n + i].rec = rs[i]
      <4>1. g[n + i] = Line(rs[i])
        BY <1>5, <3>1
      <4>. QED  BY <4>1 DEF Line
    <3>. QED  BY <3>1, <3>2 DEF Whole
  <2>4. \A r \in Whole(g, n + m) : r \in Whole(f, n) \cup Firsts(rs, m)
    BY <2>1 DEF Whole
  <2>5. \A r \in Whole(f, n) : r \in Whole(g, n + m)
    BY <2>2 DEF Whole
  <2>6. \A r \in Firsts(rs, m) : r \in Whole(g, n + m)
    BY <2>3 DEF Firsts
  <2>. QED  BY <2>4, <2>5, <2>6
<1>. QED  BY <1>2, <1>3, <1>4, <1>5, <1>6, <1>7 DEF Continues, n, l

-----------------------------------------------------------------------------
(* What a log says of the records logged *)

LastOf(rs) == IF rs = <<>> THEN 0 ELSE Last(rs).id
UpTo(rs, K) == {r \in Recs(rs) : r.id <= K}

\* G says what the first records of log come to, those a returned flush() covered
\* included, and K is the last it has heard of.
SoundAt(G, log, a, K) ==
  /\ K \in Nat /\ a <= K /\ K <= LastOf(log)
  /\ \A r \in G : r.id <= K
  /\ K = 0 \/ \E r \in G : r.id = K
  /\ Live(G) = Live(UpTo(log, K))

Sound(G, log, a) == \E K \in Nat : SoundAt(G, log, a, K)

\* Base says what the first records of log come to, and the queue holds the others.
Splits(base, queue, log) ==
  \E K \in Nat : /\ K <= LastOf(log)
                 /\ \A r \in base : r.id <= K
                 /\ Recs(queue) = {r \in Recs(log) : r.id > K}
                 /\ Live(base) = Live(UpTo(log, K))

\* The last record of a sorted log has its greatest number.
LEMMA LastFacts ==
  ASSUME NEW rs \in Seq(Records), Sorted(rs)
  PROVE  /\ LastOf(rs) \in Nat
         /\ \A r \in Recs(rs) : r \in Records /\ r.id \in Nat \ {0} /\ r.id <= LastOf(rs)
         /\ rs # <<>> => /\ Migrated(Last(rs)) \in Recs(rs)
                         /\ Migrated(Last(rs)).id = LastOf(rs)
                         /\ Len(rs) \in 1..Len(rs) /\ Last(rs) = rs[Len(rs)]
<1>1. /\ \A r \in Recs(rs) : \E i \in 1..Len(rs) : r = Migrated(rs[i]) /\ r.id = rs[i].id
      /\ \A i \in 1..Len(rs) : /\ rs[i] \in Records /\ rs[i].id \in Nat \ {0}
                               /\ Migrated(rs[i]) \in Recs(rs) /\ Migrated(rs[i]).id = rs[i].id
      /\ Recs(rs) \subseteq Records
  BY RecsFacts
<1>2. Len(rs) \in Nat /\ DOMAIN rs = 1..Len(rs) /\ (rs # <<>> => Len(rs) # 0)
  BY LenProperties, EmptySeq
<1>3. rs # <<>> => Len(rs) \in 1..Len(rs) /\ Last(rs) = rs[Len(rs)]
  BY <1>2 DEF Last
<1>4. rs # <<>> => \A i \in 1..Len(rs) : rs[i].id <= Last(rs).id
  <2>. SUFFICES ASSUME rs # <<>>, NEW i \in 1..Len(rs)
                PROVE  rs[i].id <= rs[Len(rs)].id
    BY <1>3
  <2>1. i < Len(rs) => rs[i].id < rs[Len(rs)].id
    BY <1>2, <1>3 DEF Sorted
  <2>2. i = Len(rs) \/ i < Len(rs)
    <3>1. Len(rs) \in Nat
      BY <1>2
    <3>. QED  BY <3>1
  <2>3. rs[i].id \in Nat /\ rs[Len(rs)].id \in Nat
    BY <1>1, <1>3
  <2>. QED  BY <2>1, <2>2, <2>3
<1>5. ASSUME rs = <<>>
      PROVE  Recs(rs) = {}
  BY <1>2, <1>5, EmptySeq DEF Recs
<1>6. LastOf(rs) \in Nat
  BY <1>1, <1>3 DEF LastOf
<1>7. \A r \in Recs(rs) : r \in Records /\ r.id \in Nat \ {0} /\ r.id <= LastOf(rs)
  BY <1>1, <1>4, <1>5 DEF LastOf
<1>8. rs # <<>> => Migrated(Last(rs)) \in Recs(rs) /\ Migrated(Last(rs)).id = LastOf(rs)
  BY <1>1, <1>3 DEF LastOf
<1>. QED  BY <1>3, <1>6, <1>7, <1>8

\* Records logged later, with higher numbers.
LEMMA LogGrows ==
  ASSUME NEW log \in Seq(Records), Sorted(log), NEW new \in Seq(Records), Sorted(new),
         \A i \in 1..Len(new) : new[i].id > LastOf(log)
  PROVE  /\ Sorted(log \o new) /\ LastOf(log) <= LastOf(log \o new)
         /\ \A r \in Recs(new) : r.id > LastOf(log)
         /\ \A K \in Nat : K <= LastOf(log) =>
              /\ UpTo(log \o new, K) = UpTo(log, K)
              /\ {r \in Recs(log \o new) : r.id > K} = {r \in Recs(log) : r.id > K} \cup Recs(new)
<1>. DEFINE q == log \o new
            n == Len(log)
            m == Len(new)
<1>1. /\ q \in Seq(Records) /\ Len(q) = n + m /\ Recs(q) = Recs(log) \cup Recs(new)
      /\ \A i \in 1..n : q[i] = log[i]
      /\ \A i \in 1..m : q[n + i] = new[i]
  BY RecsConcat
<1>2. /\ n \in Nat /\ m \in Nat /\ DOMAIN log = 1..n /\ DOMAIN new = 1..m /\ DOMAIN q = 1..Len(q)
  BY <1>1, LenProperties
<1>3. /\ LastOf(log) \in Nat
      /\ \A r \in Recs(log) : r \in Records /\ r.id \in Nat \ {0} /\ r.id <= LastOf(log)
  BY LastFacts
<1>4. /\ \A r \in Recs(new) : \E i \in 1..m : r = Migrated(new[i]) /\ r.id = new[i].id
      /\ \A i \in 1..m : new[i].id \in Nat \ {0}
  BY RecsFacts
<1>5. /\ \A i \in 1..n : log[i].id \in Nat \ {0} /\ Migrated(log[i]) \in Recs(log) /\ Migrated(log[i]).id = log[i].id
  BY RecsFacts
<1>. HIDE DEF q, n, m
<1>6. \A r \in Recs(new) : r.id > LastOf(log) /\ r.id \in Nat
  BY <1>4 DEF m
<1>7. \A i \in 1..n : log[i].id <= LastOf(log) /\ log[i].id \in Nat
  BY <1>3, <1>5
<1>8. Sorted(q)
  <2>. SUFFICES ASSUME NEW i \in 1..Len(q), NEW j \in 1..Len(q), i < j
                PROVE  q[i].id < q[j].id
    BY <1>2 DEF Sorted
  <2>1. CASE j \in 1..n
    <3>1. i \in 1..n
      BY <1>1, <1>2, <2>1
    <3>. QED  BY <1>1, <1>2, <2>1, <3>1 DEF Sorted
  <2>2. CASE i \in 1..n /\ j \notin 1..n
    <3>1. j - n \in 1..m /\ n + (j - n) = j
      BY <1>1, <1>2, <2>2
    <3>2. q[j] = new[j - n] /\ q[i] = log[i]
      BY <1>1, <2>2, <3>1
    <3>3. new[j - n].id > LastOf(log) /\ new[j - n].id \in Nat
      BY <1>4, <3>1 DEF m
    <3>. QED  BY <1>3, <1>7, <2>2, <3>2, <3>3
  <2>3. CASE i \notin 1..n
    <3>1. i - n \in 1..m /\ n + (i - n) = i /\ j - n \in 1..m /\ n + (j - n) = j /\ i - n < j - n
      BY <1>1, <1>2, <2>3
    <3>2. q[j] = new[j - n] /\ q[i] = new[i - n]
      BY <1>1, <3>1
    <3>. QED  BY <1>2, <3>1, <3>2 DEF Sorted
  <2>. QED  BY <2>1, <2>2, <2>3
<1>9. LastOf(log) <= LastOf(q)
  <2>1. LastOf(q) \in Nat /\ \A r \in Recs(q) : r.id <= LastOf(q)
    BY <1>1, <1>8, LastFacts
  <2>2. CASE log = <<>>
    BY <2>1, <2>2 DEF LastOf
  <2>3. CASE log # <<>>
    <3>1. Migrated(Last(log)) \in Recs(log) /\ Migrated(Last(log)).id = LastOf(log)
      BY <2>3, LastFacts
    <3>. QED  BY <1>1, <2>1, <3>1
  <2>. QED  BY <2>2, <2>3
<1>10. ASSUME NEW K \in Nat, K <= LastOf(log)
       PROVE  /\ UpTo(q, K) = UpTo(log, K)
              /\ {r \in Recs(q) : r.id > K} = {r \in Recs(log) : r.id > K} \cup Recs(new)
  <2>1. \A r \in Recs(new) : r.id > K /\ ~(r.id <= K)
    BY <1>3, <1>6, <1>10
  <2>. QED  BY <1>1, <2>1 DEF UpTo
<1>. QED  BY <1>6, <1>8, <1>9, <1>10 DEF q

\* A sound file stays so when more is logged.
LEMMA SoundGrows ==
  ASSUME NEW log \in Seq(Records), Sorted(log), NEW new \in Seq(Records), Sorted(new),
         \A i \in 1..Len(new) : new[i].id > LastOf(log),
         NEW G, NEW a \in Nat, Sound(G, log, a)
  PROVE  Sound(G, log \o new, a)
<1>. DEFINE q == log \o new
<1>1. PICK K \in Nat : SoundAt(G, log, a, K)
  BY DEF Sound
<1>2. /\ Sorted(q) /\ LastOf(log) <= LastOf(q) /\ UpTo(q, K) = UpTo(log, K)
  BY <1>1, LogGrows DEF SoundAt
<1>3. LastOf(log) \in Nat /\ LastOf(q) \in Nat
  BY <1>2, LastFacts, RecsConcat
<1>. HIDE DEF q
<1>4. SoundAt(G, q, a, K)
  BY <1>1, <1>2, <1>3 DEF SoundAt
<1>. QED  BY <1>4 DEF Sound, q

\* A queue that takes what is logged still holds all the file lacks.
LEMMA SplitsGrows ==
  ASSUME NEW log \in Seq(Records), Sorted(log), NEW new \in Seq(Records), Sorted(new),
         \A i \in 1..Len(new) : new[i].id > LastOf(log),
         NEW base, NEW queue \in Seq(Records), Sorted(queue), Splits(base, queue, log)
  PROVE  Sorted(queue \o new) /\ Splits(base, queue \o new, log \o new)
<1>. DEFINE q == log \o new
<1>1. PICK K \in Nat : /\ K <= LastOf(log)
                       /\ \A r \in base : r.id <= K
                       /\ Recs(queue) = {r \in Recs(log) : r.id > K}
                       /\ Live(base) = Live(UpTo(log, K))
  BY DEF Splits
<1>2. /\ Sorted(q) /\ LastOf(log) <= LastOf(q) /\ UpTo(q, K) = UpTo(log, K)
      /\ {r \in Recs(q) : r.id > K} = {r \in Recs(log) : r.id > K} \cup Recs(new)
  BY <1>1, LogGrows
<1>3. LastOf(log) \in Nat /\ LastOf(q) \in Nat /\ \A r \in Recs(log) : r.id <= LastOf(log)
  BY <1>2, LastFacts, RecsConcat
<1>4. Recs(queue \o new) = Recs(queue) \cup Recs(new)
  BY RecsConcat
<1>. HIDE DEF q
<1>5. K <= LastOf(q)
  BY <1>1, <1>2, <1>3
<1>6. Splits(base, queue \o new, q)
  BY <1>1, <1>2, <1>4, <1>5 DEF Splits
<1>7. LastOf(queue) <= LastOf(log)
  <2>1. CASE queue = <<>>
    BY <1>3, <2>1 DEF LastOf
  <2>2. CASE queue # <<>>
    <3>1. Migrated(Last(queue)) \in Recs(queue) /\ Migrated(Last(queue)).id = LastOf(queue)
      BY <2>2, LastFacts
    <3>. QED  BY <1>1, <1>3, <3>1
  <2>. QED  BY <2>1, <2>2
<1>8. \A i \in 1..Len(new) : new[i].id > LastOf(queue)
  <2>1. LastOf(queue) \in Nat /\ \A i \in 1..Len(new) : new[i].id \in Nat
    BY LastFacts, RecsFacts
  <2>. QED  BY <1>3, <1>7, <2>1
<1>9. Sorted(queue \o new)
  BY <1>8, LogGrows
<1>. QED  BY <1>6, <1>9 DEF q

\* The first m records of the queue reach the base.
LEMMA Absorbs ==
  ASSUME NEW log \in Seq(Records), Sorted(log), NEW rs \in Seq(Records), NEW rest \in Seq(Records),
         Sorted(rs \o rest), NEW base, base \subseteq Records, Splits(base, rs \o rest, log),
         NEW m \in 1..Len(rs)
  PROVE  /\ \A a \in Nat : a <= rs[m].id => Sound(base \cup Firsts(rs, m), log, a)
         /\ m = Len(rs) => Splits(base \cup Firsts(rs, m), rest, log)
<1>. DEFINE q == rs \o rest
            G == base \cup Firsts(rs, m)
            J == rs[m].id
<1>1. PICK K \in Nat : /\ K <= LastOf(log)
                       /\ \A r \in base : r.id <= K
                       /\ Recs(q) = {r \in Recs(log) : r.id > K}
                       /\ Live(base) = Live(UpTo(log, K))
  BY DEF Splits
<1>2. /\ q \in Seq(Records) /\ Len(q) = Len(rs) + Len(rest) /\ Recs(q) = Recs(rs) \cup Recs(rest)
      /\ (\A i \in 1..Len(rs) : q[i] = rs[i])
      /\ \A i \in 1..Len(rest) : q[Len(rs) + i] = rest[i]
  BY RecsConcat
<1>3. Len(rs) \in Nat /\ Len(rest) \in Nat /\ m \in 1..Len(q)
  BY <1>2, LenProperties
<1>4. J \in Nat \ {0} /\ Migrated(rs[m]) \in Recs(rs) /\ Migrated(rs[m]).id = J
  BY RecsFacts
<1>. HIDE DEF J
<1>5. /\ Firsts(rs, m) = {r \in Recs(q) : r.id <= J}
  <2>1. Firsts(q, m) = {r \in Recs(q) : r.id <= q[m].id}
    BY <1>2, <1>3, SortedFirsts
  <2>2. Firsts(q, m) = Firsts(rs, m)
    <3>1. \A i \in 1..m : q[i] = rs[i]
      BY <1>2, <1>3
    <3>. QED  BY <3>1 DEF Firsts
  <2>. QED  BY <1>2, <2>1, <2>2 DEF J
<1>6. /\ LastOf(log) \in Nat
      /\ \A r \in Recs(log) : r \in Records /\ r.id \in Nat \ {0} /\ r.id <= LastOf(log)
  BY LastFacts
<1>7. J <= LastOf(log) /\ J > K
  BY <1>1, <1>2, <1>4, <1>6
<1>8. \A r \in base : r.id \in Nat
  BY DEF Records
<1>9. UpTo(log, J) = UpTo(log, K) \cup Firsts(rs, m)
  <2>1. \A r \in Recs(log) : r.id <= J <=> r.id <= K \/ (r.id > K /\ r.id <= J)
    BY <1>4, <1>6, <1>7
  <2>. HIDE DEF q
  <2>. QED  BY <1>1, <1>5, <2>1 DEF UpTo
<1>10. Live(G) = Live(UpTo(log, J))
  <2>1. UpTo(log, K) \subseteq Records /\ \A r \in UpTo(log, K) : r.id <= K
    BY <1>6 DEF UpTo
  <2>2. Firsts(rs, m) \subseteq Records /\ \A r \in Firsts(rs, m) : r.id > K
    BY <1>1, <1>5, <1>6
  <2>3. \A r \in base \cup UpTo(log, K) : r.id <= K
    BY <1>1, <2>1
  <2>4. Live(base \cup Firsts(rs, m)) = Live(UpTo(log, K) \cup Firsts(rs, m))
    <3>. DEFINE B == UpTo(log, K)
                X == Firsts(rs, m)
    <3>. HIDE DEF B, X
    <3>1. Live(base) = Live(B) /\ base \in SUBSET Records /\ B \in SUBSET Records /\ X \in SUBSET Records
      BY <1>1, <2>1, <2>2 DEF B, X
    <3>3. \A p \in base \cup B, x \in X : ~Supersedes(p, x)
      <4>. SUFFICES ASSUME NEW p \in base \cup B, NEW x \in X
                    PROVE  ~(p.id > x.id)
        BY DEF Supersedes
      <4>1. p.id <= K /\ x.id > K
        BY <2>2, <2>3 DEF B, X
      <4>2. p.id \in Nat /\ x.id \in Nat
        BY <3>1 DEF Records
      <4>. QED  BY <4>1, <4>2
    <3>2. Live(base \cup X) = Live(B \cup X)
      BY <3>1, <3>3, LiveExtends
    <3>. QED  BY <3>2 DEF B, X
  <2>. QED  BY <1>9, <2>4
<1>11. /\ \A r \in G : r.id <= J
       /\ \E r \in G : r.id = J
  <2>1. \A r \in base : r.id <= J
    BY <1>1, <1>4, <1>7, <1>8
  <2>2. Migrated(rs[m]) \in Firsts(rs, m)
    BY DEF Firsts
  <2>. QED  BY <1>4, <1>5, <2>1, <2>2
<1>. HIDE DEF G
<1>12. ASSUME NEW a \in Nat, a <= J
       PROVE  Sound(G, log, a)
  <2>1. SoundAt(G, log, a, J)
    BY <1>4, <1>7, <1>10, <1>11, <1>12 DEF SoundAt
  <2>. QED  BY <1>4, <2>1 DEF Sound
<1>13. ASSUME m = Len(rs)
       PROVE  Splits(G, rest, log)
  <2>1. Recs(rest) = {r \in Recs(log) : r.id > J}
    <3>1. ASSUME NEW r \in Recs(rest)
          PROVE  r.id > J
      <4>1. PICK i \in 1..Len(rest) : r = Migrated(rest[i]) /\ r.id = rest[i].id
        BY RecsFacts
      <4>2. m < Len(rs) + i /\ m \in DOMAIN q /\ Len(rs) + i \in DOMAIN q
        BY <1>2, <1>3, <1>13, LenProperties
      <4>3. q[m].id < q[Len(rs) + i].id
        BY <4>2 DEF Sorted
      <4>. QED  BY <1>2, <4>1, <4>3 DEF J
    <3>2. \A r \in Recs(rest) : r \in Recs(log)
      BY <1>1, <1>2
    <3>3. ASSUME NEW r \in Recs(log), r.id > J
          PROVE  r \in Recs(rest)
      <4>1. r.id > K /\ ~(r.id <= J)
        BY <1>4, <1>6, <1>7, <3>3
      <4>2. r \in Recs(q)
        BY <1>1, <4>1
      <4>3. Recs(rs) = Firsts(rs, m)
        BY <1>13, FirstsFacts
      <4>. QED  BY <1>2, <1>5, <4>1, <4>2, <4>3
    <3>. QED  BY <3>1, <3>2, <3>3
  <2>. QED  BY <1>4, <1>7, <1>10, <1>11, <2>1 DEF Splits
<1>. QED  BY <1>12, <1>13 DEF G, J

-----------------------------------------------------------------------------
(* What a crash leaves *)

\* A line cut short is not ended, keeps its number, and is torn or holds its record.
LEMMA CutFacts ==
  ASSUME NEW l \in LineSet, NEW c \in Cut(l)
  PROVE  /\ c \in LineSet /\ ~c.ended /\ c.rec.id = l.rec.id
         /\ c.torn \/ (c.rec = l.rec /\ ~l.torn)
<1>1. /\ l.rec \in Records /\ l.rec.id \in Nat \ {0} /\ l.torn \in BOOLEAN /\ "raw" \in Kinds
      /\ l = [rec |-> l.rec, torn |-> l.torn, ended |-> l.ended]
      /\ l.rec = [kind |-> l.rec.kind, id |-> l.rec.id]
  BY DEF LineSet, Records, Kinds
<1>2. \/ c = [l EXCEPT !.rec.kind = "raw", !.torn = TRUE, !.ended = FALSE]
      \/ c = [l EXCEPT !.torn = TRUE, !.ended = FALSE]
      \/ c = [l EXCEPT !.ended = FALSE]
  BY DEF Cut
<1>3. PICK r \in Records, t \in BOOLEAN, e \in BOOLEAN : l = [rec |-> r, torn |-> t, ended |-> e]
  BY DEF LineSet
<1>4. PICK k \in Kinds, n \in Nat \ {0} : r = [kind |-> k, id |-> n]
  BY DEF Records
<1>5. \/ c = [rec |-> [kind |-> "raw", id |-> n], torn |-> TRUE, ended |-> FALSE]
      \/ c = [rec |-> r, torn |-> TRUE, ended |-> FALSE]
      \/ c = [rec |-> r, torn |-> t, ended |-> FALSE]
  BY <1>2, <1>3, <1>4
<1>6. /\ [kind |-> "raw", id |-> n] \in Records /\ [kind |-> "raw", id |-> n].id = r.id
      /\ l.rec = r /\ l.torn = t
  BY <1>1, <1>3, <1>4 DEF Records
<1>7. CASE c = [rec |-> [kind |-> "raw", id |-> n], torn |-> TRUE, ended |-> FALSE]
  <2>1. c.rec = [kind |-> "raw", id |-> n] /\ c.torn = TRUE /\ c.ended = FALSE
    BY <1>7
  <2>2. c \in LineSet
    BY <1>6, <1>7 DEF LineSet
  <2>. QED  BY <1>6, <2>1, <2>2
<1>8. CASE c = [rec |-> r, torn |-> TRUE, ended |-> FALSE]
  <2>1. c.rec = r /\ c.torn = TRUE /\ c.ended = FALSE
    BY <1>8
  <2>2. c \in LineSet
    BY <1>8 DEF LineSet
  <2>. QED  BY <1>6, <2>1, <2>2
<1>9. CASE c = [rec |-> r, torn |-> t, ended |-> FALSE]
  <2>1. c.rec = r /\ c.torn = t /\ c.ended = FALSE
    BY <1>9
  <2>2. c \in LineSet
    BY <1>9 DEF LineSet
  <2>. QED  BY <1>6, <2>1, <2>2
<1>. QED  BY <1>5, <1>7, <1>8, <1>9

\* A beginning of a clean file, its last line cut or not, is clean and holds what some
\* beginning of the file holds.
LEMMA Beginning ==
  ASSUME NEW g \in Seq(LineSet), Clean(g), SortedLines(g), NEW n \in 0..Len(g),
         NEW s \in Seq(LineSet), Len(s) = n, \A i \in 1..n : i < n => s[i] = g[i],
         n # 0 => s[n] = g[n] \/ s[n] \in Cut(g[n])
  PROVE  /\ Clean(s) /\ SortedLines(s)
         /\ \A k \in 0..n : Whole(s, k) = Whole(g, k)
                            \/ (k = n /\ n # 0 /\ Whole(s, k) = Whole(g, k - 1))
<1>1. /\ Len(g) \in Nat /\ DOMAIN g = 1..Len(g) /\ DOMAIN s = 1..n /\ n \in Nat
      /\ \A i \in 1..Len(g) : g[i] \in LineSet
  BY LenProperties, ElementOfSeq
<1>2. n # 0 => \/ s[n] = g[n]
               \/ ~s[n].ended /\ s[n].rec.id = g[n].rec.id
                  /\ (s[n].torn \/ (s[n].rec = g[n].rec /\ ~g[n].torn))
  <2>. SUFFICES ASSUME n # 0, s[n] \in Cut(g[n])
                PROVE  ~s[n].ended /\ s[n].rec.id = g[n].rec.id
                       /\ (s[n].torn \/ (s[n].rec = g[n].rec /\ ~g[n].torn))
    OBVIOUS
  <2>1. g[n] \in LineSet
    BY <1>1
  <2>. QED  BY <2>1, CutFacts
<1>3. \A i \in 1..n : /\ s[i].rec.id = g[i].rec.id
                      /\ i < n => s[i] = g[i]
                      /\ i = n => s[i] = g[i] \/ ~s[i].ended
  BY <1>2
<1>4. Clean(s)
  <2>. SUFFICES ASSUME NEW i \in 1..n
                PROVE  (s[i].torn => ~s[i].ended) /\ (i < n => s[i].ended)
    BY <1>1 DEF Clean
  <2>1. i < n \/ i = n
    BY <1>1
  <2>2. (g[i].torn => ~g[i].ended) /\ (i < n => g[i].ended)
    BY <1>1 DEF Clean
  <2>. QED  BY <1>3, <2>1, <2>2
<1>5. SortedLines(s)
  <2>. SUFFICES ASSUME NEW i \in 1..n, NEW j \in 1..n, i < j
                PROVE  s[i].rec.id < s[j].rec.id
    BY <1>1 DEF SortedLines
  <2>1. g[i].rec.id < g[j].rec.id
    BY <1>1 DEF SortedLines
  <2>. QED  BY <1>3, <2>1
<1>6. ASSUME NEW k \in 0..n, k < n
      PROVE  Whole(s, k) = Whole(g, k)
  <2>1. k \in Nat /\ \A i \in 1..k : s[i] = g[i]
    BY <1>1, <1>3, <1>6
  <2>. QED  BY <2>1, WholeSame
<1>7. ASSUME n # 0
      PROVE  Whole(s, n) = Whole(g, n) \/ Whole(s, n) = Whole(g, n - 1)
  <2>1. n - 1 \in Nat /\ (n - 1) + 1 = n /\ n - 1 \in 0..n /\ n - 1 < n
    BY <1>1, <1>7
  <2>2. Whole(s, n - 1) = Whole(g, n - 1)
    BY <1>6, <2>1
  <2>3. Whole(s, n) = Whole(s, n - 1) \cup IF s[n].torn THEN {} ELSE {Migrated(s[n].rec)}
    BY <2>1, WholeNext, ZenonT(30)
  <2>4. Whole(g, n) = Whole(g, n - 1) \cup IF g[n].torn THEN {} ELSE {Migrated(g[n].rec)}
    BY <2>1, WholeNext
  <2>. QED  BY <1>2, <1>7, <2>2, <2>3, <2>4
<1>8. n = 0 => \A k \in 0..n : Whole(s, k) = Whole(g, k)
  <2>1. 0 \in Nat /\ \A i \in 1..0 : s[i] = g[i]
    OBVIOUS
  <2>2. Whole(s, 0) = Whole(g, 0)
    BY <2>1, WholeSame
  <2>. QED  BY <2>2
<1>9. \A k \in 0..n : k = n \/ k < n
  BY <1>1
<1>. QED  BY <1>4, <1>5, <1>6, <1>7, <1>8, <1>9

\* s is base and some more of g, cut anywhere.
LeftOf(s, base, g) ==
  \E k \in 1..Len(g) :
    /\ k > Len(base) \/ g[k] # base[k]
    /\ \/ s = SubSeq(g, 1, k)
       \/ \E c \in Cut(g[k]) : s = Append(SubSeq(g, 1, k - 1), c)

\* What a crash leaves: all that was sure, everything, or a cut in between.
LEMMA SurvivorsAre ==
  ASSUME NEW base, NEW g, NEW s \in Survivors(base, g)
  PROVE  s = base \/ s = g \/ LeftOf(s, base, g)
BY DEF Survivors, LeftOf

\* A file cut at a line.
LEMMA LeftFacts ==
  ASSUME NEW g \in Seq(LineSet), NEW k \in 1..Len(g), NEW s,
         s = SubSeq(g, 1, k) \/ \E c \in Cut(g[k]) : s = Append(SubSeq(g, 1, k - 1), c)
  PROVE  /\ s \in Seq(LineSet) /\ Len(s) = k
         /\ \A i \in 1..k : i < k => s[i] = g[i]
         /\ s[k] = g[k] \/ s[k] \in Cut(g[k])
<1>1. Len(g) \in Nat /\ k \in Nat /\ k # 0 /\ \A i \in 1..Len(g) : g[i] \in LineSet
  BY LenProperties, ElementOfSeq
<1>2. ASSUME NEW j \in 0..Len(g)
      PROVE  /\ SubSeq(g, 1, j) \in Seq(LineSet) /\ Len(SubSeq(g, 1, j)) = j
             /\ \A i \in 1..j : SubSeq(g, 1, j)[i] = g[i]
  <2>1. 1 \in Int /\ j \in Int /\ \A i \in 1..j : g[i] \in LineSet
    BY <1>1
  <2>2. /\ SubSeq(g, 1, j) \in Seq(LineSet)
        /\ Len(SubSeq(g, 1, j)) = IF 1 <= j THEN j - 1 + 1 ELSE 0
        /\ \A i \in 1..j - 1 + 1 : SubSeq(g, 1, j)[i] = g[1 + i - 1]
    BY <2>1, SubSeqProperties
  <2>3. j - 1 + 1 = j /\ (~(1 <= j) => j = 0) /\ \A i \in 1..j : 1 + i - 1 = i
    BY <1>1
  <2>. QED  BY <2>2, <2>3
<1>3. CASE s = SubSeq(g, 1, k)
  <2>1. k \in 0..Len(g) /\ k \in 1..k
    BY <1>1
  <2>. QED  BY <1>2, <1>3, <2>1
<1>4. CASE \E c \in Cut(g[k]) : s = Append(SubSeq(g, 1, k - 1), c)
  <2>1. PICK c \in Cut(g[k]) : s = Append(SubSeq(g, 1, k - 1), c)
    BY <1>4
  <2>2. c \in LineSet
    BY <1>1, CutFacts
  <2>. DEFINE b == SubSeq(g, 1, k - 1)
  <2>3. /\ b \in Seq(LineSet) /\ Len(b) = k - 1
        /\ \A i \in 1..k - 1 : b[i] = g[i]
    <3>1. k - 1 \in 0..Len(g)
      BY <1>1
    <3>. QED  BY <1>2, <3>1
  <2>. HIDE DEF b
  <2>4. /\ Append(b, c) \in Seq(LineSet) /\ Len(Append(b, c)) = k
        /\ \A i \in 1..k - 1 : Append(b, c)[i] = b[i]
        /\ Append(b, c)[k] = c
    <3>1. (k - 1) + 1 = k
      BY <1>1
    <3>. QED  BY <2>2, <2>3, <3>1, AppendProperties
  <2>5. \A i \in 1..k : i < k => i \in 1..k - 1
    BY <1>1
  <2>. QED  BY <2>1, <2>3, <2>4, <2>5 DEF b
<1>. QED  BY <1>3, <1>4

\* What a crash leaves is a file.
LEMMA SurvivorsType ==
  ASSUME NEW base \in Seq(LineSet), NEW g \in Seq(LineSet), NEW s \in Survivors(base, g)
  PROVE  s \in Seq(LineSet)
<1>1. s = base \/ s = g \/ LeftOf(s, base, g)
  BY SurvivorsAre
<1>2. LeftOf(s, base, g) => s \in Seq(LineSet)
  BY LeftFacts DEF LeftOf
<1>. QED  BY <1>1, <1>2

Extends(f, base) == Len(base) <= Len(f) /\ \A i \in 1..Len(base) : f[i] = base[i]

\* What a crash leaves of a clean file is clean, keeps what was sure, and holds at every
\* line from there on what some beginning of the file held.
LEMMA SurvivorsFacts ==
  ASSUME NEW base \in Seq(LineSet), NEW g \in Seq(LineSet), Clean(g), SortedLines(g),
         Extends(g, base), NEW s \in Survivors(base, g)
  PROVE  /\ s \in Seq(LineSet) /\ Clean(s) /\ SortedLines(s)
         /\ Extends(s, base)
         /\ \A k \in Len(base)..Len(s) : \E j \in Len(base)..Len(g) : Whole(s, k) = Whole(g, j)
<1>1. Len(base) \in Nat /\ Len(g) \in Nat /\ Len(base) <= Len(g)
      /\ (\A i \in 1..Len(base) : g[i] = base[i])
  BY LenProperties DEF Extends
<1>2. CASE s = base
  <2>1. Len(base) \in 0..Len(g) /\ \A i \in 1..Len(base) : i < Len(base) => base[i] = g[i]
    BY <1>1
  <2>2. Len(base) # 0 => base[Len(base)] = g[Len(base)]
    BY <1>1
  <2>3. Clean(base) /\ SortedLines(base)
    BY <2>1, <2>2, Beginning
  <2>4. Whole(base, Len(base)) = Whole(g, Len(base))
    BY <1>1, WholeSame
  <2>5. Extends(base, base) /\ Len(base) \in Len(base)..Len(g)
        /\ \A k \in Len(base)..Len(base) : k = Len(base)
    BY <1>1 DEF Extends
  <2>. QED  BY <1>2, <2>3, <2>4, <2>5
<1>3. CASE s = g
  BY <1>3
<1>4. CASE LeftOf(s, base, g)
  <2>1. PICK n \in 1..Len(g) :
          /\ n > Len(base) \/ g[n] # base[n]
          /\ \/ s = SubSeq(g, 1, n)
             \/ \E c \in Cut(g[n]) : s = Append(SubSeq(g, 1, n - 1), c)
    BY <1>4 DEF LeftOf
  <2>2. n > Len(base) /\ n \in Nat /\ n \in 0..Len(g) /\ n # 0
    BY <1>1, <2>1
  <2>3. /\ s \in Seq(LineSet) /\ Len(s) = n
        /\ \A i \in 1..n : i < n => s[i] = g[i]
        /\ s[n] = g[n] \/ s[n] \in Cut(g[n])
    BY <2>1, LeftFacts
  <2>4. /\ Clean(s) /\ SortedLines(s)
        /\ \A k \in 0..n : Whole(s, k) = Whole(g, k)
                           \/ (k = n /\ n # 0 /\ Whole(s, k) = Whole(g, k - 1))
    BY <2>2, <2>3, Beginning
  <2>5. Extends(s, base)
    <3>1. \A i \in 1..Len(base) : i \in 1..n /\ i < n
      BY <1>1, <2>2
    <3>. QED  BY <1>1, <2>2, <2>3, <3>1 DEF Extends
  <2>6. ASSUME NEW k \in Len(base)..n
        PROVE  \E j \in Len(base)..Len(g) : Whole(s, k) = Whole(g, j)
    <3>1. k \in 0..n /\ k \in Len(base)..Len(g) /\ (k = n => k - 1 \in Len(base)..Len(g))
      BY <1>1, <2>2
    <3>. QED  BY <2>4, <3>1
  <2>. QED  BY <2>3, <2>4, <2>5, <2>6
<1>. QED  BY <1>2, <1>3, <1>4, SurvivorsAre

-----------------------------------------------------------------------------
(* Drains, batches and compaction                                          *)

\* Outside a drain the disk and the file agree, unless a write failed; a dead process has
\* nothing in flight; only a drain has a batch or waits for an fsync.  After a failure
\* neither a drain nor a compaction runs.
DiskAgrees ==
  /\ ~draining => ~written /\ batch = NoBatch
  /\ ~draining /\ ~failed => disk = file
  /\ ~up => ~draining /\ ~failed /\ comp = "no"
  /\ failed => ~draining /\ comp = "no"

IInv == DiskAgrees /\ SwapAlone /\ FlushMeansDisk

\* The log on disk agrees with itself at the start.
LEMMA InitIInv == Init => IInv
BY DEF Init, IInv, DiskAgrees, SwapAlone, FlushMeansDisk, NoBatch

\* A drain that starts takes everything; one that does not start finds the queue empty or
\* a compaction in its way.
LEMMA DrainTakesAll ==
  ASSUME NEW p, NEW c, Drain(p, c)
  PROVE  /\ draining' => comp' = "no"
         /\ ~draining' => batch' = NoBatch
         /\ ~draining' /\ comp' = "no" => pending' = <<>> /\ ~clear'
BY DEF Drain

\* Every step keeps disk, file and compaction apart.
LEMMA StepIInv == IInv /\ [Next]_vars => IInv'
<1>. SUFFICES ASSUME IInv, [Next]_vars
              PROVE  IInv'
  OBVIOUS
<1>. USE DEF IInv, DiskAgrees, SwapAlone, FlushMeansDisk
<1>1. CASE LogRecord
  BY <1>1 DEF LogRecord, Busy
<1>2. CASE WriteBatch
  BY <1>2 DEF WriteBatch
<1>3. CASE WriteFails
  BY <1>3 DEF WriteFails
<1>4. CASE SyncBatch
  BY <1>4, DrainTakesAll DEF SyncBatch
<1>5. CASE FlushReturns
  BY <1>5 DEF FlushReturns
<1>6. CASE Resume
  <2>. DEFINE rs == Read(file)
              migrates == Len(rs) > 0 /\ rs[1].kind = "old"
              now == IF migrates THEN <<[rs[1] EXCEPT !.kind = "meta"]>> \o Tail(rs)
                     ELSE rs
  <2>1. /\ up' /\ ~failed' /\ ~written' /\ ~up
        /\ UNCHANGED <<file, disk>>
        /\ migrates => comp' = "no"
        /\ IF migrates THEN Drain(now, TRUE) ELSE Drain(<<>>, FALSE)
    BY <1>6 DEF Resume, Reset
  <2>2. disk' = file'
    BY <2>1
  <2>. HIDE DEF migrates, now
  <2>3. CASE migrates
    BY <2>1, <2>2, <2>3, DrainTakesAll
  <2>4. CASE ~migrates
    BY <2>1, <2>2, <2>4 DEF Drain
  <2>. QED  BY <2>3, <2>4
<1>7. CASE CompactCopy
  BY <1>7 DEF CompactCopy
<1>8. CASE CompactCheck
  BY <1>8, DrainTakesAll DEF CompactCheck
<1>9. CASE CompactSwap
  BY <1>9, DrainTakesAll DEF CompactSwap
<1>10. CASE Crash
  BY <1>10 DEF Crash
<1>11. CASE UNCHANGED vars
  BY <1>11 DEF vars
<1>. QED
  BY <1>1, <1>2, <1>3, <1>4, <1>5, <1>6, <1>7, <1>8, <1>9, <1>10, <1>11 DEF Next

-----------------------------------------------------------------------------
(* The invariant *)

TypeInv ==
  /\ file \in Seq(LineSet) /\ disk \in Seq(LineSet) /\ tmp.lines \in Seq(LineSet)
  /\ pending \in Seq(Records) /\ batch.recs \in Seq(Records) /\ logged \in Seq(Records)
  /\ acked \in Nat /\ clear = FALSE

\* From what is durable on, whatever the file is cut down to is sound.
LogSound ==
  ~joined =>
    /\ Sorted(logged) /\ Clean(file) /\ SortedLines(file) /\ Extends(file, disk)
    /\ \A k \in Len(disk)..Len(file) : Sound(Whole(file, k), logged, acked)

\* What still has to reach the file, and what it will be added to.
Unwritten == draining /\ ~written
Queue == (IF Unwritten THEN batch.recs ELSE <<>>) \o pending
Base == IF Unwritten /\ batch.clear THEN {} ELSE Whole(file, Len(file))

QueueSound ==
  up /\ ~failed /\ ~joined =>
    /\ Sorted(Queue) /\ Splits(Base, Queue, logged)
    /\ Unwritten /\ batch.clear => batch.recs # <<>> /\ acked <= Last(batch.recs).id

\* A copy holds what a reader would decode.
CopySound ==
  /\ comp = "check" => tmp.lines = KeptLines(tmp.of)
  /\ comp = "swap" => tmp.lines = KeptLines(file)

Inv == IInv /\ TypeInv /\ LogSound /\ QueueSound /\ CopySound

\* Records logged have higher numbers than those before.
LEMMA NewRecords ==
  ASSUME NEW k \in {"fold", "snap", "keep"} \cup Turns, NEW n \in Nat, NEW new,
         new = <<Rec(k, n + 1)>> \/ new = <<Rec("meta", n + 1), Rec(k, n + 2)>>
  PROVE  /\ new \in Seq(Records) /\ new # <<>> /\ Sorted(new)
         /\ \A i \in 1..Len(new) : new[i].id > n
<1>1. Rec(k, n + 1) \in Records /\ Rec(k, n + 2) \in Records /\ Rec("meta", n + 1) \in Records
  BY DEF Rec, Records, Kinds
<1>2. /\ Rec(k, n + 1).id = n + 1 /\ Rec(k, n + 2).id = n + 2 /\ Rec("meta", n + 1).id = n + 1
  BY DEF Rec
<1>. HIDE DEF Rec
<1>3. CASE new = <<Rec(k, n + 1)>>
  <2>1. new \in Seq(Records) /\ Len(new) = 1 /\ DOMAIN new = 1..1 /\ new[1] = Rec(k, n + 1)
    BY <1>1, <1>3
  <2>. QED  BY <1>2, <1>3, <2>1 DEF Sorted
<1>4. CASE new = <<Rec("meta", n + 1), Rec(k, n + 2)>>
  <2>1. /\ new \in Seq(Records) /\ Len(new) = 2 /\ DOMAIN new = 1..2
        /\ new[1] = Rec("meta", n + 1) /\ new[2] = Rec(k, n + 2)
    BY <1>1, <1>4
  <2>2. \A i \in 1..2 : i = 1 \/ i = 2
    OBVIOUS
  <2>. QED  BY <1>2, <1>4, <2>1, <2>2 DEF Sorted
<1>. QED  BY <1>3, <1>4

\* The last number is that of the last record logged.
LEMMA LastIdType == TypeInv => LastId \in Nat /\ LastId = LastOf(logged)
<1>. SUFFICES ASSUME TypeInv
              PROVE  LastId \in Nat /\ LastId = LastOf(logged)
  OBVIOUS
<1>1. Len(logged) \in Nat /\ (logged # <<>> => Len(logged) # 0)
  BY LenProperties, EmptySeq DEF TypeInv
<1>2. logged # <<>> => Last(logged) \in Records
  BY <1>1, ElementOfSeq DEF TypeInv, Last
<1>3. LastId = LastOf(logged)
  BY DEF LastId, LastOf
<1>. QED  BY <1>2, <1>3 DEF LastId, Records

\* Appending to a file whose last line is ended adds lines.
LEMMA AppendLinesType ==
  ASSUME NEW f \in Seq(LineSet), NEW rs \in Seq(Records)
  PROVE  /\ AppendLines(f, rs) \in Seq(LineSet)
         /\ ~(Len(f) > 0 /\ ~Last(f).ended) => AppendLines(f, rs) = f \o Lines(rs)
<1>1. f \o Lines(rs) \in Seq(LineSet)
  BY LinesFacts, ConcatProperties
<1>2. ASSUME Len(rs) > 0, Len(f) > 0
      PROVE  Front(f) \o <<[Last(f) EXCEPT !.torn = TRUE, !.ended = TRUE]>> \o Lines(Tail(rs))
               \in Seq(LineSet)
  <2>1. Len(f) \in Nat /\ \A i \in 1..Len(f) : f[i] \in LineSet
    BY LenProperties, ElementOfSeq
  <2>2. Front(f) \in Seq(LineSet)
    <3>1. 1 \in Int /\ Len(f) - 1 \in Int /\ \A i \in 1..Len(f) - 1 : f[i] \in LineSet
      BY <2>1
    <3>. QED  BY <3>1, SubSeqProperties DEF Front
  <2>3. Last(f) \in LineSet
    BY <1>2, <2>1 DEF Last
  <2>4. [Last(f) EXCEPT !.torn = TRUE, !.ended = TRUE] \in LineSet
    BY <2>3 DEF LineSet
  <2>5. Tail(rs) \in Seq(Records)
    BY <1>2, EmptySeq, HeadTailProperties
  <2>6. Lines(Tail(rs)) \in Seq(LineSet)
    BY <2>5, LinesFacts
  <2>7. <<[Last(f) EXCEPT !.torn = TRUE, !.ended = TRUE]>> \in Seq(LineSet)
    BY <2>4
  <2>. QED  BY <2>2, <2>6, <2>7, ConcatProperties
<1>. QED  BY <1>1, <1>2 DEF AppendLines

\* A drain takes what is pending; until it writes nothing is lost of the queue.
LEMMA DrainKeeps ==
  ASSUME NEW p \in Seq(Records), NEW c \in BOOLEAN, Drain(p, c), written' = FALSE
  PROVE  /\ pending' \in Seq(Records) /\ batch'.recs \in Seq(Records)
         /\ (clear' = FALSE) \/ (c /\ comp' # "no")
         /\ ~(c /\ comp' # "no") => Queue' = p
         /\ Unwritten' /\ batch'.clear => c /\ batch'.recs = p
         /\ c /\ comp' = "no" => Unwritten' /\ batch'.clear
<1>1. <<>> \in Seq(Records) /\ <<>> \o p = p /\ p \o <<>> = p
  BY EmptySeq, ConcatEmptySeq
<1>2. CASE comp' = "no" /\ (c \/ p # <<>>)
  <2>1. /\ draining' = TRUE /\ batch' = [recs |-> p, clear |-> c]
        /\ pending' = <<>> /\ clear' = FALSE
    BY <1>2 DEF Drain
  <2>2. batch'.recs = p /\ batch'.clear = c
    BY <2>1
  <2>. QED  BY <1>1, <1>2, <2>1, <2>2 DEF Unwritten, Queue
<1>3. CASE ~(comp' = "no" /\ (c \/ p # <<>>))
  <2>1. draining' = FALSE /\ batch' = NoBatch /\ pending' = p /\ clear' = c
    BY <1>3 DEF Drain
  <2>2. batch'.recs = <<>> /\ batch'.clear = FALSE
    BY <2>1 DEF NoBatch
  <2>. QED  BY <1>1, <1>3, <2>1, <2>2 DEF Unwritten, Queue
<1>. QED  BY <1>2, <1>3

\* What a migrated log starts with.
Upgraded(rs) ==
  IF Len(rs) > 0 /\ rs[1].kind = "old"
  THEN <<[rs[1] EXCEPT !.kind = "meta"]>> \o Tail(rs)
  ELSE rs

\* A migrated log holds the same records.
LEMMA UpgradedFacts ==
  ASSUME NEW rs \in Seq(Records)
  PROVE  /\ Upgraded(rs) \in Seq(Records) /\ Len(Upgraded(rs)) = Len(rs)
         /\ \A i \in 1..Len(rs) : /\ Upgraded(rs)[i].id = rs[i].id
                                  /\ Migrated(Upgraded(rs)[i]) = Migrated(rs[i])
<1>. DEFINE migrates == Len(rs) > 0 /\ rs[1].kind = "old"
            now == Upgraded(rs)
<1>1. rs \in Seq(Records)
  OBVIOUS
<1>2. CASE ~migrates
  BY <1>1, <1>2 DEF Upgraded
<1>3. CASE migrates
  <2>. DEFINE r == rs[1]
              h == [r EXCEPT !.kind = "meta"]
              t == Tail(rs)
  <2>1. Len(rs) \in Nat /\ rs # <<>> /\ 1 \in 1..Len(rs)
    BY <1>1, <1>3, LenProperties, EmptySeq
  <2>2. r \in Records
    BY <1>1, <2>1, ElementOfSeq
  <2>3. h \in Records /\ h.id = r.id /\ h.kind = "meta" /\ h = Migrated(r)
    BY <1>3, <2>2 DEF Records, Kinds, Migrated
  <2>4. Migrated(h) = h
    BY <2>3, TurnsAssumption DEF Migrated
  <2>5. /\ t \in Seq(Records) /\ Len(t) = Len(rs) - 1
        /\ \A i \in 1..Len(t) : t[i] = rs[i + 1]
    BY <1>1, <2>1, HeadTailProperties
  <2>. HIDE DEF h, t
  <2>6. <<h>> \in Seq(Records) /\ Len(<<h>>) = 1 /\ <<h>>[1] = h
    BY <2>3
  <2>7. /\ <<h>> \o t \in Seq(Records) /\ Len(<<h>> \o t) = Len(rs)
        /\ (<<h>> \o t)[1] = h
        /\ \A i \in 1..Len(t) : (<<h>> \o t)[1 + i] = t[i]
    <3>1. 1 \in 1..Len(<<h>>) /\ 1 + (Len(rs) - 1) = Len(rs)
      BY <2>1, <2>6
    <3>. QED  BY <2>5, <2>6, <3>1, RecsConcat
  <2>8. now = <<h>> \o t
    BY <1>3 DEF h, t, Upgraded
  <2>. HIDE DEF now
  <2>9. ASSUME NEW i \in 1..Len(rs)
        PROVE  now[i].id = rs[i].id /\ Migrated(now[i]) = Migrated(rs[i])
    <3>1. CASE i = 1
      BY <2>3, <2>4, <2>7, <2>8, <3>1
    <3>2. CASE i # 1
      <4>1. i - 1 \in 1..Len(t) /\ 1 + (i - 1) = i /\ (i - 1) + 1 = i
        BY <2>1, <2>5, <3>2
      <4>2. now[i] = rs[i]
        BY <2>5, <2>7, <2>8, <4>1
      <4>. QED  BY <4>2
    <3>. QED  BY <3>1, <3>2
  <2>. QED  BY <2>7, <2>8, <2>9 DEF now
<1>. QED  BY <1>2, <1>3

\* The logs the model starts from are sound.
LEMMA InitInv == Init => Inv
<1>. SUFFICES ASSUME Init
              PROVE  Inv
  OBVIOUS
<1>. DEFINE r1 == Rec("old", 1)
            r2 == Rec("fold", 2)
<1>1. PICK f \in {<<>>, <<r1, r2>>} : file = Lines(f) /\ logged = f /\ acked = Len(f)
  BY DEF Init
<1>2. r1 \in Records /\ r2 \in Records /\ r1.id = 1 /\ r2.id = 2
  BY DEF Rec, Records, Kinds
<1>. HIDE DEF r1, r2
<1>3. /\ f \in Seq(Records) /\ Len(f) \in 0..2 /\ DOMAIN f = 1..Len(f)
      /\ \A i \in 1..Len(f) : f[i].id = i
  <2>1. CASE f = <<>>
    BY <2>1, EmptySeq
  <2>2. CASE f = <<r1, r2>>
    <3>1. f \in Seq(Records) /\ Len(f) = 2 /\ DOMAIN f = 1..2 /\ f[1] = r1 /\ f[2] = r2
      BY <1>2, <2>2
    <3>. QED  BY <1>2, <3>1
  <2>. QED  BY <2>1, <2>2
<1>4. /\ file \in Seq(LineSet) /\ Len(file) = Len(f) /\ DOMAIN file = 1..Len(f)
      /\ \A i \in 1..Len(f) : file[i] = Line(f[i])
  BY <1>1, <1>3, LinesFacts, LenProperties
<1>5. disk = file /\ ~up /\ pending = <<>> /\ clear = FALSE /\ batch.recs = <<>>
      /\ tmp.lines = <<>> /\ comp = "no"
  BY DEF Init, NoBatch, NoCopy
<1>6. TypeInv
  BY <1>1, <1>3, <1>4, <1>5, EmptySeq DEF TypeInv
<1>7. IInv
  BY InitIInv
<1>8. QueueSound /\ CopySound
  BY <1>5 DEF QueueSound, CopySound
<1>9. \A i \in 1..Len(f) : /\ ~file[i].torn /\ file[i].ended /\ file[i].rec = f[i]
  BY <1>4 DEF Line
<1>10. Sorted(logged) /\ SortedLines(file) /\ Clean(file) /\ Extends(file, disk)
  BY <1>1, <1>3, <1>4, <1>5, <1>9 DEF Sorted, SortedLines, Clean, Extends
<1>11. Whole(file, Len(file)) = Recs(f)
  BY <1>3, <1>4, <1>9 DEF Whole, Recs
<1>12. SoundAt(Recs(f), f, Len(f), Len(f))
  <2>1. LastOf(f) = Len(f)
    <3>1. Len(f) # 0 => f # <<>>
      BY EmptySeq
    <3>2. Len(f) = 0 => f = <<>>
      BY <1>3, EmptySeq
    <3>3. Len(f) # 0 => Last(f) = f[Len(f)] /\ Len(f) \in 1..Len(f)
      BY <1>3 DEF Last
    <3>. QED  BY <1>3, <3>1, <3>2, <3>3 DEF LastOf
  <2>2. \A r \in Recs(f) : r.id \in Nat /\ r.id <= Len(f)
    BY <1>1, <1>3, <1>10, <2>1, LastFacts
  <2>3. UpTo(f, Len(f)) = Recs(f)
    BY <2>2 DEF UpTo
  <2>4. Len(f) # 0 => \E r \in Recs(f) : r.id = Len(f)
    <3>1. Len(f) # 0 => f # <<>>
      BY EmptySeq
    <3>. QED  BY <1>1, <1>3, <1>10, <2>1, <3>1, LastFacts
  <2>. QED  BY <1>3, <2>1, <2>2, <2>3, <2>4 DEF SoundAt
<1>13. Sound(Whole(file, Len(file)), logged, acked)
  BY <1>1, <1>3, <1>11, <1>12 DEF Sound
<1>14. \A k \in Len(file)..Len(file) : k = Len(file)
  <2>1. Len(file) \in Nat
    BY <1>4, LenProperties
  <2>. QED  BY <2>1
<1>15. LogSound
  BY <1>5, <1>10, <1>13, <1>14 DEF LogSound
<1>. QED  BY <1>6, <1>7, <1>8, <1>15 DEF Inv

\* Every step keeps the types.
LEMMA StepType == Inv /\ [Next]_vars => TypeInv'
<1>. SUFFICES ASSUME Inv, [Next]_vars
              PROVE  TypeInv'
  OBVIOUS
<1>0. TypeInv /\ IInv
  BY DEF Inv
<1>1. CASE LogRecord
  <2>1. PICK k \in {"fold", "snap", "keep"} \cup Turns :
       LET new == IF hasMeta THEN <<Rec(k, LastId + 1)>>
                  ELSE <<Rec("meta", LastId + 1), Rec(k, LastId + 2)>>
       IN  /\ logged' = logged \o new
           /\ IF Busy
              THEN pending' = pending \o new /\ UNCHANGED <<clear, draining, batch>>
              ELSE /\ draining' = TRUE /\ clear' = FALSE
                   /\ batch' = [recs |-> pending \o <<Head(new)>>, clear |-> clear]
                   /\ pending' = Tail(new)
    BY <1>1 DEF LogRecord
  <2>. DEFINE new == IF hasMeta THEN <<Rec(k, LastId + 1)>>
                     ELSE <<Rec("meta", LastId + 1), Rec(k, LastId + 2)>>
  <2>2. /\ logged' = logged \o new
        /\ IF Busy
           THEN pending' = pending \o new /\ UNCHANGED <<clear, draining, batch>>
           ELSE /\ draining' = TRUE /\ clear' = FALSE
                /\ batch' = [recs |-> pending \o <<Head(new)>>, clear |-> clear]
                /\ pending' = Tail(new)
    BY <2>1
  <2>3. new \in Seq(Records) /\ new # <<>>
    BY <1>0, LastIdType, NewRecords
  <2>. HIDE DEF new
  <2>4. Head(new) \in Records /\ Tail(new) \in Seq(Records)
    BY <2>3, HeadTailProperties
  <2>5. /\ pending \o new \in Seq(Records) /\ logged \o new \in Seq(Records)
        /\ pending \o <<Head(new)>> \in Seq(Records)
    <3>1. <<Head(new)>> \in Seq(Records)
      BY <2>4
    <3>. QED  BY <1>0, <2>3, <3>1, ConcatProperties DEF TypeInv
  <2>6. pending' \in Seq(Records) /\ batch'.recs \in Seq(Records) /\ clear' = FALSE
    <3>1. CASE Busy
      BY <1>0, <2>2, <2>5, <3>1 DEF TypeInv
    <3>2. CASE ~Busy
      <4>1. batch'.recs = pending \o <<Head(new)>>
        BY <2>2, <3>2
      <4>. QED  BY <2>2, <2>4, <2>5, <3>2, <4>1
    <3>. QED  BY <3>1, <3>2
  <2>. QED  BY <1>0, <1>1, <2>2, <2>5, <2>6 DEF LogRecord, TypeInv
<1>2. CASE WriteBatch
  <2>1. Lines(batch.recs) \in Seq(LineSet) /\ AppendLines(file, batch.recs) \in Seq(LineSet)
    BY <1>0, LinesFacts, AppendLinesType DEF TypeInv
  <2>. QED  BY <1>0, <1>2, <2>1 DEF WriteBatch, TypeInv
<1>3. CASE WriteFails
  <2>1. AppendLines(file, batch.recs) \in Seq(LineSet)
    BY <1>0, AppendLinesType DEF TypeInv
  <2>2. file' \in Seq(LineSet)
    BY <1>0, <1>3, <2>1, SurvivorsType DEF WriteFails, TypeInv
  <2>3. batch'.recs \in Seq(Records)
    BY <1>3, EmptySeq DEF WriteFails, NoBatch
  <2>. QED  BY <1>0, <1>3, <2>2, <2>3 DEF WriteFails, TypeInv
<1>4. CASE SyncBatch
  <2>1. Drain(pending, clear) /\ written' = FALSE /\ clear \in BOOLEAN /\ pending \in Seq(Records)
    BY <1>0, <1>4 DEF SyncBatch, TypeInv
  <2>2. /\ pending' \in Seq(Records) /\ batch'.recs \in Seq(Records) /\ clear' = FALSE
    BY <1>0, <2>1, DrainKeeps DEF TypeInv
  <2>. QED  BY <1>0, <1>4, <2>2 DEF SyncBatch, TypeInv
<1>5. CASE FlushReturns
  BY <1>0, <1>5, LastIdType DEF FlushReturns, TypeInv
<1>6. CASE Resume
  <2>. DEFINE rs == Read(file)
              migrates == Len(rs) > 0 /\ rs[1].kind = "old"
              now == Upgraded(rs)
  <2>1. /\ written' = FALSE /\ tmp' = NoCopy
        /\ UNCHANGED <<file, disk, acked>>
        /\ logged' = now
        /\ migrates => comp' = "no"
        /\ IF migrates THEN Drain(now, TRUE) ELSE Drain(<<>>, FALSE)
    BY <1>6 DEF Resume, Reset, Upgraded
  <2>2. now \in Seq(Records)
    BY <1>0, ReadPositions, UpgradedFacts DEF TypeInv
  <2>3. tmp'.lines \in Seq(LineSet)
    BY <2>1, EmptySeq DEF NoCopy
  <2>. HIDE DEF migrates, now
  <2>4. CASE migrates
    <3>1. Drain(now, TRUE) /\ comp' = "no" /\ TRUE \in BOOLEAN
      BY <2>1, <2>4
    <3>2. /\ pending' \in Seq(Records) /\ batch'.recs \in Seq(Records) /\ clear' = FALSE
      BY <2>1, <2>2, <3>1, DrainKeeps
    <3>. QED  BY <1>0, <2>1, <2>2, <2>3, <3>2 DEF TypeInv
  <2>5. CASE ~migrates
    <3>1. Drain(<<>>, FALSE) /\ FALSE \in BOOLEAN /\ <<>> \in Seq(Records)
      BY <2>1, <2>5, EmptySeq
    <3>2. /\ pending' \in Seq(Records) /\ batch'.recs \in Seq(Records) /\ clear' = FALSE
      BY <2>1, <3>1, DrainKeeps
    <3>. QED  BY <1>0, <2>1, <2>2, <2>3, <3>2 DEF TypeInv
  <2>. QED  BY <2>4, <2>5
<1>7. CASE CompactCopy
  <2>1. tmp'.lines = KeptLines(file)
    BY <1>7 DEF CompactCopy, copyRetainingLines
  <2>2. tmp'.lines \in Seq(LineSet)
    BY <1>0, <2>1, KeptPositions DEF TypeInv
  <2>. QED  BY <1>0, <1>7, <2>2 DEF CompactCopy, TypeInv
<1>8. CASE CompactCheck
  <2>1. CASE comp' = "no"
    <3>1. Drain(pending, clear) /\ clear \in BOOLEAN /\ pending \in Seq(Records)
      BY <1>0, <1>8, <2>1 DEF CompactCheck, TypeInv
    <3>2. written' = FALSE
      BY <1>0, <1>8 DEF CompactCheck, IInv, SwapAlone, DiskAgrees
    <3>3. /\ pending' \in Seq(Records) /\ batch'.recs \in Seq(Records) /\ clear' = FALSE
      BY <1>0, <3>1, <3>2, DrainKeeps DEF TypeInv
    <3>. QED  BY <1>0, <1>8, <3>3 DEF CompactCheck, TypeInv
  <2>2. CASE comp' # "no"
    BY <1>0, <1>8, <2>2 DEF CompactCheck, TypeInv
  <2>. QED  BY <2>1, <2>2
<1>9. CASE CompactSwap
  <2>1. Drain(pending, clear) /\ clear \in BOOLEAN /\ pending \in Seq(Records)
    BY <1>0, <1>9 DEF CompactSwap, TypeInv
  <2>2. written' = FALSE
    BY <1>0, <1>9 DEF CompactSwap, IInv, SwapAlone, DiskAgrees
  <2>3. /\ pending' \in Seq(Records) /\ batch'.recs \in Seq(Records) /\ clear' = FALSE
    BY <1>0, <2>1, <2>2, DrainKeeps DEF TypeInv
  <2>4. tmp'.lines \in Seq(LineSet)
    BY <1>9, EmptySeq DEF CompactSwap, NoCopy
  <2>. QED  BY <1>0, <1>9, <2>3, <2>4 DEF CompactSwap, TypeInv
<1>10. CASE Crash
  <2>1. file' \in Seq(LineSet)
    BY <1>0, <1>10, SurvivorsType DEF Crash, TypeInv
  <2>2. batch'.recs = <<>> /\ tmp'.lines = <<>>
    BY <1>10 DEF Crash, NoBatch, NoCopy
  <2>. QED  BY <1>0, <1>10, <2>1, <2>2, EmptySeq DEF Crash, TypeInv
<1>11. CASE UNCHANGED vars
  BY <1>0, <1>11 DEF vars, TypeInv
<1>. QED
  BY <1>1, <1>2, <1>3, <1>4, <1>5, <1>6, <1>7, <1>8, <1>9, <1>10, <1>11 DEF Next

-----------------------------------------------------------------------------
(* The steps                                                               *)

\* Logging: the queue takes the new records.
LEMMA StepLogRecord ==
  ASSUME Inv, LogRecord
  PROVE  LogSound' /\ QueueSound'
<1>0. TypeInv /\ IInv /\ LogSound /\ QueueSound
  BY DEF Inv
<1>1. PICK k \in {"fold", "snap", "keep"} \cup Turns :
        LET new == IF hasMeta THEN <<Rec(k, LastId + 1)>>
                   ELSE <<Rec("meta", LastId + 1), Rec(k, LastId + 2)>>
        IN  /\ logged' = logged \o new
            /\ IF Busy
               THEN pending' = pending \o new /\ UNCHANGED <<clear, draining, batch>>
               ELSE /\ draining' = TRUE /\ clear' = FALSE
                    /\ batch' = [recs |-> pending \o <<Head(new)>>, clear |-> clear]
                    /\ pending' = Tail(new)
  BY DEF LogRecord
<1>. DEFINE new == IF hasMeta THEN <<Rec(k, LastId + 1)>>
                   ELSE <<Rec("meta", LastId + 1), Rec(k, LastId + 2)>>
<1>2. /\ logged' = logged \o new
      /\ IF Busy
         THEN pending' = pending \o new /\ UNCHANGED <<clear, draining, batch>>
         ELSE /\ draining' = TRUE /\ clear' = FALSE
              /\ batch' = [recs |-> pending \o <<Head(new)>>, clear |-> clear]
              /\ pending' = Tail(new)
  BY <1>1
<1>3. /\ new \in Seq(Records) /\ new # <<>> /\ Sorted(new)
      /\ \A i \in 1..Len(new) : new[i].id > LastOf(logged)
  <2>1. LastId \in Nat /\ LastId = LastOf(logged)
    BY <1>0, LastIdType
  <2>2. /\ new \in Seq(Records) /\ new # <<>> /\ Sorted(new)
        /\ \A i \in 1..Len(new) : new[i].id > LastId
    <3>1. new = <<Rec(k, LastId + 1)>> \/ new = <<Rec("meta", LastId + 1), Rec(k, LastId + 2)>>
      OBVIOUS
    <3>. HIDE DEF new
    <3>. QED  BY <2>1, <3>1, NewRecords
  <2>. QED  BY <2>1, <2>2
<1>. HIDE DEF new
<1>4. /\ up /\ ~failed /\ up' = up /\ failed' = failed /\ joined' = joined /\ acked' = acked
      /\ file' = file /\ disk' = disk /\ written' = written /\ comp' = comp
  BY DEF LogRecord
<1>5. SUFFICES ASSUME ~joined
               PROVE  LogSound' /\ QueueSound'
  BY <1>4 DEF LogSound, QueueSound
<1>6. /\ Sorted(logged) /\ Clean(file) /\ SortedLines(file) /\ Extends(file, disk)
      /\ \A j \in Len(disk)..Len(file) : Sound(Whole(file, j), logged, acked)
  BY <1>0, <1>5 DEF LogSound
<1>7. /\ Sorted(Queue) /\ Splits(Base, Queue, logged)
      /\ Unwritten /\ batch.clear => batch.recs # <<>> /\ acked <= Last(batch.recs).id
  BY <1>0, <1>4, <1>5 DEF QueueSound
<1>8. logged \in Seq(Records) /\ pending \in Seq(Records) /\ batch.recs \in Seq(Records)
      /\ acked \in Nat /\ clear = FALSE /\ Queue \in Seq(Records)
  BY <1>0, EmptySeq, ConcatProperties DEF TypeInv, Queue
<1>9. LogSound'
  <2>1. Sorted(logged \o new)
    BY <1>3, <1>6, <1>8, LogGrows
  <2>2. \A j \in Len(disk)..Len(file) : Sound(Whole(file, j), logged \o new, acked)
    BY <1>3, <1>6, <1>8, SoundGrows
  <2>. QED  BY <1>2, <1>4, <1>6, <2>1, <2>2 DEF LogSound
<1>10. Sorted(Queue \o new) /\ Splits(Base, Queue \o new, logged \o new)
  BY <1>3, <1>6, <1>7, <1>8, SplitsGrows
<1>11. CASE Busy
  <2>1. pending' = pending \o new /\ draining' = draining /\ batch' = batch
    BY <1>2, <1>11
  <2>2. Unwritten' = Unwritten /\ Base' = Base
    BY <1>4, <2>1 DEF Unwritten, Base
  <2>3. Queue' = Queue \o new
    <3>. DEFINE a == IF Unwritten THEN batch.recs ELSE <<>>
    <3>1. a \in Seq(Records)
      BY <1>8, EmptySeq
    <3>2. Queue = a \o pending /\ Queue' = a \o (pending \o new)
      BY <2>1, <2>2 DEF Queue
    <3>. HIDE DEF a
    <3>3. (a \o pending) \o new = a \o (pending \o new)
      BY <1>3, <1>8, <3>1, ConcatAssociative, SMTT(30)
    <3>. QED  BY <3>2, <3>3
  <2>4. QueueSound'
    BY <1>2, <1>4, <1>7, <1>10, <2>1, <2>2, <2>3 DEF QueueSound
  <2>. QED  BY <1>9, <2>4
<1>12. CASE ~Busy
  <2>1. /\ draining' = TRUE /\ batch' = [recs |-> pending \o <<Head(new)>>, clear |-> FALSE]
        /\ pending' = Tail(new)
    BY <1>2, <1>8, <1>12
  <2>2. ~draining /\ ~written
    BY <1>0, <1>12 DEF Busy, IInv, DiskAgrees
  <2>3. batch'.recs = pending \o <<Head(new)>> /\ batch'.clear = FALSE
    BY <2>1
  <2>4. ~Unwritten /\ Unwritten' /\ Base = Whole(file, Len(file)) /\ Base' = Base
    BY <1>4, <2>1, <2>2, <2>3 DEF Unwritten, Base
  <2>5. Queue = pending
    BY <1>8, <2>4, ConcatEmptySeq DEF Queue
  <2>6. Queue' = pending \o new
    <3>1. /\ Head(new) \in Records /\ Tail(new) \in Seq(Records)
          /\ Len(Tail(new)) = Len(new) - 1
          /\ \A i \in 1..Len(Tail(new)) : Tail(new)[i] = new[i + 1]
      BY <1>3, HeadTailProperties
    <3>. DEFINE h == Head(new)
                t == Tail(new)
    <3>2. new = <<h>> \o t
      <4>1. h = new[1] /\ Len(new) \in Nat /\ Len(new) # 0
        BY <1>3, EmptySeq, LenProperties
      <4>. HIDE DEF h, t
      <4>2. <<h>> \in Seq(Records) /\ Len(<<h>>) = 1 /\ <<h>>[1] = h
        BY <3>1 DEF h
      <4>3. /\ <<h>> \o t \in Seq(Records) /\ Len(<<h>> \o t) = 1 + Len(t)
            /\ (\A i \in 1..Len(<<h>>) : (<<h>> \o t)[i] = <<h>>[i])
            /\ \A i \in 1..Len(t) : (<<h>> \o t)[1 + i] = t[i]
        BY <3>1, <4>2, RecsConcat DEF t
      <4>4. ASSUME NEW i \in 1..Len(new)
            PROVE  (<<h>> \o t)[i] = new[i]
        <5>1. CASE i = 1
          BY <4>1, <4>2, <4>3, <5>1
        <5>2. CASE i # 1
          <6>1. i - 1 \in 1..Len(t) /\ 1 + (i - 1) = i /\ (i - 1) + 1 = i
            BY <3>1, <4>1, <5>2 DEF t
          <6>. QED  BY <3>1, <4>3, <6>1 DEF t
        <5>. QED  BY <5>1, <5>2
      <4>5. Len(<<h>> \o t) = Len(new)
        BY <3>1, <4>1, <4>3 DEF t
      <4>. QED  BY <1>3, <4>3, <4>4, <4>5, SeqEqual
    <3>3. Queue' = (pending \o <<h>>) \o t
      BY <2>1, <2>3, <2>4 DEF Queue
    <3>. HIDE DEF h, t
    <3>4. <<h>> \in Seq(Records) /\ t \in Seq(Records)
      BY <3>1 DEF h, t
    <3>5. (pending \o <<h>>) \o t = pending \o (<<h>> \o t)
      BY <1>8, <3>4, ConcatAssociative
    <3>. QED  BY <3>2, <3>3, <3>5
  <2>7. QueueSound'
    BY <1>2, <1>10, <2>3, <2>4, <2>5, <2>6 DEF QueueSound
  <2>. QED  BY <1>9, <2>7
<1>. QED  BY <1>11, <1>12

\* A batch written whole.
LEMMA BatchReaches ==
  ASSUME Inv, up, ~failed, ~joined, Unwritten,
         NEW f \in Seq(LineSet), \/ batch.clear /\ f = <<>>
                                 \/ ~batch.clear /\ f = file /\ ~Joins,
         NEW g, g = f \o Lines(batch.recs)
  PROVE  /\ g \in Seq(LineSet) /\ Clean(g) /\ SortedLines(g) /\ Extends(g, f)
         /\ Splits(Whole(g, Len(g)), pending, logged) /\ Sorted(pending)
         /\ ~batch.clear => \A k \in Len(file)..Len(g) : Sound(Whole(g, k), logged, acked)
         /\ Sound(Whole(g, Len(g)), logged, acked)
<1>. DEFINE rs == batch.recs
            n == Len(f)
            l == Len(rs)
<1>0. TypeInv /\ IInv /\ LogSound /\ QueueSound
  BY DEF Inv
<1>1. /\ Sorted(logged) /\ Clean(file) /\ SortedLines(file) /\ Extends(file, disk)
      /\ \A j \in Len(disk)..Len(file) : Sound(Whole(file, j), logged, acked)
  BY <1>0 DEF LogSound
<1>2. /\ logged \in Seq(Records) /\ pending \in Seq(Records) /\ rs \in Seq(Records)
      /\ acked \in Nat /\ disk \in Seq(LineSet) /\ file \in Seq(LineSet)
  BY <1>0 DEF TypeInv
<1>3. /\ Sorted(rs \o pending) /\ Splits(Base, rs \o pending, logged)
      /\ batch.clear => rs # <<>> /\ acked <= Last(rs).id
  BY <1>0 DEF QueueSound, Queue
<1>4. Base = Whole(f, n) /\ Base \subseteq Records
  <2>1. Whole(<<>>, 0) = {}
    BY DEF Whole
  <2>2. Len(<<>>) = 0
    BY EmptySeq
  <2>3. Base = Whole(f, n)
    BY <2>1, <2>2 DEF Base
  <2>4. n \in 0..Len(f)
    BY LenProperties
  <2>. QED  BY <2>3, <2>4, WholeFacts
<1>5. PICK K \in Nat : /\ K <= LastOf(logged)
                       /\ \A r \in Base : r.id <= K
                       /\ Recs(rs \o pending) = {r \in Recs(logged) : r.id > K}
                       /\ Live(Base) = Live(UpTo(logged, K))
  BY <1>3 DEF Splits
<1>6. /\ rs \o pending \in Seq(Records) /\ Len(rs \o pending) = l + Len(pending)
      /\ Recs(rs \o pending) = Recs(rs) \cup Recs(pending)
      /\ \A i \in 1..l : (rs \o pending)[i] = rs[i]
      /\ \A i \in 1..Len(pending) : (rs \o pending)[l + i] = pending[i]
  BY <1>2, RecsConcat
<1>7. /\ g \in Seq(LineSet) /\ Len(g) = n + l
      /\ n \in Nat /\ l \in Nat
      /\ \A i \in 1..n : g[i] = f[i]
      /\ \A i \in 1..l : g[n + i] = Line(rs[i])
      /\ \A k \in 0..n : Whole(g, k) = Whole(f, k)
      /\ \A m \in 0..l : Whole(g, n + m) = Whole(f, n) \cup Firsts(rs, m)
  <2>1. rs \in Seq(Records) /\ g = f \o Lines(rs)
    BY <1>2
  <2>. HIDE DEF rs
  <2>2. Continues(g, f, rs)
    BY <2>1, Appended
  <2>. QED  BY <2>2 DEF Continues
<1>8. /\ DOMAIN g = 1..n + l /\ DOMAIN f = 1..n /\ DOMAIN (rs \o pending) = 1..l + Len(pending)
      /\ Len(pending) \in Nat /\ DOMAIN pending = 1..Len(pending)
  BY <1>2, <1>6, <1>7, LenProperties
<1>9. \A i \in 1..n : f[i].ended /\ ~f[i].torn /\ f[i].rec.id \in Nat /\ f[i].rec.id <= K
                      /\ f[i] \in LineSet
  <2>. TAKE i \in 1..n
  <2>1. /\ f = file /\ ~Joins /\ ~batch.clear
    BY <1>7, EmptySeq
  <2>2. i < n => f[i].ended
    BY <1>1, <1>8, <2>1 DEF Clean
  <2>3. i = n => f[i].ended
    BY <1>7, <2>1 DEF Joins, Last
  <2>4. f[i].ended /\ ~f[i].torn
    <3>1. i < n \/ i = n
      BY <1>7
    <3>2. f[i].torn => ~f[i].ended
      BY <1>1, <1>8, <2>1 DEF Clean
    <3>. QED  BY <2>2, <2>3, <3>1, <3>2
  <2>5. n \in 0..Len(f)
    BY <1>7
  <2>6. /\ f[i] \in LineSet /\ f[i].rec.id \in Nat \ {0}
        /\ Migrated(f[i].rec).id = f[i].rec.id /\ Migrated(f[i].rec) \in Whole(f, n)
    BY <2>4, <2>5, WholeFacts
  <2>. QED  BY <1>4, <1>5, <2>4, <2>6
<1>10. \A i \in 1..l : rs[i].id > K /\ rs[i].id \in Nat
  <2>. TAKE i \in 1..l
  <2>1. rs[i].id \in Nat \ {0} /\ Migrated(rs[i]) \in Recs(rs) /\ Migrated(rs[i]).id = rs[i].id
    BY <1>2, RecsFacts
  <2>. QED  BY <1>5, <1>6, <2>1
<1>. HIDE DEF rs, n, l
<1>11. \A i \in 1..l : /\ g[n + i].rec = rs[i] /\ ~g[n + i].torn /\ g[n + i].ended
  <2>. TAKE i \in 1..l
  <2>1. g[n + i] = Line(rs[i])
    BY <1>7
  <2>. QED  BY <2>1 DEF Line
<1>12. \A i \in 1..n + l : i \in 1..n \/ (i - n \in 1..l /\ n + (i - n) = i)
  BY <1>7
<1>13. Clean(g)
  <2>1. ASSUME NEW i \in 1..n + l
        PROVE  ~g[i].torn /\ g[i].ended
    <3>1. CASE i \in 1..n
      BY <1>7, <1>9, <3>1
    <3>2. CASE i - n \in 1..l /\ n + (i - n) = i
      BY <1>11, <3>2
    <3>. QED  BY <1>12, <3>1, <3>2
  <2>. QED  BY <1>8, <2>1 DEF Clean
<1>14. SortedLines(g)
  <2>. SUFFICES ASSUME NEW i \in 1..n + l, NEW j \in 1..n + l, i < j
                PROVE  g[i].rec.id < g[j].rec.id
    BY <1>8 DEF SortedLines
  <2>1. CASE j \in 1..n
    <3>1. i \in 1..n
      BY <1>7, <2>1
    <3>2. f[i].rec.id < f[j].rec.id
      <4>1. f = file
        BY <1>7, <2>1, EmptySeq DEF n
      <4>. QED  BY <1>1, <1>8, <2>1, <3>1, <4>1 DEF SortedLines
    <3>. QED  BY <1>7, <2>1, <3>1, <3>2
  <2>2. CASE j \notin 1..n /\ i \in 1..n
    <3>1. j - n \in 1..l /\ n + (j - n) = j
      BY <1>12, <2>2
    <3>2. g[j].rec = rs[j - n] /\ rs[j - n].id > K /\ rs[j - n].id \in Nat
      BY <1>10, <1>11, <3>1
    <3>3. g[i].rec.id \in Nat /\ g[i].rec.id <= K
      BY <1>7, <1>9, <2>2
    <3>. DEFINE x == g[i].rec.id
                y == g[j].rec.id
    <3>4. x \in Nat /\ y \in Nat /\ x <= K /\ y > K
      BY <3>2, <3>3
    <3>. HIDE DEF x, y
    <3>5. x < y
      BY <3>4
    <3>. QED  BY <3>5 DEF x, y
  <2>3. CASE i \notin 1..n
    <3>1. /\ i - n \in 1..l /\ n + (i - n) = i /\ j - n \in 1..l /\ n + (j - n) = j
          /\ i - n < j - n
      BY <1>7, <2>3
    <3>2. g[j].rec = rs[j - n] /\ g[i].rec = rs[i - n]
      BY <1>11, <3>1
    <3>3. i - n \in 1..l + Len(pending) /\ j - n \in 1..l + Len(pending)
      BY <1>7, <1>8, <3>1
    <3>4. (rs \o pending)[i - n].id < (rs \o pending)[j - n].id
      BY <1>3, <1>8, <3>1, <3>3 DEF Sorted
    <3>. QED  BY <1>6, <3>1, <3>2, <3>4
  <2>. QED  BY <2>1, <2>2, <2>3
<1>15. Extends(g, f)
  BY <1>7 DEF Extends, n
<1>16. Sorted(pending)
  <2>. SUFFICES ASSUME NEW i \in 1..Len(pending), NEW j \in 1..Len(pending), i < j
                PROVE  pending[i].id < pending[j].id
    BY <1>8 DEF Sorted
  <2>1. l + i \in 1..l + Len(pending) /\ l + j \in 1..l + Len(pending) /\ l + i < l + j
    BY <1>7, <1>8
  <2>2. (rs \o pending)[l + i].id < (rs \o pending)[l + j].id
    BY <1>3, <1>8, <2>1 DEF Sorted
  <2>. QED  BY <1>6, <2>2
<1>17. ASSUME ~batch.clear
       PROVE  /\ Sound(Base, logged, acked) /\ f = file
              /\ \A i \in 1..l : acked <= rs[i].id
  <2>1. f = file /\ Len(file) \in Len(disk)..Len(file)
    BY <1>1, <1>2, <1>17, LenProperties DEF Extends
  <2>2. Sound(Base, logged, acked)
    BY <1>1, <1>4, <2>1 DEF n
  <2>3. PICK J \in Nat : SoundAt(Base, logged, acked, J)
    BY <2>2 DEF Sound
  <2>4. J <= K
    BY <1>5, <2>3 DEF SoundAt
  <2>5. \A i \in 1..l : acked <= rs[i].id
    BY <1>2, <1>10, <2>3, <2>4, SMTT(30) DEF SoundAt
  <2>. QED  BY <2>1, <2>2, <2>5
<1>18. ASSUME NEW m \in 1..l
       PROVE  /\ acked <= rs[m].id => Sound(Whole(g, n + m), logged, acked)
              /\ m = l => Splits(Whole(g, n + m), pending, logged)
  <2>1. Whole(g, n + m) = Base \cup Firsts(rs, m)
    <3>1. m \in 0..l
      BY <1>7
    <3>. QED  BY <1>4, <1>7, <3>1
  <2>2. m \in 1..Len(rs)
    BY DEF l
  <2>3. /\ \A a \in Nat : a <= rs[m].id => Sound(Base \cup Firsts(rs, m), logged, a)
        /\ m = Len(rs) => Splits(Base \cup Firsts(rs, m), pending, logged)
    BY <1>1, <1>2, <1>3, <1>4, <2>2, Absorbs DEF rs
  <2>. QED  BY <1>2, <2>1, <2>3 DEF l
<1>19. Splits(Whole(g, Len(g)), pending, logged)
  <2>1. CASE l = 0
    <3>1. rs = <<>>
      BY <1>2, <2>1, EmptySeq DEF rs, l
    <3>2. rs \o pending = pending
      BY <1>2, <3>1, ConcatEmptySeq
    <3>3. Whole(g, Len(g)) = Base
      <4>1. Len(g) = n /\ n \in 0..n
        BY <1>7, <2>1
      <4>. QED  BY <1>4, <1>7, <4>1
    <3>. QED  BY <1>3, <3>2, <3>3
  <2>2. CASE l # 0
    <3>1. l \in 1..l
      BY <1>7, <2>2
    <3>. QED  BY <1>7, <1>18, <3>1
  <2>. QED  BY <2>1, <2>2
<1>20. ASSUME ~batch.clear
       PROVE  \A k \in Len(file)..Len(g) : Sound(Whole(g, k), logged, acked)
  <2>. SUFFICES ASSUME NEW k \in n..n + l
                PROVE  Sound(Whole(g, k), logged, acked)
    BY <1>7, <1>17, <1>20 DEF n
  <2>1. CASE k = n
    <3>1. n \in 0..n
      BY <1>7
    <3>. QED  BY <1>4, <1>7, <1>17, <1>20, <2>1, <3>1
  <2>2. CASE k # n
    <3>1. k - n \in 1..l /\ n + (k - n) = k
      BY <1>7, <2>2
    <3>. QED  BY <1>17, <1>18, <1>20, <3>1
  <2>. QED  BY <2>1, <2>2
<1>21. Sound(Whole(g, Len(g)), logged, acked)
  <2>1. CASE ~batch.clear
    <3>1. Len(g) \in Len(file)..Len(g)
      BY <1>7, <1>17, <2>1 DEF n
    <3>. QED  BY <1>20, <2>1, <3>1
  <2>2. CASE batch.clear
    <3>1. rs # <<>> /\ acked <= Last(rs).id
      BY <1>3, <2>2 DEF rs
    <3>2. l \in 1..l /\ Last(rs) = rs[l]
      BY <1>2, <1>7, <3>1, EmptySeq DEF Last, l, rs
    <3>. QED  BY <1>7, <1>18, <3>1, <3>2
  <2>. QED  BY <2>1, <2>2
<1>. QED  BY <1>7, <1>13, <1>14, <1>15, <1>16, <1>19, <1>20, <1>21

\* A continuation of a continuation.
LEMMA ExtendsTransitive ==
  ASSUME NEW f \in Seq(LineSet), NEW g \in Seq(LineSet), NEW h \in Seq(LineSet),
         Extends(g, f), Extends(h, g)
  PROVE  Extends(h, f)
<1>1. Len(f) \in Nat /\ Len(g) \in Nat /\ Len(h) \in Nat
  BY LenProperties
<1>2. \A i \in 1..Len(f) : i \in 1..Len(g)
  BY <1>1 DEF Extends
<1>. QED  BY <1>1, <1>2 DEF Extends

\* Writing: the batch leaves the queue and reaches the file.
LEMMA StepWriteBatch ==
  ASSUME Inv, WriteBatch
  PROVE  LogSound' /\ QueueSound'
<1>0. TypeInv /\ IInv /\ LogSound /\ QueueSound
  BY DEF Inv
<1>1. /\ up /\ draining /\ ~written /\ ~failed
      /\ IF batch.clear
         THEN file' = Lines(batch.recs) /\ disk' = file'
         ELSE file' = AppendLines(file, batch.recs) /\ disk' = disk
      /\ joined' = (joined \/ Joins)
      /\ up' = up /\ failed' = failed /\ draining' = draining /\ batch' = batch
      /\ pending' = pending /\ logged' = logged /\ acked' = acked /\ written' = TRUE
  BY <1>0 DEF WriteBatch, IInv, DiskAgrees
<1>2. SUFFICES ASSUME ~joined, ~Joins
               PROVE  LogSound' /\ QueueSound'
  BY <1>1 DEF LogSound, QueueSound
<1>3. Unwritten /\ ~Unwritten'
  BY <1>1 DEF Unwritten
<1>4. /\ file \in Seq(LineSet) /\ disk \in Seq(LineSet) /\ batch.recs \in Seq(Records)
      /\ pending \in Seq(Records)
  BY <1>0 DEF TypeInv
<1>5. /\ Sorted(logged) /\ Extends(file, disk) /\ Clean(file)
      /\ \A j \in Len(disk)..Len(file) : Sound(Whole(file, j), logged, acked)
  BY <1>0, <1>2 DEF LogSound
<1>6. Queue' = pending /\ Base' = Whole(file', Len(file')) /\ ~(Unwritten /\ batch.clear)'
  BY <1>1, <1>3, <1>4, ConcatEmptySeq DEF Queue, Base
<1>7. CASE batch.clear
  <2>1. <<>> \in Seq(LineSet) /\ <<>> \o Lines(batch.recs) = Lines(batch.recs)
    BY <1>4, EmptySeq, LinesFacts, ConcatEmptySeq
  <2>2. file' = <<>> \o Lines(batch.recs) /\ disk' = file'
    BY <1>1, <1>7, <2>1
  <2>3. /\ file' \in Seq(LineSet) /\ Clean(file') /\ SortedLines(file')
        /\ Splits(Whole(file', Len(file')), pending, logged) /\ Sorted(pending)
        /\ Sound(Whole(file', Len(file')), logged, acked)
    BY <1>1, <1>2, <1>3, <1>7, <2>1, <2>2, BatchReaches
  <2>4. /\ Extends(file', disk')
        /\ \A k \in Len(disk')..Len(file') : k = Len(file')
    BY <2>2, <2>3, LenProperties DEF Extends
  <2>5. LogSound'
    BY <1>1, <1>5, <2>3, <2>4 DEF LogSound
  <2>6. QueueSound'
    BY <1>1, <1>6, <2>3 DEF QueueSound
  <2>. QED  BY <2>5, <2>6
<1>8. CASE ~batch.clear
  <2>1. file' = file \o Lines(batch.recs) /\ disk' = disk
    <3>1. ~(Len(file) > 0 /\ ~Last(file).ended)
      BY <1>2, <1>8 DEF Joins
    <3>2. AppendLines(file, batch.recs) = file \o Lines(batch.recs)
      BY <1>4, <3>1, AppendLinesType
    <3>. QED  BY <1>1, <1>8, <3>2
  <2>2. /\ file' \in Seq(LineSet) /\ Clean(file') /\ SortedLines(file') /\ Extends(file', file)
        /\ Splits(Whole(file', Len(file')), pending, logged) /\ Sorted(pending)
        /\ \A k \in Len(file)..Len(file') : Sound(Whole(file', k), logged, acked)
    BY <1>1, <1>2, <1>3, <1>4, <1>8, <2>1, BatchReaches
  <2>3. Extends(file', disk')
    BY <1>4, <1>5, <2>1, <2>2, ExtendsTransitive
  <2>4. ASSUME NEW k \in Len(disk)..Len(file')
        PROVE  Sound(Whole(file', k), logged, acked)
    <3>1. Len(disk) \in Nat /\ Len(file) \in Nat /\ Len(file') \in Nat
      BY <1>4, <2>2, LenProperties
    <3>2. CASE k \in Len(file)..Len(file')
      BY <2>2, <3>2
    <3>3. CASE k \notin Len(file)..Len(file')
      <4>1. k \in Len(disk)..Len(file) /\ k \in Nat
        BY <3>1, <3>3
      <4>2. \A i \in 1..k : file'[i] = file[i]
        <5>1. \A i \in 1..k : i \in 1..Len(file)
          BY <3>1, <4>1
        <5>. QED  BY <2>2, <5>1 DEF Extends
      <4>3. Whole(file', k) = Whole(file, k)
        BY <4>1, <4>2, WholeSame
      <4>. QED  BY <1>5, <4>1, <4>3
    <3>. QED  BY <3>2, <3>3
  <2>5. LogSound'
    BY <1>1, <1>5, <2>1, <2>2, <2>3, <2>4 DEF LogSound
  <2>6. QueueSound'
    BY <1>1, <1>6, <2>2 DEF QueueSound
  <2>. QED  BY <2>5, <2>6
<1>. QED  BY <1>7, <1>8

\* Failing: the file holds some beginning of the batch.
LEMMA StepWriteFails ==
  ASSUME Inv, WriteFails
  PROVE  LogSound' /\ QueueSound'
<1>0. TypeInv /\ IInv /\ LogSound /\ QueueSound
  BY DEF Inv
<1>1. /\ up /\ draining /\ ~failed /\ failed' /\ disk' = disk /\ logged' = logged /\ acked' = acked
      /\ IF batch.clear \/ written THEN file' = file /\ joined' = joined
         ELSE /\ file' \in Survivors(file, AppendLines(file, batch.recs))
              /\ joined' = (joined \/ Joins)
  BY <1>0 DEF WriteFails, IInv, DiskAgrees
<1>2. QueueSound'
  BY <1>1 DEF QueueSound
<1>3. CASE batch.clear \/ written
  <2>1. file' = file /\ joined' = joined
    BY <1>1, <1>3
  <2>2. LogSound'
    BY <1>0, <1>1, <2>1 DEF LogSound
  <2>. QED  BY <1>2, <2>2
<1>4. CASE ~(batch.clear \/ written)
  <2>1. SUFFICES ASSUME ~joined, ~Joins
                 PROVE  LogSound'
    BY <1>1, <1>2, <1>4 DEF LogSound
  <2>2. /\ file \in Seq(LineSet) /\ disk \in Seq(LineSet) /\ batch.recs \in Seq(Records)
    BY <1>0 DEF TypeInv
  <2>3. /\ Sorted(logged) /\ Extends(file, disk)
        /\ \A j \in Len(disk)..Len(file) : Sound(Whole(file, j), logged, acked)
    BY <1>0, <2>1 DEF LogSound
  <2>. DEFINE g == AppendLines(file, batch.recs)
  <2>4. g = file \o Lines(batch.recs)
    <3>1. ~(Len(file) > 0 /\ ~Last(file).ended)
      BY <1>4, <2>1 DEF Joins
    <3>. QED  BY <2>2, <3>1, AppendLinesType
  <2>5. file' \in Survivors(file, g)
    BY <1>1, <1>4
  <2>. HIDE DEF g
  <2>6. /\ g \in Seq(LineSet) /\ Clean(g) /\ SortedLines(g) /\ Extends(g, file)
        /\ \A k \in Len(file)..Len(g) : Sound(Whole(g, k), logged, acked)
    <3>1. Unwritten /\ ~batch.clear
      BY <1>1, <1>4 DEF Unwritten
    <3>. QED  BY <1>1, <2>1, <2>2, <2>4, <3>1, BatchReaches
  <2>7. /\ file' \in Seq(LineSet) /\ Clean(file') /\ SortedLines(file') /\ Extends(file', file)
        /\ \A k \in Len(file)..Len(file') : \E j \in Len(file)..Len(g) : Whole(file', k) = Whole(g, j)
    BY <2>2, <2>5, <2>6, SurvivorsFacts
  <2>8. Extends(file', disk)
    BY <2>2, <2>3, <2>7, ExtendsTransitive
  <2>9. ASSUME NEW k \in Len(disk)..Len(file')
        PROVE  Sound(Whole(file', k), logged, acked)
    <3>1. Len(disk) \in Nat /\ Len(file) \in Nat /\ Len(file') \in Nat
      BY <2>2, <2>7, LenProperties
    <3>2. CASE k \in Len(file)..Len(file')
      BY <2>6, <2>7, <3>2
    <3>3. CASE k \notin Len(file)..Len(file')
      <4>1. k \in Len(disk)..Len(file) /\ k \in Nat
        BY <3>1, <3>3
      <4>2. \A i \in 1..k : file'[i] = file[i]
        <5>1. \A i \in 1..k : i \in 1..Len(file)
          BY <3>1, <4>1
        <5>. QED  BY <2>7, <5>1 DEF Extends
      <4>3. Whole(file', k) = Whole(file, k)
        BY <4>1, <4>2, WholeSame
      <4>. QED  BY <2>3, <4>1, <4>3
    <3>. QED  BY <3>2, <3>3
  <2>. QED  BY <1>1, <2>3, <2>7, <2>8, <2>9 DEF LogSound
<1>. QED  BY <1>3, <1>4

\* Crashing: what is left holds what some beginning of the file held.
LEMMA StepCrash ==
  ASSUME Inv, Crash
  PROVE  LogSound' /\ QueueSound'
<1>0. TypeInv /\ IInv /\ LogSound /\ QueueSound
  BY DEF Inv
<1>1. /\ up' = FALSE /\ file' \in Survivors(disk, file) /\ disk' = file'
      /\ logged' = logged /\ acked' = acked /\ joined' = joined
  BY DEF Crash
<1>2. QueueSound'
  BY <1>1 DEF QueueSound
<1>3. SUFFICES ASSUME ~joined
               PROVE  LogSound'
  BY <1>1, <1>2 DEF LogSound
<1>4. /\ Sorted(logged) /\ Extends(file, disk) /\ Clean(file) /\ SortedLines(file)
      /\ \A j \in Len(disk)..Len(file) : Sound(Whole(file, j), logged, acked)
  BY <1>0, <1>3 DEF LogSound
<1>5. file \in Seq(LineSet) /\ disk \in Seq(LineSet)
  BY <1>0 DEF TypeInv
<1>6. /\ file' \in Seq(LineSet) /\ Clean(file') /\ SortedLines(file') /\ Extends(file', disk)
      /\ \A k \in Len(disk)..Len(file') : \E j \in Len(disk)..Len(file) : Whole(file', k) = Whole(file, j)
  BY <1>1, <1>4, <1>5, SurvivorsFacts
<1>7. /\ Extends(file', disk') /\ Len(file') \in Len(disk)..Len(file')
      /\ \A k \in Len(disk')..Len(file') : k = Len(file')
  BY <1>1, <1>5, <1>6, LenProperties DEF Extends
<1>8. Sound(Whole(file', Len(file')), logged, acked)
  BY <1>4, <1>6, <1>7
<1>. QED  BY <1>1, <1>4, <1>6, <1>7, <1>8 DEF LogSound

\* A drain that starts without a rewrite leaves the queue and its base as they were.
LEMMA DrainSplits ==
  ASSUME TypeInv, QueueSound, up, ~failed, ~Unwritten, Drain(pending, clear), written' = FALSE,
         up' = up, failed' = failed, joined' = joined, logged' = logged, acked' = acked,
         NEW G, ~joined /\ Splits(Whole(file, Len(file)), pending, logged)
                  => Splits(G, pending, logged),
         Whole(file', Len(file')) = G
  PROVE  QueueSound'
<1>1. SUFFICES ASSUME ~joined
               PROVE  QueueSound'
  BY DEF QueueSound
<1>2. pending \in Seq(Records) /\ clear = FALSE
  BY DEF TypeInv
<1>3. Queue = pending /\ Base = Whole(file, Len(file))
  BY <1>2, ConcatEmptySeq DEF Queue, Base
<1>4. Sorted(pending) /\ Splits(Whole(file, Len(file)), pending, logged)
  BY <1>1, <1>3 DEF QueueSound
<1>5. /\ Queue' = pending /\ ~(Unwritten' /\ batch'.clear)
  BY <1>2, DrainKeeps
<1>6. Base' = G
  BY <1>5 DEF Base
<1>7. Splits(G, pending, logged)
  BY <1>1, <1>4
<1>. QED  BY <1>4, <1>5, <1>6, <1>7 DEF QueueSound

\* Syncing: the next batch takes what is pending.
LEMMA StepSyncBatch ==
  ASSUME Inv, SyncBatch
  PROVE  LogSound' /\ QueueSound'
<1>0. TypeInv /\ IInv /\ LogSound /\ QueueSound
  BY DEF Inv
<1>1. /\ up /\ draining /\ written /\ ~failed /\ disk' = file /\ written' = FALSE
      /\ Drain(pending, clear)
      /\ up' = up /\ file' = file /\ failed' = failed /\ joined' = joined /\ logged' = logged
      /\ acked' = acked
  BY <1>0 DEF SyncBatch, IInv, DiskAgrees
<1>2. ~Unwritten
  BY <1>1 DEF Unwritten
<1>3. QueueSound'
  BY <1>0, <1>1, <1>2, DrainSplits
<1>4. file \in Seq(LineSet) /\ disk \in Seq(LineSet)
  BY <1>0 DEF TypeInv
<1>5. LogSound'
  <2>. SUFFICES ASSUME ~joined
                PROVE  LogSound'
    BY <1>1 DEF LogSound
  <2>1. /\ Sorted(logged) /\ Clean(file) /\ SortedLines(file) /\ Extends(file, disk)
        /\ \A k \in Len(disk)..Len(file) : Sound(Whole(file, k), logged, acked)
    BY <1>0 DEF LogSound
  <2>2. /\ Extends(file, file)
        /\ \A k \in Len(file)..Len(file) : k \in Len(disk)..Len(file)
    BY <1>4, <2>1, LenProperties DEF Extends
  <2>. QED  BY <1>1, <2>1, <2>2 DEF LogSound
<1>. QED  BY <1>3, <1>5

\* Flushing: with nothing queued the file knows of the last record logged.
LEMMA StepFlushReturns ==
  ASSUME Inv, FlushReturns
  PROVE  LogSound' /\ QueueSound'
<1>0. TypeInv /\ IInv /\ LogSound /\ QueueSound
  BY DEF Inv
<1>1. /\ up /\ ~failed /\ ~draining /\ ~written /\ pending = <<>> /\ disk = file
      /\ acked' = LastId
      /\ UNCHANGED <<up, file, disk, pending, draining, batch, written, failed, logged, joined>>
  BY <1>0 DEF FlushReturns, IInv, DiskAgrees
<1>2. SUFFICES ASSUME ~joined
               PROVE  LogSound' /\ QueueSound'
  BY <1>1 DEF LogSound, QueueSound
<1>3. /\ Sorted(logged) /\ Clean(file) /\ SortedLines(file) /\ Extends(file, disk)
      /\ \A k \in Len(disk)..Len(file) : Sound(Whole(file, k), logged, acked)
  BY <1>0, <1>2 DEF LogSound
<1>4. /\ Sorted(Queue) /\ Splits(Base, Queue, logged)
  BY <1>0, <1>1, <1>2 DEF QueueSound
<1>5. ~Unwritten /\ ~Unwritten' /\ Queue' = Queue /\ Base' = Base
  BY <1>1 DEF Unwritten, Queue, Base
<1>6. QueueSound'
  BY <1>1, <1>4, <1>5 DEF QueueSound
<1>7. file \in Seq(LineSet) /\ disk \in Seq(LineSet) /\ logged \in Seq(Records)
  BY <1>0 DEF TypeInv
<1>8. LastId = LastOf(logged) /\ LastId \in Nat
  BY <1>0, LastIdType
<1>. DEFINE G == Whole(file, Len(file))
<1>9. Base = G /\ Recs(Queue) = {}
  <2>1. Base = G
    BY <1>5 DEF Base
  <2>2. Queue = <<>>
    BY <1>1, <1>5, EmptySeq, ConcatEmptySeq DEF Queue
  <2>3. Recs(<<>>) = {}
    BY DEF Recs
  <2>. QED  BY <2>1, <2>2, <2>3
<1>10. PICK K \in Nat : /\ K <= LastOf(logged)
                        /\ \A r \in G : r.id <= K
                        /\ Recs(Queue) = {r \in Recs(logged) : r.id > K}
                        /\ Live(G) = Live(UpTo(logged, K))
  BY <1>4, <1>9 DEF Splits
<1>. HIDE DEF G
<1>11. /\ \A r \in Recs(logged) : r \in Records /\ r.id \in Nat \ {0} /\ r.id <= LastOf(logged)
       /\ logged # <<>> => /\ Migrated(Last(logged)) \in Recs(logged)
                           /\ Migrated(Last(logged)).id = LastOf(logged)
  BY <1>3, <1>7, LastFacts
<1>12. UpTo(logged, K) = Recs(logged)
  BY <1>9, <1>10, <1>11 DEF UpTo
<1>13. ASSUME NEW J \in Nat, SoundAt(G, logged, acked, J)
       PROVE  SoundAt(G, logged, LastId, J)
  <2>1. CASE logged = <<>>
    <3>1. LastId = 0
      BY <2>1 DEF LastId
    <3>. QED  BY <1>13, <3>1 DEF SoundAt
  <2>2. CASE logged # <<>>
    <3>. DEFINE q == Migrated(Last(logged))
    <3>1. q \in Recs(logged) /\ q.id = LastOf(logged)
      BY <1>11, <2>2
    <3>. HIDE DEF q
    <3>2. q \in Live(Recs(logged))
      BY <1>8, <1>11, <3>1 DEF Live, Supersedes
    <3>3. q \in G
      BY <1>10, <1>12, <3>2 DEF Live
    <3>. QED  BY <1>8, <1>13, <3>1, <3>3 DEF SoundAt
  <2>. QED  BY <2>1, <2>2
<1>14. Sound(G, logged, LastId)
  <2>1. Len(file) \in Len(disk)..Len(file)
    BY <1>1, <1>7, LenProperties
  <2>2. Sound(G, logged, acked)
    BY <1>3, <2>1 DEF G
  <2>. QED  BY <1>13, <2>2 DEF Sound
<1>15. \A k \in Len(file)..Len(file) : k = Len(file)
  <2>1. Len(file) \in Nat
    BY <1>7, LenProperties
  <2>. QED  BY <2>1
<1>16. LogSound'
  BY <1>1, <1>3, <1>14, <1>15 DEF LogSound, G
<1>. QED  BY <1>6, <1>16

\* What reading a log that says something leaves says the same, and is up to date.
LEMMA ReadSound ==
  ASSUME NEW f \in Seq(LineSet), Clean(f), SortedLines(f), NEW H, H \subseteq Whole(f, Len(f)),
         Recs(Read(f)) \subseteq H
  PROVE  /\ Live(H) = Live(Whole(f, Len(f)))
         /\ \A r \in Whole(f, Len(f)) :
              (\A q \in Whole(f, Len(f)) : q.id <= r.id) => r \in Recs(Read(f))
<1>1. /\ Recs(Read(f)) \subseteq Whole(f, Len(f))
      /\ \A r \in Whole(f, Len(f)) \ Recs(Read(f)) : \E q \in Recs(Read(f)) : Supersedes(q, r)
  BY ReadKeeps
<1>2. Whole(f, Len(f)) \subseteq Records
  <2>1. Len(f) \in 0..Len(f)
    BY LenProperties
  <2>. QED  BY <2>1, WholeFacts
<1>. DEFINE G == Whole(f, Len(f))
            R == Recs(Read(f))
<1>. HIDE DEF G, R
<1>3. R \subseteq H /\ H \subseteq G /\ G \subseteq Records
      /\ \A r \in G \ R : \E q \in R : Supersedes(q, r)
  BY <1>1, <1>2 DEF G, R
<1>4. Live(H) = Live(G)
  <2>1. \A r \in G \ H : \E q \in H : Supersedes(q, r)
    BY <1>3
  <2>. QED  BY <1>3, <2>1, LiveSame
<1>5. ASSUME NEW r \in G, \A q \in G : q.id <= r.id
      PROVE  r \in R
  <2>. SUFFICES ASSUME r \notin R
                PROVE  FALSE
    OBVIOUS
  <2>1. PICK q \in R : Supersedes(q, r)
    BY <1>3
  <2>2. q.id > r.id /\ q.id <= r.id /\ q.id \in Nat /\ r.id \in Nat
    BY <1>3, <1>5, <2>1 DEF Supersedes, Records
  <2>. QED  BY <2>2
<1>. QED  BY <1>4, <1>5 DEF G, R

\* Compacting leaves the log sound.
LEMMA CompactedSound ==
  ASSUME NEW f \in Seq(LineSet), Clean(f), SortedLines(f)
  PROVE  /\ KeptLines(f) \in Seq(LineSet) /\ Clean(KeptLines(f)) /\ SortedLines(KeptLines(f))
         /\ Whole(KeptLines(f), Len(KeptLines(f))) \subseteq Whole(f, Len(f))
         /\ Recs(Read(f)) \subseteq Whole(KeptLines(f), Len(KeptLines(f)))
<1>. DEFINE g == KeptLines(f)
<1>1. PICK e : /\ Enumerates(e, Len(g), KeptAt(f))
               /\ \A j \in 1..Len(g) : g[j] = f[e[j]]
  BY KeptPositions
<1>2. g \in Seq(LineSet) /\ Len(g) \in Nat /\ Len(f) \in Nat /\ DOMAIN f = 1..Len(f)
      /\ DOMAIN g = 1..Len(g)
  BY KeptPositions, LenProperties
<1>3. Recs(Read(g)) \subseteq Recs(Read(f)) /\ Recs(Read(f)) \subseteq Recs(Read(g))
  <2>1. Read(g) = Read(f)
    BY CompactedReads
  <2>. QED  BY <2>1
<1>. HIDE DEF g
<1>4. \A j \in 1..Len(g) : e[j] \in 1..Len(f)
  BY <1>1 DEF Enumerates, KeptAt
<1>5. Clean(g)
  <2>. SUFFICES ASSUME NEW j \in 1..Len(g)
                PROVE  (g[j].torn => ~g[j].ended) /\ (j < Len(g) => g[j].ended)
    BY <1>2 DEF Clean
  <2>1. j < Len(g) => e[j] < Len(f)
    <3>. SUFFICES ASSUME j < Len(g)
                  PROVE  e[j] < Len(f)
      OBVIOUS
    <3>1. Len(g) \in 1..Len(g)
      BY <1>2
    <3>2. e[j] < e[Len(g)]
      BY <1>1, <3>1 DEF Enumerates
    <3>. QED  BY <1>2, <1>4, <3>1, <3>2
  <2>2. (f[e[j]].torn => ~f[e[j]].ended) /\ (e[j] < Len(f) => f[e[j]].ended)
    BY <1>2, <1>4 DEF Clean
  <2>. QED  BY <1>1, <2>1, <2>2
<1>6. SortedLines(g)
  <2>. SUFFICES ASSUME NEW j \in 1..Len(g), NEW k \in 1..Len(g), j < k
                PROVE  g[j].rec.id < g[k].rec.id
    BY <1>2 DEF SortedLines
  <2>1. e[j] < e[k]
    BY <1>1 DEF Enumerates
  <2>2. f[e[j]].rec.id < f[e[k]].rec.id
    BY <1>2, <1>4, <2>1 DEF SortedLines
  <2>. QED  BY <1>1, <2>2
<1>7. Whole(g, Len(g)) \subseteq Whole(f, Len(f))
  BY <1>1, <1>4 DEF Whole
<1>8. Recs(Read(g)) \subseteq Whole(g, Len(g))
  BY <1>2, <1>5, <1>6, ReadKeeps
<1>. QED  BY <1>2, <1>3, <1>5, <1>6, <1>7, <1>8 DEF g

\* Resuming: what the reader yields becomes the log, and the file says the same.
LEMMA StepResume ==
  ASSUME Inv, Resume
  PROVE  LogSound' /\ QueueSound'
<1>. DEFINE rs == Read(file)
            now == Upgraded(rs)
            G == Whole(file, Len(file))
            migrates == Len(rs) > 0 /\ rs[1].kind = "old"
<1>0. TypeInv /\ IInv /\ LogSound
  BY DEF Inv
<1>1. /\ ~up /\ disk = file /\ file' = file /\ disk' = disk /\ acked' = acked /\ joined' = joined
      /\ logged' = now /\ written' = FALSE
      /\ migrates => comp' = "no"
      /\ IF migrates THEN Drain(now, TRUE) ELSE Drain(<<>>, FALSE)
  BY <1>0 DEF Resume, Reset, Upgraded, IInv, DiskAgrees
<1>2. SUFFICES ASSUME ~joined
               PROVE  LogSound' /\ QueueSound'
  BY <1>1 DEF LogSound, QueueSound
<1>3. file \in Seq(LineSet) /\ acked \in Nat /\ Len(file) \in Nat
  BY <1>0, LenProperties DEF TypeInv
<1>4. /\ Clean(file) /\ SortedLines(file) /\ Extends(file, disk)
      /\ Sound(G, logged, acked)
  <2>1. Len(file) \in Len(disk)..Len(file)
    BY <1>1, <1>3
  <2>. QED  BY <1>0, <1>2, <2>1 DEF LogSound
<1>5. PICK K \in Nat : SoundAt(G, logged, acked, K)
  BY <1>4 DEF Sound
<1>6. rs \in Seq(Records) /\ Sorted(rs) /\ Recs(rs) \subseteq G
  BY <1>3, <1>4, ReadPositions, ReadKeeps
<1>7. /\ Live(Recs(rs)) = Live(G)
      /\ \A r \in G : (\A q \in G : q.id <= r.id) => r \in Recs(rs)
  BY <1>3, <1>4, <1>6, ReadSound
<1>. HIDE DEF rs, G
<1>8. /\ now \in Seq(Records) /\ Len(now) = Len(rs)
      /\ \A i \in 1..Len(rs) : now[i].id = rs[i].id /\ Migrated(now[i]) = Migrated(rs[i])
  BY <1>6, UpgradedFacts
<1>9. /\ DOMAIN now = 1..Len(rs) /\ DOMAIN rs = 1..Len(rs) /\ Len(rs) \in Nat
  BY <1>6, <1>8, LenProperties
<1>. HIDE DEF now
<1>10. Sorted(now) /\ Recs(now) = Recs(rs)
  BY <1>6, <1>8, <1>9 DEF Sorted, Recs
<1>11. /\ LastOf(now) \in Nat
       /\ \A r \in Recs(now) : r \in Records /\ r.id \in Nat \ {0} /\ r.id <= LastOf(now)
       /\ now # <<>> => /\ Migrated(Last(now)) \in Recs(now)
                        /\ Migrated(Last(now)).id = LastOf(now)
  BY <1>8, <1>10, LastFacts
<1>12. LastOf(now) = K
  <2>1. LastOf(now) <= K
    <3>1. CASE now = <<>>
      BY <1>5, <3>1 DEF LastOf
    <3>2. CASE now # <<>>
      BY <1>5, <1>6, <1>10, <1>11, <3>2 DEF SoundAt
    <3>. QED  BY <3>1, <3>2
  <2>2. K <= LastOf(now)
    <3>1. CASE K = 0
      BY <1>11, <3>1
    <3>2. CASE K # 0
      <4>1. PICK r \in G : r.id = K
        BY <1>5, <3>2 DEF SoundAt
      <4>2. r \in Recs(now)
        BY <1>5, <1>7, <1>10, <4>1 DEF SoundAt
      <4>. QED  BY <1>11, <4>1, <4>2
    <3>. QED  BY <3>1, <3>2
  <2>. QED  BY <1>5, <1>11, <2>1, <2>2
<1>13. UpTo(now, K) = Recs(rs) /\ {r \in Recs(now) : r.id > K} = {}
  BY <1>5, <1>10, <1>11, <1>12 DEF UpTo
<1>14. SoundAt(G, now, acked, K)
  BY <1>5, <1>7, <1>12, <1>13 DEF SoundAt
<1>15. LogSound'
  <2>1. \A k \in Len(file)..Len(file) : k = Len(file)
    BY <1>3
  <2>2. Sound(G, now, acked)
    BY <1>14 DEF Sound
  <2>. QED  BY <1>1, <1>4, <1>10, <2>1, <2>2 DEF LogSound, G
<1>16. CASE migrates
  <2>1. Drain(now, TRUE) /\ comp' = "no" /\ TRUE \in BOOLEAN
    BY <1>1, <1>16
  <2>2. Queue' = now /\ Unwritten' /\ batch'.clear /\ batch'.recs = now
    BY <1>1, <1>8, <2>1, DrainKeeps
  <2>3. Base' = {}
    BY <2>2 DEF Base
  <2>4. now # <<>>
    <3>1. Len(now) # 0
      BY <1>8, <1>9, <1>16
    <3>. QED  BY <3>1, EmptySeq
  <2>5. Splits({}, now, now)
    <3>1. UpTo(now, 0) = {} /\ Recs(now) = {r \in Recs(now) : r.id > 0}
      BY <1>11 DEF UpTo
    <3>2. 0 \in Nat /\ 0 <= LastOf(now)
      BY <1>11
    <3>. QED  BY <3>1, <3>2 DEF Splits
  <2>6. acked <= Last(now).id
    BY <1>5, <1>12, <2>4 DEF SoundAt, LastOf
  <2>7. QueueSound'
    BY <1>1, <1>10, <2>2, <2>3, <2>4, <2>5, <2>6 DEF QueueSound
  <2>. QED  BY <1>15, <2>7
<1>17. CASE ~migrates
  <2>1. Drain(<<>>, FALSE) /\ FALSE \in BOOLEAN /\ <<>> \in Seq(Records)
    BY <1>1, <1>17, EmptySeq
  <2>2. Queue' = <<>> /\ ~(Unwritten' /\ batch'.clear)
    BY <1>1, <2>1, DrainKeeps
  <2>3. Base' = G
    BY <1>1, <2>2 DEF Base, G
  <2>4. Recs(<<>>) = {} /\ Sorted(<<>>)
    BY DEF Recs, Sorted
  <2>5. Splits(G, <<>>, now)
    BY <1>14, <1>13, <2>4 DEF Splits, SoundAt
  <2>6. QueueSound'
    BY <1>1, <2>2, <2>3, <2>4, <2>5 DEF QueueSound
  <2>. QED  BY <1>15, <2>6
<1>. QED  BY <1>16, <1>17

\* Checking: the drain held back starts, or waits for the swap.
LEMMA StepCompactCheck ==
  ASSUME Inv, CompactCheck
  PROVE  LogSound' /\ QueueSound'
<1>0. TypeInv /\ IInv /\ LogSound /\ QueueSound
  BY DEF Inv
<1>1. /\ up /\ ~failed /\ ~draining /\ ~written
      /\ IF comp' = "no" THEN Drain(pending, clear)
         ELSE UNCHANGED <<pending, clear, draining, batch>>
      /\ UNCHANGED <<up, file, disk, written, failed, logged, acked, joined>>
  BY <1>0 DEF CompactCheck, IInv, DiskAgrees, SwapAlone
<1>2. LogSound'
  BY <1>0, <1>1 DEF LogSound
<1>3. ~Unwritten
  BY <1>1 DEF Unwritten
<1>4. CASE comp' = "no"
  <2>1. Drain(pending, clear) /\ written' = FALSE /\ Whole(file', Len(file')) = Whole(file, Len(file))
    BY <1>1, <1>4
  <2>2. QueueSound'
    BY <1>0, <1>1, <1>3, <2>1, DrainSplits
  <2>. QED  BY <1>2, <2>2
<1>5. CASE comp' # "no"
  <2>1. Queue' = Queue /\ Base' = Base /\ Unwritten' = Unwritten
    BY <1>1, <1>5 DEF Queue, Base, Unwritten
  <2>2. QueueSound'
    BY <1>0, <1>1, <1>5, <2>1 DEF QueueSound
  <2>. QED  BY <1>2, <2>2
<1>. QED  BY <1>4, <1>5

\* Swapping: the copy says what the file said.
LEMMA StepCompactSwap ==
  ASSUME Inv, CompactSwap
  PROVE  LogSound' /\ QueueSound'
<1>0. TypeInv /\ IInv /\ LogSound /\ QueueSound /\ CopySound
  BY DEF Inv
<1>. DEFINE g == KeptLines(file)
            G == Whole(file, Len(file))
            H == Whole(g, Len(g))
<1>1. /\ up /\ ~failed /\ ~draining /\ ~written /\ file' = g /\ disk' = g
      /\ Drain(pending, clear) /\ written' = FALSE
      /\ UNCHANGED <<up, failed, logged, acked, joined>>
  BY <1>0 DEF CompactSwap, CopySound, IInv, DiskAgrees, SwapAlone
<1>2. SUFFICES ASSUME ~joined
               PROVE  LogSound' /\ QueueSound'
  BY <1>1 DEF LogSound, QueueSound
<1>3. /\ file \in Seq(LineSet) /\ disk \in Seq(LineSet)
  BY <1>0 DEF TypeInv
<1>4. /\ Sorted(logged) /\ Clean(file) /\ SortedLines(file)
      /\ Sound(G, logged, acked)
  <2>1. /\ Sorted(logged) /\ Clean(file) /\ SortedLines(file) /\ Extends(file, disk)
        /\ \A k \in Len(disk)..Len(file) : Sound(Whole(file, k), logged, acked)
    BY <1>0, <1>2 DEF LogSound
  <2>2. Len(file) \in Len(disk)..Len(file)
    BY <1>3, <2>1, LenProperties DEF Extends
  <2>. QED  BY <2>1, <2>2
<1>5. /\ g \in Seq(LineSet) /\ Clean(g) /\ SortedLines(g) /\ H \subseteq G
      /\ Recs(Read(file)) \subseteq H
  BY <1>3, <1>4, CompactedSound
<1>6. /\ Live(H) = Live(G)
      /\ \A r \in G : (\A q \in G : q.id <= r.id) => r \in H
  <2>1. /\ Live(H) = Live(G)
        /\ \A r \in G : (\A q \in G : q.id <= r.id) => r \in Recs(Read(file))
    <3>. HIDE DEF H
    <3>. QED  BY <1>3, <1>4, <1>5, ReadSound
  <2>. QED  BY <1>5, <2>1
<1>7. Len(g) \in Nat
  BY <1>5, LenProperties
<1>. HIDE DEF g, G, H
<1>8. Sound(H, logged, acked)
  <2>1. PICK K \in Nat : SoundAt(G, logged, acked, K)
    BY <1>4 DEF Sound
  <2>2. SoundAt(H, logged, acked, K)
    <3>1. K = 0 \/ \E r \in H : r.id = K
      BY <1>6, <2>1 DEF SoundAt
    <3>2. \A r \in H : r.id <= K
      BY <1>5, <2>1 DEF SoundAt
    <3>. QED  BY <1>6, <2>1, <3>1, <3>2 DEF SoundAt
  <2>. QED  BY <2>2 DEF Sound
<1>9. LogSound'
  <2>1. Extends(g, g) /\ \A k \in Len(g)..Len(g) : k = Len(g)
    BY <1>7 DEF Extends
  <2>. QED  BY <1>1, <1>4, <1>5, <1>8, <2>1 DEF LogSound, H
<1>10. Splits(G, pending, logged) => Splits(H, pending, logged)
  <2>. SUFFICES ASSUME Splits(G, pending, logged)
                PROVE  Splits(H, pending, logged)
    OBVIOUS
  <2>1. PICK K \in Nat : /\ K <= LastOf(logged)
                         /\ \A r \in G : r.id <= K
                         /\ Recs(pending) = {r \in Recs(logged) : r.id > K}
                         /\ Live(G) = Live(UpTo(logged, K))
    BY DEF Splits
  <2>. QED  BY <1>5, <1>6, <2>1 DEF Splits
<1>11. QueueSound'
  <2>1. ~Unwritten
    BY <1>1 DEF Unwritten
  <2>2. Whole(file', Len(file')) = H
    BY <1>1 DEF H
  <2>. QED  BY <1>0, <1>1, <1>10, <2>1, <2>2, DrainSplits DEF G
<1>. QED  BY <1>9, <1>11

\* Every step keeps the copy true to the file it will replace.
LEMMA StepCopySound ==
  ASSUME Inv, [Next]_vars
  PROVE  CopySound'
<1>0. IInv /\ CopySound
  BY DEF Inv
<1>. USE <1>0 DEF CopySound
<1>1. CASE LogRecord
  BY <1>1 DEF LogRecord
<1>2. CASE WriteBatch
  BY <1>2 DEF WriteBatch, IInv, SwapAlone
<1>3. CASE WriteFails
  BY <1>3 DEF WriteFails, IInv, SwapAlone
<1>4. CASE SyncBatch
  BY <1>4 DEF SyncBatch
<1>5. CASE FlushReturns
  BY <1>5 DEF FlushReturns
<1>6. CASE Resume
  BY <1>6 DEF Resume
<1>7. CASE CompactCopy
  BY <1>7 DEF CompactCopy, copyRetainingLines
<1>8. CASE CompactCheck
  BY <1>8 DEF CompactCheck
<1>9. CASE CompactSwap
  BY <1>9 DEF CompactSwap
<1>10. CASE Crash
  BY <1>10 DEF Crash
<1>11. CASE UNCHANGED vars
  BY <1>11 DEF vars
<1>. QED
  BY <1>1, <1>2, <1>3, <1>4, <1>5, <1>6, <1>7, <1>8, <1>9, <1>10, <1>11 DEF Next

\* Every step keeps the invariant.
LEMMA StepInv == Inv /\ [Next]_vars => Inv'
<1>. SUFFICES ASSUME Inv, [Next]_vars
              PROVE  Inv'
  OBVIOUS
<1>0. IInv' /\ TypeInv' /\ CopySound'
  BY StepIInv, StepType, StepCopySound DEF Inv
<1>. SUFFICES LogSound' /\ QueueSound'
  BY <1>0 DEF Inv
<1>1. CASE LogRecord
  BY <1>1, StepLogRecord
<1>2. CASE WriteBatch
  BY <1>2, StepWriteBatch
<1>3. CASE WriteFails
  BY <1>3, StepWriteFails
<1>4. CASE SyncBatch
  BY <1>4, StepSyncBatch
<1>5. CASE FlushReturns
  BY <1>5, StepFlushReturns
<1>6. CASE Resume
  BY <1>6, StepResume
<1>7. CASE CompactCopy
  BY <1>7 DEF CompactCopy, Inv, LogSound, QueueSound, Queue, Base, Unwritten
<1>8. CASE CompactCheck
  BY <1>8, StepCompactCheck
<1>9. CASE CompactSwap
  BY <1>9, StepCompactSwap
<1>10. CASE Crash
  BY <1>10, StepCrash
<1>11. CASE UNCHANGED vars
  BY <1>11 DEF vars, Inv, LogSound, QueueSound, Queue, Base, Unwritten
<1>. QED
  BY <1>1, <1>2, <1>3, <1>4, <1>5, <1>6, <1>7, <1>8, <1>9, <1>10, <1>11 DEF Next

\* The records up to a number are those of a prefix of a sorted log.
LEMMA Cutoff ==
  ASSUME NEW log \in Seq(Records), Sorted(log), NEW K \in Nat
  PROVE  \E k \in 0..Len(log) : \A i \in 1..Len(log) : log[i].id <= K <=> i <= k
<1>. DEFINE n == Len(log)
            S == {0} \cup {i \in 1..n : log[i].id <= K}
            k == Max(S)
<1>1. n \in Nat /\ DOMAIN log = 1..n /\ \A i \in 1..n : log[i].id \in Nat
  BY LenProperties, RecsFacts
<1>2. S \subseteq 0..n /\ S \subseteq Nat /\ S # {} /\ \A x \in S : x <= n
  BY <1>1
<1>3. /\ \A i \in 1..n : i \in S <=> log[i].id <= K
      /\ \A x \in S : x # 0 => x \in 1..n /\ log[x].id <= K
  OBVIOUS
<1>. HIDE DEF S
<1>4. k \in S /\ \A x \in S : x <= k
  BY <1>1, <1>2, MaxFacts
<1>. HIDE DEF k
<1>5. ASSUME NEW i \in 1..n
      PROVE  log[i].id <= K <=> i <= k
  <2>1. log[i].id <= K => i <= k
    BY <1>3, <1>4
  <2>2. ASSUME i <= k
        PROVE  log[i].id <= K
    <3>1. k \in 1..n /\ log[k].id <= K
      BY <1>2, <1>3, <1>4, <2>2
    <3>2. i < k => log[i].id < log[k].id
      BY <1>1, <3>1 DEF Sorted
    <3>. QED  BY <1>1, <2>2, <3>1, <3>2
  <2>. QED  BY <2>1, <2>2
<1>6. k \in 0..n
  BY <1>2, <1>4
<1>. HIDE DEF n
<1>. QED  BY <1>5, <1>6 DEF n

\* The invariant gives the cutoff: the log up to the number the file has heard of.
LEMMA InvResumes == Inv => ResumeSound
<1>. SUFFICES ASSUME Inv, ~up, ~joined
              PROVE  /\ ~Corrupt(file)
                     /\ \E k \in 0..Len(logged) :
                          /\ Restored(file) = Effective(SubSeq(logged, 1, k))
                          /\ \A i \in 1..Len(logged) : logged[i].id <= acked => i <= k
  BY DEF ResumeSound
<1>1. /\ Sorted(logged) /\ Clean(file) /\ SortedLines(file)
      /\ \A k \in Len(disk)..Len(file) : Sound(Whole(file, k), logged, acked)
      /\ file \in Seq(LineSet) /\ logged \in Seq(Records) /\ disk = file /\ acked \in Nat
  BY DEF Inv, LogSound, TypeInv, IInv, DiskAgrees
<1>2. Len(file) \in Nat /\ DOMAIN file = 1..Len(file) /\ Len(logged) \in Nat
      /\ DOMAIN logged = 1..Len(logged)
  BY <1>1, LenProperties
<1>3. ~Corrupt(file)
  BY <1>1, <1>2 DEF Corrupt, Clean
<1>. DEFINE G == Whole(file, Len(file))
<1>4. Sound(G, logged, acked)
  <2>1. Len(file) \in Len(disk)..Len(file)
    BY <1>1, <1>2
  <2>. QED  BY <1>1, <2>1
<1>5. PICK K \in Nat : SoundAt(G, logged, acked, K)
  BY <1>4 DEF Sound
<1>6. PICK k \in 0..Len(logged) : \A i \in 1..Len(logged) : logged[i].id <= K <=> i <= k
  BY <1>1, Cutoff
<1>. DEFINE log == SubSeq(logged, 1, k)
<1>7. /\ log \in Seq(Records) /\ Len(log) = k
      /\ \A i \in 1..k : log[i] = logged[i]
  <2>1. 1 \in Int /\ k \in Int /\ \A i \in 1..k : logged[i] \in Records
    BY <1>1, <1>2, ElementOfSeq
  <2>2. /\ SubSeq(logged, 1, k) \in Seq(Records)
        /\ Len(SubSeq(logged, 1, k)) = IF 1 <= k THEN k - 1 + 1 ELSE 0
        /\ \A i \in 1..k - 1 + 1 : SubSeq(logged, 1, k)[i] = logged[1 + i - 1]
    BY <2>1, SubSeqProperties
  <2>3. k - 1 + 1 = k /\ (~(1 <= k) => k = 0) /\ \A i \in 1..k : 1 + i - 1 = i
    BY <1>2
  <2>. QED  BY <2>2, <2>3
<1>. HIDE DEF log
<1>8. DOMAIN log = 1..k /\ \A i \in 1..k : i \in 1..Len(logged)
  BY <1>2, <1>7, LenProperties
<1>9. Sorted(log)
  BY <1>1, <1>2, <1>7, <1>8 DEF Sorted
<1>10. Recs(log) = UpTo(logged, K)
  <2>1. /\ \A r \in Recs(logged) : \E i \in 1..Len(logged) : r = Migrated(logged[i]) /\ r.id = logged[i].id
        /\ \A i \in 1..Len(logged) : /\ Migrated(logged[i]) \in Recs(logged)
                                     /\ Migrated(logged[i]).id = logged[i].id
    BY <1>1, RecsFacts
  <2>2. ASSUME NEW r \in Recs(log)
        PROVE  r \in UpTo(logged, K)
    <3>1. PICK i \in 1..k : r = Migrated(logged[i])
      BY <1>7, <1>8 DEF Recs
    <3>2. i \in 1..Len(logged) /\ logged[i].id <= K
      BY <1>6, <1>8
    <3>. QED  BY <2>1, <3>1, <3>2 DEF UpTo
  <2>3. ASSUME NEW r \in UpTo(logged, K)
        PROVE  r \in Recs(log)
    <3>1. PICK i \in 1..Len(logged) : r = Migrated(logged[i]) /\ r.id = logged[i].id
      BY <2>1 DEF UpTo
    <3>2. i \in 1..k
      BY <1>2, <1>6, <3>1 DEF UpTo
    <3>. QED  BY <1>7, <1>8, <3>1, <3>2 DEF Recs
  <2>. QED  BY <2>2, <2>3
<1>11. /\ Read(file) \in Seq(Records) /\ Sorted(Read(file)) /\ Live(Recs(Read(file))) = Live(G)
  BY <1>1, ReadPositions, ReadKeeps, ReadSound
<1>12. Effective(Read(file)) = Effective(log)
  <2>1. Live(Recs(Read(file))) = Live(Recs(log))
    BY <1>5, <1>10, <1>11 DEF SoundAt
  <2>. QED  BY <1>7, <1>9, <1>11, <2>1, EffectiveSame
<1>13. \A i \in 1..Len(logged) : logged[i].id <= acked => i <= k
  <2>. SUFFICES ASSUME NEW i \in 1..Len(logged), logged[i].id <= acked
                PROVE  i <= k
    OBVIOUS
  <2>1. logged[i].id \in Nat
    BY <1>1, RecsFacts
  <2>2. logged[i].id <= K
    BY <1>1, <1>5, <2>1 DEF SoundAt
  <2>. QED  BY <1>6, <2>2
<1>. QED  BY <1>3, <1>12, <1>13 DEF Restored, log

\* Whatever a crash leaves of the log while no write has continued a torn line, a resume
\* restores what a prefix of the logged records comes to, the flushed ones included.
THEOREM ResumeAlwaysSound == Spec => []ResumeSound
BY InitInv, StepInv, InvResumes, PTL DEF Spec

\* Replacing the log by its compacted copy changes nothing a resume would restore.
THEOREM CompactionAlwaysSilent == Spec => CompactionSilent
<1>1. Inv /\ [Next]_vars => [comp = "swap" /\ up' => Restored(file') = Restored(file)]_vars
  <2>. SUFFICES ASSUME Inv, [Next]_vars, comp = "swap", up', ~UNCHANGED vars
                PROVE  Restored(file') = Restored(file)
    OBVIOUS
  <2>1. ~draining /\ up /\ file \in Seq(LineSet) /\ tmp.lines = KeptLines(file)
    BY DEF Inv, IInv, SwapAlone, DiskAgrees, TypeInv, CopySound
  <2>2. file' = file \/ file' = KeptLines(file)
    BY <2>1 DEF Next, LogRecord, WriteBatch, WriteFails, SyncBatch, FlushReturns, Resume,
                CompactCopy, CompactCheck, CompactSwap, Crash
  <2>3. Read(KeptLines(file)) = Read(file)
    BY <2>1, CompactedReads
  <2>. QED  BY <2>2, <2>3 DEF Restored
<1>. QED  BY InitInv, StepInv, <1>1, PTL DEF Spec, CompactionSilent

\* While compact() runs no batch is being written to the file it replaces.
THEOREM SwapAloneAlways == Spec => []SwapAlone
<1>1. IInv => SwapAlone
  BY DEF IInv
<1>. QED  BY InitIInv, StepIInv, <1>1, PTL DEF Spec

\* A flush() that may return has put everything on the disk.
THEOREM FlushMeansDiskAlways == Spec => []FlushMeansDisk
<1>1. IInv => FlushMeansDisk
  BY DEF IInv
<1>. QED  BY InitIInv, StepIInv, <1>1, PTL DEF Spec
=============================================================================
