------------------------- MODULE ConversationProofs -------------------------
(***************************************************************************)
(* Induction, the sequence operators the models are built from, and what   *)
(* the operations of a conversation do with its messages, for every        *)
(* conversation.                                                           *)
(***************************************************************************)
EXTENDS Projector, FiniteSetTheorems, SequenceTheorems, TLAPS

\* A set of natural numbers that is not empty has a least element: the strict
\* inclusion of the intervals 0 .. n is well founded.
LEMMA LeastNumber ==
    ASSUME NEW T, T \subseteq Nat, T # {}
    PROVE  \E x \in T : \A y \in T : x <= y
<1>. DEFINE D == {0 .. n : n \in T}
<1>1. \A n \in T : 0 .. n \in FiniteSubsetsOf(Nat)
  <2>1. \A n \in T : IsFiniteSet(0 .. n) /\ 0 .. n \subseteq Nat
    BY FS_Interval
  <2>. QED  BY <2>1 DEF FiniteSubsetsOf
<1>. HIDE DEF D
<1>2. PICK x \in D : \A y \in D : ~ (<<y, x>> \in StrictSubsetOrdering(Nat))
  <2>1. D \subseteq FiniteSubsetsOf(Nat) /\ D # {}
    BY <1>1 DEF D
  <2>. QED  BY <2>1, WFMin, FS_StrictSubsetOrderingWellFounded
<1>3. PICK n \in T : x = 0 .. n
  BY DEF D
<1>4. ASSUME NEW m \in T, m < n
      PROVE  FALSE
  <2>1. m \in Nat /\ n \in Nat
    OBVIOUS
  <2>2. 0 .. m \subseteq 0 .. n /\ n \in 0 .. n /\ n \notin 0 .. m
    BY <1>4, <2>1
  <2>3. 0 .. m \subseteq Nat /\ 0 .. n \subseteq Nat
    BY <2>1
  <2>4. <<0 .. m, 0 .. n>> \in StrictSubsetOrdering(Nat)
    BY <2>2, <2>3 DEF StrictSubsetOrdering
  <2>5. 0 .. m \in D
    BY DEF D
  <2>. QED  BY <1>2, <1>3, <2>4, <2>5
<1>. QED  BY <1>4

\* Induction, for a property given as the set of the numbers that have it.
LEMMA Induction ==
    ASSUME NEW T, 0 \in T, \A n \in Nat : n \in T => n + 1 \in T
    PROVE  Nat \subseteq T
<1>1. SUFFICES ASSUME Nat \ T # {}
               PROVE  FALSE
  OBVIOUS
<1>2. PICK m \in Nat \ T : \A y \in Nat \ T : m <= y
  BY <1>1, LeastNumber
<1>3. m - 1 \in Nat /\ m = (m - 1) + 1
  BY <1>2
<1>. QED  BY <1>2, <1>3

\* The same for sequences, which grow by one element at the end.
LEMMA SequenceInduction ==
    ASSUME NEW S, NEW T, <<>> \in T,
           \A s \in Seq(S), x \in S : s \in T => Append(s, x) \in T
    PROVE  Seq(S) \subseteq T
<1>. DEFINE N == {n \in Nat : \A s \in Seq(S) : Len(s) = n => s \in T}
<1>1. 0 \in N
  BY EmptySeq
<1>2. ASSUME NEW n \in Nat, n \in N
      PROVE  n + 1 \in N
  <2>. SUFFICES ASSUME NEW s \in Seq(S), Len(s) = n + 1
                PROVE  s \in T
    OBVIOUS
  <2>1. PICK r \in Seq(S), x \in S : s = Append(r, x)
    BY EmptySeq, SequenceEmptyOrAppend
  <2>2. Len(r) = n
    BY <2>1, AppendProperties, LenProperties
  <2>. QED  BY <1>2, <2>1, <2>2
<1>. HIDE DEF N
<1>3. Nat \subseteq N
  BY <1>1, <1>2, Induction
<1>. QED  BY <1>3, LenProperties DEF N

-----------------------------------------------------------------------------
(* FlattenSeq                                                              *)

\* f holds what the recursion in FlattenSeq has put together when it gets to
\* the i-th sequence, for i up to n.
Flattens(f, ss, n) ==
    /\ f = [i \in 1 .. n |-> f[i]]
    /\ \A i \in 1 .. n : i = 1 => f[i] = ss[i]
    /\ \A i \in 1 .. n : i # 1 => f[i] = f[i - 1] \o ss[i]

LEMMA FlattensExists ==
    ASSUME NEW S, NEW ss \in Seq(Seq(S))
    PROVE  \A n \in Nat : n <= Len(ss) => \E f \in [1 .. n -> Seq(S)] : Flattens(f, ss, n)
<1>. DEFINE T == {n \in Nat : n <= Len(ss) =>
                    \E f \in [1 .. n -> Seq(S)] : Flattens(f, ss, n)}
<1>1. 0 \in T
  <2>1. Flattens([i \in 1 .. 0 |-> <<>>], ss, 0) /\ [i \in 1 .. 0 |-> <<>>] \in [1 .. 0 -> Seq(S)]
    BY DEF Flattens
  <2>. QED  BY <2>1
<1>2. ASSUME NEW n \in Nat, n \in T
      PROVE  n + 1 \in T
  <2>. SUFFICES ASSUME n + 1 <= Len(ss)
                PROVE  \E f \in [1 .. n + 1 -> Seq(S)] : Flattens(f, ss, n + 1)
    OBVIOUS
  <2>1. PICK f \in [1 .. n -> Seq(S)] : Flattens(f, ss, n)
    BY <1>2, LenProperties
  <2>. HIDE DEF T
  <2>2. ss[n + 1] \in Seq(S)
    BY ElementOfSeq, LenProperties
  <2>. DEFINE last == IF n = 0 THEN ss[n + 1] ELSE f[n] \o ss[n + 1]
              g == [i \in 1 .. n + 1 |-> IF i = n + 1 THEN last ELSE f[i]]
  <2>3. last \in Seq(S)
    <3>1. CASE n # 0
      <4>1. f[n] \in Seq(S)
        BY <3>1
      <4>. QED  BY <2>2, <3>1, <4>1, ConcatProperties
    <3>. QED  BY <2>2, <3>1
  <2>4. (n = 0 => last = ss[n + 1]) /\ (n # 0 => last = f[n] \o ss[n + 1])
    OBVIOUS
  <2>. HIDE DEF last
  <2>5. g \in [1 .. n + 1 -> Seq(S)]
    BY <2>3
  <2>6. Flattens(g, ss, n + 1)
    <3>1. g[n + 1] = last /\ \A i \in 1 .. n : g[i] = f[i]
      OBVIOUS
    <3>2. g = [i \in 1 .. n + 1 |-> g[i]]
      OBVIOUS
    <3>. HIDE DEF g
    <3>3. \A i \in 1 .. n + 1 : i = 1 => g[i] = ss[i]
      BY <2>1, <2>4, <3>1 DEF Flattens
    <3>4. ASSUME NEW i \in 1 .. n + 1, i # 1
          PROVE  g[i] = g[i - 1] \o ss[i]
      <4>1. CASE i = n + 1
        <5>1. n # 0 /\ n \in 1 .. n /\ i - 1 = n
          BY <3>4, <4>1
        <5>. QED  BY <2>4, <3>1, <4>1, <5>1
      <4>2. CASE i \in 1 .. n
        <5>1. i - 1 \in 1 .. n
          BY <3>4, <4>2
        <5>2. f[i] = f[i - 1] \o ss[i]
          BY <2>1, <3>4, <4>2 DEF Flattens
        <5>3. g[i] = f[i] /\ g[i - 1] = f[i - 1]
          BY <3>1, <4>2, <5>1
        <5>. QED  BY <5>2, <5>3
      <4>3. i = n + 1 \/ i \in 1 .. n
        OBVIOUS
      <4>. QED  BY <4>1, <4>2, <4>3
    <3>. QED  BY <3>2, <3>3, <3>4 DEF Flattens
  <2>. QED  BY <2>5, <2>6
<1>. HIDE DEF T
<1>3. Nat \subseteq T
  BY <1>1, <1>2, Induction
<1>. QED  BY <1>3 DEF T

Agree(f, g, n) == \A i \in 1 .. n : f[i] = g[i]

LEMMA FlattensUnique ==
    ASSUME NEW ss, NEW tt, NEW m \in Nat, NEW n \in Nat, m <= n, Agree(ss, tt, m),
           NEW f, NEW g, Flattens(f, ss, m), Flattens(g, tt, n)
    PROVE  Agree(f, g, m)
<1>. USE DEF Agree
<1>. DEFINE T == {i \in Nat : i \in 1 .. m => f[i] = g[i]}
<1>1. 0 \in T
  OBVIOUS
<1>2. ASSUME NEW i \in Nat, i \in T
      PROVE  i + 1 \in T
  <2>. SUFFICES ASSUME i + 1 \in 1 .. m
                PROVE  f[i + 1] = g[i + 1]
    OBVIOUS
  <2>1. i + 1 \in 1 .. n /\ (i + 1) - 1 = i /\ (i + 1 # 1 => i \in 1 .. m)
    OBVIOUS
  <2>2. CASE i = 0
    BY <2>1, <2>2 DEF Flattens
  <2>3. CASE i # 0
    <3>. i + 1 # 1
      BY <2>3
    <3>1. f[i + 1] = f[(i + 1) - 1] \o ss[i + 1]
      BY <2>1, <2>3 DEF Flattens
    <3>2. g[i + 1] = g[(i + 1) - 1] \o tt[i + 1]
      BY <2>1, <2>3 DEF Flattens
    <3>. QED  BY <1>2, <2>1, <2>3, <3>1, <3>2
  <2>. QED  BY <2>2, <2>3
<1>. HIDE DEF T
<1>3. Nat \subseteq T
  BY <1>1, <1>2, Induction
<1>. QED  BY <1>3 DEF T

LEMMA FlattenDef ==
    ASSUME NEW S, NEW ss \in Seq(Seq(S)), Len(ss) # 0
    PROVE  \E f \in [1 .. Len(ss) -> Seq(S)] :
               Flattens(f, ss, Len(ss)) /\ FlattenSeq(ss) = f[Len(ss)]
<1>. DEFINE n == Len(ss)
            Def(f) == f = [i \in 1 .. n |-> IF i = 1 THEN ss[i] ELSE f[i - 1] \o ss[i]]
            c == CHOOSE f : Def(f)
<1>1. n \in Nat /\ n > 0
  BY LenProperties
<1>2. PICK f \in [1 .. n -> Seq(S)] : Flattens(f, ss, n)
  <2>1. \A k \in Nat : k <= Len(ss) => \E f \in [1 .. k -> Seq(S)] : Flattens(f, ss, k)
    BY FlattensExists
  <2>. QED  BY <1>1, <2>1
<1>3. FlattenSeq(ss) = c[n]
  BY DEF FlattenSeq
<1>. HIDE DEF n
<1>4. Def(f)
  <2>1. \A i \in 1 .. n : f[i] = IF i = 1 THEN ss[i] ELSE f[i - 1] \o ss[i]
    BY <1>2 DEF Flattens
  <2>. QED  BY <1>2, <2>1
<1>5. Def(c)
  BY <1>4
<1>6. Flattens(c, ss, n)
  <2>. HIDE DEF c
  <2>1. \A i \in 1 .. n : c[i] = IF i = 1 THEN ss[i] ELSE c[i - 1] \o ss[i]
    BY <1>5
  <2>2. c = [i \in 1 .. n |-> c[i]]
    BY <1>5
  <2>. QED  BY <2>1, <2>2 DEF Flattens
<1>. HIDE DEF c, Def
<1>7. c = f
  <2>1. Agree(ss, ss, n)
    BY DEF Agree
  <2>2. \A i \in 1 .. n : c[i] = f[i]
    BY <1>1, <1>2, <1>6, <2>1, FlattensUnique DEF Agree
  <2>. QED  BY <1>6, <2>2 DEF Flattens
<1>. QED  BY <1>2, <1>3, <1>7 DEF n

LEMMA FlattenEmpty == FlattenSeq(<<>>) = <<>>
BY DEF FlattenSeq

LEMMA FlattenType ==
    ASSUME NEW S, NEW ss \in Seq(Seq(S))
    PROVE  FlattenSeq(ss) \in Seq(S)
<1>1. CASE Len(ss) = 0
  BY <1>1, EmptySeq, FlattenEmpty
<1>2. CASE Len(ss) # 0
  <2>1. PICK f \in [1 .. Len(ss) -> Seq(S)] : FlattenSeq(ss) = f[Len(ss)]
    BY <1>2, FlattenDef
  <2>2. Len(ss) \in 1 .. Len(ss)
    BY <1>2, LenProperties
  <2>. QED  BY <2>1, <2>2
<1>. QED  BY <1>1, <1>2

LEMMA FlattenAppend ==
    ASSUME NEW S, NEW ss \in Seq(Seq(S)), NEW s \in Seq(S)
    PROVE  FlattenSeq(Append(ss, s)) = FlattenSeq(ss) \o s
<1>. DEFINE tt == Append(ss, s)
            n == Len(ss)
<1>1. /\ tt \in Seq(Seq(S)) /\ Len(tt) = n + 1 /\ n \in Nat /\ tt[n + 1] = s
      /\ \A i \in 1 .. n : tt[i] = ss[i]
  BY AppendProperties, LenProperties
<1>. HIDE DEF tt
<1>2. PICK g \in [1 .. n + 1 -> Seq(S)] : Flattens(g, tt, n + 1) /\ FlattenSeq(tt) = g[n + 1]
  <2>1. Len(tt) # 0
    BY <1>1
  <2>. QED  BY <1>1, <2>1, FlattenDef
<1>. HIDE DEF n
<1>3. (n = 0 => g[n + 1] = s) /\ (n # 0 => g[n + 1] = g[n] \o s)
  <2>1. n + 1 \in 1 .. n + 1 /\ (n + 1) - 1 = n
    BY <1>1
  <2>2. CASE n = 0
    BY <1>1, <1>2, <2>1, <2>2 DEF Flattens
  <2>3. CASE n # 0
    <3>. n + 1 # 1
      BY <1>1, <2>3
    <3>1. g[n + 1] = g[(n + 1) - 1] \o tt[n + 1]
      BY <1>2, <2>1 DEF Flattens
    <3>. QED  BY <1>1, <2>1, <2>3, <3>1
  <2>. QED  BY <2>2, <2>3
<1>4. CASE n = 0
  <2>1. ss = <<>>
    BY <1>4, EmptySeq DEF n
  <2>. QED  BY <1>2, <1>3, <1>4, <2>1, FlattenEmpty, ConcatEmptySeq DEF tt
<1>5. CASE n # 0
  <2>1. PICK f \in [1 .. n -> Seq(S)] : Flattens(f, ss, n) /\ FlattenSeq(ss) = f[n]
    BY <1>5, FlattenDef DEF n
  <2>2. n + 1 \in Nat /\ n <= n + 1 /\ n \in 1 .. n
    BY <1>1, <1>5
  <2>3. Agree(f, g, n)
    <3>1. Agree(ss, tt, n)
      BY <1>1 DEF Agree
    <3>. DEFINE k == n + 1
    <3>2. Flattens(f, ss, n) /\ Flattens(g, tt, k) /\ n \in Nat /\ k \in Nat /\ n <= k
      BY <1>1, <1>2, <2>1, <2>2
    <3>. HIDE DEF tt, k
    <3>. QED  BY <3>1, <3>2, FlattensUnique
  <2>. QED  BY <1>1, <1>2, <1>3, <1>5, <2>1, <2>2, <2>3 DEF tt, Agree
<1>. QED  BY <1>4, <1>5

LEMMA FlattenConcat ==
    ASSUME NEW S, NEW ss \in Seq(Seq(S)), NEW tt \in Seq(Seq(S))
    PROVE  FlattenSeq(ss \o tt) = FlattenSeq(ss) \o FlattenSeq(tt)
<1>. DEFINE T == {t \in Seq(Seq(S)) : FlattenSeq(ss \o t) = FlattenSeq(ss) \o FlattenSeq(t)}
<1>1. <<>> \in T
  BY EmptySeq, FlattenEmpty, FlattenType, ConcatEmptySeq
<1>2. ASSUME NEW t \in Seq(Seq(S)), NEW x \in Seq(S), t \in T
      PROVE  Append(t, x) \in T
  <2>1. Append(t, x) \in Seq(Seq(S)) /\ ss \o t \in Seq(Seq(S))
    BY AppendProperties, ConcatProperties
  <2>2. ss \o Append(t, x) = Append(ss \o t, x)
    <3>1. ss \o (t \o <<x>>) = (ss \o t) \o <<x>>
      <4>1. <<x>> \in Seq(Seq(S))
        OBVIOUS
      <4>. QED  BY <4>1, ConcatAssociative
    <3>. QED  BY <2>1, <3>1, AppendIsConcat
  <2>3. FlattenSeq(ss \o Append(t, x)) = (FlattenSeq(ss) \o FlattenSeq(t)) \o x
    BY <1>2, <2>1, <2>2, FlattenAppend
  <2>4. FlattenSeq(Append(t, x)) = FlattenSeq(t) \o x
    BY FlattenAppend
  <2>5. (FlattenSeq(ss) \o FlattenSeq(t)) \o x = FlattenSeq(ss) \o (FlattenSeq(t) \o x)
    <3>1. FlattenSeq(ss) \in Seq(S) /\ FlattenSeq(t) \in Seq(S)
      BY FlattenType
    <3>. QED  BY <3>1, ConcatAssociative, SMTT(30)
  <2>. QED  BY <2>1, <2>3, <2>4, <2>5
<1>. HIDE DEF T
<1>3. Seq(Seq(S)) \subseteq T
  BY <1>1, <1>2, SequenceInduction
<1>. QED  BY <1>3 DEF T

-----------------------------------------------------------------------------
(* What each element of a sequence contributes, one after the other.       *)

Gather(s, g) == FlattenSeq([i \in DOMAIN s |-> g[s[i]]])

\* The elements in T, as a contribution.
Only(S, T) == [x \in S |-> IF x \in T THEN <<x>> ELSE <<>>]

LEMMA Contributions ==
    ASSUME NEW S, NEW V, NEW s \in Seq(S), NEW g \in [S -> Seq(V)]
    PROVE  [i \in DOMAIN s |-> g[s[i]]] \in Seq(Seq(V))
<1>1. Len(s) \in Nat /\ DOMAIN s = 1 .. Len(s) /\ \A i \in 1 .. Len(s) : s[i] \in S
  BY LenProperties, ElementOfSeq
<1>2. [i \in 1 .. Len(s) |-> g[s[i]]] \in [1 .. Len(s) -> Seq(V)]
  BY <1>1
<1>. QED  BY <1>1, <1>2, SeqDef

LEMMA GatherType ==
    ASSUME NEW S, NEW V, NEW s \in Seq(S), NEW g \in [S -> Seq(V)]
    PROVE  Gather(s, g) \in Seq(V)
BY Contributions, FlattenType DEF Gather

LEMMA GatherConcat ==
    ASSUME NEW S, NEW V, NEW s \in Seq(S), NEW r \in Seq(S), NEW g \in [S -> Seq(V)]
    PROVE  Gather(s \o r, g) = Gather(s, g) \o Gather(r, g)
<1>. DEFINE a  == [i \in DOMAIN s |-> g[s[i]]]
            b  == [i \in DOMAIN r |-> g[r[i]]]
            ab == [i \in DOMAIN (s \o r) |-> g[(s \o r)[i]]]
<1>1. s \o r \in Seq(S)
  BY ConcatProperties
<1>2. a \in Seq(Seq(V)) /\ b \in Seq(Seq(V)) /\ ab \in Seq(Seq(V))
  BY <1>1, Contributions
<1>3. ab = a \o b
  <2>1. /\ Len(s) \in Nat /\ Len(r) \in Nat /\ Len(s \o r) = Len(s) + Len(r)
        /\ DOMAIN s = 1 .. Len(s) /\ DOMAIN r = 1 .. Len(r)
        /\ DOMAIN (s \o r) = 1 .. Len(s) + Len(r)
    BY <1>1, LenProperties, ConcatProperties
  <2>2. Len(a) = Len(s) /\ Len(b) = Len(r) /\ Len(ab) = Len(s) + Len(r)
    BY <1>2, <2>1, LenProperties
  <2>3. ASSUME NEW i \in 1 .. Len(s) + Len(r)
        PROVE  ab[i] = IF i <= Len(a) THEN a[i] ELSE b[i - Len(a)]
    <3>1. (s \o r)[i] = IF i <= Len(s) THEN s[i] ELSE r[i - Len(s)]
      BY ConcatProperties
    <3>2. ab[i] = g[(s \o r)[i]]
      BY <2>1
    <3>3. CASE i <= Len(s)
      BY <2>1, <2>2, <3>1, <3>2, <3>3
    <3>4. CASE ~ (i <= Len(s))
      <4>1. i - Len(s) \in DOMAIN r
        BY <2>1, <3>4
      <4>. QED  BY <2>2, <3>1, <3>2, <3>4, <4>1
    <3>. QED  BY <3>3, <3>4
  <2>. HIDE DEF a, b, ab
  <2>4. /\ a \o b \in Seq(Seq(V)) /\ Len(a \o b) = Len(a) + Len(b)
        /\ \A i \in 1 .. Len(a) + Len(b) :
              (a \o b)[i] = IF i <= Len(a) THEN a[i] ELSE b[i - Len(a)]
    BY <1>2, ConcatProperties
  <2>. QED  BY <1>2, <2>2, <2>3, <2>4, SeqEqual
<1>. HIDE DEF a, b, ab
<1>4. FlattenSeq(ab) = FlattenSeq(a) \o FlattenSeq(b)
  BY <1>2, <1>3, FlattenConcat
<1>. QED  BY <1>4 DEF Gather, a, b, ab

LEMMA GatherEmpty ==
    ASSUME NEW g
    PROVE  Gather(<<>>, g) = <<>>
<1>1. [i \in DOMAIN <<>> |-> g[<<>>[i]]] = <<>>
  OBVIOUS
<1>. QED  BY <1>1, FlattenEmpty DEF Gather

LEMMA GatherOne ==
    ASSUME NEW S, NEW V, NEW x \in S, NEW g \in [S -> Seq(V)]
    PROVE  Gather(<<x>>, g) = g[x]
<1>1. [i \in DOMAIN <<x>> |-> g[<<x>>[i]]] = <<g[x]>>
  OBVIOUS
<1>2. <<g[x]>> = Append(<<>>, g[x]) /\ g[x] \in Seq(V) /\ <<>> \in Seq(Seq(V))
  OBVIOUS
<1>3. FlattenSeq(Append(<<>>, g[x])) = FlattenSeq(<<>>) \o g[x]
  BY <1>2, FlattenAppend
<1>. QED  BY <1>1, <1>2, <1>3, FlattenEmpty, ConcatEmptySeq DEF Gather

LEMMA GatherAppend ==
    ASSUME NEW S, NEW V, NEW s \in Seq(S), NEW x \in S, NEW g \in [S -> Seq(V)]
    PROVE  Gather(Append(s, x), g) = Gather(s, g) \o g[x]
<1>. DEFINE one == <<x>>
<1>1. Append(s, x) = s \o one /\ one \in Seq(S)
  BY AppendIsConcat
<1>2. Gather(one, g) = g[x]
  BY GatherOne
<1>. HIDE DEF one
<1>3. Gather(s \o one, g) = Gather(s, g) \o Gather(one, g)
  BY <1>1, GatherConcat
<1>. QED  BY <1>1, <1>2, <1>3

\* Elements that contribute nothing may be left out.
LEMMA GatherSelected ==
    ASSUME NEW S, NEW V, NEW T, NEW s \in Seq(S), NEW g \in [S -> Seq(V)],
           \A x \in S : x \notin T => g[x] = <<>>
    PROVE  Gather(Gather(s, Only(S, T)), g) = Gather(s, g)
<1>1. Only(S, T) \in [S -> Seq(S)]
  BY DEF Only
<1>. DEFINE U == {r \in Seq(S) : Gather(Gather(r, Only(S, T)), g) = Gather(r, g)}
<1>2. <<>> \in U
  BY GatherEmpty, EmptySeq
<1>3. ASSUME NEW r \in Seq(S), NEW x \in S, r \in U
      PROVE  Append(r, x) \in U
  <2>1. Gather(Append(r, x), Only(S, T)) = Gather(r, Only(S, T)) \o Only(S, T)[x]
    BY <1>1, GatherAppend, SMTT(30)
  <2>2. Gather(Append(r, x), g) = Gather(r, g) \o g[x]
    BY GatherAppend
  <2>3. Gather(r, Only(S, T)) \in Seq(S) /\ Gather(r, g) \in Seq(V)
    BY <1>1, GatherType
  <2>4. CASE x \in T
    <3>1. Gather(Append(r, x), Only(S, T)) = Append(Gather(r, Only(S, T)), x)
      BY <2>1, <2>3, <2>4, AppendIsConcat DEF Only
    <3>2. Gather(Append(Gather(r, Only(S, T)), x), g) = Gather(Gather(r, Only(S, T)), g) \o g[x]
      BY <2>3, GatherAppend
    <3>. QED  BY <1>3, <2>2, <3>1, <3>2, AppendProperties
  <2>5. CASE x \notin T
    <3>1. Gather(Append(r, x), Only(S, T)) = Gather(r, Only(S, T))
      BY <2>1, <2>3, <2>5, ConcatEmptySeq DEF Only
    <3>2. Gather(Append(r, x), g) = Gather(r, g)
      BY <2>2, <2>3, <2>5, ConcatEmptySeq
    <3>. QED  BY <1>3, <3>1, <3>2, AppendProperties
  <2>. QED  BY <2>4, <2>5
<1>. HIDE DEF U
<1>4. Seq(S) \subseteq U
  BY <1>2, <1>3, SequenceInduction
<1>. QED  BY <1>4 DEF U

-----------------------------------------------------------------------------
(* Select, Inputs, and the sequences of a set.                             *)

LEMMA SelectGather ==
    ASSUME NEW S, NEW s \in Seq(S), NEW T
    PROVE  Select(s, T) = Gather(s, Only(S, T))
<1>1. \A i \in DOMAIN s : s[i] \in S
  BY LenProperties, ElementOfSeq
<1>2. [i \in DOMAIN s |-> IF s[i] \in T THEN <<s[i]>> ELSE <<>>]
        = [i \in DOMAIN s |-> Only(S, T)[s[i]]]
  BY <1>1 DEF Only
<1>. QED  BY <1>2 DEF Select, Gather

LEMMA SelectType ==
    ASSUME NEW S, NEW s \in Seq(S), NEW T
    PROVE  Select(s, T) \in Seq(S)
<1>1. Only(S, T) \in [S -> Seq(S)]
  BY DEF Only
<1>. QED  BY <1>1, SelectGather, GatherType

LEMMA SelectEmpty == \A T : Select(<<>>, T) = <<>>
<1>. SUFFICES ASSUME NEW T
              PROVE  Select(<<>>, T) = <<>>
  OBVIOUS
<1>1. [i \in DOMAIN <<>> |-> IF <<>>[i] \in T THEN <<<<>>[i]>> ELSE <<>>] = <<>>
  OBVIOUS
<1>. QED  BY <1>1, FlattenEmpty DEF Select

LEMMA SelectAppend ==
    ASSUME NEW S, NEW s \in Seq(S), NEW x \in S, NEW T
    PROVE  Select(Append(s, x), T) = IF x \in T THEN Append(Select(s, T), x) ELSE Select(s, T)
<1>1. Only(S, T) \in [S -> Seq(S)]
  BY DEF Only
<1>2. Gather(Append(s, x), Only(S, T)) = Gather(s, Only(S, T)) \o Only(S, T)[x]
  BY <1>1, GatherAppend
<1>3. Append(s, x) \in Seq(S) /\ Select(s, T) \in Seq(S)
  BY AppendProperties, SelectType
<1>4. Select(Append(s, x), T) = Select(s, T) \o Only(S, T)[x]
  BY <1>2, <1>3, SelectGather
<1>5. CASE x \in T
  <2>1. Only(S, T)[x] = <<x>>
    BY <1>5 DEF Only
  <2>. QED  BY <1>3, <1>4, <1>5, <2>1, AppendIsConcat
<1>6. CASE x \notin T
  <2>1. Only(S, T)[x] = <<>>
    BY <1>6 DEF Only
  <2>. QED  BY <1>3, <1>4, <1>6, <2>1, ConcatEmptySeq
<1>. QED  BY <1>5, <1>6

\* Only what it says of the elements of s matters of T.
LEMMA SelectSame ==
    ASSUME NEW s, NEW T, NEW U, \A i \in DOMAIN s : s[i] \in T <=> s[i] \in U
    PROVE  Select(s, T) = Select(s, U)
BY DEF Select

LEMMA SelectConcat ==
    ASSUME NEW S, NEW s \in Seq(S), NEW r \in Seq(S), NEW T
    PROVE  Select(s \o r, T) = Select(s, T) \o Select(r, T)
<1>. DEFINE g  == Only(S, T)
            sr == s \o r
<1>1. g \in [S -> Seq(S)]
  BY DEF Only
<1>2. sr \in Seq(S)
  BY ConcatProperties
<1>. HIDE DEF g
<1>3. Gather(s \o r, g) = Gather(s, g) \o Gather(r, g)
  BY <1>1, GatherConcat
<1>4. Select(s, T) = Gather(s, g) /\ Select(r, T) = Gather(r, g)
  BY SelectGather DEF g
<1>5. Select(sr, T) = Gather(sr, g)
  <2>. HIDE DEF sr
  <2>. QED  BY <1>2, SelectGather DEF g
<1>. QED  BY <1>3, <1>4, <1>5

LEMMA SelectAll ==
    ASSUME NEW S, NEW s \in Seq(S), NEW T, \A i \in DOMAIN s : s[i] \in T
    PROVE  Select(s, T) = s
<1>. DEFINE U == {r \in Seq(S) : Select(r, S) = r}
<1>1. <<>> \in U
  BY SelectEmpty, EmptySeq
<1>2. ASSUME NEW r \in Seq(S), NEW x \in S, r \in U
      PROVE  Append(r, x) \in U
  BY <1>2, SelectAppend, AppendProperties
<1>. HIDE DEF U
<1>3. Seq(S) \subseteq U
  BY <1>1, <1>2, SequenceInduction
<1>4. Select(s, T) = Select(s, S)
  <2>1. \A i \in DOMAIN s : s[i] \in S
    BY LenProperties, ElementOfSeq
  <2>. QED  BY <2>1, SelectSame
<1>. QED  BY <1>3, <1>4 DEF U

LEMMA SelectSelect ==
    ASSUME NEW S, NEW s \in Seq(S), NEW T, NEW U
    PROVE  Select(Select(s, T), U) = Select(s, T \cap U)
<1>. DEFINE I == {r \in Seq(S) : Select(Select(r, T), U) = Select(r, T \cap U)}
<1>1. <<>> \in I
  BY SelectEmpty, EmptySeq
<1>2. ASSUME NEW r \in Seq(S), NEW x \in S, r \in I
      PROVE  Append(r, x) \in I
  <2>1. Select(r, T) \in Seq(S) /\ Append(r, x) \in Seq(S)
    BY SelectType, AppendProperties
  <2>2. Select(Append(r, x), T) = IF x \in T THEN Append(Select(r, T), x) ELSE Select(r, T)
    BY SelectAppend
  <2>3. Select(Append(Select(r, T), x), U) = IF x \in U THEN Append(Select(Select(r, T), U), x)
                                             ELSE Select(Select(r, T), U)
    BY <2>1, SelectAppend
  <2>4. Select(Append(r, x), T \cap U) = IF x \in T \cap U THEN Append(Select(r, T \cap U), x)
                                         ELSE Select(r, T \cap U)
    BY SelectAppend
  <2>5. Select(Select(r, T), U) = Select(r, T \cap U)
    BY <1>2
  <2>6. Select(Select(Append(r, x), T), U) = Select(Append(r, x), T \cap U)
    <3>1. CASE x \in T
      <4>1. Select(Append(r, x), T) = Append(Select(r, T), x)
        BY <2>2, <3>1
      <4>2. CASE x \in U
        BY <2>3, <2>4, <2>5, <3>1, <4>1, <4>2
      <4>3. CASE x \notin U
        BY <2>3, <2>4, <2>5, <3>1, <4>1, <4>3
      <4>. QED  BY <4>2, <4>3
    <3>2. CASE x \notin T
      BY <2>2, <2>4, <2>5, <3>2
    <3>. QED  BY <3>1, <3>2
  <2>. QED  BY <2>1, <2>6
<1>. HIDE DEF I
<1>3. Seq(S) \subseteq I
  BY <1>1, <1>2, SequenceInduction
<1>. QED  BY <1>3 DEF I

\* The sequence with each element x replaced by f[x].
Mapped(s, f) == [i \in DOMAIN s |-> f[s[i]]]

LEMMA MappedType ==
    ASSUME NEW S, NEW s \in Seq(S), NEW f \in [S -> S]
    PROVE  /\ Mapped(s, f) \in Seq(S) /\ Len(Mapped(s, f)) = Len(s)
           /\ DOMAIN Mapped(s, f) = DOMAIN s
           /\ \A i \in DOMAIN s : Mapped(s, f)[i] = f[s[i]]
<1>1. Len(s) \in Nat /\ DOMAIN s = 1 .. Len(s) /\ \A i \in 1 .. Len(s) : s[i] \in S
  BY LenProperties, ElementOfSeq
<1>2. Mapped(s, f) \in [1 .. Len(s) -> S]
  BY <1>1 DEF Mapped
<1>3. Mapped(s, f) \in Seq(S) /\ Len(Mapped(s, f)) = Len(s)
  BY <1>1, <1>2, SeqDef
<1>. QED  BY <1>1, <1>3 DEF Mapped

LEMMA MappedAppend ==
    ASSUME NEW S, NEW s \in Seq(S), NEW x \in S, NEW f \in [S -> S]
    PROVE  Mapped(Append(s, x), f) = Append(Mapped(s, f), f[x])
<1>. DEFINE r == Append(s, x)
            a == Mapped(r, f)
            m == Mapped(s, f)
            b == Append(m, f[x])
<1>1. /\ r \in Seq(S) /\ Len(r) = Len(s) + 1 /\ Len(s) \in Nat
      /\ \A i \in 1 .. Len(s) : r[i] = s[i]
      /\ r[Len(s) + 1] = x
      /\ DOMAIN s = 1 .. Len(s) /\ DOMAIN r = 1 .. Len(s) + 1
  BY AppendProperties, LenProperties
<1>. HIDE DEF r
<1>2. /\ a \in Seq(S) /\ Len(a) = Len(s) + 1
      /\ \A i \in 1 .. Len(s) + 1 : a[i] = f[r[i]]
  BY <1>1, MappedType
<1>3. m \in Seq(S) /\ Len(m) = Len(s) /\ \A i \in 1 .. Len(s) : m[i] = f[s[i]]
  BY <1>1, MappedType
<1>. HIDE DEF a, m
<1>4. /\ b \in Seq(S) /\ Len(b) = Len(s) + 1 /\ b[Len(s) + 1] = f[x]
      /\ \A i \in 1 .. Len(s) : b[i] = m[i]
  BY <1>3, AppendProperties
<1>. HIDE DEF b
<1>5. ASSUME NEW i \in 1 .. Len(a)
      PROVE  a[i] = b[i]
  <2>1. i \in 1 .. Len(s) \/ i = Len(s) + 1
    BY <1>1, <1>2
  <2>. QED  BY <1>1, <1>2, <1>3, <1>4, <2>1
<1>6. a = b
  BY <1>2, <1>4, <1>5, SeqEqual
<1>. QED  BY <1>6 DEF a, b, m, r

\* A change in place does not matter to a selection it does not show in.
LEMMA SelectMapped ==
    ASSUME NEW S, NEW s \in Seq(S), NEW f \in [S -> S], NEW T, \A x \in S : f[x] \in T <=> x \in T
    PROVE  Select(Mapped(s, f), T) = Mapped(Select(s, T), f)
<1>. DEFINE I == {r \in Seq(S) : Select(Mapped(r, f), T) = Mapped(Select(r, T), f)}
<1>1. <<>> \in I
  <2>1. Mapped(<<>>, f) = <<>>
    BY DEF Mapped
  <2>. QED  BY <2>1, SelectEmpty, EmptySeq
<1>2. ASSUME NEW r \in Seq(S), NEW x \in S, r \in I
      PROVE  Append(r, x) \in I
  <2>. DEFINE y == f[x]
              m == Mapped(r, f)
              t == Select(r, T)
  <2>1. m \in Seq(S) /\ t \in Seq(S) /\ y \in S /\ (y \in T <=> x \in T)
    BY MappedType, SelectType
  <2>0. \A q \in Seq(S), z \in S : Mapped(Append(q, z), f) = Append(Mapped(q, f), f[z])
    BY MappedAppend
  <2>2. Mapped(Append(r, x), f) = Append(m, y)
    BY <2>0
  <2>3. Select(Append(r, x), T) = IF x \in T THEN Append(t, x) ELSE t
    BY SelectAppend
  <2>4. Select(m, T) = Mapped(t, f)
    BY <1>2
  <2>5. Append(r, x) \in Seq(S)
    BY AppendProperties
  <2>. HIDE DEF m, t, y, I
  <2>6. Select(Append(m, y), T) = IF y \in T THEN Append(Select(m, T), y) ELSE Select(m, T)
    BY <2>1, SelectAppend
  <2>7. Mapped(Append(t, x), f) = Append(Mapped(t, f), y)
    BY <2>0, <2>1 DEF y
  <2>8. Select(Mapped(Append(r, x), f), T) = Mapped(Select(Append(r, x), T), f)
    BY <2>1, <2>2, <2>3, <2>4, <2>6, <2>7
  <2>. QED  BY <2>5, <2>8 DEF I
<1>. HIDE DEF I
<1>3. Seq(S) \subseteq I
  BY <1>1, <1>2, SequenceInduction
<1>. QED  BY <1>3 DEF I

\* A selection keeps the order: it has its elements from increasing places of s, and
\* has all of those in T.
Embeds(e, r, s) ==
    /\ \A i \in DOMAIN r : e[i] \in DOMAIN s /\ r[i] = s[e[i]]
    /\ \A i, j \in DOMAIN r : i < j => e[i] < e[j]

EmbedsAll(e, r, s, T) ==
    /\ Embeds(e, r, s)
    /\ \A x \in DOMAIN s : s[x] \in T => \E i \in DOMAIN r : e[i] = x

LEMMA SelectEmbedsAll ==
    ASSUME NEW S, NEW s \in Seq(S), NEW T
    PROVE  \E e \in [DOMAIN Select(s, T) -> Nat] : EmbedsAll(e, Select(s, T), s, T)
<1>. DEFINE I == {r \in Seq(S) : \E e \in [DOMAIN Select(r, T) -> Nat] : EmbedsAll(e, Select(r, T), r, T)}
<1>1. <<>> \in I
  <2>1. Select(<<>>, T) = <<>>
    BY SelectEmpty
  <2>2. [i \in DOMAIN <<>> |-> 0] \in [DOMAIN <<>> -> Nat] /\ EmbedsAll([i \in DOMAIN <<>> |-> 0], <<>>, <<>>, T)
    BY DEF EmbedsAll, Embeds
  <2>. QED  BY <2>1, <2>2, EmptySeq
<1>2. ASSUME NEW r \in Seq(S), NEW x \in S, r \in I
      PROVE  Append(r, x) \in I
  <2>. DEFINE t == Select(r, T)
              rx == Append(r, x)
              tx == Append(t, x)
              n == Len(r)
              k == Len(t)
  <2>1. PICK e \in [DOMAIN t -> Nat] : EmbedsAll(e, t, r, T)
    BY <1>2
  <2>2. t \in Seq(S) /\ rx \in Seq(S) /\ Select(rx, T) = IF x \in T THEN tx ELSE t
    BY SelectType, SelectAppend, AppendProperties
  <2>3. /\ n \in Nat /\ DOMAIN r = 1 .. n /\ DOMAIN rx = 1 .. n + 1 /\ rx[n + 1] = x
        /\ \A i \in 1 .. n : rx[i] = r[i]
    BY AppendProperties, LenProperties
  <2>. HIDE DEF t, rx, n, I
  <2>10. \A i \in 1 .. n + 1 : i \in 1 .. n \/ i = n + 1
    BY <2>3
  <2>4. CASE x \notin T
    <3>1. EmbedsAll(e, t, rx, T)
      BY <2>1, <2>3, <2>4, <2>10 DEF Embeds, EmbedsAll
    <3>. QED  BY <2>1, <2>2, <2>4, <3>1 DEF I, rx
  <2>5. CASE x \in T
    <3>1. /\ k \in Nat /\ DOMAIN t = 1 .. k /\ DOMAIN tx = 1 .. k + 1 /\ tx[k + 1] = x
          /\ \A i \in 1 .. k : tx[i] = t[i]
      BY <2>2, AppendProperties, LenProperties
    <3>. HIDE DEF k, tx
    <3>. DEFINE ex == [i \in 1 .. k + 1 |-> IF i = k + 1 THEN n + 1 ELSE e[i]]
    <3>2. ex \in [1 .. k + 1 -> Nat]
      BY <2>1, <2>3, <3>1
    <3>8. \A i \in 1 .. k : i \in 1 .. k + 1 /\ i # k + 1
      BY <3>1
    <3>9. k + 1 \in 1 .. k + 1
      BY <3>1
    <3>10. \A i \in 1 .. k : e[i] \in 1 .. n /\ t[i] = r[e[i]]
      BY <2>1, <2>3, <3>1 DEF Embeds, EmbedsAll
    <3>3. ex[k + 1] = n + 1 /\ \A i \in 1 .. k : ex[i] = e[i] /\ e[i] \in 1 .. n /\ t[i] = r[e[i]]
      BY <3>8, <3>9, <3>10
    <3>4. \A i \in 1 .. k + 1 : i \in 1 .. k \/ i = k + 1
      BY <3>1
    <3>. HIDE DEF ex
    <3>5. \A i \in 1 .. k + 1 : ex[i] \in 1 .. n + 1 /\ tx[i] = rx[ex[i]]
      BY <2>3, <3>1, <3>3, <3>4
    <3>6. ASSUME NEW i \in 1 .. k + 1, NEW j \in 1 .. k + 1, i < j
          PROVE  ex[i] < ex[j]
      <4>1. i \in 1 .. k
        BY <3>1, <3>6
      <4>2. CASE j = k + 1
        BY <2>3, <3>3, <4>1, <4>2
      <4>3. CASE j \in 1 .. k
        BY <2>1, <3>1, <3>3, <3>6, <4>1, <4>3 DEF Embeds, EmbedsAll
      <4>. QED  BY <3>4, <4>2, <4>3
    <3>7. Embeds(ex, tx, rx)
      BY <2>3, <3>1, <3>5, <3>6 DEF Embeds
    <3>11. ASSUME NEW y \in 1 .. n + 1, rx[y] \in T
           PROVE  \E i \in 1 .. k + 1 : ex[i] = y
      <4>1. CASE y = n + 1
        BY <3>3, <3>9, <4>1
      <4>2. CASE y \in 1 .. n
        <5>1. PICK i \in 1 .. k : e[i] = y
          BY <2>1, <2>3, <3>1, <3>11, <4>2 DEF EmbedsAll
        <5>. QED  BY <3>3, <3>8, <5>1
      <4>. QED  BY <2>10, <4>1, <4>2
    <3>12. EmbedsAll(ex, tx, rx, T)
      BY <2>3, <3>1, <3>7, <3>11 DEF EmbedsAll
    <3>. QED  BY <2>2, <2>5, <3>1, <3>2, <3>12 DEF I, rx
  <2>. QED  BY <2>4, <2>5
<1>. HIDE DEF I
<1>3. Seq(S) \subseteq I
  BY <1>1, <1>2, SequenceInduction
<1>. QED  BY <1>3 DEF I

LEMMA SelectEmbeds ==
    ASSUME NEW S, NEW s \in Seq(S), NEW T
    PROVE  \E e \in [DOMAIN Select(s, T) -> Nat] : Embeds(e, Select(s, T), s)
BY SelectEmbedsAll DEF EmbedsAll

LEMMA SelectRange ==
    ASSUME NEW S, NEW s \in Seq(S), NEW T
    PROVE  Range(Select(s, T)) = Range(s) \cap T
<1>. DEFINE I == {r \in Seq(S) : Range(Select(r, T)) = Range(r) \cap T}
<1>0. ASSUME NEW r \in Seq(S), NEW x \in S
      PROVE  Range(Append(r, x)) = Range(r) \cup {x}
  <2>1. /\ Len(r) \in Nat /\ DOMAIN r = 1 .. Len(r) /\ DOMAIN Append(r, x) = 1 .. Len(r) + 1
        /\ \A i \in 1 .. Len(r) : Append(r, x)[i] = r[i]
        /\ Append(r, x)[Len(r) + 1] = x
    BY AppendProperties, LenProperties
  <2>2. \A i \in 1 .. Len(r) + 1 : i \in 1 .. Len(r) \/ i = Len(r) + 1
    BY <2>1
  <2>3. \A i \in 1 .. Len(r) : i \in 1 .. Len(r) + 1
    BY <2>1
  <2>4. Len(r) + 1 \in 1 .. Len(r) + 1
    BY <2>1
  <2>. QED  BY <2>1, <2>2, <2>3, <2>4 DEF Range
<1>1. <<>> \in I
  BY SelectEmpty, EmptySeq DEF Range
<1>2. ASSUME NEW r \in Seq(S), NEW x \in S, r \in I
      PROVE  Append(r, x) \in I
  <2>1. Select(r, T) \in Seq(S) /\ Append(r, x) \in Seq(S)
    BY SelectType, AppendProperties
  <2>2. Select(Append(r, x), T) = IF x \in T THEN Append(Select(r, T), x) ELSE Select(r, T)
    BY SelectAppend
  <2>3. Range(Append(Select(r, T), x)) = Range(Select(r, T)) \cup {x}
    BY <1>0, <2>1
  <2>4. Range(Append(r, x)) = Range(r) \cup {x}
    BY <1>0
  <2>5. Range(Select(r, T)) = Range(r) \cap T
    BY <1>2
  <2>6. Range(Select(Append(r, x), T)) = Range(Append(r, x)) \cap T
    BY <2>2, <2>3, <2>4, <2>5
  <2>. QED  BY <2>1, <2>6
<1>. HIDE DEF I
<1>3. Seq(S) \subseteq I
  BY <1>1, <1>2, SequenceInduction
<1>. QED  BY <1>3 DEF I

\* The inputs of messages among which those of a prompt or a steer carry numbers
\* from N.
Said(S) == [m \in S |-> IF m.role = "user" THEN <<m.input>> ELSE <<>>]

Speaks(S, N) == \A m \in S : m.role = "user" => m.input \in N

LEMMA InputsGather ==
    ASSUME NEW S, NEW N, Speaks(S, N), NEW s \in Seq(S)
    PROVE  Inputs(s) = Gather(s, Said(S)) /\ Said(S) \in [S -> Seq(N)]
<1>1. \A i \in DOMAIN s : s[i] \in S
  BY LenProperties, ElementOfSeq
<1>2. [i \in DOMAIN s |-> IF s[i].role = "user" THEN <<s[i].input>> ELSE <<>>]
        = [i \in DOMAIN s |-> Said(S)[s[i]]]
  BY <1>1 DEF Said
<1>3. Said(S) \in [S -> Seq(N)]
  BY DEF Said, Speaks
<1>. QED  BY <1>2, <1>3 DEF Inputs, Gather

LEMMA InputsType ==
    ASSUME NEW S, NEW N, Speaks(S, N), NEW s \in Seq(S)
    PROVE  Inputs(s) \in Seq(N)
BY InputsGather, GatherType

LEMMA InputsConcat ==
    ASSUME NEW S, NEW N, Speaks(S, N), NEW s \in Seq(S), NEW r \in Seq(S)
    PROVE  Inputs(s \o r) = Inputs(s) \o Inputs(r)
<1>. DEFINE sr == s \o r
            g  == Said(S)
<1>1. sr \in Seq(S)
  BY ConcatProperties
<1>2. Gather(s \o r, g) = Gather(s, g) \o Gather(r, g)
  BY InputsGather, GatherConcat
<1>3. Inputs(s) = Gather(s, g) /\ Inputs(r) = Gather(r, g)
  BY InputsGather
<1>4. Inputs(sr) = Gather(sr, g)
  <2>. HIDE DEF sr
  <2>. QED  BY <1>1, InputsGather
<1>. QED  BY <1>2, <1>3, <1>4

\* Messages that are not inputs may go, and come.
LEMMA InputsSelected ==
    ASSUME NEW S, NEW N, Speaks(S, N), NEW s \in Seq(S), NEW T,
           \A m \in S : m.role = "user" => m \in T
    PROVE  Inputs(Select(s, T)) = Inputs(s)
<1>1. \A m \in S : m \notin T => Said(S)[m] = <<>>
  BY DEF Said
<1>2. Select(s, T) \in Seq(S) /\ Select(s, T) = Gather(s, Only(S, T))
  BY SelectType, SelectGather
<1>. QED  BY <1>1, <1>2, InputsGather, GatherSelected

LEMMA InputsNone ==
    ASSUME NEW S, NEW s \in Seq(S), \A i \in DOMAIN s : s[i].role # "user"
    PROVE  Inputs(s) = <<>>
<1>. DEFINE T == {m \in S : m.role # "user"}
            N == {}
<1>1. s \in Seq(T) /\ Speaks(T, N)
  <2>1. /\ Len(s) \in Nat /\ DOMAIN s = 1 .. Len(s)
        /\ s \in [1 .. Len(s) -> T]
    BY LenProperties, ElementOfSeq
  <2>. QED  BY <2>1, SeqDef DEF Speaks
<1>. HIDE DEF T, N
<1>2. Inputs(s) \in Seq(N)
  BY <1>1, InputsType
<1>3. Len(Inputs(s)) = 0
  <2>1. Len(Inputs(s)) \in Nat /\ \A i \in 1 .. Len(Inputs(s)) : Inputs(s)[i] \in N
    BY <1>2, LenProperties, ElementOfSeq
  <2>2. Len(Inputs(s)) # 0 => 1 \in 1 .. Len(Inputs(s))
    BY <2>1
  <2>. QED  BY <2>1, <2>2 DEF N
<1>. QED  BY <1>2, <1>3, EmptySeq

\* A sequence of all elements of a finite set.
LEMMA SequenceOfSet ==
    ASSUME NEW S, IsFiniteSet(S), NEW s \in SetToSeqs(S)
    PROVE  s \in Seq(S) /\ Range(s) = S /\ (s = <<>> <=> S = {})
<1>. DEFINE n == Cardinality(S)
<1>1. n \in Nat /\ s \in [1 .. n -> S] /\ \A i, j \in 1 .. n : i # j => s[i] # s[j]
  BY FS_CardinalityType DEF SetToSeqs
<1>2. s \in Seq(S) /\ Len(s) = n
  BY <1>1, SeqDef
<1>3. s \in Injection(1 .. n, S)
  BY <1>1 DEF Injection, IsInjective
<1>4. Cardinality(1 .. n) = n
  BY <1>1, FS_Interval
<1>. HIDE DEF n
<1>5. s \in Surjection(1 .. n, S)
  BY <1>3, <1>4, FS_Injection DEF n
<1>6. Range(s) = S
  BY <1>1, <1>5 DEF Range, Surjection
<1>7. s = <<>> <=> n = 0
  BY <1>2, EmptySeq
<1>. QED  BY <1>2, <1>6, <1>7, FS_EmptySet DEF n

-----------------------------------------------------------------------------
(* The walk of repairToolExchangeAdjacency over a history.                 *)

\* f holds what the loop of repairToolExchangeAdjacency has put together behind message
\* i, for i up to n.
Walks(f, h, close, n) ==
    /\ f = [i \in 0 .. n |-> f[i]]
    /\ f[0] = [out |-> <<>>, consumed |-> {}]
    /\ \A i \in 1 .. n : f[i] = visit(h, close, f[i - 1], i)

LEMMA WalkExists ==
    ASSUME NEW h, NEW close
    PROVE  \A n \in Nat : \E f : Walks(f, h, close, n)
<1>. DEFINE T == {n \in Nat : \E f : Walks(f, h, close, n)}
            start == [out |-> <<>>, consumed |-> {}]
<1>1. 0 \in T
  <2>1. Walks([i \in 0 .. 0 |-> start], h, close, 0)
    BY DEF Walks
  <2>. QED  BY <2>1
<1>2. ASSUME NEW n \in Nat, n \in T
      PROVE  n + 1 \in T
  <2>1. PICK f : Walks(f, h, close, n)
    BY <1>2
  <2>. DEFINE last == visit(h, close, f[n], n + 1)
              g == [i \in 0 .. n + 1 |-> IF i = n + 1 THEN last ELSE f[i]]
  <2>. HIDE DEF last, T
  <2>2. g[n + 1] = last /\ \A i \in 0 .. n : g[i] = f[i]
    OBVIOUS
  <2>3. g = [i \in 0 .. n + 1 |-> g[i]]
    OBVIOUS
  <2>. HIDE DEF g
  <2>4. g[0] = start
    <3>1. 0 \in 0 .. n
      OBVIOUS
    <3>. QED  BY <2>1, <2>2, <3>1 DEF Walks
  <2>5. ASSUME NEW i \in 1 .. n + 1
        PROVE  g[i] = visit(h, close, g[i - 1], i)
    <3>1. CASE i = n + 1
      <4>1. i - 1 = n /\ n \in 0 .. n
        BY <3>1
      <4>2. g[i - 1] = f[n]
        BY <2>2, <4>1
      <4>. QED  BY <2>2, <3>1, <4>2 DEF last
    <3>2. CASE i \in 1 .. n
      <4>1. i - 1 \in 0 .. n /\ i \in 0 .. n
        BY <3>2
      <4>2. g[i - 1] = f[i - 1] /\ g[i] = f[i]
        BY <2>2, <4>1
      <4>. QED  BY <2>1, <3>2, <4>2 DEF Walks
    <3>3. i = n + 1 \/ i \in 1 .. n
      OBVIOUS
    <3>. QED  BY <3>1, <3>2, <3>3
  <2>6. Walks(g, h, close, n + 1)
    BY <2>3, <2>4, <2>5 DEF Walks
  <2>. QED  BY <2>6 DEF T
<1>. HIDE DEF T
<1>3. Nat \subseteq T
  BY <1>1, <1>2, Induction
<1>. QED  BY <1>3 DEF T

LEMMA WalkGives ==
    ASSUME NEW S, NEW h \in Seq(S), NEW close
    PROVE  \E f : /\ Walks(f, h, close, Len(h))
                  /\ repairToolExchangeAdjacency(h, close) = f[Len(h)].out
<1>. DEFINE n == Len(h)
            start == [out |-> <<>>, consumed |-> {}]
            Def(f) == f = [i \in 0 .. n |-> IF i = 0 THEN start ELSE visit(h, close, f[i - 1], i)]
            c == CHOOSE f : Def(f)
<1>1. n \in Nat
  BY LenProperties
<1>2. PICK f : Walks(f, h, close, n)
  BY <1>1, WalkExists
<1>3. repairToolExchangeAdjacency(h, close) = c[n].out
  BY DEF repairToolExchangeAdjacency
<1>. HIDE DEF n
<1>4. Def(f)
  <2>1. \A i \in 0 .. n : f[i] = IF i = 0 THEN start ELSE visit(h, close, f[i - 1], i)
    <3>1. \A i \in 0 .. n : i = 0 \/ (i # 0 /\ i \in 1 .. n)
      BY <1>1
    <3>. QED  BY <1>2, <3>1 DEF Walks
  <2>. QED  BY <1>2, <2>1 DEF Walks
<1>5. Def(c)
  BY <1>4
<1>6. Walks(c, h, close, n)
  <2>. HIDE DEF c
  <2>1. \A i \in 0 .. n : c[i] = IF i = 0 THEN start ELSE visit(h, close, c[i - 1], i)
    BY <1>5
  <2>2. c = [i \in 0 .. n |-> c[i]]
    BY <1>5
  <2>3. \A i \in 1 .. n : i \in 0 .. n /\ i # 0
    OBVIOUS
  <2>. QED  BY <1>1, <2>1, <2>2, <2>3 DEF Walks
<1>. HIDE DEF c, Def
<1>. QED  BY <1>3, <1>6 DEF n

\* What a property of the loop takes: that it holds at first and each round keeps it.
LEMMA WalkKeeps ==
    ASSUME NEW h, NEW n \in Nat, NEW close, NEW f, Walks(f, h, close, n), NEW P,
           <<0, [out |-> <<>>, consumed |-> {}]>> \in P,
           \A i \in 1 .. n : <<i - 1, f[i - 1]>> \in P => <<i, f[i]>> \in P
    PROVE  <<n, f[n]>> \in P
<1>. DEFINE T == {i \in Nat : i <= n => <<i, f[i]>> \in P}
<1>1. 0 \in T
  BY DEF Walks
<1>2. ASSUME NEW i \in Nat, i \in T
      PROVE  i + 1 \in T
  <2>. SUFFICES ASSUME i + 1 <= n
                PROVE  <<i + 1, f[i + 1]>> \in P
    OBVIOUS
  <2>. DEFINE k == i + 1
  <2>1. k \in 1 .. n /\ k - 1 = i /\ i <= n
    OBVIOUS
  <2>2. <<i, f[i]>> \in P
    BY <1>2, <2>1
  <2>. HIDE DEF k
  <2>3. <<k, f[k]>> \in P
    BY <2>1, <2>2
  <2>. QED  BY <2>3 DEF k
<1>. HIDE DEF T
<1>3. Nat \subseteq T
  BY <1>1, <1>2, Induction
<1>. QED  BY <1>3 DEF T

-----------------------------------------------------------------------------
(* Messages one after the other.                                           *)

LEMMA Joined ==
    ASSUME NEW S, NEW s \in Seq(S), NEW t \in Seq(S)
    PROVE  /\ Len(s) \in Nat /\ DOMAIN s = 1 .. Len(s)
           /\ Len(t) \in Nat /\ DOMAIN t = 1 .. Len(t)
           /\ s \o t \in Seq(S) /\ Len(s \o t) = Len(s) + Len(t)
           /\ DOMAIN (s \o t) = 1 .. Len(s) + Len(t)
           /\ \A i \in 1 .. Len(s) : (s \o t)[i] = s[i]
           /\ \A i \in 1 .. Len(t) : (s \o t)[Len(s) + i] = t[i]
<1>1. Len(s) \in Nat /\ DOMAIN s = 1 .. Len(s) /\ Len(t) \in Nat /\ DOMAIN t = 1 .. Len(t)
  BY LenProperties
<1>2. /\ s \o t \in Seq(S) /\ Len(s \o t) = Len(s) + Len(t)
      /\ \A i \in 1 .. Len(s) + Len(t) :
            (s \o t)[i] = IF i <= Len(s) THEN s[i] ELSE t[i - Len(s)]
  BY ConcatProperties
<1>3. DOMAIN (s \o t) = 1 .. Len(s \o t)
  BY <1>2, LenProperties
<1>. DEFINE n == Len(s)
            m == Len(t)
            c == s \o t
<1>4. n \in Nat /\ m \in Nat /\ \A i \in 1 .. n + m : c[i] = IF i <= n THEN s[i] ELSE t[i - n]
  BY <1>1, <1>2
<1>. HIDE DEF n, m, c
<1>5. \A i \in 1 .. n : i \in 1 .. n + m /\ i <= n
  BY <1>4
<1>6. \A i \in 1 .. m : n + i \in 1 .. n + m /\ ~ (n + i <= n) /\ (n + i) - n = i
  BY <1>4
<1>7. (\A i \in 1 .. n : c[i] = s[i]) /\ (\A i \in 1 .. m : c[n + i] = t[i])
  BY <1>4, <1>5, <1>6
<1>. QED  BY <1>1, <1>2, <1>3, <1>7 DEF n, m, c

\* Whatever follows a message still follows it when more is appended, and nothing else
\* does if that begins with no result.
LEMMA FollowersJoined ==
    ASSUME NEW S, NEW s \in Seq(S), NEW t \in Seq(S)
    PROVE  /\ \A i \in 1 .. Len(s) : Followers(s, i) \subseteq Followers(s \o t, i)
           /\ (t # <<>> /\ t[1].role # "tool") =>
                 \A i \in 1 .. Len(s) : Followers(s \o t, i) \subseteq Followers(s, i)
           /\ \A i \in 1 .. Len(t) : \A j \in Followers(t, i) :
                 Len(s) + j \in Followers(s \o t, Len(s) + i)
           /\ \A i \in 1 .. Len(t) : \A j \in Followers(s \o t, Len(s) + i) :
                 j - Len(s) \in Followers(t, i) /\ j = Len(s) + (j - Len(s))
<1>. DEFINE n == Len(s)
            m == Len(t)
            c == s \o t
<1>1. /\ n \in Nat /\ m \in Nat /\ Len(c) = n + m
      /\ \A i \in 1 .. n : c[i] = s[i]
      /\ \A i \in 1 .. m : c[n + i] = t[i]
  BY Joined
<1>2. t # <<>> => m # 0
  BY EmptySeq
<1>3. \A i, j : /\ j \in Followers(s, i) <=> j \in i + 1 .. n /\ \A k \in i + 1 .. j : s[k].role = "tool"
                /\ j \in Followers(t, i) <=> j \in i + 1 .. m /\ \A k \in i + 1 .. j : t[k].role = "tool"
                /\ j \in Followers(c, i) <=> j \in i + 1 .. n + m /\ \A k \in i + 1 .. j : c[k].role = "tool"
  BY <1>1 DEF Followers
<1>. HIDE DEF n, m, c
<1>4. ASSUME NEW i \in 1 .. n, NEW j \in Followers(s, i)
      PROVE  j \in Followers(c, i)
  <2>1. j \in i + 1 .. n /\ \A k \in i + 1 .. j : s[k].role = "tool"
    BY <1>3
  <2>2. j \in i + 1 .. n + m /\ \A k \in i + 1 .. j : k \in 1 .. n
    BY <1>1, <2>1
  <2>3. \A k \in i + 1 .. j : c[k].role = "tool"
    BY <1>1, <2>1, <2>2
  <2>. QED  BY <1>3, <2>2, <2>3
<1>5. ASSUME t # <<>>, t[1].role # "tool", NEW i \in 1 .. n, NEW j \in Followers(c, i)
      PROVE  j \in Followers(s, i)
  <2>1. j \in i + 1 .. n + m /\ \A k \in i + 1 .. j : c[k].role = "tool"
    BY <1>3
  <2>2. 1 \in 1 .. m /\ c[n + 1].role # "tool"
    BY <1>1, <1>2, <1>5
  <2>3. n + 1 \notin i + 1 .. j
    BY <2>1, <2>2
  <2>4. j \in i + 1 .. n /\ \A k \in i + 1 .. j : k \in 1 .. n
    BY <1>1, <2>1, <2>3
  <2>5. \A k \in i + 1 .. j : s[k].role = "tool"
    BY <1>1, <2>1, <2>4
  <2>. QED  BY <1>3, <2>4, <2>5
<1>6. ASSUME NEW i \in 1 .. m, NEW j \in Followers(t, i)
      PROVE  n + j \in Followers(c, n + i)
  <2>1. j \in i + 1 .. m /\ \A k \in i + 1 .. j : t[k].role = "tool"
    BY <1>3
  <2>2. n + j \in (n + i) + 1 .. n + m
    BY <1>1, <2>1
  <2>3. ASSUME NEW k \in (n + i) + 1 .. n + j
        PROVE  c[k].role = "tool"
    <3>1. k - n \in i + 1 .. j /\ k - n \in 1 .. m /\ k = n + (k - n)
      BY <1>1, <2>1
    <3>2. c[k] = t[k - n]
      BY <1>1, <3>1
    <3>. QED  BY <2>1, <3>1, <3>2
  <2>. QED  BY <1>3, <2>2, <2>3
<1>7. ASSUME NEW i \in 1 .. m, NEW j \in Followers(c, n + i)
      PROVE  j - n \in Followers(t, i) /\ j = n + (j - n)
  <2>1. j \in (n + i) + 1 .. n + m /\ \A k \in (n + i) + 1 .. j : c[k].role = "tool"
    BY <1>3
  <2>2. j - n \in i + 1 .. m /\ j = n + (j - n)
    BY <1>1, <2>1
  <2>3. ASSUME NEW k \in i + 1 .. j - n
        PROVE  t[k].role = "tool"
    <3>1. n + k \in (n + i) + 1 .. j /\ k \in 1 .. m
      BY <1>1, <2>1
    <3>2. c[n + k] = t[k]
      BY <1>1, <3>1
    <3>. QED  BY <2>1, <3>1, <3>2
  <2>. QED  BY <1>3, <2>2, <2>3
<1>. QED  BY <1>4, <1>5, <1>6, <1>7 DEF n, m, c

EachAnswered(s) == \A i \in Calls(s) : CallAnswered(s, i)
EachPlaced(s) == \A j \in Results(s) : ResultPlaced(s, j)

LEMMA AnsweredJoined ==
    ASSUME NEW S, NEW s \in Seq(S), NEW t \in Seq(S), EachAnswered(s), EachAnswered(t)
    PROVE  EachAnswered(s \o t)
<1>. DEFINE n == Len(s)
            m == Len(t)
            c == s \o t
<1>1. /\ n \in Nat /\ m \in Nat /\ DOMAIN c = 1 .. n + m
      /\ DOMAIN s = 1 .. n /\ DOMAIN t = 1 .. m
      /\ \A i \in 1 .. n : c[i] = s[i]
      /\ \A i \in 1 .. m : c[n + i] = t[i]
  BY Joined
<1>2. /\ \A i \in 1 .. n : \A j \in Followers(s, i) : j \in Followers(c, i)
      /\ \A i \in 1 .. m : \A j \in Followers(t, i) : n + j \in Followers(c, n + i)
  BY FollowersJoined
<1>3. /\ \A i \in 1 .. n : \A j \in Followers(s, i) : j \in 1 .. n
      /\ \A i \in 1 .. m : \A j \in Followers(t, i) : j \in 1 .. m
  BY <1>1 DEF Followers
<1>. HIDE DEF n, m, c
<1>. SUFFICES ASSUME NEW i \in 1 .. n + m, c[i].role = "assistant", c[i].toolCalls # <<>>,
                     NEW id \in Range(c[i].toolCalls)
              PROVE  \E j \in Followers(c, i) : c[j].toolCallId = id
  BY <1>1 DEF EachAnswered, CallAnswered, Calls, c
<1>4. CASE i \in 1 .. n
  <2>1. i \in Calls(s) /\ id \in Range(s[i].toolCalls)
    BY <1>1, <1>4 DEF Calls
  <2>2. PICK j \in Followers(s, i) : s[j].toolCallId = id
    BY <2>1 DEF EachAnswered, CallAnswered
  <2>. QED  BY <1>1, <1>2, <1>3, <1>4, <2>2
<1>5. CASE i \notin 1 .. n
  <2>. DEFINE k == i - n
  <2>0. k \in 1 .. m /\ i = n + k
    BY <1>1, <1>5
  <2>. HIDE DEF k
  <2>1. k \in Calls(t) /\ id \in Range(t[k].toolCalls)
    BY <1>1, <2>0 DEF Calls
  <2>2. PICK j \in Followers(t, k) : t[j].toolCallId = id
    BY <2>1 DEF EachAnswered, CallAnswered
  <2>. QED  BY <1>1, <1>2, <1>3, <2>0, <2>2
<1>. QED  BY <1>4, <1>5

LEMMA PlacedJoined ==
    ASSUME NEW S, NEW s \in Seq(S), NEW t \in Seq(S), EachPlaced(s), EachPlaced(t),
           t # <<>>, t[1].role # "tool"
    PROVE  EachPlaced(s \o t)
<1>. DEFINE n == Len(s)
            m == Len(t)
            c == s \o t
<1>1. /\ n \in Nat /\ m \in Nat /\ DOMAIN c = 1 .. n + m
      /\ DOMAIN s = 1 .. n /\ DOMAIN t = 1 .. m
      /\ \A i \in 1 .. n : c[i] = s[i]
      /\ \A i \in 1 .. m : c[n + i] = t[i]
  BY Joined
<1>2. /\ \A i \in 1 .. n : Followers(c, i) = Followers(s, i)
      /\ \A i \in 1 .. m : \A j \in Followers(t, i) : n + j \in Followers(c, n + i)
      /\ \A i \in 1 .. m : \A j \in Followers(c, n + i) : j - n \in Followers(t, i) /\ j = n + (j - n)
  <2>1. \A i \in 1 .. n : Followers(s, i) \subseteq Followers(c, i)
    BY FollowersJoined
  <2>2. \A i \in 1 .. n : Followers(c, i) \subseteq Followers(s, i)
    BY FollowersJoined
  <2>3. \A i \in 1 .. m : \A j \in Followers(t, i) : n + j \in Followers(c, n + i)
    BY FollowersJoined
  <2>4. \A i \in 1 .. m : \A j \in Followers(c, n + i) : j - n \in Followers(t, i) /\ j = n + (j - n)
    BY FollowersJoined
  <2>. HIDE DEF n, m, c
  <2>5. \A i \in 1 .. n : Followers(c, i) = Followers(s, i)
    BY <2>1, <2>2
  <2>. QED  BY <2>3, <2>4, <2>5
<1>3. /\ \A i \in 1 .. n : \A j \in Followers(s, i) : j \in 1 .. n
      /\ \A i \in 1 .. m : \A j \in Followers(t, i) : j \in 1 .. m
  BY <1>1 DEF Followers
<1>. HIDE DEF n, m, c
<1>. SUFFICES ASSUME NEW j \in 1 .. n + m, c[j].role = "tool"
              PROVE  ResultPlaced(c, j)
  BY <1>1 DEF EachPlaced, Results, c
<1>4. CASE j \in 1 .. n
  <2>1. j \in Results(s)
    BY <1>1, <1>4 DEF Results
  <2>2. PICK i \in Calls(s) : /\ j \in Followers(s, i)
                              /\ Answers(s, i, j)
                              /\ \A k \in Followers(s, i) \ {j} : s[k].toolCallId # s[j].toolCallId
    BY <2>1 DEF EachPlaced, ResultPlaced
  <2>3. i \in 1 .. n /\ i \in 1 .. n + m /\ c[i] = s[i] /\ c[j] = s[j]
    BY <1>1, <1>4, <2>2 DEF Calls
  <2>4. i \in Calls(c) /\ Answers(c, i, j)
    BY <1>1, <2>2, <2>3 DEF Calls, Answers, Results
  <2>5. \A k \in Followers(c, i) \ {j} : c[k].toolCallId # c[j].toolCallId
    BY <1>1, <1>2, <1>3, <2>2, <2>3
  <2>. QED  BY <1>2, <2>2, <2>3, <2>4, <2>5 DEF ResultPlaced
<1>5. CASE j \notin 1 .. n
  <2>. DEFINE l == j - n
  <2>0. l \in 1 .. m /\ j = n + l
    BY <1>1, <1>5
  <2>. HIDE DEF l
  <2>1. l \in Results(t)
    BY <1>1, <2>0 DEF Results
  <2>2. PICK i \in Calls(t) : /\ l \in Followers(t, i)
                              /\ Answers(t, i, l)
                              /\ \A k \in Followers(t, i) \ {l} : t[k].toolCallId # t[l].toolCallId
    BY <2>1 DEF EachPlaced, ResultPlaced
  <2>3. i \in 1 .. m /\ n + i \in 1 .. n + m /\ c[n + i] = t[i] /\ c[j] = t[l]
    BY <1>1, <2>0, <2>2 DEF Calls
  <2>4. n + i \in Calls(c) /\ Answers(c, n + i, j)
    BY <1>1, <2>0, <2>2, <2>3 DEF Calls, Answers, Results
  <2>5. ASSUME NEW k \in Followers(c, n + i) \ {j}
        PROVE  c[k].toolCallId # c[j].toolCallId
    <3>1. k - n \in Followers(t, i) /\ k = n + (k - n) /\ k - n \in 1 .. m
      BY <1>2, <1>3, <2>3
    <3>2. k - n # l
      BY <2>0, <3>1
    <3>3. c[k] = t[k - n]
      BY <1>1, <3>1
    <3>. QED  BY <2>2, <2>3, <3>1, <3>2, <3>3
  <2>. QED  BY <1>2, <2>0, <2>2, <2>3, <2>4, <2>5 DEF ResultPlaced
<1>. QED  BY <1>4, <1>5

-----------------------------------------------------------------------------
(* What a selection leaves.                                                *)

Distinct(s) == \A i, j \in DOMAIN s : s[i] = s[j] => i = j

LEMMA SelectDistinct ==
    ASSUME NEW S, NEW s \in Seq(S), NEW T, Distinct(s)
    PROVE  Distinct(Select(s, T))
<1>. DEFINE r == Select(s, T)
<1>1. PICK e \in [DOMAIN r -> Nat] : Embeds(e, r, s)
  BY SelectEmbeds
<1>2. r \in Seq(S)
  BY SelectType
<1>. HIDE DEF r
<1>3. Len(r) \in Nat /\ DOMAIN r = 1 .. Len(r)
  BY <1>2, LenProperties
<1>4. ASSUME NEW i \in DOMAIN r, NEW j \in DOMAIN r, r[i] = r[j]
      PROVE  i = j
  <2>1. e[i] = e[j]
    BY <1>1, <1>4 DEF Embeds, Distinct
  <2>2. e[i] \in Nat /\ ~ (i < j) /\ ~ (j < i)
    BY <1>1, <2>1 DEF Embeds
  <2>. QED  BY <1>3, <2>2
<1>. QED  BY <1>4 DEF Distinct, r

\* What is taken once each is what there was.
LEMMA OnceEachGives ==
    ASSUME NEW S, NEW s \in Seq(S)
    PROVE  OnceEach(s) \in Seq(S) /\ Range(OnceEach(s)) = Range(s) /\ Distinct(OnceEach(s))
<1>. DEFINE n == Len(s)
            all == [k \in DOMAIN s |-> k]
            F == {k \in DOMAIN s : \A l \in 1 .. k - 1 : s[l] # s[k]}
            p == Select(all, F)
            r == [k \in DOMAIN p |-> s[p[k]]]
<1>1. n \in Nat /\ DOMAIN s = 1 .. n /\ \A k \in 1 .. n : s[k] \in S
  BY LenProperties, ElementOfSeq
<1>2. OnceEach(s) = r
  BY DEF OnceEach
<1>3. all \in Seq(1 .. n) /\ DOMAIN all = 1 .. n /\ \A k \in 1 .. n : all[k] = k
  <2>1. all \in [1 .. n -> 1 .. n]
    BY <1>1
  <2>. QED  BY <1>1, <2>1, SeqDef
<1>4. F \subseteq 1 .. n /\ \A k \in F : \A l \in 1 .. k - 1 : s[l] # s[k]
  BY <1>1
<1>5. \A k \in 1 .. n : (\A l \in 1 .. k - 1 : s[l] # s[k]) => k \in F
  BY <1>1
<1>. HIDE DEF n, all, F
<1>6. p \in Seq(1 .. n) /\ Distinct(p) /\ Range(p) = F
  <2>1. Distinct(all) /\ Range(all) = 1 .. n
    BY <1>3 DEF Distinct, Range
  <2>2. p \in Seq(1 .. n)
    BY <1>3, SelectType
  <2>3. Distinct(p)
    BY <1>3, <2>1, SelectDistinct
  <2>4. Range(p) = Range(all) \cap F
    BY <1>3, SelectRange
  <2>. QED  BY <1>4, <2>1, <2>2, <2>3, <2>4
<1>. HIDE DEF p
<1>7. /\ Len(p) \in Nat /\ DOMAIN p = 1 .. Len(p)
      /\ \A k \in DOMAIN p : p[k] \in 1 .. n /\ p[k] \in F
  BY <1>6, LenProperties, ElementOfSeq DEF Range
<1>8. r \in Seq(S) /\ DOMAIN r = DOMAIN p /\ \A k \in DOMAIN p : r[k] = s[p[k]]
  <2>1. r \in [1 .. Len(p) -> S]
    BY <1>1, <1>7
  <2>. QED  BY <1>7, <2>1, SeqDef
<1>. HIDE DEF r
<1>9. ASSUME NEW i \in DOMAIN r, NEW j \in DOMAIN r, r[i] = r[j]
      PROVE  i = j
  <2>1. /\ p[i] \in 1 .. n /\ p[j] \in 1 .. n /\ s[p[i]] = s[p[j]]
        /\ p[i] \in F /\ p[j] \in F
    BY <1>7, <1>8, <1>9
  <2>2. p[i] \notin 1 .. p[j] - 1 /\ p[j] \notin 1 .. p[i] - 1
    BY <1>4, <2>1
  <2>3. p[i] = p[j]
    BY <1>1, <2>1, <2>2
  <2>. QED  BY <1>6, <1>8, <2>3 DEF Distinct
<1>10. ASSUME NEW x \in Range(s)
       PROVE  x \in Range(r)
  <2>. DEFINE At == {k \in Nat : k \in 1 .. n /\ s[k] = x}
  <2>1. At # {} /\ At \subseteq Nat
    BY <1>1 DEF Range
  <2>2. PICK k \in At : \A l \in At : k <= l
    BY <2>1, LeastNumber
  <2>3. k \in 1 .. n /\ s[k] = x
    BY <2>2
  <2>4. ASSUME NEW l \in 1 .. k - 1 PROVE s[l] # s[k]
    <3>1. l \in Nat /\ l \in 1 .. n /\ ~ (k <= l)
      BY <1>1, <2>3
    <3>. QED  BY <2>2, <2>3, <3>1
  <2>5. k \in F
    BY <1>5, <2>3, <2>4
  <2>6. PICK j \in DOMAIN p : p[j] = k
    BY <1>6, <2>5 DEF Range
  <2>. QED  BY <1>8, <2>3, <2>6 DEF Range
<1>11. ASSUME NEW x \in Range(r)
       PROVE  x \in Range(s)
  BY <1>1, <1>7, <1>8, <1>11 DEF Range
<1>. QED  BY <1>2, <1>8, <1>9, <1>10, <1>11 DEF Distinct

LEMMA SelectNone ==
    ASSUME NEW S, NEW s \in Seq(S), NEW T, \A i \in 1 .. Len(s) : s[i] \notin T
    PROVE  Select(s, T) = <<>>
<1>. DEFINE r == Select(s, T)
<1>1. DOMAIN s = 1 .. Len(s) /\ r \in Seq(S) /\ Range(r) = Range(s) \cap T
  BY LenProperties, SelectType, SelectRange
<1>. HIDE DEF r
<1>2. Range(r) = {}
  BY <1>1 DEF Range
<1>3. Len(r) \in Nat /\ DOMAIN r = 1 .. Len(r)
  BY <1>1, LenProperties
<1>4. Len(r) # 0 => 1 \in DOMAIN r
  BY <1>3
<1>5. Len(r) = 0
  BY <1>2, <1>4 DEF Range
<1>. QED  BY <1>1, <1>5, EmptySeq DEF r

\* The messages of a history: calls and results bear names of I.
Named(M, I) ==
    \A m \in M : /\ m.role = "assistant" => m.toolCalls \in Seq(I)
                 /\ m.role = "tool" => m = Result(m.toolCallId) /\ m.toolCallId \in I

Sent(M, I) == M \cup {Synthetic(id) : id \in I}

\* The exchange of message i: the results at the places p, and a synthetic one for each
\* name in q.
IsExchange(e, h, i, p, q) ==
    /\ Len(e) = (1 + Len(p)) + Len(q)
    /\ e[1] = h[i]
    /\ \A k \in 1 .. Len(p) : e[1 + k] = h[p[k]]
    /\ \A k \in 1 .. Len(q) : e[(1 + Len(p)) + k] = Synthetic(q[k])

LEMMA ExchangeIs ==
    ASSUME NEW M, NEW I, Named(M, I), NEW h \in Seq(M), NEW i \in Calls(h),
           NEW taken, taken \subseteq Results(h)
    PROVE  \E p \in Seq(1 .. Len(h)), q \in Seq(I) :
              /\ exchange(h, i, taken, TRUE) \in Seq(Sent(M, I))
              /\ IsExchange(exchange(h, i, taken, TRUE), h, i, p, q)
              /\ Range(p) = taken /\ Distinct(p)
              /\ Range(q) = Range(h[i].toolCalls) \ {h[j].toolCallId : j \in taken}
              /\ Distinct(q)
<1>. DEFINE n == Len(h)
            all == [k \in DOMAIN h |-> k]
            p == Select(all, taken)
            ids == h[i].toolCalls
            U == Range(ids) \ {h[j].toolCallId : j \in taken}
            once == OnceEach(ids)
            q == Select(once, U)
            e == exchange(h, i, taken, TRUE)
            a == <<h[i]>>
            b == [k \in DOMAIN p |-> h[p[k]]]
            c == [k \in DOMAIN q |-> Synthetic(q[k])]
<1>1. n \in Nat /\ DOMAIN h = 1 .. n /\ \A k \in 1 .. n : h[k] \in M
  BY LenProperties, ElementOfSeq
<1>2. all \in Seq(1 .. n) /\ DOMAIN all = 1 .. n /\ \A k \in 1 .. n : all[k] = k
  <2>1. all \in [1 .. n -> 1 .. n]
    BY <1>1
  <2>. QED  BY <1>1, <2>1, SeqDef
<1>3. Distinct(all) /\ Range(all) = 1 .. n
  BY <1>2 DEF Distinct, Range
<1>4. taken \subseteq 1 .. n
  BY <1>1 DEF Results
<1>5. h[i] \in M /\ ids \in Seq(I)
  BY <1>1 DEF Calls, Named
<1>6. e = (a \o b) \o c
  BY DEF exchange, missing
<1>. HIDE DEF n, all, ids, once, U
<1>7. p \in Seq(1 .. n) /\ Distinct(p) /\ Range(p) = taken
  <2>1. p \in Seq(1 .. n)
    BY <1>2, SelectType
  <2>2. Distinct(p)
    BY <1>2, <1>3, SelectDistinct
  <2>3. Range(p) = Range(all) \cap taken
    BY <1>2, SelectRange
  <2>. QED  BY <1>3, <1>4, <2>1, <2>2, <2>3
<1>8. q \in Seq(I) /\ Distinct(q) /\ Range(q) = U
  <2>0. once \in Seq(I) /\ Range(once) = Range(ids) /\ Distinct(once)
    BY <1>5, OnceEachGives DEF once
  <2>1. q \in Seq(I)
    BY <2>0, SelectType
  <2>2. Distinct(q)
    BY <2>0, SelectDistinct
  <2>3. Range(q) = Range(ids) \cap U
    BY <2>0, SelectRange
  <2>. QED  BY <2>1, <2>2, <2>3 DEF U
<1>. HIDE DEF p, q, e
<1>9. /\ Len(p) \in Nat /\ DOMAIN p = 1 .. Len(p) /\ \A k \in 1 .. Len(p) : p[k] \in 1 .. n
      /\ Len(q) \in Nat /\ DOMAIN q = 1 .. Len(q) /\ \A k \in 1 .. Len(q) : q[k] \in I
  BY <1>7, <1>8, LenProperties, ElementOfSeq
<1>. DEFINE R == Sent(M, I)
<1>10. M \subseteq R /\ \A id \in I : Synthetic(id) \in R
  BY DEF Sent
<1>. HIDE DEF R
<1>11. a \in Seq(R) /\ Len(a) = 1 /\ a[1] = h[i]
  BY <1>5, <1>10
<1>12. b \in Seq(R) /\ Len(b) = Len(p) /\ \A k \in 1 .. Len(p) : b[k] = h[p[k]]
  <2>1. b \in [1 .. Len(p) -> R]
    BY <1>1, <1>9, <1>10
  <2>2. b \in Seq(R) /\ Len(b) = Len(p)
    BY <1>9, <2>1, SeqDef, LenProperties
  <2>. QED  BY <1>9, <2>2
<1>13. c \in Seq(R) /\ Len(c) = Len(q) /\ \A k \in 1 .. Len(q) : c[k] = Synthetic(q[k])
  <2>1. c \in [1 .. Len(q) -> R]
    BY <1>9, <1>10
  <2>2. c \in Seq(R) /\ Len(c) = Len(q)
    BY <1>9, <2>1, SeqDef, LenProperties
  <2>. QED  BY <1>9, <2>2
<1>. HIDE DEF a, b, c
<1>23. a \in Seq(R) /\ b \in Seq(R) /\ c \in Seq(R)
  BY <1>11, <1>12, <1>13
<1>. DEFINE ab == a \o b
<1>14. /\ ab \in Seq(R) /\ Len(ab) = Len(a) + Len(b)
       /\ \A k \in 1 .. Len(a) : ab[k] = a[k]
       /\ \A k \in 1 .. Len(b) : ab[Len(a) + k] = b[k]
  BY <1>23, Joined
<1>. HIDE DEF ab
<1>24. ab \in Seq(R)
  BY <1>14
<1>15. /\ ab \o c \in Seq(R) /\ Len(ab \o c) = Len(ab) + Len(c)
       /\ \A k \in 1 .. Len(ab) : (ab \o c)[k] = ab[k]
       /\ \A k \in 1 .. Len(c) : (ab \o c)[Len(ab) + k] = c[k]
  BY <1>23, <1>24, Joined
<1>16. e = ab \o c
  BY <1>6 DEF ab
<1>. HIDE DEF e
<1>17. Len(ab) = 1 + Len(p) /\ Len(e) = (1 + Len(p)) + Len(q)
  BY <1>11, <1>12, <1>13, <1>14, <1>15, <1>16
<1>18. e[1] = h[i]
  <2>1. 1 \in 1 .. Len(ab) /\ 1 \in 1 .. Len(a)
    BY <1>9, <1>11, <1>17
  <2>. QED  BY <1>11, <1>14, <1>15, <1>16, <2>1
<1>19. ASSUME NEW k \in 1 .. Len(p)
       PROVE  e[1 + k] = h[p[k]]
  <2>1. 1 + k \in 1 .. Len(ab) /\ k \in 1 .. Len(b)
    BY <1>9, <1>12, <1>17
  <2>2. e[1 + k] = ab[1 + k]
    BY <1>15, <1>16, <2>1
  <2>3. ab[1 + k] = b[k]
    BY <1>11, <1>14, <2>1
  <2>. QED  BY <1>12, <2>2, <2>3
<1>20. ASSUME NEW k \in 1 .. Len(q)
       PROVE  e[(1 + Len(p)) + k] = Synthetic(q[k])
  BY <1>13, <1>15, <1>16, <1>17
<1>21. IsExchange(e, h, i, p, q)
  BY <1>17, <1>18, <1>19, <1>20 DEF IsExchange
<1>22. e \in Seq(R)
  BY <1>15, <1>16
<1>. QED  BY <1>7, <1>8, <1>21, <1>22 DEF R, e, n, U, ids

-----------------------------------------------------------------------------
(* The exchange of a message with calls.                                   *)

\* Its message, then results alone.
ExchangeFacts(e, h, i, p, q) ==
    /\ DOMAIN e = 1 .. Len(e) /\ Len(e) \in Nat /\ Len(p) \in Nat /\ Len(q) \in Nat
    /\ DOMAIN p = 1 .. Len(p) /\ DOMAIN q = 1 .. Len(q)
    /\ e[1] = h[i] /\ 1 \in 1 .. Len(e) /\ e # <<>> /\ e[1].role = "assistant"
    /\ \A k \in 2 .. Len(e) :
          \/ \E l \in 1 .. Len(p) : k = 1 + l
          \/ \E l \in 1 .. Len(q) : k = (1 + Len(p)) + l
    /\ \A l \in 1 .. Len(p) : 1 + l \in 2 .. Len(e) /\ p[l] \in Range(p)
    /\ \A l \in 1 .. Len(q) : (1 + Len(p)) + l \in 2 .. Len(e)
    /\ \A k \in 2 .. Len(e) : e[k].role = "tool"
    /\ Calls(e) = {1} /\ Results(e) = 2 .. Len(e) /\ Followers(e, 1) = 2 .. Len(e)

LEMMA ExchangeElements ==
    ASSUME NEW M, NEW I, Named(M, I), NEW h \in Seq(M), NEW i \in Calls(h),
           NEW p \in Seq(1 .. Len(h)), Range(p) \subseteq Results(h), NEW q \in Seq(I),
           NEW R, NEW e \in Seq(R), IsExchange(e, h, i, p, q)
    PROVE  ExchangeFacts(e, h, i, p, q)
<1>1. /\ DOMAIN e = 1 .. Len(e) /\ Len(e) \in Nat /\ Len(p) \in Nat /\ Len(q) \in Nat
      /\ DOMAIN p = 1 .. Len(p) /\ DOMAIN q = 1 .. Len(q)
  BY LenProperties
<1>2. /\ Len(e) = (1 + Len(p)) + Len(q) /\ e[1] = h[i]
      /\ \A k \in 1 .. Len(p) : e[1 + k] = h[p[k]]
      /\ \A k \in 1 .. Len(q) : e[(1 + Len(p)) + k] = Synthetic(q[k])
  BY DEF IsExchange
<1>3. 1 \in 1 .. Len(e) /\ Len(e) # 0
  BY <1>1, <1>2
<1>4. e # <<>>
  BY <1>3, EmptySeq
<1>5. e[1].role = "assistant" /\ e[1].toolCalls # <<>>
  BY <1>2 DEF Calls
<1>6. ASSUME NEW k \in 2 .. Len(e)
      PROVE  \/ \E l \in 1 .. Len(p) : k = 1 + l
             \/ \E l \in 1 .. Len(q) : k = (1 + Len(p)) + l
  <2>1. CASE k <= 1 + Len(p)
    <3>1. k - 1 \in 1 .. Len(p) /\ k = 1 + (k - 1)
      BY <1>1, <2>1
    <3>. QED  BY <3>1
  <2>2. CASE ~ (k <= 1 + Len(p))
    <3>1. k - (1 + Len(p)) \in 1 .. Len(q) /\ k = (1 + Len(p)) + (k - (1 + Len(p)))
      BY <1>1, <1>2, <2>2
    <3>. QED  BY <3>1
  <2>. QED  BY <2>1, <2>2
<1>7. \A l \in 1 .. Len(p) : 1 + l \in 2 .. Len(e) /\ p[l] \in Range(p)
  <2>1. \A l \in 1 .. Len(p) : 1 + l \in 2 .. Len(e)
    BY <1>1, <1>2
  <2>2. \A l \in 1 .. Len(p) : p[l] \in Range(p)
    BY <1>1 DEF Range
  <2>. QED  BY <2>1, <2>2
<1>8. \A l \in 1 .. Len(q) : (1 + Len(p)) + l \in 2 .. Len(e)
  BY <1>1, <1>2
<1>9. ASSUME NEW k \in 2 .. Len(e)
      PROVE  e[k].role = "tool"
  <2>1. CASE \E l \in 1 .. Len(p) : k = 1 + l
    <3>1. PICK l \in 1 .. Len(p) : k = 1 + l
      BY <2>1
    <3>2. e[k] = h[p[l]] /\ p[l] \in Results(h)
      BY <1>2, <1>7, <3>1
    <3>. QED  BY <3>2 DEF Results
  <2>2. CASE \E l \in 1 .. Len(q) : k = (1 + Len(p)) + l
    <3>1. PICK l \in 1 .. Len(q) : k = (1 + Len(p)) + l
      BY <2>2
    <3>2. e[k] = Synthetic(q[l])
      BY <1>2, <3>1
    <3>. QED  BY <3>2 DEF Synthetic
  <2>. QED  BY <1>6, <2>1, <2>2
<1>10. \A k \in 1 .. Len(e) : k = 1 \/ k \in 2 .. Len(e)
  BY <1>1
<1>11. \A k \in 2 .. Len(e) : k \in 1 .. Len(e)
  BY <1>1
<1>12. Calls(e) = {1} /\ Results(e) = 2 .. Len(e)
  BY <1>1, <1>3, <1>5, <1>9, <1>10, <1>11 DEF Calls, Results
<1>13. Followers(e, 1) = 2 .. Len(e)
  <2>1. \A j \in 2 .. Len(e) : \A k \in 2 .. j : k \in 2 .. Len(e)
    BY <1>1
  <2>2. 1 + 1 = 2
    OBVIOUS
  <2>. QED  BY <1>9, <2>1, <2>2 DEF Followers
<1>. QED  BY <1>1, <1>2, <1>3, <1>4, <1>5, <1>6, <1>7, <1>8, <1>9, <1>12, <1>13 DEF ExchangeFacts

\* The results taken and the synthetic ones answer every call.
LEMMA ExchangeAnswered ==
    ASSUME NEW M, NEW I, Named(M, I), NEW h \in Seq(M), NEW i \in Calls(h),
           NEW p \in Seq(1 .. Len(h)), Range(p) \subseteq Results(h), NEW q \in Seq(I),
           Range(q) = Range(h[i].toolCalls) \ {h[j].toolCallId : j \in Range(p)},
           NEW R, NEW e \in Seq(R), IsExchange(e, h, i, p, q)
    PROVE  EachAnswered(e)
<1>1. /\ DOMAIN p = 1 .. Len(p) /\ DOMAIN q = 1 .. Len(q) /\ e[1] = h[i]
      /\ \A l \in 1 .. Len(p) : 1 + l \in 2 .. Len(e)
      /\ \A l \in 1 .. Len(q) : (1 + Len(p)) + l \in 2 .. Len(e)
      /\ Calls(e) = {1} /\ Followers(e, 1) = 2 .. Len(e)
  <2>1. ExchangeFacts(e, h, i, p, q)
    BY ExchangeElements
  <2>. QED  BY <2>1 DEF ExchangeFacts
<1>2. /\ \A k \in 1 .. Len(p) : e[1 + k] = h[p[k]]
      /\ \A k \in 1 .. Len(q) : e[(1 + Len(p)) + k] = Synthetic(q[k])
  BY DEF IsExchange
<1>. SUFFICES ASSUME NEW id \in Range(h[i].toolCalls)
              PROVE  \E j \in 2 .. Len(e) : e[j].toolCallId = id
  BY <1>1 DEF EachAnswered, CallAnswered
<1>3. CASE \E j \in Range(p) : h[j].toolCallId = id
  <2>1. PICK l \in 1 .. Len(p) : h[p[l]].toolCallId = id
    BY <1>1, <1>3 DEF Range
  <2>. QED  BY <1>1, <1>2, <2>1
<1>4. CASE ~ \E j \in Range(p) : h[j].toolCallId = id
  <2>1. id \in Range(q)
    BY <1>4
  <2>2. PICK l \in 1 .. Len(q) : q[l] = id
    BY <1>1, <2>1 DEF Range
  <2>3. Synthetic(q[l]).toolCallId = id
    BY <2>2 DEF Synthetic
  <2>. QED  BY <1>1, <1>2, <2>2, <2>3
<1>. QED  BY <1>3, <1>4

\* Each call has one result, if it was made once and what was taken answers it once.
\* The results at the places p answer calls of message i, one each, and q names the others.
Fitting(h, i, p, q) ==
    /\ Range(p) \subseteq Results(h)
    /\ Range(q) = Range(h[i].toolCalls) \ {h[j].toolCallId : j \in Range(p)}
    /\ Distinct(p) /\ Distinct(q)
    /\ \A j \in Range(p) : h[j].toolCallId \in Range(h[i].toolCalls)
    /\ \A j, k \in Range(p) : h[j].toolCallId = h[k].toolCallId => j = k

LEMMA ExchangePlaced ==
    ASSUME NEW M, NEW I, Named(M, I), NEW h \in Seq(M), NEW i \in Calls(h),
           NEW p \in Seq(1 .. Len(h)), NEW q \in Seq(I), Fitting(h, i, p, q),
           NEW R, NEW e \in Seq(R), IsExchange(e, h, i, p, q)
    PROVE  EachPlaced(e)
<1>0. /\ Range(p) \subseteq Results(h)
      /\ Range(q) = Range(h[i].toolCalls) \ {h[j].toolCallId : j \in Range(p)}
      /\ Distinct(p) /\ Distinct(q)
      /\ \A j \in Range(p) : h[j].toolCallId \in Range(h[i].toolCalls)
      /\ \A j, k \in Range(p) : h[j].toolCallId = h[k].toolCallId => j = k
  BY DEF Fitting
<1>1. /\ DOMAIN p = 1 .. Len(p) /\ DOMAIN q = 1 .. Len(q) /\ e[1] = h[i]
      /\ DOMAIN e = 1 .. Len(e) /\ Len(e) \in Nat
      /\ \A k \in 2 .. Len(e) :
            \/ \E l \in 1 .. Len(p) : k = 1 + l
            \/ \E l \in 1 .. Len(q) : k = (1 + Len(p)) + l
      /\ \A l \in 1 .. Len(p) : p[l] \in Range(p)
      /\ Calls(e) = {1} /\ Results(e) = 2 .. Len(e) /\ Followers(e, 1) = 2 .. Len(e)
  <2>1. ExchangeFacts(e, h, i, p, q)
    BY <1>0, ExchangeElements
  <2>. QED  BY <2>1 DEF ExchangeFacts
<1>2. /\ \A k \in 1 .. Len(p) : e[1 + k] = h[p[k]]
      /\ \A k \in 1 .. Len(q) : e[(1 + Len(p)) + k] = Synthetic(q[k])
      /\ \A k \in 1 .. Len(q) : Synthetic(q[k]).toolCallId = q[k]
  BY DEF IsExchange, Synthetic
<1>3. \A k \in 1 .. Len(q) :
         /\ q[k] \in Range(h[i].toolCalls)
         /\ \A j \in Range(p) : h[j].toolCallId # q[k]
  <2>1. \A k \in 1 .. Len(q) : q[k] \in Range(q)
    BY <1>1 DEF Range
  <2>. QED  BY <1>0, <2>1
<1>4. ASSUME NEW j \in 2 .. Len(e), NEW k \in 2 .. Len(e), e[j].toolCallId = e[k].toolCallId
      PROVE  j = k
  <2>1. CASE /\ \E l \in 1 .. Len(p) : j = 1 + l
             /\ \E l \in 1 .. Len(p) : k = 1 + l
    <3>1. PICK l \in 1 .. Len(p), m \in 1 .. Len(p) : j = 1 + l /\ k = 1 + m
      BY <2>1
    <3>2. p[l] = p[m]
      BY <1>0, <1>1, <1>2, <1>4, <3>1
    <3>3. l \in DOMAIN p /\ m \in DOMAIN p
      BY <1>1
    <3>4. l = m
      BY <1>0, <3>2, <3>3 DEF Distinct
    <3>. QED  BY <3>1, <3>4
  <2>2. CASE /\ \E l \in 1 .. Len(q) : j = (1 + Len(p)) + l
             /\ \E l \in 1 .. Len(q) : k = (1 + Len(p)) + l
    <3>1. PICK l \in 1 .. Len(q), m \in 1 .. Len(q) : j = (1 + Len(p)) + l /\ k = (1 + Len(p)) + m
      BY <2>2
    <3>2. q[l] = q[m]
      BY <1>2, <1>4, <3>1
    <3>3. l \in DOMAIN q /\ m \in DOMAIN q
      BY <1>1
    <3>4. l = m
      BY <1>0, <3>2, <3>3 DEF Distinct
    <3>. QED  BY <3>1, <3>4
  <2>3. CASE /\ \E l \in 1 .. Len(p) : j = 1 + l
             /\ \E l \in 1 .. Len(q) : k = (1 + Len(p)) + l
    BY <1>1, <1>2, <1>3, <1>4, <2>3
  <2>4. CASE /\ \E l \in 1 .. Len(q) : j = (1 + Len(p)) + l
             /\ \E l \in 1 .. Len(p) : k = 1 + l
    BY <1>1, <1>2, <1>3, <1>4, <2>4
  <2>. QED  BY <1>1, <2>1, <2>2, <2>3, <2>4
<1>5. ASSUME NEW j \in 2 .. Len(e)
      PROVE  e[j].toolCallId \in Range(h[i].toolCalls)
  <2>1. CASE \E l \in 1 .. Len(p) : j = 1 + l
    <3>1. PICK l \in 1 .. Len(p) : j = 1 + l
      BY <2>1
    <3>2. e[j] = h[p[l]] /\ p[l] \in Range(p)
      BY <1>1, <1>2, <3>1
    <3>. QED  BY <1>0, <3>2
  <2>2. CASE \E l \in 1 .. Len(q) : j = (1 + Len(p)) + l
    <3>1. PICK l \in 1 .. Len(q) : j = (1 + Len(p)) + l
      BY <2>2
    <3>2. e[j] = Synthetic(q[l]) /\ Synthetic(q[l]).toolCallId = q[l]
      BY <1>2, <3>1
    <3>. QED  BY <1>3, <3>2
  <2>. QED  BY <1>1, <2>1, <2>2
<1>6. \A id \in Range(h[i].toolCalls) : Contains(h[i].toolCalls, id)
  <2>1. h[i].toolCalls \in Seq(I)
    <3>1. h[i] \in M /\ h[i].role = "assistant"
      BY ElementOfSeq, LenProperties DEF Calls
    <3>. QED  BY <3>1 DEF Named
  <2>2. DOMAIN h[i].toolCalls = 1 .. Len(h[i].toolCalls)
    BY <2>1, LenProperties
  <2>. QED  BY <2>2 DEF Range, Contains
<1>. SUFFICES ASSUME NEW j \in Results(e)
              PROVE  ResultPlaced(e, j)
  BY DEF EachPlaced
<1>7. Answers(e, 1, j)
  BY <1>1, <1>5, <1>6 DEF Answers
<1>8. \A k \in Followers(e, 1) \ {j} : e[k].toolCallId # e[j].toolCallId
  BY <1>1, <1>4
<1>. QED  BY <1>1, <1>7, <1>8 DEF ResultPlaced

\* What is neither a result nor synthetic in an exchange is its message.
LEMMA ExchangeSays ==
    ASSUME NEW M, NEW I, Named(M, I), NEW h \in Seq(M), NEW i \in Calls(h),
           NEW p \in Seq(1 .. Len(h)), Range(p) \subseteq Results(h), NEW q \in Seq(I),
           NEW R, NEW e \in Seq(R), IsExchange(e, h, i, p, q),
           NEW T, \A m \in T : m.role # "tool", h[i] \in T
    PROVE  Select(e, T) = <<h[i]>>
<1>. DEFINE t == Tail(e)
            one == <<e[1]>>
<1>1. /\ e \in Seq(R) /\ Len(e) \in Nat /\ 1 \in 1 .. Len(e) /\ e # <<>> /\ e[1] = h[i]
      /\ \A k \in 2 .. Len(e) : e[k].role = "tool"
  <2>1. ExchangeFacts(e, h, i, p, q)
    BY ExchangeElements
  <2>. QED  BY <2>1 DEF ExchangeFacts
<1>2. e[1] \in R
  BY <1>1, ElementOfSeq
<1>3. /\ t \in Seq(R) /\ Len(t) = Len(e) - 1
      /\ \A k \in 1 .. Len(t) : t[k] = e[k + 1]
  BY <1>1, HeadTailProperties
<1>4. one \in Seq(R)
  BY <1>2
<1>5. one \o t = e
  <2>1. Len(one) = 1 /\ one[1] = e[1] /\ Len(t) \in Nat
    BY <1>3, LenProperties
  <2>. HIDE DEF one, t
  <2>2. /\ one \o t \in Seq(R) /\ Len(one \o t) = Len(one) + Len(t)
        /\ \A k \in 1 .. Len(one) : (one \o t)[k] = one[k]
        /\ \A k \in 1 .. Len(t) : (one \o t)[Len(one) + k] = t[k]
    <3>1. one \in Seq(R) /\ t \in Seq(R)
      BY <1>3, <1>4
    <3>. QED  BY <3>1, Joined
  <2>. DEFINE c == one \o t
  <2>3. /\ c \in Seq(R) /\ Len(c) = Len(e) /\ c[1] = e[1]
        /\ \A k \in 1 .. Len(e) - 1 : c[1 + k] = e[k + 1]
    BY <1>1, <1>3, <2>1, <2>2
  <2>. HIDE DEF c
  <2>4. ASSUME NEW k \in 1 .. Len(e)
        PROVE  c[k] = e[k]
    <3>1. CASE k = 1
      BY <2>3, <3>1
    <3>2. CASE k # 1
      <4>1. k - 1 \in 1 .. Len(e) - 1 /\ 1 + (k - 1) = k /\ (k - 1) + 1 = k
        BY <1>1, <3>2
      <4>2. c[1 + (k - 1)] = e[(k - 1) + 1]
        BY <2>3, <4>1
      <4>. QED  BY <4>1, <4>2
    <3>. QED  BY <3>1, <3>2
  <2>5. c = e
    BY <2>3, <2>4, SeqEqual
  <2>. QED  BY <2>5 DEF c
<1>. HIDE DEF one, t
<1>6. Select(one \o t, T) = Select(one, T) \o Select(t, T)
  BY <1>3, <1>4, SelectConcat, SMTT(30)
<1>7. Select(t, T) = <<>>
  <2>1. \A k \in 1 .. Len(t) : t[k] \notin T
    <3>1. \A k \in 1 .. Len(t) : k + 1 \in 2 .. Len(e)
      BY <1>1, <1>3
    <3>. QED  BY <1>1, <1>3, <3>1
  <2>. QED  BY <1>3, <2>1, SelectNone
<1>8. Select(one, T) = one
  <2>1. \A k \in DOMAIN one : one[k] \in T
    BY <1>1 DEF one
  <2>. QED  BY <1>4, <2>1, SelectAll
<1>. QED  BY <1>1, <1>4, <1>5, <1>6, <1>7, <1>8, ConcatEmptySeq DEF one

-----------------------------------------------------------------------------
(* Where the messages of a request come from.                              *)

\* The messages s are those of h at the places T, each once, and synthetic ones: src says
\* where each is from, or 0.
Drawn(h, I, s, src, T) ==
    /\ src \in [DOMAIN s -> 0 .. Len(h)]
    /\ \A k \in DOMAIN s : src[k] = 0 => s[k] \in {Synthetic(id) : id \in I}
    /\ \A k \in DOMAIN s : src[k] # 0 => s[k] = h[src[k]]
    /\ \A k, l \in DOMAIN s : (src[k] = src[l] /\ src[k] # 0) => k = l
    /\ \A k \in DOMAIN s : src[k] # 0 => src[k] \in T
    /\ \A j \in T : \E k \in DOMAIN s : src[k] = j
    /\ T \subseteq 1 .. Len(h)

LEMMA DrawnNone ==
    ASSUME NEW S, NEW h \in Seq(S), NEW I
    PROVE  \E src : Drawn(h, I, <<>>, src, {})
<1>1. Drawn(h, I, <<>>, [k \in DOMAIN <<>> |-> 0], {})
  <2>1. DOMAIN <<>> = {}
    OBVIOUS
  <2>. QED  BY <2>1 DEF Drawn
<1>. QED  BY <1>1

LEMMA DrawnOne ==
    ASSUME NEW S, NEW h \in Seq(S), NEW I, NEW i \in 1 .. Len(h)
    PROVE  \E src : Drawn(h, I, <<h[i]>>, src, {i})
<1>. DEFINE s == <<h[i]>>
            src == [k \in {1} |-> i]
<1>1. DOMAIN s = {1} /\ s[1] = h[i] /\ src[1] = i /\ i # 0 /\ Len(h) \in Nat
  BY LenProperties
<1>2. src \in [DOMAIN s -> 0 .. Len(h)]
  BY <1>1
<1>. HIDE DEF s, src
<1>. QED  BY <1>1, <1>2 DEF Drawn, s

LEMMA DrawnJoined ==
    ASSUME NEW S, NEW h \in Seq(S), NEW I, NEW R, NEW s \in Seq(R), NEW t \in Seq(R),
           NEW T, NEW U, T \cap U = {}, NEW f, Drawn(h, I, s, f, T), NEW g, Drawn(h, I, t, g, U)
    PROVE  \E src : Drawn(h, I, s \o t, src, T \cup U)
<1>. DEFINE n == Len(s)
            m == Len(t)
            c == s \o t
            src == [k \in 1 .. n + m |-> IF k <= n THEN f[k] ELSE g[k - n]]
<1>1. /\ n \in Nat /\ m \in Nat /\ DOMAIN c = 1 .. n + m
      /\ DOMAIN s = 1 .. n /\ DOMAIN t = 1 .. m
      /\ \A i \in 1 .. n : c[i] = s[i]
      /\ \A i \in 1 .. m : c[n + i] = t[i]
  BY Joined
<1>. HIDE DEF n, m, c
<1>2. /\ \A k \in 1 .. n : k \in 1 .. n + m /\ src[k] = f[k]
      /\ \A k \in 1 .. m : n + k \in 1 .. n + m /\ src[n + k] = g[k]
  <2>1. \A k \in 1 .. n : k \in 1 .. n + m /\ k <= n
    BY <1>1
  <2>2. \A k \in 1 .. m : n + k \in 1 .. n + m /\ ~ (n + k <= n) /\ (n + k) - n = k
    BY <1>1
  <2>. QED  BY <2>1, <2>2
<1>3. DOMAIN src = 1 .. n + m
  OBVIOUS
<1>4. src = [k \in 1 .. n + m |-> src[k]]
  OBVIOUS
<1>. HIDE DEF src
<1>5. \A k \in 1 .. n + m : k \in 1 .. n \/ \E l \in 1 .. m : k = n + l
  <2>. SUFFICES ASSUME NEW k \in 1 .. n + m, k \notin 1 .. n
                PROVE  \E l \in 1 .. m : k = n + l
    OBVIOUS
  <2>1. k - n \in 1 .. m /\ k = n + (k - n)
    BY <1>1
  <2>. QED  BY <2>1
<1>6. /\ f \in [1 .. n -> 0 .. Len(h)] /\ g \in [1 .. m -> 0 .. Len(h)]
      /\ \A k \in 1 .. n : f[k] = 0 => s[k] \in {Synthetic(id) : id \in I}
      /\ \A k \in 1 .. n : f[k] # 0 => s[k] = h[f[k]] /\ f[k] \in T
      /\ \A k, l \in 1 .. n : (f[k] = f[l] /\ f[k] # 0) => k = l
      /\ \A j \in T : \E k \in 1 .. n : f[k] = j
      /\ \A k \in 1 .. m : g[k] = 0 => t[k] \in {Synthetic(id) : id \in I}
      /\ \A k \in 1 .. m : g[k] # 0 => t[k] = h[g[k]] /\ g[k] \in U
      /\ \A k, l \in 1 .. m : (g[k] = g[l] /\ g[k] # 0) => k = l
      /\ \A j \in U : \E k \in 1 .. m : g[k] = j
      /\ T \subseteq 1 .. Len(h) /\ U \subseteq 1 .. Len(h)
  BY <1>1 DEF Drawn
<1>7. src \in [1 .. n + m -> 0 .. Len(h)]
  <2>1. ASSUME NEW k \in 1 .. n + m
        PROVE  src[k] \in 0 .. Len(h)
    <3>1. CASE k \in 1 .. n
      BY <1>2, <1>6, <3>1
    <3>2. CASE \E l \in 1 .. m : k = n + l
      <4>1. PICK l \in 1 .. m : k = n + l
        BY <3>2
      <4>2. src[k] = g[l] /\ g[l] \in 0 .. Len(h)
        BY <1>2, <1>6, <4>1
      <4>. QED  BY <4>2
    <3>. QED  BY <1>5, <3>1, <3>2
  <2>. QED  BY <1>4, <2>1
<1>8. ASSUME NEW k \in 1 .. n + m
      PROVE  /\ src[k] = 0 => c[k] \in {Synthetic(id) : id \in I}
             /\ src[k] # 0 => c[k] = h[src[k]] /\ src[k] \in T \cup U
  <2>1. CASE k \in 1 .. n
    BY <1>1, <1>2, <1>6, <2>1
  <2>2. CASE \E l \in 1 .. m : k = n + l
    <3>1. PICK l \in 1 .. m : k = n + l
      BY <2>2
    <3>2. src[k] = g[l] /\ c[k] = t[l]
      BY <1>1, <1>2, <3>1
    <3>. QED  BY <1>6, <3>2
  <2>. QED  BY <1>5, <2>1, <2>2
<1>9. ASSUME NEW k \in 1 .. n + m, NEW l \in 1 .. n + m, src[k] = src[l], src[k] # 0
      PROVE  k = l
  <2>1. CASE k \in 1 .. n /\ l \in 1 .. n
    BY <1>2, <1>6, <1>9, <2>1
  <2>2. CASE (\E i \in 1 .. m : k = n + i) /\ (\E i \in 1 .. m : l = n + i)
    <3>1. PICK a \in 1 .. m, b \in 1 .. m : k = n + a /\ l = n + b
      BY <2>2
    <3>2. g[a] = g[b] /\ g[a] # 0
      BY <1>2, <1>9, <3>1
    <3>. QED  BY <1>6, <3>1, <3>2
  <2>3. CASE k \in 1 .. n /\ \E i \in 1 .. m : l = n + i
    <3>1. src[k] \in T /\ src[l] \in U
      BY <1>2, <1>6, <1>9, <2>3
    <3>. QED  BY <1>9, <3>1
  <2>4. CASE l \in 1 .. n /\ \E i \in 1 .. m : k = n + i
    <3>1. src[l] \in T /\ src[k] \in U
      BY <1>2, <1>6, <1>9, <2>4
    <3>. QED  BY <1>9, <3>1
  <2>. QED  BY <1>5, <2>1, <2>2, <2>3, <2>4
<1>10. ASSUME NEW j \in T \cup U
       PROVE  \E k \in 1 .. n + m : src[k] = j
  <2>1. CASE j \in T
    <3>1. PICK k \in 1 .. n : f[k] = j
      BY <1>6, <2>1
    <3>. QED  BY <1>2, <3>1
  <2>2. CASE j \in U
    <3>1. PICK k \in 1 .. m : g[k] = j
      BY <1>6, <2>2
    <3>. QED  BY <1>2, <3>1
  <2>. QED  BY <2>1, <2>2
<1>11. Drawn(h, I, c, src, T \cup U)
  BY <1>1, <1>6, <1>7, <1>8, <1>9, <1>10 DEF Drawn
<1>. QED  BY <1>11 DEF c

LEMMA ExchangeDrawn ==
    ASSUME NEW M, NEW I, Named(M, I), NEW h \in Seq(M), NEW i \in Calls(h),
           NEW p \in Seq(1 .. Len(h)), Range(p) \subseteq Results(h), NEW q \in Seq(I),
           NEW R, NEW e \in Seq(R), IsExchange(e, h, i, p, q), Distinct(p)
    PROVE  \E src : Drawn(h, I, e, src, {i} \cup Range(p))
<1>. DEFINE a == Len(p)
            b == Len(q)
            src == [k \in 1 .. Len(e) |-> IF k = 1 THEN i ELSE IF k <= 1 + a THEN p[k - 1] ELSE 0]
<1>1. /\ a \in Nat /\ b \in Nat /\ DOMAIN e = 1 .. Len(e) /\ DOMAIN p = 1 .. a /\ DOMAIN q = 1 .. b
      /\ 1 \in 1 .. Len(e)
      /\ \A k \in 2 .. Len(e) : (\E l \in 1 .. a : k = 1 + l) \/ (\E l \in 1 .. b : k = (1 + a) + l)
      /\ \A l \in 1 .. a : 1 + l \in 2 .. Len(e) /\ p[l] \in Range(p)
      /\ \A l \in 1 .. b : (1 + a) + l \in 2 .. Len(e)
  <2>1. ExchangeFacts(e, h, i, p, q)
    BY ExchangeElements
  <2>. QED  BY <2>1 DEF ExchangeFacts
<1>2. /\ e[1] = h[i]
      /\ \A k \in 1 .. a : e[1 + k] = h[p[k]]
      /\ \A k \in 1 .. b : e[(1 + a) + k] = Synthetic(q[k])
  BY DEF IsExchange
<1>3. /\ DOMAIN h = 1 .. Len(h) /\ Len(h) \in Nat /\ i \in 1 .. Len(h)
      /\ \A l \in 1 .. a : p[l] \in 1 .. Len(h)
      /\ \A l \in 1 .. b : q[l] \in I
  BY LenProperties, ElementOfSeq DEF Calls
<1>4. i \notin Range(p)
  BY DEF Calls, Results
<1>. HIDE DEF a, b
<1>5. Len(e) \in Nat
  BY LenProperties
<1>6. /\ src[1] = i
      /\ \A l \in 1 .. a : src[1 + l] = p[l]
      /\ \A l \in 1 .. b : src[(1 + a) + l] = 0
  <2>1. src[1] = i
    BY <1>1
  <2>2. ASSUME NEW l \in 1 .. a
        PROVE  src[1 + l] = p[l]
    <3>1. 1 + l # 1 /\ 1 + l <= 1 + a /\ (1 + l) - 1 = l /\ 1 + l \in 1 .. Len(e)
      BY <1>1, <1>5
    <3>. QED  BY <3>1
  <2>3. ASSUME NEW l \in 1 .. b
        PROVE  src[(1 + a) + l] = 0
    <3>1. (1 + a) + l \in 2 .. Len(e) /\ a \in Nat /\ b \in Nat
      BY <1>1
    <3>2. (1 + a) + l # 1 /\ ~ ((1 + a) + l <= 1 + a) /\ (1 + a) + l \in 1 .. Len(e)
      BY <1>5, <3>1
    <3>. QED  BY <3>2
  <2>. QED  BY <2>1, <2>2, <2>3
<1>7. src = [k \in 1 .. Len(e) |-> src[k]]
  OBVIOUS
<1>. HIDE DEF src
<1>8. \A k \in 1 .. Len(e) :
         k = 1 \/ (\E l \in 1 .. a : k = 1 + l) \/ (\E l \in 1 .. b : k = (1 + a) + l)
  <2>1. \A k \in 1 .. Len(e) : k = 1 \/ k \in 2 .. Len(e)
    BY <1>5
  <2>. QED  BY <1>1, <2>1
<1>9. ASSUME NEW k \in 1 .. Len(e)
      PROVE  /\ src[k] \in 0 .. Len(h)
             /\ src[k] = 0 => e[k] \in {Synthetic(id) : id \in I}
             /\ src[k] # 0 => e[k] = h[src[k]] /\ src[k] \in {i} \cup Range(p)
  <2>1. CASE k = 1
    BY <1>2, <1>3, <1>6, <2>1
  <2>2. CASE \E l \in 1 .. a : k = 1 + l
    <3>1. PICK l \in 1 .. a : k = 1 + l
      BY <2>2
    <3>2. src[k] = p[l] /\ e[k] = h[p[l]] /\ p[l] \in 1 .. Len(h) /\ p[l] \in Range(p)
      BY <1>1, <1>2, <1>3, <1>6, <3>1
    <3>. QED  BY <1>3, <3>2
  <2>3. CASE \E l \in 1 .. b : k = (1 + a) + l
    <3>1. PICK l \in 1 .. b : k = (1 + a) + l
      BY <2>3
    <3>2. src[k] = 0 /\ e[k] = Synthetic(q[l]) /\ q[l] \in I
      BY <1>2, <1>3, <1>6, <3>1
    <3>. QED  BY <1>3, <3>2
  <2>. QED  BY <1>8, <2>1, <2>2, <2>3
<1>10. ASSUME NEW k \in 1 .. Len(e), NEW l \in 1 .. Len(e), src[k] = src[l], src[k] # 0
       PROVE  k = l
  <2>1. \A j \in 1 .. Len(e) : src[j] # 0 => j = 1 \/ \E x \in 1 .. a : j = 1 + x
    BY <1>6, <1>8
  <2>2. \A x \in 1 .. a : src[1 + x] # src[1]
    BY <1>1, <1>4, <1>6
  <2>3. CASE k = 1 \/ l = 1
    BY <1>10, <2>1, <2>2, <2>3
  <2>4. CASE (\E x \in 1 .. a : k = 1 + x) /\ (\E x \in 1 .. a : l = 1 + x)
    <3>1. PICK x \in 1 .. a, y \in 1 .. a : k = 1 + x /\ l = 1 + y
      BY <2>4
    <3>2. p[x] = p[y]
      BY <1>6, <1>10, <3>1
    <3>. QED  BY <1>1, <3>1, <3>2 DEF Distinct
  <2>. QED  BY <1>10, <2>1, <2>3, <2>4
<1>11. ASSUME NEW j \in {i} \cup Range(p)
       PROVE  \E k \in 1 .. Len(e) : src[k] = j
  <2>1. CASE j = i
    BY <1>1, <1>6, <2>1
  <2>2. CASE j \in Range(p)
    <3>1. PICK l \in 1 .. a : p[l] = j
      BY <1>1, <2>2 DEF Range
    <3>2. 1 + l \in 1 .. Len(e)
      BY <1>1, <1>5
    <3>. QED  BY <1>6, <3>1, <3>2
  <2>. QED  BY <2>1, <2>2
<1>12. {i} \cup Range(p) \subseteq 1 .. Len(h)
  BY <1>3 DEF Results
<1>13. src \in [DOMAIN e -> 0 .. Len(h)]
  BY <1>1, <1>7, <1>9
<1>14. Drawn(h, I, e, src, {i} \cup Range(p))
  BY <1>1, <1>9, <1>10, <1>11, <1>12, <1>13 DEF Drawn
<1>. QED  BY <1>14

-----------------------------------------------------------------------------
(* One round of the loop.                                                  *)

LEMMA ClaimedIs ==
    ASSUME NEW M, NEW I, Named(M, I), NEW h \in Seq(M), NEW i \in Calls(h), NEW C
    PROVE  /\ claimed(h, i, C) \subseteq Results(h)
           /\ \A j \in claimed(h, i, C) :
                 i < j /\ j \notin C /\ h[j].toolCallId \in Range(h[i].toolCalls)
           /\ \A j, k \in claimed(h, i, C) : h[j].toolCallId = h[k].toolCallId => j = k
           /\ \A j \in Results(h) :
                 (i < j /\ j \notin C /\ Answers(h, i, j)
                    /\ \A k \in Results(h) \ {j} : h[k].toolCallId # h[j].toolCallId)
                 => j \in claimed(h, i, C)
<1>. DEFINE ids == h[i].toolCalls
            D == {j \in i + 1 .. Len(h) :
                    j \notin C /\ h[j].role = "tool" /\ Contains(ids, h[j].toolCallId)}
            X == claimed(h, i, C)
<1>1. Len(h) \in Nat /\ DOMAIN h = 1 .. Len(h) /\ i \in 1 .. Len(h) /\ i \in Nat
  BY LenProperties DEF Calls
<1>2. X = {j \in D : \A k \in D : k < j => h[k].toolCallId # h[j].toolCallId}
  BY DEF claimed
<1>3. ids \in Seq(I)
  <2>1. h[i] \in M /\ h[i].role = "assistant"
    BY <1>1, ElementOfSeq DEF Calls
  <2>. QED  BY <2>1 DEF Named
<1>4. \A x : Contains(ids, x) => x \in Range(ids)
  BY <1>3, LenProperties DEF Contains, Range
<1>5. \A j \in i + 1 .. Len(h) : j \in 1 .. Len(h) /\ i < j /\ j \in Nat
  BY <1>1
<1>6. D \subseteq Results(h) /\ \A j \in D : i < j /\ j \notin C /\ h[j].toolCallId \in Range(ids) /\ j \in Nat
  BY <1>1, <1>4, <1>5 DEF Results
<1>7. ASSUME NEW j \in X, NEW k \in X, h[j].toolCallId = h[k].toolCallId
      PROVE  j = k
  <2>1. j \in D /\ k \in D /\ ~ (j < k) /\ ~ (k < j)
    BY <1>2, <1>7
  <2>. HIDE DEF X, D
  <2>2. j \in Nat /\ k \in Nat
    BY <1>6, <2>1
  <2>. QED  BY <2>1, <2>2
<1>8. ASSUME NEW j \in Results(h), i < j, j \notin C, Answers(h, i, j),
             \A k \in Results(h) \ {j} : h[k].toolCallId # h[j].toolCallId
      PROVE  j \in X
  <2>1. j \in i + 1 .. Len(h)
    BY <1>1, <1>8 DEF Results
  <2>2. j \in D
    BY <1>8, <2>1 DEF Answers, Results
  <2>3. \A k \in D : k # j => h[k].toolCallId # h[j].toolCallId
    BY <1>6, <1>8
  <2>4. \A k \in D : k < j => k # j
    BY <1>6, <2>2
  <2>. HIDE DEF D, X
  <2>. QED  BY <1>2, <2>2, <2>3, <2>4
<1>9. X \subseteq D
  BY <1>2
<1>. HIDE DEF X, D
<1>. QED  BY <1>6, <1>7, <1>8, <1>9 DEF X, ids

\* What the loop carries: the messages so far and the results taken.
IsAcc(acc) == acc = [out |-> acc.out, consumed |-> acc.consumed]

Carries(acc, out, consumed) == IsAcc(acc) /\ acc.out = out /\ acc.consumed = consumed

LEMMA CarriesBoth ==
    ASSUME NEW o, NEW C
    PROVE  Carries([out |-> o, consumed |-> C], o, C)
BY DEF Carries, IsAcc

LEMMA VisitTaken ==
    ASSUME NEW h, NEW i, NEW acc, i \in acc.consumed
    PROVE  visit(h, TRUE, acc, i) = acc
BY DEF visit

LEMMA VisitPlain ==
    ASSUME NEW h, NEW i \in DOMAIN h, NEW acc, IsAcc(acc), i \notin acc.consumed,
           i \notin Calls(h)
    PROVE  Carries(visit(h, TRUE, acc, i), Append(acc.out, h[i]), acc.consumed)
<1>1. ~ hasCalls(h[i])
  BY DEF hasCalls, Calls
<1>2. visit(h, TRUE, acc, i) = [acc EXCEPT !.out = Append(@, h[i])]
  BY <1>1 DEF visit
<1>. DEFINE o == acc.out
            C == acc.consumed
<1>3. acc = [out |-> o, consumed |-> C]
  BY DEF IsAcc
<1>4. visit(h, TRUE, acc, i) = [acc EXCEPT !.out = Append(o, h[i])]
  BY <1>2
<1>. HIDE DEF o, C
<1>5. visit(h, TRUE, acc, i) = [out |-> Append(o, h[i]), consumed |-> C]
  BY <1>3, <1>4
<1>6. Carries(visit(h, TRUE, acc, i), Append(o, h[i]), C)
  BY <1>5, CarriesBoth
<1>. QED  BY <1>6 DEF o, C

LEMMA VisitExchange ==
    ASSUME NEW h, NEW i \in DOMAIN h, NEW acc, i \notin acc.consumed, i \in Calls(h)
    PROVE  Carries(visit(h, TRUE, acc, i),
                   acc.out \o exchange(h, i, claimed(h, i, acc.consumed), TRUE),
                   acc.consumed \cup claimed(h, i, acc.consumed))
<1>. DEFINE X == claimed(h, i, acc.consumed)
            o == acc.out \o exchange(h, i, X, TRUE)
            C == acc.consumed \cup X
<1>1. hasCalls(h[i])
  BY DEF hasCalls, Calls
<1>2. exchange(h, i, X, TRUE \/ i < lastNonToolIndex(h)) = exchange(h, i, X, TRUE)
  BY DEF exchange
<1>3. visit(h, TRUE, acc, i)
        = [out |-> acc.out \o exchange(h, i, X, TRUE \/ i < lastNonToolIndex(h)), consumed |-> C]
  BY <1>1 DEF visit
<1>4. visit(h, TRUE, acc, i) = [out |-> o, consumed |-> C]
  BY <1>2, <1>3
<1>. HIDE DEF o, C
<1>5. Carries(visit(h, TRUE, acc, i), o, C)
  BY <1>4, CarriesBoth
<1>. QED  BY <1>5 DEF o, C

-----------------------------------------------------------------------------
(* The loop.                                                               *)

NonResults(M) == {m \in M : m.role # "tool"}

\* What the loop has put together behind message i: the messages up to i and the results
\* taken from behind, each once, and synthetic results.  What is said keeps its order, and
\* each call is answered.
Assembled(M, I, h, i, acc) ==
    /\ IsAcc(acc)
    /\ acc.out \in Seq(Sent(M, I))
    /\ acc.consumed \subseteq Results(h)
    /\ EachAnswered(acc.out)
    /\ \E src : Drawn(h, I, acc.out, src, (1 .. i) \cup acc.consumed)
    /\ Select(acc.out, NonResults(M)) = Select(SubSeq(h, 1, i), NonResults(M))

LEMMA AnsweredSingle ==
    ASSUME NEW m, m.role = "assistant" => m.toolCalls = <<>>
    PROVE  EachAnswered(<<m>>)
<1>1. DOMAIN <<m>> = {1} /\ <<m>>[1] = m
  OBVIOUS
<1>2. Calls(<<m>>) = {}
  BY <1>1 DEF Calls
<1>. QED  BY <1>2 DEF EachAnswered

LEMMA VisitAssembles ==
    ASSUME NEW M, NEW I, Named(M, I), NEW h \in Seq(M), NEW i \in 1 .. Len(h),
           NEW acc, Assembled(M, I, h, i - 1, acc)
    PROVE  Assembled(M, I, h, i, visit(h, TRUE, acc, i))
<1>. DEFINE o == acc.out
            C == acc.consumed
            n == Len(h)
            R == Sent(M, I)
            T == NonResults(M)
            b == SubSeq(h, 1, i - 1)
            one == <<h[i]>>
<1>1. n \in Nat /\ DOMAIN h = 1 .. n /\ i \in Nat /\ h[i] \in M /\ i \in 1 .. n
  BY LenProperties, ElementOfSeq
<1>2. M \subseteq R /\ one \in Seq(M) /\ one \in Seq(R)
  <2>1. M \subseteq R
    BY DEF Sent
  <2>2. h[i] \in R
    BY <1>1, <2>1
  <2>. HIDE DEF R
  <2>. QED  BY <1>1, <2>1, <2>2
<1>3. /\ IsAcc(acc) /\ o \in Seq(R) /\ C \subseteq Results(h)
      /\ EachAnswered(o) /\ Select(o, T) = Select(b, T)
      /\ \E src : Drawn(h, I, o, src, (1 .. i - 1) \cup C)
  BY DEF Assembled
<1>4. SubSeq(h, 1, i) = b \o one /\ b \in Seq(M)
  <2>1. 1 \in 1 .. Len(h) /\ i \in 1 .. Len(h)
    BY <1>1
  <2>2. SubSeq(h, 1, i) = b \o one
    BY <2>1, SubSeqRecursiveSecond
  <2>3. \A k \in 1 .. i - 1 : h[k] \in M
    BY <1>1, ElementOfSeq
  <2>4. i - 1 \in Int /\ 1 \in Int
    BY <1>1
  <2>5. b \in Seq(M)
    BY <2>3, <2>4, SubSeqProperties
  <2>. QED  BY <2>2, <2>5
<1>5. Select(SubSeq(h, 1, i), T) = Select(b, T) \o Select(one, T)
  <2>1. b \in Seq(M) /\ one \in Seq(M)
    BY <1>2, <1>4
  <2>. HIDE DEF b, one
  <2>2. Select(b \o one, T) = Select(b, T) \o Select(one, T)
    BY <2>1, SelectConcat
  <2>. QED  BY <1>4, <2>2
<1>6. h[i] \in T => Select(one, T) = one
  <2>. SUFFICES ASSUME h[i] \in T
                PROVE  Select(one, T) = one
    OBVIOUS
  <2>1. \A k \in DOMAIN one : one[k] \in T
    OBVIOUS
  <2>2. one \in Seq(M)
    BY <1>2
  <2>. HIDE DEF one
  <2>. QED  BY <2>1, <2>2, SelectAll
<1>7. h[i] \notin T => Select(one, T) = <<>>
  <2>. SUFFICES ASSUME h[i] \notin T
                PROVE  Select(one, T) = <<>>
    OBVIOUS
  <2>1. Len(one) = 1 /\ one[1] = h[i]
    OBVIOUS
  <2>2. one \in Seq(M)
    BY <1>2
  <2>. HIDE DEF one
  <2>3. \A k \in 1 .. Len(one) : one[k] \notin T
    BY <2>1
  <2>. QED  BY <2>2, <2>3, SelectNone
<1>8. (1 .. i) = (1 .. i - 1) \cup {i} /\ i \notin 1 .. i - 1
  BY <1>1
<1>9. Select(b, T) \in Seq(M) /\ Select(one, T) \in Seq(M)
  BY <1>2, <1>4, SelectType
<1>10. CASE i \in C
  <2>1. visit(h, TRUE, acc, i) = acc
    BY <1>10, VisitTaken
  <2>2. (1 .. i) \cup C = (1 .. i - 1) \cup C
    BY <1>8, <1>10
  <2>3. h[i] \notin T
    BY <1>3, <1>10 DEF Results, NonResults
  <2>4. Select(o, T) = Select(SubSeq(h, 1, i), T)
    BY <1>3, <1>5, <1>7, <1>9, <2>3, ConcatEmptySeq
  <2>. QED  BY <1>3, <2>1, <2>2, <2>4 DEF Assembled
<1>11. CASE i \notin C /\ i \notin Calls(h)
  <2>. DEFINE oo == o \o one
              v == visit(h, TRUE, acc, i)
  <2>1. Carries(v, Append(o, h[i]), C)
    <3>1. i \in DOMAIN h /\ IsAcc(acc) /\ i \notin acc.consumed /\ i \notin Calls(h)
      BY <1>1, <1>3, <1>11
    <3>. QED  BY <3>1, VisitPlain
  <2>2. Append(o, h[i]) = oo
    BY <1>1, <1>2, <1>3, AppendIsConcat
  <2>. HIDE DEF v, oo, C
  <2>3. v.out = oo /\ v.consumed = C /\ IsAcc(v)
    BY <2>1, <2>2 DEF Carries
  <2>. USE DEF oo, C
  <2>4. oo \in Seq(R)
    BY <1>2, <1>3, ConcatProperties
  <2>5. EachAnswered(oo)
    <3>1. h[i].role = "assistant" => h[i].toolCalls = <<>>
      BY <1>1, <1>11 DEF Calls
    <3>2. EachAnswered(one)
      BY <3>1, AnsweredSingle
    <3>. HIDE DEF one
    <3>. QED  BY <1>2, <1>3, <3>2, AnsweredJoined
  <2>6. \E src : Drawn(h, I, oo, src, (1 .. i) \cup C)
    <3>1. PICK f : Drawn(h, I, o, f, (1 .. i - 1) \cup C)
      BY <1>3
    <3>2. PICK g : Drawn(h, I, one, g, {i})
      BY <1>1, DrawnOne
    <3>. DEFINE A == (1 .. i - 1) \cup C
                B == {i}
    <3>3. A \cap B = {} /\ A \cup B = (1 .. i) \cup C
      BY <1>8, <1>11
    <3>4. Drawn(h, I, o, f, A) /\ Drawn(h, I, one, g, B)
      BY <3>1, <3>2
    <3>5. o \in Seq(R) /\ one \in Seq(R)
      BY <1>2, <1>3
    <3>. HIDE DEF A, B, one, o, R
    <3>6. \E src : Drawn(h, I, o \o one, src, A \cup B)
      BY <3>3, <3>4, <3>5, DrawnJoined
    <3>. QED  BY <3>3, <3>6
  <2>7. Select(oo, T) = Select(SubSeq(h, 1, i), T)
    <3>1. o \in Seq(R) /\ one \in Seq(R)
      BY <1>2, <1>3
    <3>. HIDE DEF one, o, T, b, R
    <3>2. Select(o \o one, T) = Select(o, T) \o Select(one, T)
      BY <3>1, SelectConcat
    <3>. QED  BY <1>3, <1>5, <3>2
  <2>. HIDE DEF oo, o, C, R, T
  <2>8. Assembled(M, I, h, i, v)
    BY <1>3, <2>3, <2>4, <2>5, <2>6, <2>7 DEF Assembled, R, T
  <2>. QED  BY <2>8 DEF v
<1>12. CASE i \notin C /\ i \in Calls(h)
  <2>. DEFINE X == claimed(h, i, C)
              e == exchange(h, i, X, TRUE)
              oo == o \o e
              v == visit(h, TRUE, acc, i)
  <2>1. Carries(v, oo, C \cup X)
    <3>1. i \in DOMAIN h /\ i \notin acc.consumed /\ i \in Calls(h)
      BY <1>1, <1>12
    <3>. QED  BY <3>1, VisitExchange
  <2>. HIDE DEF v, oo, X, C
  <2>2. v.out = oo /\ v.consumed = C \cup X /\ IsAcc(v)
    BY <2>1 DEF Carries
  <2>. USE DEF oo, X, C
  <2>3. X \subseteq Results(h) /\ \A j \in X : i < j /\ j \notin C
    BY <1>12, ClaimedIs
  <2>. HIDE DEF X
  <2>4. PICK p \in Seq(1 .. Len(h)), q \in Seq(I) :
              /\ e \in Seq(R) /\ IsExchange(e, h, i, p, q)
              /\ Range(p) = X /\ Distinct(p)
              /\ Range(q) = Range(h[i].toolCalls) \ {h[j].toolCallId : j \in X}
    <3>1. X \subseteq Results(h) /\ i \in Calls(h)
      BY <1>12, <2>3
    <3>. HIDE DEF X
    <3>2. \E p \in Seq(1 .. Len(h)), q \in Seq(I) :
              /\ exchange(h, i, X, TRUE) \in Seq(Sent(M, I))
              /\ IsExchange(exchange(h, i, X, TRUE), h, i, p, q)
              /\ Range(p) = X /\ Distinct(p)
              /\ Range(q) = Range(h[i].toolCalls) \ {h[j].toolCallId : j \in X}
              /\ Distinct(q)
      BY <3>1, ExchangeIs, ZenonT(30)
    <3>. QED  BY <3>2
  <2>. HIDE DEF e, o, R
  <2>5. oo \in Seq(R)
    BY <1>3, <2>4, ConcatProperties
  <2>6. EachAnswered(oo)
    <3>1. EachAnswered(e)
      BY <1>12, <2>3, <2>4, ExchangeAnswered
    <3>2. o \in Seq(R) /\ e \in Seq(R) /\ EachAnswered(o)
      BY <1>3, <2>4
    <3>. QED  BY <3>1, <3>2, AnsweredJoined
  <2>7. \E src : Drawn(h, I, oo, src, (1 .. i) \cup (C \cup X))
    <3>1. PICK f : Drawn(h, I, o, f, (1 .. i - 1) \cup C)
      BY <1>3
    <3>2. PICK g : Drawn(h, I, e, g, {i} \cup Range(p))
      BY <1>12, <2>3, <2>4, ExchangeDrawn
    <3>. DEFINE A == (1 .. i - 1) \cup C
                B == {i} \cup X
    <3>3. A \cap B = {} /\ A \cup B = (1 .. i) \cup (C \cup X)
      <4>1. \A j \in X : j \notin 1 .. i - 1
        BY <1>1, <2>3
      <4>. QED  BY <1>8, <1>12, <2>3, <4>1
    <3>4. Drawn(h, I, o, f, A) /\ Drawn(h, I, e, g, B)
      BY <2>4, <3>1, <3>2
    <3>5. o \in Seq(R) /\ e \in Seq(R)
      BY <1>3, <2>4
    <3>. HIDE DEF A, B
    <3>6. \E src : Drawn(h, I, o \o e, src, A \cup B)
      BY <3>3, <3>4, <3>5, DrawnJoined
    <3>. QED  BY <3>3, <3>6
  <2>8. Select(oo, T) = Select(SubSeq(h, 1, i), T)
    <3>1. o \in Seq(R) /\ e \in Seq(R)
      BY <1>3, <2>4
    <3>2. Select(o \o e, T) = Select(o, T) \o Select(e, T)
      BY <3>1, SelectConcat
    <3>3. h[i] \in T /\ \A m \in T : m.role # "tool"
      BY <1>1, <1>12 DEF NonResults, Calls
    <3>4. Select(e, T) = one
      BY <1>12, <2>3, <2>4, <3>3, ExchangeSays, SMTT(30)
    <3>. HIDE DEF one, T, b
    <3>. QED  BY <1>3, <1>5, <1>6, <3>2, <3>3, <3>4
  <2>9. C \cup X \subseteq Results(h)
    BY <1>3, <2>3
  <2>. HIDE DEF oo, C, T
  <2>10. Assembled(M, I, h, i, v)
    BY <2>2, <2>5, <2>6, <2>7, <2>8, <2>9 DEF Assembled, R, T
  <2>. QED  BY <2>10 DEF v
<1>. QED  BY <1>10, <1>11, <1>12

-----------------------------------------------------------------------------
(* The whole loop.                                                         *)

LEMMA NothingAssembled ==
    ASSUME NEW M, NEW I, NEW h \in Seq(M)
    PROVE  Assembled(M, I, h, 0, [out |-> <<>>, consumed |-> {}])
<1>. DEFINE start == [out |-> <<>>, consumed |-> {}]
            e == <<>>
            none == {}
<1>1. Carries(start, e, none)
  BY CarriesBoth
<1>2. e \in Seq(Sent(M, I)) /\ e \in Seq(M)
  BY EmptySeq
<1>3. EachAnswered(e)
  <2>1. Calls(e) = {}
    BY DEF Calls
  <2>. QED  BY <2>1 DEF EachAnswered
<1>4. \E src : Drawn(h, I, e, src, none)
  BY DrawnNone
<1>5. (1 .. 0) \cup none = none
  OBVIOUS
<1>6. SubSeq(h, 1, 0) = e
  BY SubSeqEmpty
<1>7. Select(e, NonResults(M)) = Select(SubSeq(h, 1, 0), NonResults(M))
  BY <1>6
<1>8. none \subseteq Results(h)
  OBVIOUS
<1>. HIDE DEF start, e, none
<1>9. start.out = e /\ start.consumed = none /\ IsAcc(start)
  BY <1>1 DEF Carries
<1>10. Assembled(M, I, h, 0, start)
  BY <1>2, <1>3, <1>4, <1>5, <1>7, <1>8, <1>9 DEF Assembled
<1>. QED  BY <1>10 DEF start

LEMMA LoopAssembles ==
    ASSUME NEW M, NEW I, Named(M, I), NEW h \in Seq(M), NEW f, Walks(f, h, TRUE, Len(h))
    PROVE  Assembled(M, I, h, Len(h), f[Len(h)])
<1>. DEFINE n == Len(h)
            start == [out |-> <<>>, consumed |-> {}]
            D == (0 .. n) \X ({f[i] : i \in 0 .. n} \cup {start})
            P == {x \in D : Assembled(M, I, h, x[1], x[2])}
<1>1. n \in Nat
  BY LenProperties
<1>2. Assembled(M, I, h, 0, start)
  BY NothingAssembled
<1>3. <<0, start>> \in P
  <2>1. 0 \in 0 .. n
    BY <1>1
  <2>. HIDE DEF start, n
  <2>. DEFINE x == <<0, start>>
  <2>2. x \in D /\ x[1] = 0 /\ x[2] = start
    BY <2>1
  <2>. HIDE DEF x, D
  <2>3. x \in P
    BY <1>2, <2>2
  <2>. QED  BY <2>3 DEF x
<1>4. ASSUME NEW i \in 1 .. n, <<i - 1, f[i - 1]>> \in P
      PROVE  <<i, f[i]>> \in P
  <2>1. Assembled(M, I, h, i - 1, f[i - 1])
    BY <1>4
  <2>2. f[i] = visit(h, TRUE, f[i - 1], i)
    BY DEF Walks
  <2>3. Assembled(M, I, h, i, f[i])
    BY <2>1, <2>2, VisitAssembles
  <2>4. i \in 0 .. n
    BY <1>1
  <2>. QED  BY <2>3, <2>4
<1>. HIDE DEF P
<1>5. <<n, f[n]>> \in P
  BY <1>1, <1>3, <1>4, WalkKeeps
<1>. QED  BY <1>5 DEF P

\* What the adjacency repair makes of the messages h: what is said keeps its order, each
\* result is there once, and each call is answered.
Repaired(M, I, h, out) ==
    /\ out \in Seq(Sent(M, I))
    /\ EachAnswered(out)
    /\ \E src : Drawn(h, I, out, src, 1 .. Len(h))
    /\ Select(out, NonResults(M)) = Select(h, NonResults(M))

LEMMA RepairGives ==
    ASSUME NEW M, NEW I, Named(M, I), NEW h \in Seq(M)
    PROVE  Repaired(M, I, h, repairToolExchangeAdjacency(h, TRUE))
<1>1. PICK f : /\ Walks(f, h, TRUE, Len(h))
               /\ repairToolExchangeAdjacency(h, TRUE) = f[Len(h)].out
  BY WalkGives
<1>. DEFINE acc == f[Len(h)]
            T == (1 .. Len(h)) \cup acc.consumed
<1>2. Assembled(M, I, h, Len(h), acc)
  BY <1>1, LoopAssembles
<1>3. SubSeq(h, 1, Len(h)) = h
  BY SubSeqFull
<1>. HIDE DEF acc
<1>4. acc.consumed \subseteq Results(h)
  BY <1>2 DEF Assembled
<1>5. Results(h) \subseteq 1 .. Len(h)
  BY LenProperties DEF Results
<1>6. T = 1 .. Len(h)
  BY <1>4, <1>5
<1>7. Repaired(M, I, h, acc.out)
  BY <1>2, <1>3, <1>6 DEF Assembled, Repaired
<1>. QED  BY <1>1, <1>7 DEF acc

-----------------------------------------------------------------------------
(* How often a result is there.                                            *)

Places(s, id) == {j \in Results(s) : s[j] = Result(id)}

LEMMA PlacesFinite ==
    ASSUME NEW S, NEW s \in Seq(S), NEW id
    PROVE  IsFiniteSet(Places(s, id)) /\ Cardinality(Places(s, id)) \in Nat
<1>1. Len(s) \in Nat /\ 1 \in Int /\ Len(s) \in Int /\ DOMAIN s = 1 .. Len(s)
  BY LenProperties
<1>2. IsFiniteSet(1 .. Len(s))
  BY <1>1, FS_Interval
<1>3. Places(s, id) \subseteq 1 .. Len(s)
  BY <1>1 DEF Places, Results
<1>. HIDE DEF Places
<1>. QED  BY <1>2, <1>3, FS_Subset, FS_CardinalityType

LEMMA PlacesDrawn ==
    ASSUME NEW S, NEW h \in Seq(S), NEW R, NEW out \in Seq(R), NEW I, NEW src,
           Drawn(h, I, out, src, 1 .. Len(h)), NEW id
    PROVE  Cardinality(Places(out, id)) = Cardinality(Places(h, id))
<1>. DEFINE A == Places(out, id)
            B == Places(h, id)
            f == [k \in A |-> src[k]]
<1>1. \A x : Synthetic(x) # Result(id)
  BY DEF Synthetic, Result
<1>2. DOMAIN h = 1 .. Len(h) /\ Len(h) \in Nat
  BY LenProperties
<1>3. ASSUME NEW k \in A
      PROVE  k \in DOMAIN out /\ src[k] # 0 /\ src[k] \in B
  <2>1. k \in DOMAIN out /\ out[k] = Result(id)
    BY DEF Places, Results
  <2>2. src[k] # 0
    BY <1>1, <2>1 DEF Drawn
  <2>3. src[k] \in DOMAIN h /\ h[src[k]] = Result(id)
    BY <1>2, <2>1, <2>2 DEF Drawn
  <2>4. src[k] \in B
    BY <2>3 DEF Places, Results, Result
  <2>. QED  BY <2>1, <2>2, <2>4
<1>4. ASSUME NEW j \in B
      PROVE  \E k \in A : src[k] = j
  <2>1. j \in 1 .. Len(h) /\ h[j] = Result(id) /\ j # 0
    BY <1>2 DEF Places, Results
  <2>2. PICK k \in DOMAIN out : src[k] = j
    BY <2>1 DEF Drawn
  <2>3. out[k] = Result(id)
    BY <2>1, <2>2 DEF Drawn
  <2>4. k \in A
    BY <2>3 DEF Places, Results, Result
  <2>. QED  BY <2>2, <2>4
<1>5. ASSUME NEW k \in A, NEW l \in A, src[k] = src[l]
      PROVE  k = l
  BY <1>3, <1>5 DEF Drawn
<1>. HIDE DEF A, B
<1>6. f \in Injection(A, B)
  BY <1>3, <1>5 DEF Injection, IsInjective
<1>7. f \in Surjection(A, B)
  BY <1>3, <1>4 DEF Surjection
<1>8. ExistsBijection(A, B)
  BY <1>6, <1>7 DEF ExistsBijection, Bijection
<1>9. IsFiniteSet(A)
  BY PlacesFinite DEF A
<1>. QED  BY <1>8, <1>9, FS_Bijection DEF A, B

LEMMA PlacesAppend ==
    ASSUME NEW S, NEW s \in Seq(S), NEW x \in S, NEW id
    PROVE  Cardinality(Places(Append(s, x), id))
             = IF x = Result(id) THEN Cardinality(Places(s, id)) + 1 ELSE Cardinality(Places(s, id))
<1>. DEFINE t == Append(s, x)
            n == Len(s)
            A == Places(s, id)
<1>1. /\ n \in Nat /\ DOMAIN s = 1 .. n /\ DOMAIN t = 1 .. n + 1 /\ t[n + 1] = x
      /\ \A i \in 1 .. n : t[i] = s[i]
  BY AppendProperties, LenProperties
<1>2. A \subseteq 1 .. n /\ n + 1 \notin A
  BY <1>1 DEF Places, Results
<1>. HIDE DEF n, t
<1>3. \A j \in 1 .. n + 1 : j = n + 1 \/ j \in 1 .. n
  BY <1>1
<1>4. \A j \in 1 .. n : j \in 1 .. n + 1
  BY <1>1
<1>5. n + 1 \in 1 .. n + 1
  BY <1>1
<1>6. Result(id).role = "tool"
  BY DEF Result
<1>7. CASE x = Result(id)
  <2>1. Places(t, id) = A \cup {n + 1}
    BY <1>1, <1>3, <1>4, <1>5, <1>6, <1>7 DEF Places, Results
  <2>2. IsFiniteSet(A)
    BY PlacesFinite
  <2>. HIDE DEF A
  <2>3. Cardinality(A \cup {n + 1}) = Cardinality(A) + 1
    BY <1>2, <2>2, FS_AddElement
  <2>. QED  BY <1>7, <2>1, <2>3 DEF A, t
<1>8. CASE x # Result(id)
  <2>1. Places(t, id) = A
    BY <1>1, <1>3, <1>4, <1>8 DEF Places, Results
  <2>. QED  BY <1>8, <2>1 DEF t
<1>. QED  BY <1>7, <1>8

KeepsResult(S, T, id) == Result(id) \in S => Result(id) \in T

\* A selection that takes the results takes each of them.
LEMMA PlacesSelected ==
    ASSUME NEW S, NEW T, NEW id, KeepsResult(S, T, id)
    PROVE  \A s \in Seq(S) : Cardinality(Places(Select(s, T), id)) = Cardinality(Places(s, id))
<1>. DEFINE G == {s \in Seq(S) : Cardinality(Places(Select(s, T), id)) = Cardinality(Places(s, id))}
<1>1. <<>> \in G
  <2>1. Select(<<>>, T) = <<>>
    BY SelectEmpty
  <2>. QED  BY <2>1, EmptySeq
<1>2. ASSUME NEW s \in Seq(S), NEW x \in S, s \in G
      PROVE  Append(s, x) \in G
  <2>. DEFINE r == Select(s, T)
              a == Append(s, x)
  <2>1. r \in Seq(S) /\ a \in Seq(S) /\ Cardinality(Places(r, id)) = Cardinality(Places(s, id))
    BY <1>2, SelectType, AppendProperties
  <2>2. Select(a, T) = IF x \in T THEN Append(r, x) ELSE r
    BY SelectAppend
  <2>. HIDE DEF r
  <2>3. Cardinality(Places(Append(r, x), id))
          = IF x = Result(id) THEN Cardinality(Places(r, id)) + 1 ELSE Cardinality(Places(r, id))
    BY <2>1, PlacesAppend
  <2>4. Cardinality(Places(a, id))
          = IF x = Result(id) THEN Cardinality(Places(s, id)) + 1 ELSE Cardinality(Places(s, id))
    BY PlacesAppend
  <2>5. Cardinality(Places(Select(a, T), id)) = Cardinality(Places(a, id))
    BY <2>1, <2>2, <2>3, <2>4 DEF KeepsResult
  <2>. QED  BY <2>1, <2>5
<1>. HIDE DEF G
<1>3. Seq(S) \subseteq G
  BY <1>1, <1>2, SequenceInduction
<1>. QED  BY <1>3 DEF G

-----------------------------------------------------------------------------
(* The projection.                                                         *)

\* What the projection keeps of a history.
Projected(h, out) ==
    LET rest(s) == Select(s, {m \in Range(s) : m.role # "tool" /\ usable(m)})
    IN  /\ EachAnswered(out)
        /\ rest(out) = rest(h)
        /\ \A id : Cardinality(Places(out, id)) = Cardinality(Places(h, id))

Usable(M) == {m \in M : usable(m)}

LEMMA ElementsUsable ==
    ASSUME NEW M, NEW h \in Seq(M)
    PROVE  /\ Select(h, {m \in Range(h) : usable(m)}) = Select(h, Usable(M))
           /\ Select(h, Usable(M)) \in Seq(Usable(M))
<1>. DEFINE T == {m \in Range(h) : usable(m)}
            U == Usable(M)
            s == Select(h, U)
<1>1. \A k \in DOMAIN h : h[k] \in M /\ h[k] \in Range(h)
  BY LenProperties, ElementOfSeq DEF Range
<1>2. \A k \in DOMAIN h : h[k] \in T <=> h[k] \in U
  BY <1>1 DEF Usable
<1>. HIDE DEF T, U
<1>3. Select(h, T) = s
  BY <1>2, SelectSame
<1>4. s \in Seq(M) /\ Range(s) = Range(h) \cap U
  BY SelectType, SelectRange
<1>. HIDE DEF s
<1>5. \A k \in 1 .. Len(s) : s[k] \in U
  BY <1>4, LenProperties DEF Range
<1>6. s = [k \in 1 .. Len(s) |-> s[k]] /\ Len(s) \in Nat
  BY <1>4, LenProperties
<1>7. s \in Seq(U)
  BY <1>5, <1>6, SeqDef
<1>. QED  BY <1>3, <1>7 DEF s, T, U

LEMMA NamedUsable ==
    ASSUME NEW M, NEW I, Named(M, I)
    PROVE  Named(Usable(M), I)
BY DEF Named, Usable

\* The projection answers each call, keeps what is said in order, and has each result as
\* often as the history has it: projector.ts moves messages and adds results, no more.
LEMMA ProjectKeeps ==
    ASSUME NEW M, NEW I, Named(M, I), NEW h \in Seq(M)
    PROVE  Projected(h, project(h, TRUE))
<1>. DEFINE U == Usable(M)
            g == Select(h, U)
            out == repairToolExchangeAdjacency(g, TRUE)
            T == NonResults(U)
            rest(s) == Select(s, {m \in Range(s) : m.role # "tool" /\ usable(m)})
<1>1. project(h, TRUE) = out
  BY ElementsUsable DEF project
<1>2. g \in Seq(U) /\ g \in Seq(M)
  BY ElementsUsable, SelectType
<1>3. Named(U, I)
  BY NamedUsable
<1>. HIDE DEF U, g
<1>4. Repaired(U, I, g, out)
  BY <1>2, <1>3, RepairGives
<1>. HIDE DEF out
<1>5. out \in Seq(Sent(U, I)) /\ EachAnswered(out) /\ Select(out, T) = Select(g, T)
  BY <1>4 DEF Repaired
<1>6. rest(out) = Select(out, T)
  <2>1. \A k \in DOMAIN out : out[k] \in Sent(U, I) /\ out[k] \in Range(out)
    BY <1>5, LenProperties, ElementOfSeq DEF Range
  <2>2. ASSUME NEW m \in Sent(U, I)
        PROVE  m \in T <=> (m.role # "tool" /\ usable(m))
    <3>1. CASE m \in U
      BY <3>1 DEF U, Usable, NonResults
    <3>2. CASE m \notin U
      <4>1. PICK id \in I : m = Synthetic(id)
        BY <3>2 DEF Sent
      <4>2. m.role = "tool"
        BY <4>1 DEF Synthetic
      <4>. QED  BY <3>2, <4>2 DEF NonResults
    <3>. QED  BY <3>1, <3>2
  <2>. DEFINE V == {m \in Range(out) : m.role # "tool" /\ usable(m)}
  <2>3. \A k \in DOMAIN out : out[k] \in V <=> out[k] \in T
    BY <2>1, <2>2
  <2>. HIDE DEF T, V
  <2>4. Select(out, V) = Select(out, T)
    BY <2>3, SelectSame
  <2>. QED  BY <2>4 DEF V
<1>7. rest(h) = Select(h, T)
  <2>1. \A k \in DOMAIN h : h[k] \in M /\ h[k] \in Range(h)
    BY LenProperties, ElementOfSeq DEF Range
  <2>. DEFINE V == {m \in Range(h) : m.role # "tool" /\ usable(m)}
  <2>2. \A k \in DOMAIN h : h[k] \in V <=> h[k] \in T
    BY <2>1 DEF U, Usable, NonResults
  <2>. HIDE DEF T, V
  <2>3. Select(h, V) = Select(h, T)
    BY <2>2, SelectSame
  <2>. QED  BY <2>3 DEF V
<1>8. Select(g, T) = Select(h, T)
  <2>1. U \cap T = T
    BY DEF NonResults
  <2>. HIDE DEF T
  <2>2. Select(Select(h, U), T) = Select(h, U \cap T)
    BY SelectSelect
  <2>. QED  BY <2>1, <2>2 DEF g
<1>9. ASSUME NEW id
      PROVE  Cardinality(Places(out, id)) = Cardinality(Places(h, id))
  <2>1. PICK src : Drawn(g, I, out, src, 1 .. Len(g))
    BY <1>4 DEF Repaired
  <2>2. Cardinality(Places(out, id)) = Cardinality(Places(g, id))
    BY <1>2, <1>5, <2>1, PlacesDrawn
  <2>3. KeepsResult(M, U, id)
    BY DEF KeepsResult, U, Usable, usable, Result
  <2>4. Cardinality(Places(Select(h, U), id)) = Cardinality(Places(h, id))
    <3>1. \A s \in Seq(M) : Cardinality(Places(Select(s, U), id)) = Cardinality(Places(s, id))
      BY <2>3, PlacesSelected
    <3>. QED  BY <3>1
  <2>. QED  BY <2>2, <2>4 DEF g
<1>10. Projected(h, out)
  <2>. HIDE DEF T
  <2>1. rest(out) = rest(h)
    BY <1>5, <1>6, <1>7, <1>8
  <2>. QED  BY <1>5, <1>9, <2>1 DEF Projected
<1>. QED  BY <1>1, <1>10

-----------------------------------------------------------------------------
(* Tidy histories.                                                         *)

\* A history whose results come after their calls, each the only one with its id.
Tidy(h) ==
    /\ \A j \in Results(h) : \E i \in 1 .. j - 1 : Answers(h, i, j)
    /\ \A j \in Results(h) : \A k \in Results(h) \ {j} : h[k].toolCallId # h[j].toolCallId

\* Behind message i the loop has put down no stray result, and has taken each result that
\* a message so far calls for.
Stowed(h, i, acc) ==
    /\ EachPlaced(acc.out)
    /\ \A j \in Results(h) : (\E k \in 1 .. i : k < j /\ Answers(h, k, j)) => j \in acc.consumed

LEMMA PlacedSingle ==
    ASSUME NEW m, m.role # "tool"
    PROVE  EachPlaced(<<m>>)
<1>1. DOMAIN <<m>> = {1} /\ <<m>>[1] = m
  OBVIOUS
<1>2. Results(<<m>>) = {}
  BY <1>1 DEF Results
<1>. QED  BY <1>2 DEF EachPlaced

LEMMA VisitStows ==
    ASSUME NEW M, NEW I, Named(M, I), NEW h \in Seq(M), Tidy(h), NEW i \in 1 .. Len(h),
           NEW acc, Assembled(M, I, h, i - 1, acc), Stowed(h, i - 1, acc)
    PROVE  Stowed(h, i, visit(h, TRUE, acc, i))
<1>. DEFINE o == acc.out
            C == acc.consumed
            R == Sent(M, I)
            v == visit(h, TRUE, acc, i)
<1>1. i \in DOMAIN h /\ i \in Nat /\ Len(h) \in Nat /\ h[i] \in M
  BY LenProperties, ElementOfSeq
<1>2. IsAcc(acc) /\ o \in Seq(R) /\ C \subseteq Results(h)
  BY DEF Assembled
<1>3. EachPlaced(o) /\ \A j \in Results(h) :
          (\E k \in 1 .. i - 1 : k < j /\ Answers(h, k, j)) => j \in C
  BY DEF Stowed
<1>4. \A k \in 1 .. i : k = i \/ k \in 1 .. i - 1
  BY <1>1
<1>5. \A j : Answers(h, i, j) => i \in Calls(h)
  BY <1>1 DEF Answers, Calls
<1>6. i \in Results(h) => i \in C
  <2>. SUFFICES ASSUME i \in Results(h)
                PROVE  i \in C
    OBVIOUS
  <2>1. PICK k \in 1 .. i - 1 : Answers(h, k, i)
    BY DEF Tidy
  <2>2. k < i
    BY <1>1
  <2>. QED  BY <1>3, <2>1, <2>2
<1>7. Calls(h) \cap Results(h) = {}
  BY DEF Calls, Results
<1>8. CASE i \in C
  <2>1. v = acc
    BY <1>8, VisitTaken
  <2>2. i \notin Calls(h)
    BY <1>2, <1>7, <1>8
  <2>3. Stowed(h, i, acc)
    BY <1>3, <1>4, <1>5, <2>2 DEF Stowed
  <2>. QED  BY <2>1, <2>3
<1>9. CASE i \notin C /\ i \notin Calls(h)
  <2>. DEFINE one == <<h[i]>>
              oo == o \o one
  <2>1. Carries(v, Append(o, h[i]), C)
    BY <1>1, <1>2, <1>9, VisitPlain
  <2>2. one \in Seq(R) /\ h[i] \in R
    BY <1>1 DEF Sent
  <2>3. Append(o, h[i]) = oo
    BY <1>2, <2>2, AppendIsConcat
  <2>4. h[i].role # "tool"
    BY <1>1, <1>6, <1>9 DEF Results
  <2>5. EachPlaced(one) /\ one # <<>> /\ one[1].role # "tool"
    BY <2>4, PlacedSingle
  <2>. HIDE DEF v, one, o, C, R
  <2>6. EachPlaced(oo)
    BY <1>2, <1>3, <2>2, <2>5, PlacedJoined
  <2>. HIDE DEF oo
  <2>7. v.out = oo /\ v.consumed = C
    BY <2>1, <2>3 DEF Carries
  <2>8. Stowed(h, i, v)
    BY <1>3, <1>4, <1>5, <1>9, <2>6, <2>7 DEF Stowed
  <2>. QED  BY <2>8 DEF v
<1>10. CASE i \notin C /\ i \in Calls(h)
  <2>. DEFINE X == claimed(h, i, C)
              e == exchange(h, i, X, TRUE)
              oo == o \o e
  <2>1. Carries(v, oo, C \cup X)
    BY <1>1, <1>10, VisitExchange
  <2>2. /\ X \subseteq Results(h)
        /\ \A j \in X : h[j].toolCallId \in Range(h[i].toolCalls)
        /\ \A j, k \in X : h[j].toolCallId = h[k].toolCallId => j = k
    BY <1>10, ClaimedIs
  <2>3. \A j \in Results(h) :
           (i < j /\ j \notin C /\ Answers(h, i, j)
              /\ \A k \in Results(h) \ {j} : h[k].toolCallId # h[j].toolCallId) => j \in X
    BY <1>10, ClaimedIs
  <2>. HIDE DEF X
  <2>4. PICK p \in Seq(1 .. Len(h)), q \in Seq(I) :
              /\ exchange(h, i, X, TRUE) \in Seq(Sent(M, I))
              /\ IsExchange(exchange(h, i, X, TRUE), h, i, p, q)
              /\ Range(p) = X /\ Distinct(p)
              /\ Range(q) = Range(h[i].toolCalls) \ {h[j].toolCallId : j \in X}
              /\ Distinct(q)
    <3>1. X \subseteq Results(h) /\ i \in Calls(h)
      BY <1>10, <2>2
    <3>. QED  BY <3>1, ExchangeIs, ZenonT(30)
  <2>5. e \in Seq(R) /\ IsExchange(e, h, i, p, q) /\ Distinct(q)
    BY <2>4
  <2>. HIDE DEF v, e, o, C, R
  <2>6. EachPlaced(e)
    <3>1. Fitting(h, i, p, q)
      BY <2>2, <2>4, <2>5 DEF Fitting
    <3>2. i \in Calls(h) /\ e \in Seq(R) /\ IsExchange(e, h, i, p, q)
      BY <1>10, <2>5
    <3>. QED  BY <3>1, <3>2, ExchangePlaced
  <2>7. e # <<>> /\ e[1].role # "tool"
    <3>1. e[1] = h[i] /\ Len(e) = (1 + Len(p)) + Len(q) /\ Len(p) \in Nat /\ Len(q) \in Nat
      BY <2>5, LenProperties DEF IsExchange
    <3>2. h[i].role # "tool"
      BY <1>10 DEF Calls
    <3>3. Len(e) # 0
      BY <3>1
    <3>. QED  BY <2>5, <3>1, <3>2, <3>3, EmptySeq
  <2>8. EachPlaced(oo)
    BY <1>2, <1>3, <2>5, <2>6, <2>7, PlacedJoined
  <2>. HIDE DEF oo
  <2>9. v.out = oo /\ v.consumed = C \cup X
    BY <2>1 DEF Carries
  <2>10. ASSUME NEW j \in Results(h), NEW k \in 1 .. i, k < j, Answers(h, k, j)
         PROVE  j \in C \cup X
    <3>1. CASE k \in 1 .. i - 1
      BY <1>3, <2>10, <3>1
    <3>2. CASE k = i
      BY <2>3, <2>10, <3>2 DEF Tidy
    <3>. QED  BY <1>4, <3>1, <3>2
  <2>11. Stowed(h, i, v)
    BY <2>8, <2>9, <2>10 DEF Stowed
  <2>. QED  BY <2>11 DEF v
<1>. QED  BY <1>8, <1>9, <1>10

LEMMA LoopStows ==
    ASSUME NEW M, NEW I, Named(M, I), NEW h \in Seq(M), Tidy(h),
           NEW f, Walks(f, h, TRUE, Len(h))
    PROVE  EachPlaced(f[Len(h)].out)
<1>. DEFINE n == Len(h)
            start == [out |-> <<>>, consumed |-> {}]
            D == (0 .. n) \X ({f[i] : i \in 0 .. n} \cup {start})
            P == {x \in D : Assembled(M, I, h, x[1], x[2]) /\ Stowed(h, x[1], x[2])}
<1>1. n \in Nat
  BY LenProperties
<1>2. Assembled(M, I, h, 0, start)
  BY NothingAssembled
<1>3. Stowed(h, 0, start)
  <2>. DEFINE e == <<>>
              none == {}
  <2>1. Results(e) = {}
    BY DEF Results
  <2>2. EachPlaced(e)
    BY <2>1 DEF EachPlaced
  <2>3. Carries(start, e, none)
    BY CarriesBoth
  <2>. HIDE DEF start, e, none
  <2>4. start.out = e
    BY <2>3 DEF Carries
  <2>. QED  BY <2>2, <2>4 DEF Stowed
<1>4. <<0, start>> \in P
  <2>1. 0 \in 0 .. n
    BY <1>1
  <2>. HIDE DEF start, n
  <2>. DEFINE x == <<0, start>>
  <2>2. x \in D /\ x[1] = 0 /\ x[2] = start
    BY <2>1
  <2>. HIDE DEF x, D
  <2>3. x \in P
    BY <1>2, <1>3, <2>2
  <2>. QED  BY <2>3 DEF x
<1>5. ASSUME NEW i \in 1 .. n, <<i - 1, f[i - 1]>> \in P
      PROVE  <<i, f[i]>> \in P
  <2>1. Assembled(M, I, h, i - 1, f[i - 1]) /\ Stowed(h, i - 1, f[i - 1])
    BY <1>5
  <2>2. f[i] = visit(h, TRUE, f[i - 1], i)
    BY DEF Walks
  <2>3. Assembled(M, I, h, i, f[i])
    BY <2>1, <2>2, VisitAssembles
  <2>4. Stowed(h, i, f[i])
    BY <2>1, <2>2, VisitStows
  <2>5. i \in 0 .. n
    BY <1>1
  <2>. QED  BY <2>3, <2>4, <2>5
<1>. HIDE DEF P
<1>6. <<n, f[n]>> \in P
  BY <1>1, <1>4, <1>5, WalkKeeps
<1>7. Stowed(h, n, f[n])
  BY <1>6 DEF P
<1>. QED  BY <1>7 DEF Stowed

\* What leaves out no message with calls keeps a tidy history tidy.
LEMMA TidySelected ==
    ASSUME NEW M, NEW h \in Seq(M), Tidy(h), NEW U, \A i \in Calls(h) : h[i] \in U
    PROVE  Tidy(Select(h, U))
<1>. DEFINE g == Select(h, U)
<1>1. PICK e \in [DOMAIN g -> Nat] : EmbedsAll(e, g, h, U)
  BY SelectEmbedsAll
<1>2. g \in Seq(M)
  BY SelectType
<1>3. DOMAIN h = 1 .. Len(h) /\ Len(h) \in Nat
  BY LenProperties
<1>. HIDE DEF g
<1>4. /\ DOMAIN g = 1 .. Len(g) /\ DOMAIN h = 1 .. Len(h) /\ Len(g) \in Nat /\ Len(h) \in Nat
      /\ \A j \in DOMAIN g : e[j] \in DOMAIN h /\ g[j] = h[e[j]]
      /\ \A i, j \in DOMAIN g : i < j => e[i] < e[j]
  BY <1>1, <1>2, <1>3, LenProperties DEF EmbedsAll, Embeds
<1>5. \A i \in Calls(h) : i \in DOMAIN h /\ h[i] \in U
  BY DEF Calls
<1>6. \A j \in Results(g) : j \in DOMAIN g /\ e[j] \in Results(h) /\ g[j] = h[e[j]]
  BY <1>4 DEF Results
<1>7. \A i, j \in DOMAIN g : e[i] < e[j] => i < j
  <2>. SUFFICES ASSUME NEW i \in DOMAIN g, NEW j \in DOMAIN g, e[i] < e[j]
                PROVE  i < j
    OBVIOUS
  <2>1. e[i] \in Nat /\ e[j] \in Nat /\ i \in Nat /\ j \in Nat
    BY <1>4
  <2>2. ~ (e[j] < e[i]) /\ e[i] # e[j]
    BY <2>1
  <2>3. ~ (j < i) /\ i # j
    BY <1>4, <2>2
  <2>. QED  BY <2>1, <2>3
<1>8. ASSUME NEW j \in Results(g)
      PROVE  \E i \in 1 .. j - 1 : Answers(g, i, j)
  <2>1. PICK x \in 1 .. e[j] - 1 : Answers(h, x, e[j])
    BY <1>6 DEF Tidy
  <2>2. x \in Calls(h) /\ e[j] \in Nat
    BY <1>6, <2>1 DEF Answers
  <2>3. PICK i \in DOMAIN g : e[i] = x
    BY <1>1, <1>5, <2>2 DEF EmbedsAll
  <2>4. e[i] < e[j] /\ i \in Nat /\ j \in Nat /\ i \in 1 .. Len(g)
    BY <1>4, <1>6, <2>2, <2>3
  <2>5. i < j
    BY <1>6, <1>7, <2>4
  <2>6. i \in 1 .. j - 1
    BY <2>4, <2>5
  <2>7. g[i] = h[x] /\ g[j] = h[e[j]]
    BY <1>4, <1>6, <2>3
  <2>8. Answers(g, i, j)
    BY <2>1, <2>3, <2>7 DEF Answers, Calls
  <2>. QED  BY <2>6, <2>8
<1>9. ASSUME NEW j \in Results(g), NEW k \in Results(g) \ {j}
      PROVE  g[k].toolCallId # g[j].toolCallId
  <2>1. j \in Nat /\ k \in Nat /\ j \in DOMAIN g /\ k \in DOMAIN g
    BY <1>4, <1>6
  <2>2. j < k \/ k < j
    BY <2>1
  <2>3. e[j] \in Nat /\ e[k] \in Nat /\ (e[j] < e[k] \/ e[k] < e[j])
    BY <1>4, <2>1, <2>2
  <2>4. e[j] # e[k]
    BY <2>3
  <2>. QED  BY <1>6, <2>4 DEF Tidy
<1>10. Tidy(g)
  BY <1>8, <1>9 DEF Tidy
<1>. QED  BY <1>10 DEF g

\* From a tidy history each result of the request stands behind its call, and is the only
\* one to answer it there.
LEMMA ProjectPlaces ==
    ASSUME NEW M, NEW I, Named(M, I), NEW h \in Seq(M), Tidy(h)
    PROVE  EachPlaced(project(h, TRUE))
<1>. DEFINE U == Usable(M)
            g == Select(h, U)
<1>1. project(h, TRUE) = repairToolExchangeAdjacency(g, TRUE)
  BY ElementsUsable DEF project
<1>2. g \in Seq(U)
  BY ElementsUsable
<1>3. Named(U, I)
  BY NamedUsable
<1>4. Tidy(g)
  <2>1. \A k \in DOMAIN h : h[k] \in M
    BY LenProperties, ElementOfSeq
  <2>2. \A i \in Calls(h) : h[i] \in U
    BY <2>1 DEF Calls, Usable, usable
  <2>. HIDE DEF U
  <2>. QED  BY <2>2, TidySelected
<1>. HIDE DEF U, g
<1>5. PICK f : /\ Walks(f, g, TRUE, Len(g))
               /\ repairToolExchangeAdjacency(g, TRUE) = f[Len(g)].out
  BY <1>2, WalkGives
<1>6. EachPlaced(f[Len(g)].out)
  BY <1>2, <1>3, <1>4, <1>5, LoopStows
<1>. QED  BY <1>1, <1>5, <1>6
=============================================================================
