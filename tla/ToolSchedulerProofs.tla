------------------------- MODULE ToolSchedulerProofs ------------------------
(***************************************************************************)
(* The scheduler keeps its promises for every number of calls, every set   *)
(* of accesses a tool may declare and every file system.  The inductive    *)
(* invariant adds to the properties that no call both runs and waits.      *)
(***************************************************************************)
EXTENDS ToolScheduler, SequenceTheorems, FiniteSetTheorems, TLAPS

\* Induction, and what is gathered from a sequence.
Sq == INSTANCE ConversationProofs

-----------------------------------------------------------------------------
(* The conflict test of ToolAccess.                                          *)

\* The order of the two sides does not matter to the conflict test, which the
\* scheduler applies in either direction.
LEMMA ConflictSymmetric ==
    ASSUME NEW left, NEW right
    PROVE  conflict(left, right) <=> conflict(right, left)
<1>1. \A l, r : resourceAccessesConflict(l, r) <=> resourceAccessesConflict(r, l)
  <2>. TAKE l, r
  <2>1. fileOperationsConflict(l.operation, r.operation)
            <=> fileOperationsConflict(r.operation, l.operation)
    BY DEF fileOperationsConflict
  <2>2. fileAccessesOverlap(l, r) <=> fileAccessesOverlap(r, l)
    BY DEF fileAccessesOverlap
  <2>. QED  BY <2>1, <2>2 DEF resourceAccessesConflict
<1>. QED  BY <1>1 DEF conflict

\* Collapsing a path gathers, of each of its segments, the folded name, and
\* nothing of an empty one.
Folded == [s \in Segment |-> IF s = Empty THEN <<>> ELSE <<Fold[s]>>]

LEMMA FoldedType == Folded \in [Segment -> Seq(Segment)]
BY FoldAssumption DEF Folded

LEMMA NormalizedGathers ==
    ASSUME NEW p \in Seq(Segment)
    PROVE  normalizePath(p) = Sq!Gather(p, Folded)
<1>1. \A i \in DOMAIN p : p[i] \in Segment
  BY LenProperties, ElementOfSeq
<1>2. [i \in DOMAIN p |-> IF p[i] = Empty THEN <<>> ELSE <<Fold[p[i]]>>]
          = [i \in DOMAIN p |-> Folded[p[i]]]
  BY <1>1 DEF Folded
<1>3. normalizePath(p) = FlattenSeq([i \in DOMAIN p |-> IF p[i] = Empty THEN <<>> ELSE <<Fold[p[i]]>>])
  BY DEF normalizePath, Collapse
<1>4. Sq!Gather(p, Folded) = Sq!FlattenSeq([i \in DOMAIN p |-> Folded[p[i]]])
  BY DEF Sq!Gather
<1>5. \A s : Sq!FlattenSeq(s) = FlattenSeq(s)
  BY DEF FlattenSeq, Sq!FlattenSeq
<1>. QED  BY <1>2, <1>3, <1>4, <1>5

LEMMA NormalizedIsSeq ==
    ASSUME NEW p \in Seq(Segment)
    PROVE  normalizePath(p) \in Seq(Segment)
BY FoldedType, NormalizedGathers, Sq!GatherType

LEMMA NormalizedAppend ==
    /\ normalizePath(<<>>) = <<>>
    /\ \A p \in Seq(Segment), x \in Segment :
          normalizePath(Append(p, x)) =
             IF x = Empty THEN normalizePath(p) ELSE Append(normalizePath(p), Fold[x])
<1>1. normalizePath(<<>>) = <<>>
  BY EmptySeq, NormalizedGathers, Sq!GatherEmpty
<1>2. ASSUME NEW p \in Seq(Segment), NEW x \in Segment
      PROVE  normalizePath(Append(p, x)) =
                IF x = Empty THEN normalizePath(p) ELSE Append(normalizePath(p), Fold[x])
  <2>1. Append(p, x) \in Seq(Segment) /\ normalizePath(p) \in Seq(Segment)
    BY AppendProperties, NormalizedIsSeq
  <2>2. normalizePath(Append(p, x)) = normalizePath(p) \o Folded[x]
    <3>1. Sq!Gather(Append(p, x), Folded) = Sq!Gather(p, Folded) \o Folded[x]
      BY FoldedType, Sq!GatherAppend
    <3>. QED  BY <2>1, <3>1, NormalizedGathers
  <2>3. CASE x = Empty
    BY <2>1, <2>2, <2>3, ConcatEmptySeq DEF Folded
  <2>4. CASE x # Empty
    <3>1. Folded[x] = <<Fold[x]>> /\ Fold[x] \in Segment
      BY <2>4, FoldAssumption DEF Folded
    <3>. QED  BY <2>1, <2>2, <2>4, <3>1, AppendIsConcat
  <2>. QED  BY <2>3, <2>4
<1>. QED  BY <1>1, <1>2

\* Walking a path from the root leads to the node its normal form names.
LEMMA WalkNormalizes ==
    ASSUME NEW p \in Seq(Segment)
    PROVE  Walk(p) = normalizePath(p)
<1>. DEFINE n == Len(p)
            Walks(f) == f = [i \in 0 .. n |->
                               IF i = 0 THEN <<>>
                               ELSE IF p[i] = Empty THEN f[i - 1]
                               ELSE Append(f[i - 1], Fold[p[i]])]
            g == [i \in 0 .. n |-> normalizePath(SubSeq(p, 1, i))]
            c == CHOOSE f : Walks(f)
<1>1. n \in Nat /\ \A i \in 1 .. n : p[i] \in Segment
  BY LenProperties, ElementOfSeq
<1>2. \A i \in 0 .. n : SubSeq(p, 1, i) \in Seq(Segment)
  <2>. TAKE i \in 0 .. n
  <2>1. \A k \in 1 .. i : p[k] \in Segment
    BY <1>1
  <2>. QED  BY <1>1, <2>1, SubSeqProperties
<1>3. g[0] = <<>>
  <2>1. Len(SubSeq(p, 1, 0)) = 0
    BY <1>1, SubSeqProperties
  <2>2. SubSeq(p, 1, 0) = <<>>
    BY <1>1, <1>2, <2>1, EmptySeq
  <2>3. g[0] = normalizePath(SubSeq(p, 1, 0))
    BY <1>1
  <2>. HIDE DEF g
  <2>. QED  BY <2>2, <2>3, NormalizedAppend
<1>4. ASSUME NEW i \in 1 .. n
      PROVE  g[i] = IF p[i] = Empty THEN g[i - 1] ELSE Append(g[i - 1], Fold[p[i]])
  <2>1. i - 1 \in 0 .. n /\ i \in 0 .. n
    BY <1>1
  <2>2. SubSeq(p, 1, i) = Append(SubSeq(p, 1, i - 1), p[i])
    <3>1. \A k \in 1 .. i : p[k] \in Segment
      BY <1>1
    <3>2. /\ Len(SubSeq(p, 1, i)) = i /\ \A k \in 1 .. i : SubSeq(p, 1, i)[k] = p[k]
          /\ Len(SubSeq(p, 1, i - 1)) = i - 1
          /\ \A k \in 1 .. i - 1 : SubSeq(p, 1, i - 1)[k] = p[k]
      BY <1>1, <3>1, SubSeqProperties
    <3>. DEFINE a == SubSeq(p, 1, i)
                b == SubSeq(p, 1, i - 1)
    <3>3. a \in Seq(Segment) /\ b \in Seq(Segment) /\ p[i] \in Segment
      BY <1>1, <1>2, <2>1
    <3>. HIDE DEF a, b
    <3>4. /\ Append(b, p[i]) \in Seq(Segment) /\ Len(Append(b, p[i])) = Len(b) + 1
          /\ Append(b, p[i])[Len(b) + 1] = p[i]
          /\ \A k \in 1 .. Len(b) : Append(b, p[i])[k] = b[k]
      BY <3>3, AppendProperties
    <3>5. Len(a) = i /\ Len(b) = i - 1 /\ \A k \in 1 .. i : a[k] = Append(b, p[i])[k]
      BY <3>2, <3>4 DEF a, b
    <3>6. a = Append(b, p[i])
      BY <3>3, <3>4, <3>5, SeqEqual
    <3>. QED  BY <3>6 DEF a, b
  <2>3. p[i] \in Segment /\ SubSeq(p, 1, i - 1) \in Seq(Segment)
    BY <1>1, <1>2, <2>1
  <2>4. normalizePath(SubSeq(p, 1, i)) =
           IF p[i] = Empty THEN normalizePath(SubSeq(p, 1, i - 1))
           ELSE Append(normalizePath(SubSeq(p, 1, i - 1)), Fold[p[i]])
    BY <2>2, <2>3, NormalizedAppend
  <2>. QED  BY <2>1, <2>4
<1>5. Walks(g)
  <2>1. g = [i \in 0 .. n |-> g[i]]
    OBVIOUS
  <2>. HIDE DEF g
  <2>2. \A i \in 0 .. n : g[i] = IF i = 0 THEN <<>>
                                 ELSE IF p[i] = Empty THEN g[i - 1]
                                 ELSE Append(g[i - 1], Fold[p[i]])
    BY <1>1, <1>3, <1>4
  <2>. QED  BY <2>1, <2>2
<1>6. Walks(c)
  BY <1>5
<1>7. Walk(p) = c[n]
  BY DEF Walk
<1>8. g[n] = normalizePath(p)
  <2>1. SubSeq(p, 1, n) = p
    <3>1. /\ Len(SubSeq(p, 1, n)) = n /\ \A k \in 1 .. n : SubSeq(p, 1, n)[k] = p[k]
          /\ SubSeq(p, 1, n) \in Seq(Segment)
      BY <1>1, SubSeqProperties
    <3>. QED  BY <3>1, SeqEqual
  <2>2. g[n] = normalizePath(SubSeq(p, 1, n))
    BY <1>1
  <2>. QED  BY <2>1, <2>2
<1>. HIDE DEF g, c
<1>9. c[n] = g[n]
  <2>. DEFINE T == {i \in Nat : i <= n => c[i] = g[i]}
  <2>0. \A f : Walks(f) => \A i \in 0 .. n :
          f[i] = IF i = 0 THEN <<>> ELSE IF p[i] = Empty THEN f[i - 1]
                 ELSE Append(f[i - 1], Fold[p[i]])
    OBVIOUS
  <2>. HIDE DEF Walks
  <2>1. 0 \in T
    <3>1. 0 \in 0 .. n
      BY <1>1
    <3>. QED  BY <1>5, <1>6, <2>0, <3>1
  <2>2. ASSUME NEW i \in Nat, i \in T
        PROVE  i + 1 \in T
    <3>. SUFFICES ASSUME i + 1 <= n
                  PROVE  c[i + 1] = g[i + 1]
      OBVIOUS
    <3>1. i + 1 \in 0 .. n /\ i + 1 # 0 /\ (i + 1) - 1 = i /\ c[i] = g[i]
      BY <1>1, <2>2
    <3>2. c[i + 1] = IF p[i + 1] = Empty THEN c[i] ELSE Append(c[i], Fold[p[i + 1]])
      BY <1>6, <2>0, <3>1
    <3>3. g[i + 1] = IF p[i + 1] = Empty THEN g[i] ELSE Append(g[i], Fold[p[i + 1]])
      BY <1>5, <2>0, <3>1
    <3>. QED  BY <3>1, <3>2, <3>3
  <2>. HIDE DEF T
  <2>3. Nat \subseteq T
    BY <2>1, <2>2, Sq!Induction
  <2>. QED  BY <1>1, <2>3 DEF T
<1>. QED  BY <1>7, <1>8, <1>9

\* A strict prefix, read element by element.
LEMMA StrictPrefix ==
    ASSUME NEW S, NEW s \in Seq(S), NEW t \in Seq(S)
    PROVE  IsStrictPrefix(s, t)
               <=> Len(s) < Len(t) /\ \A i \in 1 .. Len(s) : s[i] = t[i]
<1>. DEFINE n == Len(s)
<1>0. n \in Nat /\ Len(t) \in Nat
  BY LenProperties
<1>1. ASSUME n <= Len(t)
      PROVE  SubSeq(s, 1, n) = SubSeq(t, 1, n) <=> \A i \in 1 .. n : s[i] = t[i]
  <2>1. /\ SubSeq(s, 1, n) \in Seq(S) /\ Len(SubSeq(s, 1, n)) = n
        /\ \A i \in 1 .. n : SubSeq(s, 1, n)[i] = s[i]
    <3>1. \A i \in 1 .. n : s[i] \in S
      BY <1>0, ElementOfSeq
    <3>. QED  BY <1>0, <3>1, SubSeqProperties
  <2>2. /\ SubSeq(t, 1, n) \in Seq(S) /\ Len(SubSeq(t, 1, n)) = n
        /\ \A i \in 1 .. n : SubSeq(t, 1, n)[i] = t[i]
    <3>1. \A i \in 1 .. n : t[i] \in S
      BY <1>0, <1>1, ElementOfSeq
    <3>. QED  BY <1>0, <3>1, SubSeqProperties
  <2>3. ASSUME \A i \in 1 .. n : s[i] = t[i]
        PROVE  SubSeq(s, 1, n) = SubSeq(t, 1, n)
    <3>1. \A i \in 1 .. n : SubSeq(s, 1, n)[i] = SubSeq(t, 1, n)[i]
      BY <2>1, <2>2, <2>3
    <3>. QED  BY <2>1, <2>2, <3>1, SeqEqual
  <2>4. ASSUME SubSeq(s, 1, n) = SubSeq(t, 1, n), NEW i \in 1 .. n
        PROVE  s[i] = t[i]
    BY <2>1, <2>2, <2>4
  <2>. QED  BY <2>3, <2>4
<1>2. ASSUME Len(s) = Len(t), \A i \in 1 .. n : s[i] = t[i]
      PROVE  s = t
  BY <1>2, SeqEqual
<1>. QED  BY <1>0, <1>1, <1>2 DEF IsStrictPrefix, IsPrefix

\* Two trees that share a node lie one in the other.
LEMMA PrefixesComparable ==
    ASSUME NEW S, NEW s \in Seq(S), NEW t \in Seq(S), NEW u \in Seq(S),
           IsStrictPrefix(s, u), IsStrictPrefix(t, u)
    PROVE  s = t \/ IsStrictPrefix(s, t) \/ IsStrictPrefix(t, s)
<1>1. Len(s) \in Nat /\ Len(t) \in Nat /\ Len(u) \in Nat
  BY LenProperties
<1>2. /\ \A i \in 1 .. Len(s) : s[i] = u[i]
      /\ \A i \in 1 .. Len(t) : t[i] = u[i]
  BY StrictPrefix
<1>3. CASE Len(s) = Len(t)
  <2>1. \A i \in 1 .. Len(s) : s[i] = t[i]
    BY <1>2, <1>3
  <2>. QED  BY <1>3, <2>1, SeqEqual
<1>4. CASE Len(s) < Len(t)
  <2>1. \A i \in 1 .. Len(s) : s[i] = t[i]
    BY <1>1, <1>2, <1>4
  <2>. QED  BY <1>4, <2>1, StrictPrefix
<1>5. CASE Len(t) < Len(s)
  <2>1. \A i \in 1 .. Len(t) : t[i] = s[i]
    BY <1>1, <1>2, <1>5
  <2>. QED  BY <1>5, <2>1, StrictPrefix
<1>. QED  BY <1>1, <1>3, <1>4, <1>5

\* The conflict test errs on no side that matters: accesses that may race on
\* some node of the file system conflict.
THEOREM RaceImpliesConflict ==
    ASSUME NEW a, IsAccess(a), NEW b, IsAccess(b), NEW node \in Seq(Segment),
           RaceOn(a, b, node)
    PROVE  resourceAccessesConflict(a, b)
<1>1. CASE a.kind = "all" \/ b.kind = "all"
  BY <1>1 DEF resourceAccessesConflict
<1>2. CASE a.kind # "all" /\ b.kind # "all"
  <2>. DEFINE na == normalizePath(a.path)
              nb == normalizePath(b.path)
  <2>1. a.path \in Seq(Segment) /\ b.path \in Seq(Segment)
    BY <1>2 DEF IsAccess, All
  <2>3. na \in Seq(Segment) /\ nb \in Seq(Segment)
    BY <2>1, NormalizedIsSeq
  <2>4. /\ node = na \/ (a.recursive /\ IsStrictPrefix(na, node))
        /\ node = nb \/ (b.recursive /\ IsStrictPrefix(nb, node))
    BY <1>2 DEF RaceOn, Touches
  <2>5. fileOperationsConflict(a.operation, b.operation)
    BY <1>2 DEF RaceOn, Mutates, fileOperationsConflict
  <2>6. \/ na = nb
        \/ a.recursive /\ IsStrictPrefix(na, nb)
        \/ b.recursive /\ IsStrictPrefix(nb, na)
    <3>1. CASE node = na \/ node = nb
      BY <2>4, <3>1
    <3>2. CASE node # na /\ node # nb
      <4>1. IsStrictPrefix(na, node) /\ IsStrictPrefix(nb, node) /\ a.recursive /\ b.recursive
        BY <2>4, <3>2
      <4>2. na = nb \/ IsStrictPrefix(na, nb) \/ IsStrictPrefix(nb, na)
        <5>. HIDE DEF na, nb
        <5>. QED  BY <2>3, <4>1, PrefixesComparable
      <4>. QED  BY <4>1, <4>2
    <3>. QED  BY <3>1, <3>2
  <2>7. fileAccessesOverlap(a, b)
    BY <2>6 DEF fileAccessesOverlap
  <2>. QED  BY <2>5, <2>7 DEF resourceAccessesConflict
<1>. QED  BY <1>1, <1>2

-----------------------------------------------------------------------------
(* The scheduler.                                                            *)

Apart == activeTasks \cap queuedTasks = {}

IInv == TypeOK /\ Apart /\ WaitsForSomeone /\ ProviderOrder

LEMMA InitIInv == Init => IInv
BY NAssumption DEF Init, IInv, TypeOK, Apart, WaitsForSomeone, ProviderOrder

-----------------------------------------------------------------------------
(* Add: the new call is the last in provider order.                         *)

LEMMA AddTypeOK ==
    ASSUME IInv, Add
    PROVE  TypeOK' /\ Apart'
<1>. USE NAssumption DEF IInv, TypeOK, Apart, Add, Calls
<1>1. PICK A \in Declared :
        /\ added' = added + 1
        /\ accesses' = [accesses EXCEPT ![added + 1] = A]
        /\ \/ queuedTasks' = queuedTasks \cup {added + 1} /\ UNCHANGED activeTasks
           \/ activeTasks' = activeTasks \cup {added + 1} /\ UNCHANGED queuedTasks
  OBVIOUS
<1>2. added + 1 \in 1 .. N
  OBVIOUS
<1>3. added' \in 0 .. N /\ 1 .. added' = (1 .. added) \cup {added + 1}
  BY <1>1, <1>2
<1>4. accesses' \in [1 .. N -> Declared \cup {{}}]
  BY <1>1, <1>2
<1>5. activeTasks' \subseteq 1 .. added' /\ queuedTasks' \subseteq 1 .. added'
  BY <1>1, <1>3
<1>6. added + 1 \notin activeTasks /\ added + 1 \notin queuedTasks
  OBVIOUS
<1>7. Apart'
  BY <1>1, <1>6
<1>. QED  BY <1>3, <1>4, <1>5, <1>7

\* What add() decides for the new call, and what it leaves alone.
LEMMA AddEffect ==
    ASSUME IInv, Add
    PROVE  LET t == added + 1
           IN  /\ added' = t /\ t \notin activeTasks \cup queuedTasks
               /\ \A s \in 1 .. added : accesses'[s] = accesses[s]
               /\ \/ /\ queuedTasks' = queuedTasks \cup {t} /\ activeTasks' = activeTasks
                     /\ \E c \in activeTasks \cup queuedTasks :
                            conflict(accesses'[t], accesses[c])
                  \/ /\ activeTasks' = activeTasks \cup {t} /\ queuedTasks' = queuedTasks
                     /\ \A c \in activeTasks \cup queuedTasks :
                            ~ conflict(accesses'[t], accesses[c])
<1>. DEFINE t == added + 1
<1>1. t \in 1 .. N /\ t \notin activeTasks \cup queuedTasks
  BY NAssumption DEF IInv, TypeOK, Add
<1>2. PICK A \in Declared :
        /\ added' = t
        /\ accesses' = [accesses EXCEPT ![t] = A]
        /\ IF isBlocked(A, activeTasks, queuedTasks)
           THEN queuedTasks' = queuedTasks \cup {t} /\ UNCHANGED activeTasks
           ELSE activeTasks' = activeTasks \cup {t} /\ UNCHANGED queuedTasks
  BY DEF Add
<1>3. accesses'[t] = A /\ \A s \in 1 .. added : accesses'[s] = accesses[s]
  BY <1>1, <1>2 DEF IInv, TypeOK, Calls
<1>4. isBlocked(A, activeTasks, queuedTasks)
          <=> \E c \in activeTasks \cup queuedTasks : conflict(A, accesses[c])
  BY DEF isBlocked, conflictsWithAny
<1>. QED  BY <1>1, <1>2, <1>3, <1>4

LEMMA AddWaits ==
    ASSUME IInv, Add
    PROVE  WaitsForSomeone'
<1>. SUFFICES ASSUME NEW w \in queuedTasks'
              PROVE  \E s \in activeTasks' \cup queuedTasks' :
                        s < w /\ conflict(accesses'[w], accesses'[s])
  BY DEF WaitsForSomeone
<1>0. /\ added \in Nat
      /\ activeTasks \subseteq 1 .. added /\ queuedTasks \subseteq 1 .. added
  BY NAssumption DEF IInv, TypeOK
<1>1. CASE w \in queuedTasks
  <2>1. PICK s \in activeTasks \cup queuedTasks : s < w /\ conflict(accesses[w], accesses[s])
    BY <1>1 DEF IInv, WaitsForSomeone
  <2>2. accesses'[w] = accesses[w] /\ accesses'[s] = accesses[s]
    BY <1>0, <1>1, AddEffect
  <2>3. s \in activeTasks' \cup queuedTasks'
    BY AddEffect
  <2>. QED  BY <2>1, <2>2, <2>3
<1>2. CASE w \notin queuedTasks
  <2>1. w = added + 1 /\ activeTasks' = activeTasks /\ queuedTasks \subseteq queuedTasks'
    BY <1>2, AddEffect
  <2>2. PICK c \in activeTasks \cup queuedTasks : conflict(accesses'[w], accesses[c])
    BY <1>2, <2>1, AddEffect
  <2>3. c < w /\ accesses'[c] = accesses[c]
    BY <1>0, <2>1, AddEffect
  <2>. QED  BY <2>1, <2>2, <2>3
<1>. QED  BY <1>1, <1>2

LEMMA AddOrder ==
    ASSUME IInv, Add
    PROVE  ProviderOrder'
<1>. SUFFICES ASSUME NEW s \in 1 .. added', NEW t \in 1 .. added',
                     s < t, conflict(accesses'[s], accesses'[t]), t \notin queuedTasks'
              PROVE  s \notin queuedTasks' /\ s \notin activeTasks'
  BY DEF ProviderOrder, Started, Finished, Waiting
<1>0. /\ added \in Nat /\ added' = added + 1
      /\ activeTasks \subseteq 1 .. added /\ queuedTasks \subseteq 1 .. added
  BY NAssumption, AddEffect DEF IInv, TypeOK
<1>1. s \in 1 .. added /\ s # added + 1 /\ accesses'[s] = accesses[s]
  BY <1>0, AddEffect
<1>2. CASE t \in 1 .. added
  <2>1. accesses'[t] = accesses[t] /\ t \notin queuedTasks
    BY <1>2, AddEffect
  <2>2. s \notin queuedTasks /\ s \notin activeTasks
    BY <1>1, <1>2, <2>1 DEF IInv, ProviderOrder, Started, Finished, Waiting
  <2>. QED  BY <1>1, <2>2, AddEffect
<1>3. CASE t = added + 1
  <2>1. /\ activeTasks' = activeTasks \cup {t} /\ queuedTasks' = queuedTasks
        /\ \A c \in activeTasks \cup queuedTasks : ~ conflict(accesses'[t], accesses[c])
    BY <1>3, AddEffect
  <2>2. conflict(accesses'[t], accesses[s])
    BY <1>1, ConflictSymmetric
  <2>. QED  BY <1>1, <1>3, <2>1, <2>2
<1>. QED  BY <1>0, <1>2, <1>3

-----------------------------------------------------------------------------
(* Finish: calls only move from the queue to the running ones, and out.     *)

LEMMA FinishEffect ==
    ASSUME IInv, NEW f \in Calls, Finish(f)
    PROVE  LET running == activeTasks \ {f}
               started == startQueuedTasks(running)
           IN  /\ f \in activeTasks /\ result[f] # "pending"
               /\ UNCHANGED <<added, accesses, result>>
               /\ activeTasks' = running \cup started
               /\ queuedTasks' = queuedTasks \ started
               /\ started \subseteq queuedTasks
               /\ \A t \in queuedTasks :
                    t \in started <=>
                        \A c \in running \cup {q \in queuedTasks : q < t} :
                            ~ conflict(accesses[t], accesses[c])
BY DEF Finish, startQueuedTasks, isBlocked, conflictsWithAny

LEMMA FinishTypeOK ==
    ASSUME IInv, NEW f \in Calls, Finish(f)
    PROVE  TypeOK' /\ Apart'
<1>. DEFINE running == activeTasks \ {f}
            started == startQueuedTasks(running)
<1>1. /\ activeTasks' = running \cup started
      /\ queuedTasks' = queuedTasks \ started
      /\ started \subseteq queuedTasks
      /\ UNCHANGED <<added, accesses, result>>
  BY FinishEffect
<1>. HIDE DEF started
<1>. QED  BY <1>1 DEF IInv, TypeOK, Apart

LEMMA FinishWaits ==
    ASSUME IInv, NEW f \in Calls, Finish(f)
    PROVE  WaitsForSomeone'
<1>. DEFINE running == activeTasks \ {f}
            started == startQueuedTasks(running)
<1>1. /\ activeTasks' = running \cup started
      /\ queuedTasks' = queuedTasks \ started
      /\ accesses' = accesses
      /\ \A t \in queuedTasks :
           t \in started <=>
               \A c \in running \cup {q \in queuedTasks : q < t} :
                   ~ conflict(accesses[t], accesses[c])
  BY FinishEffect
<1>2. /\ activeTasks \subseteq 1 .. added /\ queuedTasks \subseteq 1 .. added
      /\ added \in Nat /\ activeTasks \cap queuedTasks = {}
  BY NAssumption DEF IInv, TypeOK, Apart
<1>. HIDE DEF started
<1>. SUFFICES ASSUME NEW w \in queuedTasks, w \notin started
              PROVE  \E s \in running \cup queuedTasks :
                        s < w /\ conflict(accesses[w], accesses[s])
  BY <1>1 DEF WaitsForSomeone
<1>3. PICK c \in running \cup {q \in queuedTasks : q < w} : conflict(accesses[w], accesses[c])
  BY <1>1
<1>4. CASE c \in queuedTasks /\ c < w
  BY <1>3, <1>4
<1>5. CASE c \in running
  \* A later call cannot run before one it conflicts with has finished.
  <2>1. ~ (w < c)
    BY <1>2, <1>3, <1>5 DEF IInv, ProviderOrder, Started, Finished, Waiting
  <2>2. c # w
    BY <1>2, <1>5
  <2>. QED  BY <1>2, <1>3, <1>5, <2>1, <2>2
<1>. QED  BY <1>3, <1>4, <1>5

LEMMA FinishOrder ==
    ASSUME IInv, NEW f \in Calls, Finish(f)
    PROVE  ProviderOrder'
<1>. DEFINE running == activeTasks \ {f}
            started == startQueuedTasks(running)
<1>1. /\ activeTasks' = running \cup started
      /\ queuedTasks' = queuedTasks \ started
      /\ started \subseteq queuedTasks
      /\ added' = added /\ accesses' = accesses
      /\ \A t \in queuedTasks :
           t \in started <=>
               \A c \in running \cup {q \in queuedTasks : q < t} :
                   ~ conflict(accesses[t], accesses[c])
  BY FinishEffect
<1>. HIDE DEF started
<1>. SUFFICES ASSUME NEW s \in 1 .. added, NEW t \in 1 .. added,
                     s < t, conflict(accesses[s], accesses[t]), t \notin queuedTasks'
              PROVE  s \notin queuedTasks' /\ s \notin activeTasks'
  BY <1>1 DEF ProviderOrder, Started, Finished, Waiting
<1>2. CASE t \notin queuedTasks
  <2>1. s \notin queuedTasks /\ s \notin activeTasks
    BY <1>2 DEF IInv, ProviderOrder, Started, Finished, Waiting
  <2>. QED  BY <1>1, <2>1
<1>3. CASE t \in queuedTasks
  <2>1. t \in started
    BY <1>1, <1>3
  <2>2. conflict(accesses[t], accesses[s])
    BY ConflictSymmetric
  <2>3. s \notin running /\ s \notin queuedTasks
    BY <1>1, <1>3, <2>1, <2>2
  <2>. QED  BY <1>1, <2>3
<1>. QED  BY <1>2, <1>3

-----------------------------------------------------------------------------

LEMMA StepIInv == IInv /\ [Next]_vars => IInv'
<1>. SUFFICES ASSUME IInv, [Next]_vars
              PROVE  IInv'
  OBVIOUS
<1>1. CASE Add
  BY <1>1, AddTypeOK, AddWaits, AddOrder DEF IInv
<1>2. ASSUME NEW t \in Calls, Settle(t)
      PROVE  IInv'
  <2>1. result' \in [Calls -> {"pending", "resolved", "rejected"}]
    BY <1>2 DEF Settle, IInv, TypeOK
  <2>2. UNCHANGED <<added, accesses, activeTasks, queuedTasks>>
    BY <1>2 DEF Settle
  <2>. QED  BY <2>1, <2>2 DEF IInv, TypeOK, Apart, WaitsForSomeone, ProviderOrder,
                             Started, Finished, Waiting
<1>3. ASSUME NEW t \in Calls, Finish(t)
      PROVE  IInv'
  BY <1>3, FinishTypeOK, FinishWaits, FinishOrder DEF IInv
<1>4. CASE UNCHANGED vars
  BY <1>4 DEF vars, IInv, TypeOK, Apart, WaitsForSomeone, ProviderOrder,
              Started, Finished, Waiting
<1>. QED  BY <1>1, <1>2, <1>3, <1>4 DEF Next, Drained

THEOREM Inductive == Spec => []IInv
BY InitIInv, StepIInv, PTL DEF Spec

\* The state of the scheduler is well formed: what runs or waits was added.
THEOREM TypeCorrect == Spec => []TypeOK
BY Inductive, PTL DEF IInv

\* Whatever waits has an earlier conflicting call to wait for, so that no
\* wake-up of the scheduler is lost.
THEOREM NoLostWakeUp == Spec => []WaitsForSomeone
BY Inductive, PTL DEF IInv

\* Conflicting calls run in the order in which the model asked for them.
THEOREM InProviderOrder == Spec => []ProviderOrder
BY Inductive, PTL DEF IInv

LEMMA OrderedCallsDoNotRace ==
    ASSUME IInv, NEW s \in activeTasks, NEW t \in activeTasks, s < t,
           NEW a \in accesses[s], NEW b \in accesses[t], NEW n \in Node
    PROVE  ~ RaceOn(a, b, n) /\ ~ RaceOn(b, a, n)
<1>1. s \in Calls /\ t \in Calls /\ s \in 1 .. added /\ t \in 1 .. added
  BY NAssumption DEF IInv, TypeOK, Calls
<1>2. ~ conflict(accesses[s], accesses[t])
  BY <1>1 DEF IInv, Apart, ProviderOrder, Started, Finished, Waiting
<1>3. ~ conflict(accesses[t], accesses[s])
  BY <1>2, ConflictSymmetric
<1>4. IsAccess(a) /\ IsAccess(b) /\ n \in Seq(Segment)
  BY <1>1, DeclaredAssumption, NodeAssumption DEF IInv, TypeOK
<1>5. ~ resourceAccessesConflict(a, b) /\ ~ resourceAccessesConflict(b, a)
  BY <1>2, <1>3 DEF conflict
<1>. QED  BY <1>4, <1>5, RaceImpliesConflict

\* Two calls never run at once over a node of the file system that one of them
\* changes.
THEOREM NeverRaces == Spec => []NoRace
<1>1. IInv => NoRace
  <2>. SUFFICES ASSUME IInv, NEW s \in activeTasks, NEW t \in activeTasks, s # t,
                       NEW a \in accesses[s], NEW b \in accesses[t], NEW n \in Node
                PROVE  ~ RaceOn(a, b, n)
    BY DEF NoRace
  <2>1. s \in Nat /\ t \in Nat
    BY NAssumption DEF IInv, TypeOK
  <2>2. s < t \/ t < s
    BY <2>1
  <2>. QED  BY <2>2, OrderedCallsDoNotRace
<1>. QED  BY <1>1, Inductive, PTL

\* What an access reaches on disk is what the conflict test takes it to touch.
LEMMA OnDiskTouches ==
    ASSUME NEW a, IsAccess(a), NEW n \in Node, OnDisk(a, n)
    PROVE  Touches(a, n) /\ (~ ReadsOnly(a) => Mutates(a, n))
<1>1. CASE a = All
  BY <1>1 DEF All, Touches, Mutates
<1>2. CASE a # All
  <2>1. /\ a.kind = "file" /\ a.path \in Seq(Segment) /\ a.operation \in Operation
    <3>1. a = File(a.operation, a.path, a.recursive)
      BY <1>2 DEF IsAccess
    <3>2. File(a.operation, a.path, a.recursive).kind = "file"
      BY DEF File
    <3>. QED  BY <1>2, <3>1, <3>2 DEF IsAccess
  <2>2. Walk(a.path) = normalizePath(a.path)
    BY <2>1, WalkNormalizes
  <2>3. n = normalizePath(a.path) \/ (a.recursive /\ IsPrefix(normalizePath(a.path), n))
    BY <1>2, <2>2 DEF OnDisk
  <2>4. Touches(a, n)
    BY <2>1, <2>3 DEF Touches, IsStrictPrefix
  <2>. QED  BY <1>2, <2>1, <2>4 DEF Mutates, ReadsOnly, Operation, fileOperationWrites
<1>. QED  BY <1>1, <1>2

\* However two calls spell their paths, they do not run together over a node on
\* disk, as a walk finds it, unless both only read it.
THEOREM NeverRacesOnDisk == Spec => []NoRaceOnDisk
<1>1. IInv /\ NoRace => NoRaceOnDisk
  <2>. SUFFICES ASSUME IInv, NoRace, NEW s \in activeTasks, NEW t \in activeTasks, s # t,
                       NEW a \in accesses[s], NEW b \in accesses[t], NEW n \in Node,
                       OnDisk(a, n), OnDisk(b, n)
                PROVE  ReadsOnly(a) /\ ReadsOnly(b)
    BY DEF NoRaceOnDisk
  <2>1. s \in Calls /\ t \in Calls
    BY NAssumption DEF IInv, TypeOK, Calls
  <2>2. IsAccess(a) /\ IsAccess(b)
    BY <2>1, DeclaredAssumption DEF IInv, TypeOK
  <2>3. ~ RaceOn(a, b, n)
    BY DEF NoRace
  <2>. QED  BY <2>2, <2>3, OnDiskTouches DEF RaceOn
<1>. QED  BY <1>1, Inductive, NeverRaces, PTL

-----------------------------------------------------------------------------
(* The loop.                                                                *)

\* What the loop has started and left when it has looked at the calls up to t.
Passed(active, t) ==
    [started     |-> {q \in startQueuedTasks(active) : q <= t},
     stillQueued |-> {q \in queuedTasks \ startQueuedTasks(active) : q <= t}]

LEMMA PassStarts ==
    ASSUME IInv, NEW active
    PROVE  LoopPass(active) = Passed(active, added)
<1>. DEFINE empty == [started |-> {}, stillQueued |-> {}]
            next(acc, t) ==
               IF t \notin queuedTasks THEN acc
               ELSE IF isBlocked(accesses[t], active \cup acc.started, acc.stillQueued)
               THEN [acc EXCEPT !.stillQueued = @ \cup {t}]
               ELSE [acc EXCEPT !.started = @ \cup {t}]
            Passes(f) == f = [t \in 0 .. added |->
                                IF t = 0 THEN empty ELSE next(f[t - 1], t)]
            g == [t \in 0 .. added |-> Passed(active, t)]
            c == CHOOSE f : Passes(f)
<1>1. added \in Nat /\ queuedTasks \subseteq 1 .. added
  BY NAssumption DEF IInv, TypeOK
<1>2. startQueuedTasks(active) \subseteq queuedTasks
  BY DEF startQueuedTasks
<1>3. Passed(active, 0) = empty
  <2>1. \A q \in queuedTasks : ~ (q <= 0)
    BY <1>1
  <2>2. /\ {q \in startQueuedTasks(active) : q <= 0} = {}
        /\ {q \in queuedTasks \ startQueuedTasks(active) : q <= 0} = {}
    BY <1>2, <2>1
  <2>. QED  BY <2>2 DEF Passed
<1>4. ASSUME NEW t \in 1 .. added
      PROVE  Passed(active, t) = next(Passed(active, t - 1), t)
  <2>. DEFINE acc == Passed(active, t - 1)
  <2>1. /\ acc.started = {q \in startQueuedTasks(active) : q <= t - 1}
        /\ acc.stillQueued = {q \in queuedTasks \ startQueuedTasks(active) : q <= t - 1}
        /\ acc = [started |-> acc.started, stillQueued |-> acc.stillQueued]
    BY DEF Passed
  <2>2. acc.started \cup acc.stillQueued = {q \in queuedTasks : q < t}
    BY <1>1, <1>2, <2>1
  <2>3. isBlocked(accesses[t], active \cup acc.started, acc.stillQueued)
            <=> isBlocked(accesses[t], active, {q \in queuedTasks : q < t})
    <3>. HIDE DEF acc
    <3>1. active \cup acc.started \cup acc.stillQueued
              = active \cup {q \in queuedTasks : q < t}
      BY <2>2
    <3>. HIDE DEF startQueuedTasks
    <3>. QED  BY <3>1 DEF isBlocked, conflictsWithAny
  <2>4. t \in queuedTasks =>
           (t \in startQueuedTasks(active)
              <=> ~ isBlocked(accesses[t], active \cup acc.started, acc.stillQueued))
    BY <2>3 DEF startQueuedTasks
  <2>. HIDE DEF acc
  <2>8. PICK X, Y : /\ acc = [started |-> X, stillQueued |-> Y]
                    /\ acc.started = X /\ acc.stillQueued = Y
    BY <2>1
  <2>5. CASE t \notin queuedTasks
    <3>1. /\ {q \in startQueuedTasks(active) : q <= t} = acc.started
          /\ {q \in queuedTasks \ startQueuedTasks(active) : q <= t} = acc.stillQueued
      BY <1>1, <1>2, <2>1, <2>5
    <3>. QED  BY <2>1, <2>5, <3>1 DEF Passed, acc
  <2>6. CASE t \in startQueuedTasks(active)
    <3>1. /\ {q \in startQueuedTasks(active) : q <= t} = acc.started \cup {t}
          /\ {q \in queuedTasks \ startQueuedTasks(active) : q <= t} = acc.stillQueued
      BY <1>1, <1>2, <2>1, <2>6
    <3>2. next(acc, t) = [acc EXCEPT !.started = @ \cup {t}]
      BY <1>2, <2>4, <2>6
    <3>3. [acc EXCEPT !.started = @ \cup {t}]
             = [started |-> acc.started \cup {t}, stillQueued |-> acc.stillQueued]
      BY <2>8
    <3>. QED  BY <3>1, <3>2, <3>3 DEF Passed, acc
  <2>7. CASE t \in queuedTasks \ startQueuedTasks(active)
    <3>1. /\ {q \in startQueuedTasks(active) : q <= t} = acc.started
          /\ {q \in queuedTasks \ startQueuedTasks(active) : q <= t} = acc.stillQueued \cup {t}
      BY <1>1, <1>2, <2>1, <2>7
    <3>2. next(acc, t) = [acc EXCEPT !.stillQueued = @ \cup {t}]
      BY <2>4, <2>7
    <3>3. [acc EXCEPT !.stillQueued = @ \cup {t}]
             = [started |-> acc.started, stillQueued |-> acc.stillQueued \cup {t}]
      BY <2>8
    <3>. QED  BY <3>1, <3>2, <3>3 DEF Passed, acc
  <2>. QED  BY <1>2, <2>5, <2>6, <2>7
<1>5. LoopPass(active) = c[added]
  BY DEF LoopPass
<1>. HIDE DEF next, empty
<1>6. Passes(g)
  <2>1. g = [t \in 0 .. added |-> g[t]] /\ \A t \in 0 .. added : g[t] = Passed(active, t)
    OBVIOUS
  <2>. HIDE DEF g
  <2>2. \A t \in 0 .. added : g[t] = IF t = 0 THEN empty ELSE next(g[t - 1], t)
    <3>. TAKE t \in 0 .. added
    <3>1. CASE t = 0
      BY <1>3, <2>1, <3>1
    <3>2. CASE t # 0
      <4>1. t \in 1 .. added /\ t - 1 \in 0 .. added
        BY <1>1, <3>2
      <4>. QED  BY <1>4, <2>1, <3>2, <4>1
    <3>. QED  BY <3>1, <3>2
  <2>. QED  BY <2>1, <2>2
<1>7. Passes(c)
  BY <1>6
<1>8. g[added] = Passed(active, added)
  BY <1>1
<1>. HIDE DEF g, c
<1>9. c[added] = g[added]
  <2>. DEFINE T == {t \in Nat : t <= added => c[t] = g[t]}
  <2>0. \A f : Passes(f) => \A t \in 0 .. added :
          f[t] = IF t = 0 THEN empty ELSE next(f[t - 1], t)
    OBVIOUS
  <2>. HIDE DEF Passes
  <2>1. 0 \in T
    <3>1. 0 \in 0 .. added
      BY <1>1
    <3>. QED  BY <1>6, <1>7, <2>0, <3>1
  <2>2. ASSUME NEW t \in Nat, t \in T
        PROVE  t + 1 \in T
    <3>. SUFFICES ASSUME t + 1 <= added
                  PROVE  c[t + 1] = g[t + 1]
      OBVIOUS
    <3>1. t + 1 \in 0 .. added /\ t + 1 # 0 /\ (t + 1) - 1 = t /\ c[t] = g[t]
      BY <1>1, <2>2
    <3>. QED  BY <1>6, <1>7, <2>0, <3>1
  <2>. HIDE DEF T
  <2>3. Nat \subseteq T
    BY <2>1, <2>2, Sq!Induction
  <2>. QED  BY <1>1, <2>3 DEF T
<1>. QED  BY <1>5, <1>8, <1>9

\* The loop of startQueuedTasks, which takes one queued call after the other,
\* starts the calls that the model starts at once.
THEOREM LoopAlwaysAgrees == Spec => []LoopAgrees
<1>1. IInv => LoopAgrees
  <2>. SUFFICES ASSUME IInv, NEW t \in activeTasks
                PROVE  startQueuedTasks(activeTasks \ {t}) = LoopPass(activeTasks \ {t}).started
    BY DEF LoopAgrees
  <2>. DEFINE active == activeTasks \ {t}
  <2>1. LoopPass(active).started = {q \in startQueuedTasks(active) : q <= added}
    BY PassStarts DEF Passed
  <2>2. startQueuedTasks(active) \subseteq queuedTasks
    BY DEF startQueuedTasks
  <2>3. queuedTasks \subseteq 1 .. added /\ added \in Nat
    BY NAssumption DEF IInv, TypeOK
  <2>4. \A q \in startQueuedTasks(active) : q <= added
    <3>. TAKE q \in startQueuedTasks(active)
    <3>1. q \in queuedTasks
      BY <2>2
    <3>. QED  BY <2>3, <3>1
  <2>. QED  BY <2>1, <2>4
<1>. QED  BY <1>1, Inductive, PTL

\* A call runs once, and counts as running until its promise has settled.
THEOREM CallsRunOnce == Spec => RunsOnce
<1>. DEFINE A == \A t \in Calls :
                   /\ Finished(t) => Finished(t)'
                   /\ (t \in activeTasks /\ t \notin activeTasks') => result[t] # "pending"
<1>1. IInv /\ [Next]_vars => [A]_vars
  <2>. SUFFICES ASSUME IInv, Next, NEW t \in Calls
                PROVE  /\ Finished(t) => Finished(t)'
                       /\ (t \in activeTasks /\ t \notin activeTasks') => result[t] # "pending"
    OBVIOUS
  <2>. USE DEF Finished, Started, Waiting
  <2>1. CASE Add
    <3>1. added \in Nat
      BY NAssumption DEF IInv, TypeOK
    <3>. QED  BY <2>1, <3>1, AddEffect
  <2>2. ASSUME NEW u \in Calls, Settle(u)
        PROVE  /\ Finished(t) => Finished(t)'
               /\ (t \in activeTasks /\ t \notin activeTasks') => result[t] # "pending"
    BY <2>2 DEF Settle
  <2>3. ASSUME NEW u \in Calls, Finish(u)
        PROVE  /\ Finished(t) => Finished(t)'
               /\ (t \in activeTasks /\ t \notin activeTasks') => result[t] # "pending"
    BY <2>3, FinishEffect
  <2>4. CASE Drained
    BY <2>4 DEF Drained, vars
  <2>. QED  BY <2>1, <2>2, <2>3, <2>4 DEF Next
<1>. QED  BY <1>1, Inductive, PTL DEF Spec, RunsOnce
=============================================================================
