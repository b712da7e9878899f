----------------------------- MODULE ToolAccess -----------------------------
(***************************************************************************)
(* The resource accesses a tool call declares and the conflict test the    *)
(* scheduler asks of them (loop/tool-access.ts).                           *)
(*                                                                         *)
(* Paths are absolute: the tools resolve them before they declare them.    *)
(* A path is the sequence of the segments between its separators: "/", "\" *)
(* and runs of them separate alike, so an empty segment stands for a       *)
(* doubled or a trailing separator, and the empty path is the root.        *)
(* Fold maps a segment to its lower-case form.                             *)
(***************************************************************************)
EXTENDS Integers, FiniteSets, SequencesExt

CONSTANTS Segment,       \* segments as a tool may spell them
          Empty,         \* the segment between two adjacent separators
          Fold           \* [Segment -> Segment], toLowerCase on a segment

ASSUME FoldAssumption ==
    /\ Fold \in [Segment -> Segment]
    /\ \A s \in Segment : Fold[Fold[s]] = Fold[s]

Operation == {"read", "search", "write", "readwrite"}

\* An access is globally exclusive ("all"), or names a file, or a whole tree.
All == [kind |-> "all"]
File(op, path, rec) == [kind |-> "file", operation |-> op, path |-> path, recursive |-> rec]

IsAccess(a) ==
    \/ a = All
    \/ /\ a = File(a.operation, a.path, a.recursive)
       /\ a.operation \in Operation
       /\ a.path \in Seq(Segment)
       /\ a.recursive \in BOOLEAN

fileOperationWrites(op) == op \in {"write", "readwrite"}

fileOperationsConflict(l, r) == fileOperationWrites(l) \/ fileOperationWrites(r)

\* The path whose segments are f of the segments of p that are not empty.
Collapse(p, f(_)) ==
    FlattenSeq([i \in DOMAIN p |-> IF p[i] = Empty THEN <<>> ELSE <<f(p[i])>>])

\* Mutant: the case of a segment is kept.
normalizePathKeepsCase(p) == Collapse(p, LAMBDA s : s)

\* Separators unified and collapsed, case folded, a trailing separator dropped.
normalizePath(p) == Collapse(p, LAMBDA s : Fold[s])

\* Mutant: only the left access is taken for a tree.
fileAccessesOverlapLeft(left, right) ==
    LET l == normalizePath(left.path)
        r == normalizePath(right.path)
    IN  \/ l = r
        \/ left.recursive /\ IsStrictPrefix(l, r)

\* One is the other, or lies below the other and the other is recursive.
fileAccessesOverlap(left, right) ==
    LET l == normalizePath(left.path)
        r == normalizePath(right.path)
    IN  \/ l = r
        \/ left.recursive  /\ IsStrictPrefix(l, r)
        \/ right.recursive /\ IsStrictPrefix(r, l)

resourceAccessesConflict(l, r) ==
    \/ l.kind = "all" \/ r.kind = "all"
    \/ /\ fileOperationsConflict(l.operation, r.operation)
       /\ fileAccessesOverlap(l, r)

\* Two sets of declared accesses; the empty one conflicts with nothing.
conflict(left, right) ==
    \E l \in left, r \in right : resourceAccessesConflict(l, r)

-----------------------------------------------------------------------------
(***************************************************************************)
(* What the conflict test is for: the nodes of the file system an access   *)
(* may touch, by canonical path.                                           *)
(***************************************************************************)

Touches(a, node) ==
    \/ a.kind = "all"
    \/ /\ a.kind = "file"
       /\ \/ node = normalizePath(a.path)
          \/ a.recursive /\ IsStrictPrefix(normalizePath(a.path), node)

Mutates(a, node) == Touches(a, node) /\ (a.kind = "all" \/ fileOperationWrites(a.operation))

\* Two accesses race on a node when both touch it and at least one changes it.
RaceOn(l, r, node) ==
    /\ Touches(l, node)
    /\ Touches(r, node)
    /\ Mutates(l, node) \/ Mutates(r, node)

\* The node a path leads to on a disk that tells no cases apart, found without the
\* normalisation above: from the root, one segment after the other.
Walk(p) ==
    LET at[i \in 0 .. Len(p)] ==
            IF i = 0 THEN <<>>
            ELSE IF p[i] = Empty THEN at[i - 1]
            ELSE Append(at[i - 1], Fold[p[i]])
    IN  at[Len(p)]

OnDisk(a, node) ==
    a = All \/ node = Walk(a.path) \/ (a.recursive /\ IsPrefix(Walk(a.path), node))

ReadsOnly(a) == a # All /\ a.operation \in {"read", "search"}
=============================================================================
