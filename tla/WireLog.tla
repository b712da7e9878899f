------------------------------ MODULE WireLog ------------------------------
(***************************************************************************)
(* The wire log of an agent: FileSystemAgentRecordPersistence              *)
(* (agent/records/persistence.ts) under AgentRecords.logRecord and replay  *)
(* (agent/records/index.ts).  Records queue in memory, a drain writes them *)
(* in batches, a resume reads the file, rewrites a file of an older        *)
(* version and compacts one that holds much folded history.                *)
(*                                                                         *)
(* A record is its kind and a number.  "meta" is the header of this        *)
(* version, "old" that of an older one, "fold" any record a snapshot       *)
(* supersedes, "snap" a snapshot, "keep" a record that is never folded,    *)
(* and a member of Turns a stream draft of that turn.  A line is the       *)
(* record its first bytes announce, whether it is torn (does not parse)    *)
(* and whether a newline ends it.  "raw" is the kind of a torn line too    *)
(* short to tell.                                                          *)
(*                                                                         *)
(* disk is what the last fsync made durable; file is what a reader sees.   *)
(* A crash loses any suffix of what was written since, and may cut a line  *)
(* in two; what it leaves is durable from then on.  That nothing happens   *)
(* between the return of flush() inside compact() and its next statement   *)
(* is an assumption: no code appends in the microtask between them.        *)
(***************************************************************************)
EXTENDS Integers, Sequences, FiniteSetsExt, SequencesExt

CONSTANTS Turns,        \* turns that stream drafts
          MaxRecords,   \* bound: records logged
          MaxCrashes    \* bound: crashes

Kinds == {"meta", "old", "fold", "snap", "keep", "raw"} \cup Turns

ASSUME BoundsAssumption == MaxRecords \in Nat /\ MaxCrashes \in Nat
ASSUME TurnsAssumption ==
  Turns \cap {"meta", "old", "fold", "snap", "keep", "raw"} = {}

VARIABLES up,         \* the process runs
          file, disk, \* lines a reader sees; lines a power loss leaves
          pending,    \* pendingRecords
          clear,      \* shouldClear
          draining,   \* a flushPromise is under way
          batch,      \* drainBatch: what it took, and whether it replaces the file
          written,    \* drainBatch: it waits for the fsync
          comp, tmp,  \* compact(): where it stands; its copy, and the file it copied
          failed,     \* error, which sticks
          hasMeta,    \* metadataInitialized
          logged,     \* every record handed to append, in order
          acked,      \* the last record a returned flush() covers
          joined,     \* some write has continued a line that no newline ended
          crashes

vars == <<up, file, disk, pending, clear, draining, batch, written, comp, tmp,
          failed, hasMeta, logged, acked, joined, crashes>>

Rec(k, n) == [kind |-> k, id |-> n]
Line(r) == [rec |-> r, torn |-> FALSE, ended |-> TRUE]
Lines(rs) == [i \in 1..Len(rs) |-> Line(rs[i])]
NoBatch == [recs |-> <<>>, clear |-> FALSE]
NoCopy == [lines |-> <<>>, of |-> <<>>]

-----------------------------------------------------------------------------
(* Reading *)

HeaderIsCurrent(f) ==
  Len(f) > 0 /\ f[1].ended /\ ~f[1].torn /\ f[1].rec.kind = "meta"

LastSnapshotLine(f) ==
  Max({0} \cup {i \in 1..Len(f) : f[i].ended /\ f[i].rec.kind = "snap"})

\* Mutant: a torn tail counts as its turn's last draft.
DraftLastLineTorn(f, t) == Max({0} \cup {i \in 1..Len(f) : f[i].rec.kind = t})

\* A tail that no newline ends counts only if it parses.
DraftLastLine(f, t) ==
  Max({0} \cup {i \in 1..Len(f) : f[i].rec.kind = t /\ (f[i].ended \/ ~f[i].torn)})

\* The lines a reader decodes and compact() copies.
KeepLine(f, i) ==
  \/ i = 1 \/ ~HeaderIsCurrent(f)
  \/ /\ f[i].rec.kind \in Turns => DraftLastLine(f, f[i].rec.kind) = i
     /\ ~(f[i].rec.kind = "fold" /\ i < LastSnapshotLine(f))

KeptLines(f) == FlattenSeq([i \in DOMAIN f |-> IF KeepLine(f, i) THEN <<f[i]>> ELSE <<>>])

\* A retained line that does not parse stops the read, unless it is the unended tail.
Corrupt(f) == \E i \in 1..Len(f) : KeepLine(f, i) /\ f[i].ended /\ f[i].torn

\* The records read() yields.
Read(f) ==
  FlattenSeq([i \in DOMAIN f |-> IF KeepLine(f, i) /\ ~f[i].torn THEN <<f[i].rec>> ELSE <<>>])

\* The records that count once the fast paths have dropped what is superseded.
Effective(rs) ==
  LET Superseded(i) ==
        \/ rs[i].kind \in Turns /\ \E j \in i+1..Len(rs) : rs[j].kind = rs[i].kind
        \/ rs[i].kind = "fold" /\ \E j \in i+1..Len(rs) : rs[j].kind = "snap"
  IN  FlattenSeq([i \in DOMAIN rs |-> IF Superseded(i) THEN <<>> ELSE <<rs[i].id>>])

\* What a resume restores, comparable with the records logged: a snapshot that no newline
\* ends escapes the scan, and is restored over the folded records before it.
Restored(f) == Effective(Read(f))

-----------------------------------------------------------------------------
(* Writing *)

\* Appended bytes continue a line that no newline ends; the result does not parse.
AppendLines(f, rs) ==
  IF Len(rs) > 0 /\ Len(f) > 0 /\ ~Last(f).ended
  THEN Front(f) \o <<[Last(f) EXCEPT !.torn = TRUE, !.ended = TRUE]>> \o Lines(Tail(rs))
  ELSE f \o Lines(rs)

Joins == ~batch.clear /\ Len(file) > 0 /\ ~Last(file).ended

\* What may be left of line l when only a part of it was written: too little to tell its
\* kind, a beginning of it, or all but its newline.
Cut(l) == {[l EXCEPT !.rec.kind = "raw", !.torn = TRUE, !.ended = FALSE],
           [l EXCEPT !.torn = TRUE, !.ended = FALSE],
           [l EXCEPT !.ended = FALSE]}

\* What may be left of g when only base, a prefix of it up to its last line, is sure.
Survivors(base, g) ==
  LET unsure == {k \in 1..Len(g) : k > Len(base) \/ g[k] # base[k]}
  IN  {base, g} \cup {SubSeq(g, 1, k) : k \in unsure}
      \cup UNION {{Append(SubSeq(g, 1, k - 1), c) : c \in Cut(g[k])} : k \in unsure}

\* ensureFlush() starts no drain.
Busy == draining \/ comp # "no"

\* drainPendingRecords up to its first await: a batch takes all that waits.
Drain(p, c) ==
  IF comp' = "no" /\ (c \/ p # <<>>)
  THEN /\ draining' = TRUE /\ batch' = [recs |-> p, clear |-> c]
       /\ pending' = <<>> /\ clear' = FALSE
  ELSE /\ draining' = FALSE /\ batch' = NoBatch
       /\ pending' = p /\ clear' = c

Init ==
  /\ up = FALSE
  /\ \E f \in {<<>>, <<Rec("old", 1), Rec("fold", 2)>>} :
       /\ file = Lines(f) /\ logged = f /\ acked = Len(f)
  /\ disk = file
  /\ pending = <<>> /\ clear = FALSE /\ draining = FALSE
  /\ batch = NoBatch /\ written = FALSE
  /\ comp = "no" /\ tmp = NoCopy /\ failed = FALSE /\ hasMeta = FALSE
  /\ joined = FALSE /\ crashes = 0

LastId == IF logged = <<>> THEN 0 ELSE Last(logged).id

\* logRecord: the header goes first.  A drain that is idle takes the first record at
\* once, in append(); what follows in the same frame waits.
LogRecord ==
  /\ up /\ ~failed
  /\ \E k \in {"fold", "snap", "keep"} \cup Turns :
       LET new == IF hasMeta THEN <<Rec(k, LastId + 1)>>
                  ELSE <<Rec("meta", LastId + 1), Rec(k, LastId + 2)>>
       IN  /\ LastId + Len(new) <= MaxRecords
           /\ logged' = logged \o new
           /\ IF Busy
              THEN pending' = pending \o new /\ UNCHANGED <<clear, draining, batch>>
              ELSE /\ draining' = TRUE /\ clear' = FALSE
                   /\ batch' = [recs |-> pending \o <<Head(new)>>, clear |-> clear]
                   /\ pending' = Tail(new)
  /\ hasMeta' = TRUE
  /\ UNCHANGED <<up, file, disk, written, comp, tmp, failed, acked, joined,
                 crashes>>

\* drainBatch: a rewrite goes to a temporary file that is synced and renamed, other
\* batches are appended.
WriteBatch ==
  /\ up /\ draining /\ ~written
  /\ IF batch.clear
     THEN file' = Lines(batch.recs) /\ disk' = file'
     ELSE file' = AppendLines(file, batch.recs) /\ UNCHANGED disk
  /\ written' = TRUE
  /\ joined' = (joined \/ Joins)
  /\ UNCHANGED <<up, pending, clear, draining, batch, comp, tmp, failed, hasMeta,
                 logged, acked, crashes>>

\* A write or the fsync fails: the batch is lost but for what reached the file, and the
\* error sticks.
WriteFails ==
  /\ up /\ draining
  /\ IF batch.clear \/ written THEN UNCHANGED <<file, joined>>
     ELSE /\ file' \in Survivors(file, AppendLines(file, batch.recs))
          /\ joined' = (joined \/ Joins)
  /\ failed' = TRUE /\ draining' = FALSE /\ batch' = NoBatch /\ written' = FALSE
  /\ UNCHANGED <<up, disk, pending, clear, comp, tmp, hasMeta, logged, acked, crashes>>

\* Mutant: nothing takes what was appended during the batch.
SyncBatchStops ==
  /\ up /\ draining /\ written
  /\ disk' = file /\ written' = FALSE /\ draining' = FALSE /\ batch' = NoBatch
  /\ UNCHANGED <<up, file, pending, clear, comp, tmp, failed, hasMeta, logged, acked,
                 joined, crashes>>

\* The fsync returns, and the loop takes the next batch.
SyncBatch ==
  /\ up /\ draining /\ written
  /\ disk' = file /\ written' = FALSE
  /\ comp' = comp
  /\ Drain(pending, clear)
  /\ UNCHANGED <<up, file, tmp, failed, hasMeta, logged, acked, joined, crashes>>

\* flush() returns to a caller: nothing is pending and no drain runs.
FlushReturns ==
  /\ up /\ ~failed /\ comp = "no"
  /\ ~draining /\ ~clear /\ pending = <<>>
  /\ acked' = LastId
  /\ UNCHANGED <<up, file, disk, pending, clear, draining, batch, written, comp, tmp,
                 failed, hasMeta, logged, joined, crashes>>

-----------------------------------------------------------------------------
(* Resume: replay(), then a rewrite of a migrated log or a compaction. *)

Reset == /\ written' = FALSE /\ failed' = FALSE /\ tmp' = NoCopy /\ up' = TRUE

Resume ==
  /\ ~up /\ ~Corrupt(file)
  /\ Reset
  /\ LET rs == Read(file)
         migrates == Len(rs) > 0 /\ rs[1].kind = "old"
         now == IF migrates THEN <<[rs[1] EXCEPT !.kind = "meta"]>> \o Tail(rs) ELSE rs
     IN  /\ logged' = now
         /\ hasMeta' = (Len(rs) > 0)
         /\ \E c \in BOOLEAN :
              /\ c => ~migrates /\ Len(KeptLines(file)) < Len(file)
              /\ comp' = IF c THEN "copy" ELSE "no"
         /\ IF migrates THEN Drain(now, TRUE) ELSE Drain(<<>>, FALSE)
  /\ UNCHANGED <<file, disk, acked, joined, crashes>>

\* Mutant: the copy ends at the last newline.
copyEndedLines(f) == SelectSeq(KeptLines(f), LAMBDA l : l.ended)

\* What compact() keeps: the lines a reader decodes, the unended tail included.
copyRetainingLines(f) == KeptLines(f)

CompactCopy ==
  /\ up /\ comp = "copy"
  /\ tmp' = [lines |-> copyRetainingLines(file), of |-> file] /\ comp' = "check"
  /\ UNCHANGED <<up, file, disk, pending, clear, draining, batch, written, failed,
                 hasMeta, logged, acked, joined, crashes>>

\* The second stat: a file that changed meanwhile stays.
CompactCheck ==
  /\ up /\ comp = "check"
  /\ comp' = IF tmp.of = file THEN "swap" ELSE "no"
  /\ IF comp' = "no" THEN Drain(pending, clear)
     ELSE UNCHANGED <<pending, clear, draining, batch>>
  /\ UNCHANGED <<up, file, disk, written, tmp, failed, hasMeta, logged, acked, joined,
                 crashes>>

\* Mutant: the drain that was held back is not started.
CompactSwapQuiet ==
  /\ up /\ comp = "swap"
  /\ file' = tmp.lines /\ disk' = file' /\ tmp' = NoCopy /\ comp' = "no"
  /\ UNCHANGED <<up, pending, clear, draining, batch, written, failed, hasMeta, logged,
                 acked, joined, crashes>>

CompactSwap ==
  /\ up /\ comp = "swap"
  /\ file' = tmp.lines /\ disk' = file' /\ tmp' = NoCopy /\ comp' = "no"
  /\ Drain(pending, clear)
  /\ UNCHANGED <<up, written, failed, hasMeta, logged, acked, joined, crashes>>

Crash ==
  /\ up /\ crashes < MaxCrashes
  /\ crashes' = crashes + 1
  /\ up' = FALSE
  /\ file' \in Survivors(disk, file) /\ disk' = file'
  /\ pending' = <<>> /\ clear' = FALSE /\ draining' = FALSE
  /\ batch' = NoBatch /\ written' = FALSE
  /\ comp' = "no" /\ tmp' = NoCopy /\ failed' = FALSE /\ hasMeta' = FALSE
  /\ UNCHANGED <<logged, acked, joined>>

Next ==
  \/ LogRecord \/ WriteBatch \/ WriteFails \/ SyncBatch \/ FlushReturns
  \/ Resume \/ CompactCopy \/ CompactCheck \/ CompactSwap \/ Crash

Spec == Init /\ [][Next]_vars

\* Disk operations and the resume complete; nobody has to log, flush, fail or crash.
FairSpec ==
  /\ Spec
  /\ WF_vars(WriteBatch \/ WriteFails) /\ WF_vars(SyncBatch)
  /\ WF_vars(CompactCopy) /\ WF_vars(CompactCheck) /\ WF_vars(CompactSwap)

-----------------------------------------------------------------------------
(* Properties *)

\* Whatever a crash leaves of the log, a resume reads it and restores what a prefix of the
\* logged records comes to, one that holds every record a returned flush() covered: drains,
\* folding, drafts, migration and compaction lose and reorder nothing.  (Until a write has
\* continued a torn line: see ResumeReads.)
ResumeSound ==
  ~up /\ ~joined =>
    /\ ~Corrupt(file)
    /\ \E k \in 0..Len(logged) :
         /\ Restored(file) = Effective(SubSeq(logged, 1, k))
         /\ \A i \in 1..Len(logged) : logged[i].id <= acked => i <= k

\* Compacting the log, on its own, changes nothing a resume would restore.
CompactionSilent == [][comp = "swap" /\ up' => Restored(file') = Restored(file)]_vars

\* While compact() runs no batch is being written: it would go to the file that is about
\* to be replaced.
SwapAlone == comp # "no" => ~draining /\ batch = NoBatch

\* When flush() may return, nothing waits and the disk holds what a reader sees: no wake-up
\* of the drain is lost, over batches, failures, rewrites and compaction.
FlushMeansDisk ==
  up /\ ~failed /\ comp = "no" /\ ~draining => pending = <<>> /\ ~clear /\ disk = file

\* Records handed to append reach the disk without anyone calling flush(), those included
\* that came while the log was compacted; unless a write failed or the process died.
LandsOnDisk ==
  (up /\ pending # <<>>) ~> (~up \/ failed \/ (pending = <<>> /\ ~draining /\ disk = file))

\* The comment in parseRecordLine says a truncated trailing line is tolerated and
\* everything before it is well-formed: a resume reads whatever a crash left.
ResumeReads == ~up => ~Corrupt(file)
=============================================================================
