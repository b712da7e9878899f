----------------------------- MODULE Compaction -----------------------------
(***************************************************************************)
(* The conversation of an agent while it is cut: compactions that run      *)
(* beside its turns (agent/compaction/full.ts), undo and clear, and the    *)
(* log a resume replays (agent/records/index.ts).                          *)
(*                                                                         *)
(* A compaction is begun by a turn that runs out of room or by the user.   *)
(* Its worker asks the model for a summary of the messages up to a cut     *)
(* chosen at the start, while turn and user go on, and may come back long  *)
(* after it was cancelled.  A turn waits for it when there is no room      *)
(* left, two minutes at most.                                              *)
(*                                                                         *)
(* The turn is TurnFlow's, cut down to what a compaction can tell: one     *)
(* step after the other, no steers.  Sizes are free choices.  /compact,    *)
(* /revoke and /clear come while no turn runs: the TUI and the chat lines  *)
(* see to that.  Left out: the compaction after a truncated answer, the    *)
(* memos drawn from a summary, projection edits, micro compaction.         *)
(***************************************************************************)
EXTENDS Projector

CONSTANTS
    MaxInputs,        \* bound: prompts
    MaxSteps,         \* bound: steps
    MaxCalls,         \* bound: calls in a step
    MaxCompactions,   \* bound: compactions begun
    MaxEdits,         \* bound: undo and clear
    MaxCrashes,       \* bound: crashes
    MaxFailures,      \* MAX_CONSECUTIVE_FAILURES
    MaxPerTurn        \* maxCompactionPerTurn

ASSUME CompactionAssumption ==
    /\ MaxInputs \in Nat /\ MaxSteps \in Nat /\ MaxCalls \in Nat
    /\ MaxCompactions \in Nat /\ MaxEdits \in Nat /\ MaxCrashes \in Nat
    /\ MaxFailures \in Nat \ {0} /\ MaxPerTurn \in Nat \ {0}

Workers == 1 .. MaxCompactions

VARIABLES
    ctx,
    wire,         \* the conversation a replay of the log rebuilds, from its last snapshot on
    aliased,      \* open steps of a snapshot that is not serialised yet
    turn,         \* the turn's worker
    compacting,   \* the compaction in flight, or 0
    work,         \* [Workers -> the state of a compaction's worker]
    timedOut,     \* compactionTimedOut
    failures,     \* consecutiveCompactionFailures
    count,        \* compactionCountInTurn
    reactive,     \* reactiveAttempted
    inputs, steps, begun, edits, crashes,
    kept,         \* history: inputs the user gave and did not take back
    doubled,      \* history: a step wrote to a message of a snapshot not yet serialised
    damaged       \* history: cut, or gone on with, while a crash had left a tool exchange open

memory == <<ctx, wire, aliased, doubled>>
breaker == <<timedOut, failures, count, reactive>>
vars == <<memory, turn, compacting, work, breaker, inputs, steps, begun, edits, crashes,
          kept, damaged>>

\* pc: idle; before (the beforeStep hook), blocked, send, llm, tools, ending.
Idle == [pc |-> "idle", aborted |-> FALSE, waits |-> 0, overflow |-> FALSE,
         calls |-> 0, called |-> 0, answered |-> 0]

\* blocked: blockedByTurn; outcome: what the promise of the worker comes to.
Unborn == [pc |-> "unborn", history |-> <<>>, cut |-> 0, aborted |-> FALSE,
           blocked |-> FALSE, outcome |-> "none"]

Init ==
    /\ ctx = EmptyContext /\ wire = EmptyContext /\ aliased = {}
    /\ turn = Idle /\ compacting = 0 /\ work = [w \in Workers |-> Unborn]
    /\ timedOut = FALSE /\ failures = 0 /\ count = 0 /\ reactive = FALSE
    /\ inputs = 0 /\ steps = 0 /\ begun = 0 /\ edits = 0 /\ crashes = 0
    /\ kept = <<>> /\ doubled = FALSE /\ damaged = FALSE

Goto(pc) == turn' = [turn EXCEPT !.pc = pc]

-----------------------------------------------------------------------------
(* Records *)

\* What a record does, applied or replayed.
restore(c, r) ==
    CASE r.type = "message" -> appendMessage(c, <<Input(r.input)>>)
      [] r.type = "step.begin" -> stepBegin(c, r.step)
      [] r.type = "step.end" -> stepEnd(c)
      [] r.type = "content.part" -> contentPart(c, r.step)
      [] r.type = "tool.call" -> toolCall(c, r.step, r.id)
      [] r.type = "tool.result" -> toolResult(c, r.id)
      [] r.type = "clear" -> clear(c)
      [] r.type = "undo" -> undo(c)

\* A resume drops what no provider would take.
Replay == dropVacuousOpenMessages(wire)

\* A record is logged, then applied.  A snapshot holds the messages themselves and is
\* serialised when the queue gets to it: until then what an open step adds to its message
\* shows in the snapshot, and comes again as a record.
Log(r) ==
    LET again == r.type \in {"content.part", "tool.call"} /\ r.step \in aliased
    IN  /\ wire' = IF again THEN restore(restore(wire, r), r) ELSE restore(wire, r)
        /\ doubled' = (doubled \/ again)
        /\ UNCHANGED aliased

Record(r) == Log(r) /\ ctx' = restore(ctx, r)

SnapshotWritten ==
    /\ aliased # {} /\ aliased' = {}
    /\ UNCHANGED <<ctx, wire, doubled, turn, compacting, work, breaker, inputs, steps, begun,
                   edits, crashes, kept, damaged>>

-----------------------------------------------------------------------------
(* Compactions *)

\* Are these one message object?  Its content may have changed meanwhile.
same(a, b) ==
    /\ a.role = b.role
    /\ \/ a.role = "user" /\ a.input = b.input
       \/ a.role = "assistant" /\ a.step = b.step
       \/ a.role = "tool" /\ a.toolCallId = b.toolCallId

\* May a summary end with message i?  Not with words that wait for an answer, not
\* with calls, and not in front of a result.
canSplitAfter(h, i) ==
    /\ h[i].role # "user"
    /\ ~ (h[i].role = "assistant" /\ h[i].toolCalls # <<>>)
    /\ i < Len(h) => h[i + 1].role # "tool"

splits(h) == {i \in DOMAIN h : canSplitAfter(h, i)}

\* The cuts computeCompactCount() chooses among: a turn keeps a message at least, and its
\* budgets decide how many; the user's compaction takes all it can.
cuts(source) ==
    LET h == ctx.history
    IN  IF source = "auto" THEN splits(h) \ {Len(h)}
        ELSE LET found == splits(h) \ {1} IN IF found = {} THEN {} ELSE {Max(found)}

\* A summary that does not fit either is tried over fewer messages.
reduced(w) ==
    LET h == SubSeq(work[w].history, 1, work[w].cut)
    IN  {Len(h)} \cup (splits(h) \ {1, Len(h)})

\* begin(): one at a time, within the limit, and where there is a cut.  Whether the turn
\* waits for it is settled in the same step.
Begin(source, blocked) ==
    /\ compacting = 0
    /\ count' = IF source = "manual" THEN 0 ELSE count + 1
    /\ count' <= MaxPerTurn
    /\ \/ /\ cuts(source) = {}
          /\ UNCHANGED <<compacting, work, begun, damaged>>
       \/ /\ begun < MaxCompactions
          /\ begun' = begun + 1 /\ compacting' = begun'
          /\ \E n \in cuts(source) :
               work' = [work EXCEPT ![begun'] = [Unborn EXCEPT !.pc = "busy",
                                                     !.history = ctx.history, !.cut = n,
                                                     !.blocked = blocked]]
          /\ damaged' = (damaged \/ hasOpenToolExchange(ctx))

\* A turn begins one unless the circuit breaker is open.
BeginAuto(blocked) == failures < MaxFailures /\ Begin("auto", blocked)

\* None begins.  The one in flight, if there is one, is told that the turn waits for it.
BeginNone(blocked) ==
    /\ work' = IF blocked /\ compacting # 0
               THEN [work EXCEPT ![compacting].blocked = TRUE] ELSE work
    /\ UNCHANGED <<compacting, count, begun, damaged>>

\* markCanceled(), when a compaction is in flight.
markCanceled(ws) == [ws EXCEPT ![compacting].aborted = TRUE]

\* The user cancels the compaction.
CancelCompaction ==
    /\ compacting # 0 /\ compacting' = 0
    /\ work' = markCanceled(work)
    /\ UNCHANGED <<memory, turn, breaker, inputs, steps, begun, edits, crashes, kept, damaged>>

\* Mutant: the history is not looked at again.
unchangedAnyway(w) == TRUE

\* Does the history still begin with the messages the worker started from?
unchangedSince(w) ==
    LET then == work[w].history
    IN  /\ Len(then) <= Len(ctx.history)
        /\ \A i \in DOMAIN then : same(then[i], ctx.history[i])

\* Mutant: the steps that are open are not in the snapshot.
snapshotWithoutSteps(c) == [c EXCEPT !.openSteps = {}]

\* A step is saved as the place of its message; one whose message is gone is lost.
toJSONSnapshot(c) ==
    [c EXCEPT !.openSteps = @ \cap {m.step : m \in
        {h \in Range(c.history) : h.role = "assistant"}}]

\* The step that may still write to its message.
InFlight == IF turn.pc \in {"llm", "tools"} THEN {steps} ELSE {}

\* Mutant: the owner is not asked for; who finds the history changed cancels what runs.
SummarisedAnyway(w) ==
    /\ work[w].pc = "busy"
    /\ work' = [work EXCEPT ![w] = [Unborn EXCEPT !.pc = "over", !.outcome = "ok"]]
    /\ compacting' = 0
    /\ IF unchangedSince(w)
       THEN /\ \E n \in reduced(w) :
                 ctx' = applyCompaction(ctx, Summary(w, SubSeq(work[w].history, 1, n)), n)
            /\ wire' = toJSONSnapshot(ctx') /\ aliased' = ctx'.openSteps \cap InFlight
            /\ failures' = 0
            /\ UNCHANGED doubled
       ELSE UNCHANGED <<memory, failures>>
    /\ UNCHANGED <<turn, timedOut, count, reactive, inputs, steps, begun, edits, crashes,
                   kept, damaged>>

\* The summary is there.  A worker that was cancelled, or that finds the history changed,
\* leaves the conversation alone.
Summarised(w) ==
    /\ work[w].pc = "busy"
    /\ work' = [work EXCEPT ![w] = [Unborn EXCEPT !.pc = "over", !.outcome = "ok"]]
    /\ compacting' = IF compacting = w THEN 0 ELSE compacting
    /\ IF compacting = w /\ unchangedSince(w)
       THEN /\ \E n \in reduced(w) :
                 ctx' = applyCompaction(ctx, Summary(w, SubSeq(work[w].history, 1, n)), n)
            /\ wire' = toJSONSnapshot(ctx') /\ aliased' = ctx'.openSteps \cap InFlight
            /\ failures' = 0
            /\ UNCHANGED doubled
       ELSE UNCHANGED <<memory, failures>>
    /\ UNCHANGED <<turn, timedOut, count, reactive, inputs, steps, begun, edits, crashes,
                   kept, damaged>>

\* The request fails, or is aborted.  A late worker spoils nothing of a newer one; the
\* owner's failure reaches the turn that waits for it.
Failed(w) ==
    /\ work[w].pc = "busy"
    /\ LET stale == compacting \notin {0, w}
           late  == ~ stale /\ timedOut
       IN  \E abort \in {FALSE} \cup {work[w].aborted} :
             /\ timedOut' = (stale /\ timedOut)
             /\ IF abort /\ ~ late
                THEN /\ work' = [work EXCEPT ![w] = [Unborn EXCEPT !.pc = "over",
                                                                  !.outcome = "ok"]]
                     /\ UNCHANGED <<compacting, failures>>
                ELSE /\ failures' = IF stale THEN failures ELSE failures + 1
                     /\ compacting' = IF stale THEN compacting ELSE 0
                     /\ work' = [work EXCEPT ![w] = [Unborn EXCEPT !.pc = "over",
                                  !.outcome = IF work[w].blocked /\ ~ stale
                                              THEN "failed" ELSE "ok"]]
    /\ UNCHANGED <<memory, turn, count, reactive, inputs, steps, begun, edits, crashes, kept,
                   damaged>>

\* Manual /compact.
Compact ==
    /\ turn.pc = "idle" /\ Begin("manual", FALSE)
    /\ UNCHANGED <<memory, turn, timedOut, failures, reactive, inputs, steps, edits, crashes,
                   kept>>

-----------------------------------------------------------------------------
(* The turn *)

Prompt ==
    /\ turn.pc = "idle" /\ inputs < MaxInputs
    /\ inputs' = inputs + 1 /\ kept' = Append(kept, inputs')
    /\ Record([type |-> "message", input |-> inputs'])
    /\ Goto("before")
    /\ count' = 0 /\ failures' = 0 /\ reactive' = FALSE
    /\ UNCHANGED <<compacting, work, timedOut, steps, begun, edits, crashes, damaged>>

\* The turn is told to stop; if it waits for the compaction that goes too.
Cancel ==
    /\ turn.pc # "idle" /\ ~ turn.aborted
    /\ turn' = [turn EXCEPT !.aborted = TRUE]
    /\ IF turn.pc = "blocked" /\ compacting = turn.waits
       THEN compacting' = 0 /\ work' = markCanceled(work)
       ELSE UNCHANGED <<compacting, work>>
    /\ UNCHANGED <<memory, breaker, inputs, steps, begun, edits, crashes, kept, damaged>>

\* block(): the turn waits for the compaction in flight, which has been told so.
Block(overflow) ==
    /\ compacting' # 0
    /\ turn' = [turn EXCEPT !.pc = "blocked", !.waits = compacting', !.overflow = overflow]

\* beforeStep: there is room; there is little, and a compaction begins or is known to run;
\* there is none, and the turn waits for it; or the limit is reached.
BeforeStep ==
    /\ turn.pc = "before"
    /\ \/ /\ turn.aborted
          /\ Goto("ending")
          /\ UNCHANGED <<compacting, work, count, begun, damaged>>
       \/ \E blocked \in BOOLEAN :
            /\ ~ turn.aborted
            /\ BeginNone(blocked) \/ BeginAuto(blocked)
            /\ IF blocked THEN Block(FALSE) ELSE Goto("send")
       \/ /\ ~ turn.aborted
          /\ compacting = 0 /\ failures < MaxFailures /\ count >= MaxPerTurn
          /\ Goto("ending")
          /\ UNCHANGED <<compacting, work, count, begun, damaged>>
    /\ UNCHANGED <<memory, timedOut, failures, reactive, inputs, steps, edits, crashes, kept>>

\* Mutant: the turn only stops waiting for the compaction, which goes on.
BlockTimeoutQuietly ==
    /\ turn.pc = "blocked" /\ compacting = turn.waits
    /\ timedOut' = TRUE /\ compacting' = 0
    /\ UNCHANGED <<memory, turn, work, failures, count, reactive, inputs, steps, begun, edits,
                   crashes, kept, damaged>>

\* Two minutes are over.
BlockTimeout ==
    /\ turn.pc = "blocked" /\ compacting = turn.waits
    /\ timedOut' = TRUE /\ compacting' = 0
    /\ work' = markCanceled(work)
    /\ UNCHANGED <<memory, turn, failures, count, reactive, inputs, steps, begun, edits,
                   crashes, kept, damaged>>

\* The worker has ended: the turn fails with it, goes on, or tries the request again.
Released ==
    /\ turn.pc = "blocked" /\ work[turn.waits].pc = "over"
    /\ turn' = [turn EXCEPT !.waits = 0, !.overflow = FALSE, !.pc =
                   IF work[turn.waits].outcome = "failed" \/ turn.aborted THEN "ending"
                   ELSE IF turn.overflow THEN "before" ELSE "send"]
    /\ UNCHANGED <<memory, compacting, work, breaker, inputs, steps, begun, edits, crashes,
                   kept, damaged>>

\* The request is built and sent.
StepBegin ==
    /\ turn.pc = "send"
    /\ IF turn.aborted
       THEN Goto("ending") /\ UNCHANGED <<memory, steps, damaged>>
       ELSE /\ steps < MaxSteps /\ steps' = steps + 1
            /\ Record([type |-> "step.begin", step |-> steps'])
            /\ Goto("llm")
            /\ damaged' = (damaged \/ hasOpenToolExchange(ctx))
    /\ UNCHANGED <<compacting, work, breaker, inputs, begun, edits, crashes, kept>>

\* A part of the answer that is not thinking is there.
ContentPart ==
    /\ turn.pc = "llm"
    /\ Record([type |-> "content.part", step |-> steps])
    /\ UNCHANGED <<turn, compacting, work, breaker, inputs, steps, begun, edits, crashes, kept,
                   damaged>>

LLMAnswers ==
    /\ turn.pc = "llm"
    /\ \E k \in 0 .. MaxCalls : turn' = [turn EXCEPT !.pc = "tools", !.calls = k]
    /\ UNCHANGED <<memory, compacting, work, breaker, inputs, steps, begun, edits, crashes,
                   kept, damaged>>

\* The request does not fit.  Once in a turn a compaction is waited for and the request
\* is tried again.
Overflow ==
    /\ turn.pc = "llm"
    /\ \/ /\ reactive \/ (compacting = 0 /\ (failures >= MaxFailures \/ count >= MaxPerTurn))
          /\ Goto("ending")
          /\ UNCHANGED <<compacting, work, count, reactive, begun, damaged>>
       \/ /\ ~ reactive /\ BeginAuto(FALSE) /\ compacting' = 0
          /\ Goto("ending")
          /\ UNCHANGED reactive
       \/ /\ ~ reactive /\ reactive' = TRUE
          /\ BeginNone(~ turn.aborted) \/ BeginAuto(~ turn.aborted)
          /\ compacting' # 0
          /\ IF turn.aborted THEN Goto("ending") ELSE Block(TRUE)
    /\ UNCHANGED <<memory, timedOut, failures, inputs, steps, edits, crashes, kept>>

Fail ==
    /\ turn.pc \in {"send", "llm"} /\ Goto("ending")
    /\ UNCHANGED <<memory, compacting, work, breaker, inputs, steps, begun, edits, crashes,
                   kept, damaged>>

ToolCall ==
    /\ turn.pc = "tools" /\ turn.called < turn.calls
    /\ turn' = [turn EXCEPT !.called = @ + 1]
    /\ Record([type |-> "tool.call", step |-> steps, id |-> <<steps, turn'.called>>])
    /\ UNCHANGED <<compacting, work, breaker, inputs, steps, begun, edits, crashes, kept,
                   damaged>>

ToolResult ==
    /\ turn.pc = "tools" /\ turn.called = turn.calls /\ turn.answered < turn.calls
    /\ turn' = [turn EXCEPT !.answered = @ + 1]
    /\ Record([type |-> "tool.result", id |-> <<steps, turn'.answered>>])
    /\ UNCHANGED <<compacting, work, breaker, inputs, steps, begun, edits, crashes, kept,
                   damaged>>

Seal ==
    /\ turn.pc = "tools" /\ turn.answered = turn.calls
    /\ IF turn.aborted
       THEN Goto("ending") /\ UNCHANGED memory
       ELSE Goto("after") /\ Record([type |-> "step.end"])
    /\ UNCHANGED <<compacting, work, breaker, inputs, steps, begun, edits, crashes, kept,
                   damaged>>

\* afterStep: a compaction may begin.  The turn goes on with another step, or ends.
AfterStep ==
    /\ turn.pc = "after"
    /\ BeginNone(FALSE) \/ BeginAuto(FALSE)
    /\ \E pc \in {"before", "ending"} :
         turn' = [turn EXCEPT !.pc = pc, !.calls = 0, !.called = 0, !.answered = 0]
    /\ UNCHANGED <<memory, timedOut, failures, reactive, inputs, steps, edits, crashes, kept>>

calledBefore(a, b) == a[1] < b[1] \/ (a[1] = b[1] /\ a[2] < b[2])

\* The calls in ids, in the order they were made.
recorded(ids) ==
    {s \in SetToSeqs(ids) : \A i, j \in DOMAIN s : i < j => calledBefore(s[i], s[j])}

\* The teardown: calls still without a result get one, messages no provider would take
\* are dropped, which is not logged.
End ==
    /\ turn.pc = "ending" /\ turn' = Idle
    /\ \E ids \in recorded(ctx.pendingToolResultIds) :
         /\ wire' = closeAbandonedToolExchange(wire, ids)
         /\ ctx' = dropVacuousOpenMessages(closeAbandonedToolExchange(ctx, ids))
    /\ UNCHANGED <<aliased, doubled, compacting, work, breaker, inputs, steps, begun, edits, crashes, kept,
                   damaged>>

-----------------------------------------------------------------------------
(* Between turns *)

\* /revoke: what the user takes back is the last prompt of the history.
Undo ==
    /\ turn.pc = "idle" /\ edits < MaxEdits /\ ctx.history # <<>>
    /\ edits' = edits + 1
    /\ Record([type |-> "undo"])
    /\ kept' = Select(kept, Range(Covered(ctx'.history) \o Inputs(ctx'.deferredMessages)))
    /\ damaged' = (damaged \/ hasOpenToolExchange(ctx))
    /\ UNCHANGED <<turn, compacting, work, breaker, inputs, steps, begun, crashes>>

Clear ==
    /\ turn.pc = "idle" /\ edits < MaxEdits
    /\ edits' = edits + 1
    /\ Record([type |-> "clear"])
    /\ kept' = <<>>
    /\ UNCHANGED <<turn, compacting, work, breaker, inputs, steps, begun, crashes, damaged>>

\* The process dies; a new one replays the log.  What a crash takes from the log itself
\* is WireLog's matter: here the log is complete.
CrashAndResume ==
    /\ crashes < MaxCrashes /\ aliased = {}
    /\ crashes' = crashes + 1
    /\ ctx' = Replay
    /\ turn' = Idle /\ compacting' = 0
    /\ work' = [w \in Workers |-> IF w <= begun THEN [Unborn EXCEPT !.pc = "over"] ELSE Unborn]
    /\ timedOut' = FALSE /\ failures' = 0 /\ count' = 0 /\ reactive' = FALSE
    /\ damaged' = (damaged \/ doubled)
    /\ UNCHANGED <<wire, aliased, doubled, inputs, steps, begun, edits, kept>>

\* The agent is at rest.
AtRest == turn.pc = "idle" /\ UNCHANGED vars

TurnStep ==
    \/ BeforeStep \/ Released \/ StepBegin \/ ContentPart \/ LLMAnswers \/ Overflow \/ Fail
    \/ ToolCall \/ ToolResult \/ Seal \/ AfterStep \/ End

Next ==
    \/ Prompt \/ Cancel \/ TurnStep \/ BlockTimeout
    \/ Compact \/ CancelCompaction \/ Undo \/ Clear
    \/ \E w \in Workers : Summarised(w) \/ Failed(w)
    \/ SnapshotWritten \/ CrashAndResume \/ AtRest

Spec == Init /\ [][Next]_vars

\* Timers fire, and what has been resolved is heard of.  A request that was aborted comes
\* back; one that was not may hang for ever.
Fairness ==
    /\ WF_vars(BlockTimeout) /\ WF_vars(Released)
    /\ \A w \in Workers : WF_vars(work[w].aborted /\ (Summarised(w) \/ Failed(w)))

FairSpec == Spec /\ Fairness

-----------------------------------------------------------------------------
(* Properties *)

request == project(ctx.history, TRUE)

\* When requests are built, and between turns.
AtRequest == turn.pc \in {"idle", "send"}

\* Each result of the history comes after its call, and is the one result of it.
Sane ==
    LET h == ctx.history
    IN  \A j \in Results(h) :
            /\ \E i \in 1 .. j - 1 : Answers(h, i, j)
            /\ \A k \in Results(h) \ {j} : h[k].toolCallId # h[j].toolCallId
            /\ Cardinality({i \in Calls(h) : Contains(h[i].toolCalls, h[j].toolCallId)}) = 1

\* However compactions, turns, edits and crashes interleave, no result of the history
\* loses its call: a summary never ends between the two, a step it finds open keeps its
\* message ("would orphan tool exchanges", applyCompaction), and a compaction whose
\* messages have changed is given up.
HistorySane == ~ damaged => Sane

\* A compaction that nobody cancelled is the one in flight: a late worker ends neither the
\* run of a newer one ("so it would misread the new history as a /revoke and cancel the
\* newer compaction", compactionWorker) nor its hold on the state.
OneCompaction == \A w \in Workers : work[w].pc = "busy" /\ ~ work[w].aborted => compacting = w

\* The conversation holds the inputs the user gave and did not take back, each once and in
\* their order, in its messages or covered by a summary: a late or repeated compaction
\* neither brings back what was undone nor swallows what came later.
Remembered == Covered(ctx.history) \o Inputs(ctx.deferredMessages) = kept

\* A resume would find the conversation as it is, but for messages no provider would
\* take: the snapshot is what the memory was when it was taken ("Persist a point-in-time
\* snapshot", applyCompaction), and the records behind it do the rest.
PointInTime ==
    LET live == dropVacuousOpenMessages(ctx)
    IN  /\ Replay.history = live.history
        /\ Replay.pendingToolResultIds = live.pendingToolResultIds
        /\ Replay.deferredMessages = live.deferredMessages

\* So it is unless a step wrote to a message of a snapshot that still waited to be
\* serialised.
ReplayMatches == ~ doubled => PointInTime

\* A turn that waits for a compaction goes on or ends, even if the provider never answers
\* (block: two minutes).
BlockedTurnGoesOn == turn.pc = "blocked" ~> turn.pc # "blocked"
=============================================================================
