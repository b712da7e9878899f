------------------------------ MODULE TurnFlow ------------------------------
(***************************************************************************)
(* The turns of one agent (agent/turn/index.ts) over its conversation      *)
(* (ContextMemory): prompts and steers arrive at any moment, a worker runs *)
(* each turn as a loop of model steps and tool batches (loop/run-turn.ts,  *)
(* loop/turn-step.ts, loop/tool-call.ts), a turn may be cancelled while    *)
(* its worker is still busy, and the process may die and resume.           *)
(*                                                                         *)
(* Every stretch of code between two awaits is one action.  A turn is      *)
(* named by the number of its launch.  A step's uuid is <<turn, step>>, a  *)
(* tool call's id <<turn, step, index>>.                                   *)
(*                                                                         *)
(* Left out: goal-driven turns, compaction and the retry after a context   *)
(* overflow, reminders and hook output.  A resume is one action: a session *)
(* takes no call before its resume() has returned.                         *)
(***************************************************************************)
EXTENDS Projector

CONSTANTS
    MaxTurns,      \* bound: turns launched
    MaxSteps,      \* the step budget of a turn (maxSteps), before the wrap-up step
    MaxCalls,      \* bound: tool calls in one step
    MaxRejected,   \* MAX_CONSECUTIVE_REJECTED_STEPS
    MaxInputs,     \* bound: prompts and steers
    MaxCrashes,    \* bound: crashes
    Overlap,       \* may a turn start while a cancelled worker winds down?
    None

ASSUME TurnFlowAssumption ==
    /\ MaxTurns \in Nat /\ MaxSteps \in Nat \ {0} /\ MaxCalls \in Nat
    /\ MaxRejected \in Nat \ {0} /\ MaxInputs \in Nat /\ MaxCrashes \in Nat
    /\ Overlap \in BOOLEAN
    /\ None \notin Nat

Turns == 1 .. MaxTurns

VARIABLES
    ctx,           \* the conversation
    wire,          \* the conversation a replay of the logged records rebuilds
    steerBuffer,   \* inputs waiting for the running turn
    activeTurn,    \* the turn in activeTurn, or None
    turnId,        \* turns launched so far; the current one
    worker,        \* [Turns -> the state of the turn's worker]
    inputs,        \* inputs accepted so far, numbered in that order
    crashes

vars == <<ctx, wire, steerBuffer, activeTurn, turnId, worker, inputs, crashes>>

\* pc: where the worker awaits.
\*   hook     the UserPromptSubmit hook        gate      the stop gate
\*   top      the head of the step loop        stopHook  the Stop hook
\*   before   the beforeStep hook              ending    on its way to teardown
\*   llm      the model's answer               ended
\*   tools    the tool batch
\* step counts the steps; calls, called and answered are the tool calls of the
\* model's answer and how many have their call and their result recorded;
\* executed says whether the batch runs them.
Idle ==
    [pc |-> "unborn", aborted |-> FALSE, prompt |-> 0, step |-> 0, calls |-> 0, called |-> 0,
     answered |-> 0, executed |-> FALSE, rejected |-> 0, failureStop |-> FALSE,
     stopHookUsed |-> FALSE]

Over == [Idle EXCEPT !.pc = "ended"]

pcs == {"unborn", "hook", "top", "before", "llm", "tools", "gate", "stopHook", "ending", "ended"}

WorkerState ==
    [pc : pcs, aborted : BOOLEAN, prompt : 0 .. MaxInputs, step : 0 .. MaxSteps + 1,
     calls : 0 .. MaxCalls, called : 0 .. MaxCalls, answered : 0 .. MaxCalls,
     executed : BOOLEAN, rejected : 0 .. MaxRejected, failureStop : BOOLEAN,
     stopHookUsed : BOOLEAN]

live(t) == worker[t].pc \notin {"unborn", "ended"}
uuid(t) == <<t, worker[t].step>>
callId(t, i) == <<t, worker[t].step, i>>

\* The order in which calls are recorded.
calledBefore(a, b) ==
    \/ a[1] < b[1]
    \/ a[1] = b[1] /\ (a[2] < b[2] \/ (a[2] = b[2] /\ a[3] < b[3]))

\* The calls in ids, in that order.
recorded(ids) ==
    {s \in SetToSeqs(ids) : \A i, j \in DOMAIN s : i < j => calledBefore(s[i], s[j])}

\* Mutant: one step beyond the wrap-up step.
finalStepLate(t) == worker[t].step > MaxSteps + 1

finalStep(t) == worker[t].step > MaxSteps

Init ==
    /\ ctx = EmptyContext
    /\ wire = EmptyContext
    /\ steerBuffer = <<>>
    /\ activeTurn = None
    /\ turnId = 0
    /\ worker = [t \in Turns |-> Idle]
    /\ inputs = 0
    /\ crashes = 0

\* An operation on the conversation is logged before it is applied.
Record(Op(_)) == ctx' = Op(ctx) /\ wire' = Op(wire)

Goto(t, pc) == worker' = [worker EXCEPT ![t].pc = pc]

Messages(ns) == [i \in DOMAIN ns |-> Input(ns[i])]

\* Steers go to the conversation in the order they came.
flushSteerBuffer ==
    /\ Record(LAMBDA c : appendMessage(c, Messages(steerBuffer)))
    /\ steerBuffer' = <<>>

-----------------------------------------------------------------------------
(* Calls from outside.                                                     *)

\* What the last turn left in the buffer goes before the prompt.
runOneTurn(n) ==
    /\ Record(LAMBDA c : appendMessage(c, Messages(Append(steerBuffer, n))))
    /\ steerBuffer' = <<>>

\* The worker starts in the frame that launches it, and gets as far as the
\* prompt hook.
launch(n) ==
    LET t == turnId + 1
    IN  /\ t \in Turns
        /\ Overlap \/ \A s \in Turns : ~ live(s)
        /\ turnId' = t
        /\ activeTurn' = t
        /\ worker' = [worker EXCEPT ![t] = [Idle EXCEPT !.pc = "hook", !.prompt = n]]
        /\ runOneTurn(n)

\* prompt() and steer() differ only while a session resumes.
PromptOrSteer ==
    /\ inputs < MaxInputs
    /\ inputs' = inputs + 1
    /\ \/ /\ activeTurn # None
          /\ steerBuffer' = Append(steerBuffer, inputs')
          /\ UNCHANGED <<ctx, wire, activeTurn, turnId, worker>>
       \/ /\ activeTurn = None
          /\ launch(inputs')
    /\ UNCHANGED crashes

\* The abort signal is all a worker hears of it; the turn is free at once.
\* A call that names a turn other than the current one is ignored.
Cancel ==
    /\ activeTurn # None
    /\ worker' = [worker EXCEPT ![activeTurn].aborted = TRUE]
    /\ activeTurn' = None
    /\ UNCHANGED <<ctx, wire, steerBuffer, turnId, inputs, crashes>>

-----------------------------------------------------------------------------
(* The worker of turn t.                                                   *)

\* A hook may block the prompt: the turn is over.
HookDone(t) ==
    /\ worker[t].pc = "hook"
    /\ \/ Goto(t, "ending")
       \/ ~ worker[t].aborted /\ Goto(t, "top")
    /\ UNCHANGED <<ctx, wire, steerBuffer, activeTurn, turnId, inputs, crashes>>

\* The step after the last of the budget is the wrap-up step.  A long run of
\* failed tool calls makes this step the turn's last as well.
BeginStep(t) ==
    /\ worker[t].pc = "top"
    /\ \/ /\ worker[t].aborted
          /\ Goto(t, "ending")
          /\ UNCHANGED <<ctx, wire, steerBuffer>>
       \/ /\ ~ worker[t].aborted
          /\ \E stop \in BOOLEAN :
               /\ worker[t].failureStop => stop
               /\ stop => worker[t].step > 0
               /\ worker' = [worker EXCEPT ![t].pc = "before", ![t].step = @ + 1,
                                           ![t].failureStop = stop]
          /\ flushSteerBuffer
    /\ UNCHANGED <<activeTurn, turnId, inputs, crashes>>

\* The request is built and sent.
StepBegin(t) ==
    /\ worker[t].pc = "before"
    /\ IF worker[t].aborted
       THEN Goto(t, "ending") /\ UNCHANGED <<ctx, wire>>
       ELSE Goto(t, "llm") /\ Record(LAMBDA c : stepBegin(c, uuid(t)))
    /\ UNCHANGED <<steerBuffer, activeTurn, turnId, inputs, crashes>>

\* A part of the answer that is not thinking arrives.
ContentPart(t) ==
    /\ worker[t].pc = "llm"
    /\ Record(LAMBDA c : contentPart(c, uuid(t)))
    /\ UNCHANGED <<steerBuffer, activeTurn, turnId, worker, inputs, crashes>>

\* The answer is complete.  Its tool calls run if it ended in the ordinary
\* way; if the stream broke off they are only recorded.
LLMAnswers(t) ==
    /\ worker[t].pc = "llm"
    /\ \E k \in 0 .. MaxCalls, executed \in BOOLEAN :
         /\ executed => k > 0
         /\ worker' = [worker EXCEPT ![t].pc = "tools", ![t].calls = k, ![t].executed = executed]
    /\ UNCHANGED <<ctx, wire, steerBuffer, activeTurn, turnId, inputs, crashes>>

\* The request or the compaction before it fails, or is aborted.
Fail(t) ==
    /\ worker[t].pc \in {"before", "llm"}
    /\ Goto(t, "ending")
    /\ UNCHANGED <<ctx, wire, steerBuffer, activeTurn, turnId, inputs, crashes>>

\* A batch that runs records all its calls first, also after an abort; calls
\* that do not run are recorded one with its result after the other.
ToolCall(t) ==
    /\ worker[t].pc = "tools"
    /\ worker[t].called < worker[t].calls
    /\ worker[t].executed \/ worker[t].answered = worker[t].called
    /\ worker' = [worker EXCEPT ![t].called = @ + 1]
    /\ Record(LAMBDA c : toolCall(c, uuid(t), callId(t, worker[t].called + 1)))
    /\ UNCHANGED <<steerBuffer, activeTurn, turnId, inputs, crashes>>

\* Mutant: an aborted batch is not drained.
ToolResultUnlessAborted(t) ==
    /\ worker[t].pc = "tools"
    /\ ~ worker[t].aborted
    /\ worker[t].answered < worker[t].called
    /\ worker[t].executed => worker[t].called = worker[t].calls
    /\ worker' = [worker EXCEPT ![t].answered = @ + 1]
    /\ Record(LAMBDA c : toolResult(c, callId(t, worker[t].answered + 1)))
    /\ UNCHANGED <<steerBuffer, activeTurn, turnId, inputs, crashes>>

\* Results come in the order of the calls, whatever order the tools end in.
ToolResult(t) ==
    /\ worker[t].pc = "tools"
    /\ worker[t].answered < worker[t].called
    /\ worker[t].executed => worker[t].called = worker[t].calls
    /\ worker' = [worker EXCEPT ![t].answered = @ + 1]
    /\ Record(LAMBDA c : toolResult(c, callId(t, worker[t].answered + 1)))
    /\ UNCHANGED <<steerBuffer, activeTurn, turnId, inputs, crashes>>

\* Where the loop goes after a step: the wrap-up step ends the turn, and so
\* does a run of steps whose calls were all rejected; a step that ran tools
\* is followed by another one unless a tool or the failure stop ended the
\* turn; any other answer is put to the stop gate.
AfterStep(t, rejected) ==
    IF finalStep(t) \/ rejected >= MaxRejected THEN {"ending"}
    ELSE IF worker[t].executed /\ ~ worker[t].failureStop THEN {"top", "gate"}
    ELSE {"gate"}

Seal(t) ==
    /\ worker[t].pc = "tools"
    /\ worker[t].answered = worker[t].calls
    /\ IF worker[t].aborted
       THEN Goto(t, "ending") /\ UNCHANGED <<ctx, wire>>
       ELSE /\ Record(stepEnd)
            /\ \E rejected \in
                   IF worker[t].executed
                   THEN {0, worker[t].rejected + 1} ELSE {worker[t].rejected} :
                 \E pc \in AfterStep(t, rejected) :
                    worker' = [worker EXCEPT ![t] = [@ EXCEPT !.pc = pc, !.rejected = rejected,
                                 !.calls = 0, !.called = 0, !.answered = 0, !.executed = FALSE]]
    /\ UNCHANGED <<steerBuffer, activeTurn, turnId, inputs, crashes>>

\* The answer would end the turn.  Steers continue it; so does a correction
\* (convergence gate, summary guard, output limit); then the Stop hook is asked.
Gate(t) ==
    /\ worker[t].pc = "gate"
    /\ \/ /\ worker[t].failureStop
          /\ Goto(t, "ending")
          /\ UNCHANGED <<ctx, wire, steerBuffer>>
       \/ /\ ~ worker[t].failureStop
          /\ steerBuffer # <<>>
          /\ flushSteerBuffer
          /\ Goto(t, "top")
       \/ /\ ~ worker[t].failureStop
          /\ steerBuffer = <<>>
          /\ Goto(t, "ending") \/ (~ worker[t].aborted /\ Goto(t, "top"))
                \/ (~ worker[t].aborted /\ ~ worker[t].stopHookUsed /\ Goto(t, "stopHook"))
          /\ UNCHANGED <<ctx, wire, steerBuffer>>
    /\ UNCHANGED <<activeTurn, turnId, inputs, crashes>>

\* The Stop hook answers, once in a turn with a block; steers that arrived
\* meanwhile are looked for again.
StopHook(t) ==
    /\ worker[t].pc = "stopHook"
    /\ \/ /\ ~ worker[t].aborted
          /\ worker' = [worker EXCEPT ![t].pc = "top", ![t].stopHookUsed = TRUE]
          /\ UNCHANGED <<ctx, wire, steerBuffer>>
       \/ /\ ~ worker[t].aborted
          /\ steerBuffer # <<>>
          /\ flushSteerBuffer
          /\ Goto(t, "top")
       \/ /\ worker[t].aborted \/ steerBuffer = <<>>
          /\ Goto(t, "ending")
          /\ UNCHANGED <<ctx, wire, steerBuffer>>
    /\ UNCHANGED <<activeTurn, turnId, inputs, crashes>>

\* Mutants: whichever turn is active is released; the results are not logged.
EndReleases(t) ==
    /\ worker[t].pc = "ending"
    /\ \E ids \in recorded(ctx.pendingToolResultIds) :
           /\ ctx' = dropVacuousOpenMessages(closeAbandonedToolExchange(ctx, ids))
           /\ wire' = closeAbandonedToolExchange(wire, ids)
    /\ activeTurn' = None
    /\ worker' = [worker EXCEPT ![t] = Over]
    /\ UNCHANGED <<steerBuffer, turnId, inputs, crashes>>

EndUnlogged(t) ==
    /\ worker[t].pc = "ending"
    /\ \E ids \in recorded(ctx.pendingToolResultIds) :
           /\ ctx' = dropVacuousOpenMessages(closeAbandonedToolExchange(ctx, ids))
           /\ UNCHANGED wire
    /\ activeTurn' = IF turnId = t THEN None ELSE activeTurn
    /\ worker' = [worker EXCEPT ![t] = Over]
    /\ UNCHANGED <<steerBuffer, turnId, inputs, crashes>>

\* The teardown: calls still without a result get one, messages no provider
\* would take are dropped (which is not logged), the turn is released.
End(t) ==
    /\ worker[t].pc = "ending"
    /\ \E ids \in recorded(ctx.pendingToolResultIds) :
           /\ ctx' = dropVacuousOpenMessages(closeAbandonedToolExchange(ctx, ids))
           /\ wire' = closeAbandonedToolExchange(wire, ids)
    /\ activeTurn' = IF turnId = t THEN None ELSE activeTurn
    /\ worker' = [worker EXCEPT ![t] = Over]
    /\ UNCHANGED <<steerBuffer, turnId, inputs, crashes>>

-----------------------------------------------------------------------------

\* Mutant: the resume drops every message a step had open.
ResumeDropsOpen ==
    /\ crashes < MaxCrashes
    /\ crashes' = crashes + 1
    /\ ctx' = [wire EXCEPT !.history = SelectSeq(@, LAMBDA m : m.role # "assistant")]
    /\ steerBuffer' = <<>>
    /\ activeTurn' = None
    /\ worker' = [t \in Turns |-> IF live(t) THEN Over ELSE worker[t]]
    /\ UNCHANGED <<wire, turnId, inputs>>

\* The process dies; a new one replays the log, which also drops the messages
\* no provider would take.  What was only in memory is gone.
CrashAndResume ==
    /\ crashes < MaxCrashes
    /\ crashes' = crashes + 1
    /\ ctx' = dropVacuousOpenMessages(wire)
    /\ steerBuffer' = <<>>
    /\ activeTurn' = None
    /\ worker' = [t \in Turns |-> IF live(t) THEN Over ELSE worker[t]]
    /\ UNCHANGED <<wire, turnId, inputs>>

\* The agent is at rest.
AtRest ==
    /\ \A t \in Turns : ~ live(t)
    /\ UNCHANGED vars

Work(t) ==
    \/ HookDone(t) \/ BeginStep(t) \/ StepBegin(t) \/ LLMAnswers(t) \/ Fail(t)
    \/ ToolCall(t) \/ ToolResult(t) \/ Seal(t) \/ Gate(t) \/ StopHook(t) \/ End(t)

Next ==
    \/ PromptOrSteer
    \/ Cancel
    \/ \E t \in Turns : Work(t) \/ ContentPart(t)
    \/ CrashAndResume
    \/ AtRest

Spec == Init /\ [][Next]_vars

\* The runtime resumes a worker whose await has settled, and every await of a
\* worker settles: requests and hooks time out, a tool that ignores its abort
\* is given up after a grace period.
FairSpec == Spec /\ \A t \in Turns : WF_vars(Work(t))

-----------------------------------------------------------------------------
(* Properties.                                                             *)

\* The state keeps its type; a turn takes one step beyond its budget at most
\* (the wrap-up step of run-turn.ts), and stops at MaxRejected rejected steps.
TypeOK ==
    /\ DOMAIN ctx = DOMAIN EmptyContext /\ DOMAIN wire = DOMAIN EmptyContext
    /\ steerBuffer \in Seq(1 .. inputs)
    /\ activeTurn \in Turns \cup {None}
    /\ turnId \in 0 .. MaxTurns
    /\ worker \in [Turns -> WorkerState]
    /\ inputs \in 0 .. MaxInputs
    /\ crashes \in 0 .. MaxCrashes

\* A worker that was not told to stop is the one the agent knows of, so that a
\* cancel reaches it, and it alone; a turn that holds activeTurn has such a
\* worker, so that no steer is buffered for a turn that is over.
SingleOwner ==
    \A t \in Turns : (live(t) /\ ~ worker[t].aborted) <=> activeTurn = t

\* A message is deferred only while a call waits for its result, so that the
\* result takes it along; the same in what a resume would rebuild.
DeferredHaveExchange == NothingStranded(ctx) /\ NothingStranded(wire)

\* Message n may not come between m, which carries calls, and their results: an
\* input never, a message of the model not while the process has lived on, nor
\* after that if it is of the same turn.
Splits(m, n, died) ==
    \/ n.role = "user"
    \/ n.role = "assistant" /\ (died = 0 \/ n.step[1] = m.step[1])

\* deferredMessages is there because a provider refuses a request in which
\* something comes between a call and its result: only other results do.  A crash
\* may leave an exchange open, and the steps of later turns then come before its
\* results; but no input does, and no step of the turn that made the call.
ExchangeUnbroken ==
    \A i \in Calls(ctx.history), j \in DOMAIN ctx.history :
        (i < j /\ Splits(ctx.history[i], ctx.history[j], crashes))
            => \A k \in DOMAIN ctx.history : k > j => ~ Answers(ctx.history, i, k)

\* "a tool_result without tool_use" is a request the provider rejects: whenever
\* a worker is about to send one, each result stands behind the call it answers.
NoStrayResult ==
    LET request == project(ctx.history, TRUE)
    IN  (\E t \in Turns : worker[t].pc = "before" /\ ~ worker[t].aborted)
            => \A j \in Results(request) : ResultPlaced(request, j)

\* A request is built from all that was said before it: by the time a step gets
\* to it, the steps before have closed their exchanges, and what these deferred
\* has come to the history.  A cancelled worker that still winds down may hold
\* messages back with the exchange it left open.
NothingHeldBack ==
    (\E t \in Turns : /\ worker[t].pc = "before" /\ ~ worker[t].aborted
                      /\ \A u \in Turns \ {t} : ~ live(u))
        => ctx.deferredMessages = <<>>

\* While the model answers a turn's request, the prompt of the turn is part of
\* the conversation that request was built from.
PromptInRequest ==
    \A t \in Turns :
        worker[t].pc = "llm" => Contains(Inputs(ctx.history), worker[t].prompt)

\* A process that died here and resumed would find the conversation the live
\* one holds.
ReplayMatches ==
    (\A t \in Turns : ~ live(t)) => dropVacuousOpenMessages(wire) = ctx

\* The inputs accepted and not forgotten by a crash, and those delivered.
Accepted  == Inputs(ctx.history \o ctx.deferredMessages) \o steerBuffer
Delivered == Inputs(ctx.history \o ctx.deferredMessages)

Promise == INSTANCE Inbox WITH
    Message <- 1 .. MaxInputs, accepted <- Accepted, delivered <- Delivered,
    restarts <- crashes

\* The turns implement the inbox: what prompt() and steer() accepted is delivered
\* in order, once, and never taken back.
InboxSpec == Promise!Spec

\* A turn that was launched ends, whatever the model, the tools, the hooks and
\* the user do meanwhile.
TurnEnds == \A t \in Turns : live(t) ~> ~ live(t)

\* What is deferred while a turn runs reaches the model's history in the end:
\* the tool exchange it waits for is closed at the latest when the turn ends.
DeferredLands ==
    (ctx.deferredMessages # <<>> /\ \E t \in Turns : live(t))
        ~> (ctx.deferredMessages = <<>>)
=============================================================================
