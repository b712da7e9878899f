--------------------------- MODULE TurnFlowProofs ---------------------------
(***************************************************************************)
(* What holds of the turns for every number of turns, steps, calls, inputs *)
(* and crashes, and whether or not turns overlap.                          *)
(***************************************************************************)
EXTENDS TurnFlow, ConversationProofs

\* A context memory with its four fields, and no message stranded in it.
Good(c) == DOMAIN c = DOMAIN EmptyContext /\ NothingStranded(c)

LEMMA EmptyContextGood == Good(EmptyContext)
BY DEF Good, EmptyContext, NothingStranded

\* Each operation of the context memory keeps it so.
LEMMA OperationsKeepGood ==
    ASSUME NEW c, Good(c)
    PROVE  /\ \A messages : Good(appendMessage(c, messages))
           /\ \A s : Good(stepBegin(c, s)) /\ Good(contentPart(c, s))
           /\ \A s, id : Good(toolCall(c, s, id))
           /\ \A ids : Good(toolResults(c, ids)) /\ Good(closeAbandonedToolExchange(c, ids))
           /\ \A id : Good(toolResult(c, id))
           /\ Good(stepEnd(c)) /\ Good(dropVacuousOpenMessages(c))
<1>. USE DEF Good, EmptyContext, NothingStranded, hasOpenToolExchange
<1>1. \A messages : Good(appendMessage(c, messages))
  BY DEF appendMessage
<1>2. \A s : Good(stepBegin(c, s))
  BY DEF stepBegin
<1>3. \A s : Good(contentPart(c, s))
  BY DEF contentPart, InStep
<1>4. \A s, id : Good(toolCall(c, s, id))
  BY DEF toolCall, InStep
<1>5. \A ids : Good(toolResults(c, ids))
  BY DEF toolResults, flushDeferredMessagesIfToolExchangeClosed
<1>6. \A ids : Good(closeAbandonedToolExchange(c, ids))
  BY <1>5 DEF closeAbandonedToolExchange
<1>7. \A id : Good(toolResult(c, id))
  BY <1>5 DEF toolResult
<1>8. Good(stepEnd(c))
  BY DEF stepEnd, flushDeferredMessagesIfToolExchangeClosed
<1>9. Good(dropVacuousOpenMessages(c))
  BY DEF dropVacuousOpenMessages
<1>. QED  BY <1>1, <1>2, <1>3, <1>4, <1>5, <1>6, <1>7, <1>8, <1>9

ContextInv == Good(ctx) /\ Good(wire)

LEMMA StepContextInv == ContextInv /\ [Next]_vars => ContextInv'
<1>. SUFFICES ASSUME ContextInv, [Next]_vars
              PROVE  ContextInv'
  OBVIOUS
<1>. USE OperationsKeepGood DEF ContextInv
<1>1. CASE PromptOrSteer
  <2>1. CASE UNCHANGED <<ctx, wire>>
    BY <2>1
  <2>2. ASSUME NEW n, launch(n)
        PROVE  ContextInv'
    <3>. DEFINE messages == Messages(Append(steerBuffer, n))
    <3>1. ctx' = appendMessage(ctx, messages) /\ wire' = appendMessage(wire, messages)
      BY <2>2 DEF launch, runOneTurn, Record
    <3>. HIDE DEF messages
    <3>. QED  BY <3>1
  <2>. QED  BY <1>1, <2>1, <2>2 DEF PromptOrSteer
<1>2. CASE Cancel
  BY <1>2 DEF Cancel
<1>3. ASSUME NEW t \in Turns, Work(t) \/ ContentPart(t)
      PROVE  ContextInv'
  <2>1. CASE HookDone(t)
    BY <2>1 DEF HookDone
  <2>2. CASE BeginStep(t)
    BY <2>2 DEF BeginStep, flushSteerBuffer, Record
  <2>3. CASE StepBegin(t)
    BY <2>3 DEF StepBegin, Record
  <2>4. CASE LLMAnswers(t)
    BY <2>4 DEF LLMAnswers
  <2>5. CASE Fail(t)
    BY <2>5 DEF Fail
  <2>6. CASE ToolCall(t)
    BY <2>6 DEF ToolCall, Record
  <2>7. CASE ToolResult(t)
    BY <2>7 DEF ToolResult, Record
  <2>8. CASE Seal(t)
    BY <2>8 DEF Seal, Record
  <2>9. CASE Gate(t)
    BY <2>9 DEF Gate, flushSteerBuffer, Record
  <2>10. CASE StopHook(t)
    BY <2>10 DEF StopHook, flushSteerBuffer, Record
  <2>11. CASE End(t)
    BY <2>11 DEF End
  <2>12. CASE ContentPart(t)
    BY <2>12 DEF ContentPart, Record
  <2>. QED  BY <1>3, <2>1, <2>2, <2>3, <2>4, <2>5, <2>6, <2>7, <2>8, <2>9, <2>10, <2>11,
               <2>12 DEF Work
<1>4. CASE CrashAndResume
  BY <1>4 DEF CrashAndResume
<1>5. CASE UNCHANGED vars
  BY <1>5 DEF vars
<1>. QED  BY <1>1, <1>2, <1>3, <1>4, <1>5 DEF Next, AtRest

THEOREM ContextGood == Spec => []ContextInv
<1>1. Init => ContextInv
  BY EmptyContextGood DEF Init, ContextInv
<1>. QED  BY <1>1, StepContextInv, PTL DEF Spec

\* A message is deferred only while a tool call waits for its result, through
\* overlapping turns, cancels, crashes and resumes alike.
THEOREM NeverStranded == Spec => []DeferredHaveExchange
<1>1. ContextInv => DeferredHaveExchange
  BY DEF ContextInv, Good, DeferredHaveExchange
<1>. QED  BY <1>1, ContextGood, PTL

-----------------------------------------------------------------------------
(***************************************************************************)
(* The workers.  The invariant adds to TypeOK and SingleOwner what makes   *)
(* them inductive: activeTurn is the turn launched last, later turns have  *)
(* no worker yet, and a worker that has used up its steps, or its rejected *)
(* ones, is on its way out.                                                *)
(***************************************************************************)

Bounded(w) ==
    /\ w.step > MaxSteps => w.pc \in {"before", "llm", "tools", "ending"}
    /\ w.rejected = MaxRejected => w.pc = "ending"

CountersOK ==
    /\ steerBuffer \in Seq(1 .. inputs)
    /\ turnId \in 0 .. MaxTurns
    /\ inputs \in 0 .. MaxInputs
    /\ crashes \in 0 .. MaxCrashes

WorkersOK ==
    /\ worker \in [Turns -> WorkerState]
    /\ \A t \in Turns : Bounded(worker[t])
    /\ \A t \in Turns : t > turnId => worker[t].pc = "unborn"
    /\ activeTurn # None => activeTurn = turnId /\ activeTurn \in Turns
    /\ SingleOwner

WInv == CountersOK /\ WorkersOK

LEMMA IdleOK ==
    /\ Idle \in WorkerState /\ Over \in WorkerState
    /\ Bounded(Idle) /\ Bounded(Over)
    /\ Idle.pc = "unborn" /\ Over.pc = "ended"
<1>1. /\ 0 \in 0 .. MaxInputs /\ 0 \in 0 .. MaxSteps + 1 /\ 0 \in 0 .. MaxCalls
      /\ 0 \in 0 .. MaxRejected /\ 0 # MaxRejected /\ ~ (0 > MaxSteps)
  BY TurnFlowAssumption
<1>2. Idle \in WorkerState /\ Idle.pc = "unborn" /\ Bounded(Idle)
  BY <1>1 DEF Idle, WorkerState, pcs, Bounded
<1>3. Over \in WorkerState /\ Over.pc = "ended" /\ Bounded(Over)
  BY <1>1 DEF Over, Idle, WorkerState, pcs, Bounded
<1>. QED  BY <1>2, <1>3

LEMMA InitWInv == Init => WInv
<1>1. Init => CountersOK
  BY TurnFlowAssumption, EmptySeq DEF Init, CountersOK
<1>2. Init => WorkersOK
  BY IdleOK, TurnFlowAssumption DEF Init, WorkersOK, SingleOwner, live, Turns
<1>. QED  BY <1>1, <1>2 DEF WInv

\* A buffer of inputs is one of more inputs, too.
LEMMA BufferGrows ==
    ASSUME NEW m \in Nat, NEW n \in Nat, m <= n, NEW buffer \in Seq(1 .. m)
    PROVE  buffer \in Seq(1 .. n)
<1>1. 1 .. m \subseteq 1 .. n
  OBVIOUS
<1>. QED  BY <1>1, SeqMonotonic

\* A worker that goes on working, told to stop or not as before, keeps the
\* invariant of the workers, whatever else it changes.
LEMMA WorkerGoesOn ==
    ASSUME WorkersOK, NEW t \in Turns, live(t),
           NEW w \in WorkerState, worker' = [worker EXCEPT ![t] = w],
           Bounded(w), w.pc \notin {"unborn", "ended"}, w.aborted = worker[t].aborted,
           UNCHANGED <<activeTurn, turnId>>
    PROVE  WorkersOK'
<1>1. worker' \in [Turns -> WorkerState]
  BY DEF WorkersOK
<1>2. worker'[t] = w /\ \A s \in Turns \ {t} : worker'[s] = worker[s]
  BY DEF WorkersOK
<1>3. \A s \in Turns : Bounded(worker'[s])
  BY <1>2 DEF WorkersOK
<1>4. \A s \in Turns : s > turnId' => worker'[s].pc = "unborn"
  BY <1>2 DEF WorkersOK, live
<1>5. SingleOwner'
  BY <1>2 DEF WorkersOK, SingleOwner, live
<1>6. activeTurn' # None => activeTurn' = turnId' /\ activeTurn' \in Turns
  BY DEF WorkersOK
<1>. QED  BY <1>1, <1>3, <1>4, <1>5, <1>6 DEF WorkersOK, Bounded

\* The same for a step that only sends the worker on to another await.
LEMMA WorkerGoesTo ==
    ASSUME WorkersOK, NEW t \in Turns, live(t), NEW pc \in pcs \ {"unborn", "ended"},
           Goto(t, pc),
           worker[t].step > MaxSteps => pc \in {"before", "llm", "tools", "ending"},
           worker[t].rejected = MaxRejected => pc = "ending",
           UNCHANGED <<activeTurn, turnId>>
    PROVE  WorkersOK'
<1>. DEFINE w == [worker[t] EXCEPT !.pc = pc]
<1>1. worker' = [worker EXCEPT ![t] = w]
  BY DEF Goto
<1>2. worker[t] \in WorkerState
  BY DEF WorkersOK
<1>3. w \in WorkerState /\ w.pc = pc /\ w.aborted = worker[t].aborted
        /\ w.step = worker[t].step /\ w.rejected = worker[t].rejected
  BY <1>2 DEF WorkerState
<1>4. Bounded(w)
  BY <1>3 DEF Bounded
<1>. HIDE DEF w
<1>. QED  BY <1>1, <1>3, <1>4, WorkerGoesOn

-----------------------------------------------------------------------------
(* The calls from outside, and the crash.                                   *)

LEMMA LaunchWorkers ==
    ASSUME WInv, activeTurn = None, NEW n \in 0 .. MaxInputs, launch(n)
    PROVE  WorkersOK'
<1>. DEFINE t == turnId + 1
            w == [Idle EXCEPT !.pc = "hook", !.prompt = n]
<1>1. /\ t \in Turns /\ turnId' = t /\ activeTurn' = t
      /\ worker' = [worker EXCEPT ![t] = w]
  BY DEF launch
<1>2. w \in WorkerState /\ w.pc = "hook" /\ ~ w.aborted /\ Bounded(w)
  BY IdleOK DEF Idle, WorkerState, pcs, Bounded
<1>. HIDE DEF w
<1>3. /\ worker' \in [Turns -> WorkerState] /\ worker'[t] = w
      /\ \A s \in Turns \ {t} : worker'[s] = worker[s]
  BY <1>1, <1>2 DEF WInv, WorkersOK
<1>4. \A s \in Turns : Bounded(worker[s])' /\ (s > turnId' => worker'[s].pc = "unborn")
  <2>. SUFFICES ASSUME NEW s \in Turns
                PROVE  Bounded(worker'[s]) /\ (s > turnId' => worker'[s].pc = "unborn")
    BY DEF Bounded
  <2>1. turnId \in Nat /\ s \in Nat
    BY TurnFlowAssumption DEF WInv, CountersOK, Turns
  <2>2. CASE s = t
    BY <1>1, <1>2, <1>3, <2>1, <2>2
  <2>3. CASE s # t
    BY <1>1, <1>3, <2>1, <2>3 DEF WInv, WorkersOK
  <2>. QED  BY <2>2, <2>3
<1>5. SingleOwner'
  <2>. SUFFICES ASSUME NEW s \in Turns
                PROVE  (worker'[s].pc \notin {"unborn", "ended"} /\ ~ worker'[s].aborted)
                           <=> activeTurn' = s
    BY DEF SingleOwner, live
  <2>1. CASE s = t
    BY <1>1, <1>2, <1>3, <2>1
  <2>2. CASE s # t
    <3>1. None # s
      BY TurnFlowAssumption DEF Turns
    <3>. QED  BY <1>1, <1>3, <2>2, <3>1 DEF WInv, WorkersOK, SingleOwner, live
  <2>. QED  BY <2>1, <2>2
<1>. QED  BY <1>1, <1>3, <1>4, <1>5 DEF WorkersOK

LEMMA PromptWInv == WInv /\ PromptOrSteer => WInv'
<1>. SUFFICES ASSUME WInv, PromptOrSteer
              PROVE  WInv'
  OBVIOUS
<1>1. inputs \in Nat /\ inputs' = inputs + 1 /\ inputs' \in 0 .. MaxInputs /\ crashes' = crashes
  BY TurnFlowAssumption DEF WInv, CountersOK, PromptOrSteer
<1>2. CASE activeTurn # None /\ steerBuffer' = Append(steerBuffer, inputs')
             /\ UNCHANGED <<ctx, wire, activeTurn, turnId, worker>>
  <2>1. steerBuffer' \in Seq(1 .. inputs')
    <3>1. steerBuffer \in Seq(1 .. inputs') /\ inputs' \in 1 .. inputs'
      BY <1>1, BufferGrows DEF WInv, CountersOK
    <3>. QED  BY <1>2, <3>1, AppendProperties
  <2>2. CountersOK'
    BY <1>1, <1>2, <2>1 DEF WInv, CountersOK
  <2>. QED  BY <1>2, <2>2 DEF WInv, WorkersOK, Bounded, SingleOwner, live
<1>3. CASE activeTurn = None /\ launch(inputs')
  <2>1. WorkersOK'
    BY <1>1, <1>3, LaunchWorkers
  <2>2. steerBuffer' = <<>> /\ turnId' \in 0 .. MaxTurns
    BY <1>3, TurnFlowAssumption DEF launch, runOneTurn, Turns
  <2>3. CountersOK'
    BY <1>1, <2>2, EmptySeq DEF WInv, CountersOK
  <2>. QED  BY <2>1, <2>3 DEF WInv
<1>. QED  BY <1>2, <1>3 DEF PromptOrSteer

LEMMA CancelWInv == WInv /\ Cancel => WInv'
<1>. SUFFICES ASSUME WInv, Cancel
              PROVE  WInv'
  OBVIOUS
<1>. DEFINE t == activeTurn
            w == [worker[t] EXCEPT !.aborted = TRUE]
<1>1. /\ t \in Turns /\ activeTurn' = None /\ worker' = [worker EXCEPT ![t] = w]
      /\ UNCHANGED <<steerBuffer, turnId, inputs, crashes>>
  BY DEF Cancel, WInv, WorkersOK
<1>2. worker[t] \in WorkerState /\ Bounded(worker[t])
  BY <1>1 DEF WInv, WorkersOK
<1>3. /\ w \in WorkerState /\ w.aborted /\ w.pc = worker[t].pc
      /\ w.step = worker[t].step /\ w.rejected = worker[t].rejected
  BY <1>2 DEF WorkerState
<1>4. Bounded(w)
  BY <1>2, <1>3 DEF Bounded
<1>. HIDE DEF w
<1>5. /\ worker' \in [Turns -> WorkerState] /\ worker'[t] = w
      /\ \A s \in Turns \ {t} : worker'[s] = worker[s]
  BY <1>1, <1>3 DEF WInv, WorkersOK
<1>6. \A s \in Turns : Bounded(worker'[s]) /\ (s > turnId' => worker'[s].pc = "unborn")
  BY <1>1, <1>3, <1>4, <1>5 DEF WInv, WorkersOK
<1>7. SingleOwner'
  <2>. SUFFICES ASSUME NEW s \in Turns
                PROVE  (worker'[s].pc \notin {"unborn", "ended"} /\ ~ worker'[s].aborted)
                           <=> activeTurn' = s
    BY DEF SingleOwner, live
  <2>1. None # s
    BY TurnFlowAssumption DEF Turns
  <2>2. CASE s = t
    BY <1>1, <1>3, <1>5, <2>1, <2>2
  <2>3. CASE s # t
    BY <1>1, <1>5, <2>1, <2>3 DEF WInv, WorkersOK, SingleOwner, live
  <2>. QED  BY <2>2, <2>3
<1>. QED  BY <1>1, <1>5, <1>6, <1>7 DEF WInv, WorkersOK, CountersOK, Bounded

LEMMA CrashWInv == WInv /\ CrashAndResume => WInv'
<1>. SUFFICES ASSUME WInv, CrashAndResume
              PROVE  WInv'
  OBVIOUS
<1>1. CountersOK'
  BY TurnFlowAssumption, EmptySeq DEF CrashAndResume, WInv, CountersOK
<1>2. \A s \in Turns :
        /\ worker'[s] \in WorkerState /\ Bounded(worker'[s]) /\ worker'[s].pc \in {"unborn", "ended"}
        /\ s > turnId => worker'[s].pc = "unborn"
  BY IdleOK DEF CrashAndResume, WInv, WorkersOK, live
<1>3. /\ worker' \in [Turns -> WorkerState] /\ activeTurn' = None /\ turnId' = turnId
      /\ None \notin Turns
  BY <1>2, TurnFlowAssumption DEF CrashAndResume, Turns
<1>4. SingleOwner'
  BY <1>2, <1>3 DEF SingleOwner, live
<1>. QED  BY <1>1, <1>2, <1>3, <1>4 DEF WInv, WorkersOK, Bounded

-----------------------------------------------------------------------------
(* The worker's own steps.                                                  *)

\* A worker's step leaves the counters alone, but for emptying the buffer.
LEMMA WorkCounters ==
    ASSUME WInv, UNCHANGED <<turnId, inputs, crashes>>,
           steerBuffer' = steerBuffer \/ steerBuffer' = <<>>
    PROVE  CountersOK'
BY EmptySeq DEF WInv, CountersOK

LEMMA EndWInv == ASSUME WInv, NEW t \in Turns, End(t) PROVE WInv'
<1>1. /\ worker[t].pc = "ending" /\ worker' = [worker EXCEPT ![t] = Over]
      /\ activeTurn' = IF turnId = t THEN None ELSE activeTurn
      /\ UNCHANGED <<steerBuffer, turnId, inputs, crashes>>
  BY DEF End
<1>2. /\ worker' \in [Turns -> WorkerState] /\ worker'[t] = Over
      /\ \A s \in Turns \ {t} : worker'[s] = worker[s]
  BY <1>1, IdleOK DEF WInv, WorkersOK
<1>3. \A s \in Turns : Bounded(worker'[s]) /\ (s > turnId' => worker'[s].pc = "unborn")
  BY <1>1, <1>2, IdleOK DEF WInv, WorkersOK
<1>4. SingleOwner'
  <2>. SUFFICES ASSUME NEW s \in Turns
                PROVE  (worker'[s].pc \notin {"unborn", "ended"} /\ ~ worker'[s].aborted)
                           <=> activeTurn' = s
    BY DEF SingleOwner, live
  <2>1. None # s
    BY TurnFlowAssumption DEF Turns
  <2>2. CASE s = t
    BY <1>1, <1>2, <2>1, <2>2, IdleOK DEF WInv, WorkersOK
  <2>3. CASE s # t
    BY <1>1, <1>2, <2>1, <2>3 DEF WInv, WorkersOK, SingleOwner, live
  <2>. QED  BY <2>2, <2>3
<1>5. activeTurn' # None => activeTurn' = turnId' /\ activeTurn' \in Turns
  BY <1>1 DEF WInv, WorkersOK
<1>. QED  BY <1>1, <1>2, <1>3, <1>4, <1>5, WorkCounters DEF WInv, WorkersOK, Bounded

\* The steps that only move the worker on.
LEMMA MoveWInv ==
    ASSUME WInv, NEW t \in Turns,
           HookDone(t) \/ StepBegin(t) \/ Fail(t) \/ Gate(t)
    PROVE  WInv'
<1>0. Bounded(worker[t]) /\ WorkersOK
  BY DEF WInv, WorkersOK
<1>. USE <1>0 DEF Bounded, live, pcs
<1>1. CASE HookDone(t)
  <2>1. PICK pc \in {"ending", "top"} : Goto(t, pc)
    BY <1>1 DEF HookDone
  <2>2. WorkersOK'
    BY <1>1, <2>1, WorkerGoesTo DEF HookDone
  <2>. QED  BY <1>1, <2>2, WorkCounters DEF HookDone, WInv
<1>2. CASE StepBegin(t)
  <2>1. PICK pc \in {"ending", "llm"} : Goto(t, pc)
    BY <1>2 DEF StepBegin
  <2>2. WorkersOK'
    BY <1>2, <2>1, WorkerGoesTo DEF StepBegin
  <2>. QED  BY <1>2, <2>2, WorkCounters DEF StepBegin, WInv
<1>3. CASE Fail(t)
  <2>1. WorkersOK'
    BY <1>3, WorkerGoesTo DEF Fail
  <2>. QED  BY <1>3, <2>1, WorkCounters DEF Fail, WInv
<1>4. CASE Gate(t)
  <2>1. PICK pc \in {"ending", "top", "stopHook"} : Goto(t, pc)
    BY <1>4 DEF Gate
  <2>2. WorkersOK'
    BY <1>4, <2>1, WorkerGoesTo DEF Gate
  <2>3. steerBuffer' = steerBuffer \/ steerBuffer' = <<>>
    BY <1>4 DEF Gate, flushSteerBuffer
  <2>. QED  BY <1>4, <2>2, <2>3, WorkCounters DEF Gate, WInv
<1>. QED  BY <1>1, <1>2, <1>3, <1>4

\* A step that changes the worker to w.
LEMMA ChangeWInv ==
    ASSUME WInv, NEW t \in Turns, live(t),
           NEW w \in WorkerState, worker' = [worker EXCEPT ![t] = w],
           Bounded(w), w.pc \notin {"unborn", "ended"}, w.aborted = worker[t].aborted,
           UNCHANGED <<activeTurn, turnId, inputs, crashes>>,
           steerBuffer' = steerBuffer \/ steerBuffer' = <<>>
    PROVE  WInv'
BY WorkerGoesOn, WorkCounters DEF WInv

LEMMA BeginStepWInv == ASSUME WInv, NEW t \in Turns, BeginStep(t) PROVE WInv'
<1>0. Bounded(worker[t]) /\ WorkersOK /\ worker[t] \in WorkerState
  BY DEF WInv, WorkersOK
<1>1. CASE Goto(t, "ending") /\ UNCHANGED steerBuffer
  <2>1. WorkersOK'
    BY <1>0, <1>1, WorkerGoesTo DEF BeginStep, live, pcs
  <2>. QED  BY <1>1, <2>1, WorkCounters DEF BeginStep, WInv
<1>2. ASSUME NEW stop \in BOOLEAN,
             worker' = [worker EXCEPT ![t].pc = "before", ![t].step = @ + 1,
                                      ![t].failureStop = stop],
             flushSteerBuffer
      PROVE  WInv'
  <2>. DEFINE w == [worker[t] EXCEPT !.pc = "before", !.step = @ + 1, !.failureStop = stop]
  <2>1. worker' = [worker EXCEPT ![t] = w]
    BY <1>2 DEF WInv, WorkersOK
  <2>2. worker[t].pc = "top" /\ worker[t].step \in 0 .. MaxSteps
            /\ worker[t].rejected # MaxRejected
    BY <1>0, TurnFlowAssumption DEF BeginStep, Bounded, WorkerState
  <2>3. worker[t].step + 1 \in 0 .. MaxSteps + 1
    BY <2>2, TurnFlowAssumption
  <2>5. /\ w \in WorkerState /\ w.pc = "before" /\ w.aborted = worker[t].aborted
        /\ w.rejected = worker[t].rejected
    BY <1>0, <2>3 DEF WorkerState, pcs
  <2>6. Bounded(w)
    BY <2>2, <2>5 DEF Bounded
  <2>7. UNCHANGED <<activeTurn, turnId, inputs, crashes>> /\ steerBuffer' = <<>>
    BY <1>2 DEF BeginStep, flushSteerBuffer
  <2>. HIDE DEF w
  <2>. QED  BY <2>1, <2>2, <2>5, <2>6, <2>7, ChangeWInv DEF live
<1>. QED  BY <1>1, <1>2 DEF BeginStep

\* The model's answer and the tool calls: the counters of the batch.
LEMMA BatchWInv ==
    ASSUME WInv, NEW t \in Turns, LLMAnswers(t) \/ ToolCall(t) \/ ToolResult(t)
    PROVE  WInv'
<1>0. Bounded(worker[t]) /\ worker[t] \in WorkerState /\ worker \in [Turns -> WorkerState]
  BY DEF WInv, WorkersOK
<1>1. CASE LLMAnswers(t)
  <2>1. PICK k \in 0 .. MaxCalls, executed \in BOOLEAN :
          worker' = [worker EXCEPT ![t].pc = "tools", ![t].calls = k, ![t].executed = executed]
    BY <1>1 DEF LLMAnswers
  <2>. DEFINE w == [worker[t] EXCEPT !.pc = "tools", !.calls = k, !.executed = executed]
  <2>2. worker' = [worker EXCEPT ![t] = w]
    BY <1>0, <2>1
  <2>3. /\ w \in WorkerState /\ w.pc = "tools" /\ w.aborted = worker[t].aborted
        /\ w.rejected = worker[t].rejected
    BY <1>0 DEF WorkerState, pcs
  <2>4. Bounded(w)
    BY <1>0, <1>1, <2>3 DEF Bounded, LLMAnswers
  <2>. HIDE DEF w
  <2>. QED  BY <1>1, <2>2, <2>3, <2>4, ChangeWInv DEF LLMAnswers, live
<1>2. CASE ToolCall(t)
  <2>. DEFINE w == [worker[t] EXCEPT !.called = @ + 1]
  <2>1. worker' = [worker EXCEPT ![t] = w]
    BY <1>0, <1>2 DEF ToolCall
  <2>2. worker[t].called + 1 \in 0 .. MaxCalls
    BY <1>0, <1>2, TurnFlowAssumption DEF ToolCall, WorkerState
  <2>3. /\ w \in WorkerState /\ w.pc = "tools" /\ w.aborted = worker[t].aborted
        /\ w.rejected = worker[t].rejected
    BY <1>0, <1>2, <2>2 DEF ToolCall, WorkerState
  <2>4. Bounded(w)
    BY <1>0, <1>2, <2>3 DEF Bounded, ToolCall
  <2>. HIDE DEF w
  <2>. QED  BY <1>2, <2>1, <2>3, <2>4, ChangeWInv DEF ToolCall, live
<1>3. CASE ToolResult(t)
  <2>. DEFINE w == [worker[t] EXCEPT !.answered = @ + 1]
  <2>1. worker' = [worker EXCEPT ![t] = w]
    BY <1>0, <1>3 DEF ToolResult
  <2>2. worker[t].answered + 1 \in 0 .. MaxCalls
    BY <1>0, <1>3, TurnFlowAssumption DEF ToolResult, WorkerState
  <2>3. /\ w \in WorkerState /\ w.pc = "tools" /\ w.aborted = worker[t].aborted
        /\ w.rejected = worker[t].rejected
    BY <1>0, <1>3, <2>2 DEF ToolResult, WorkerState
  <2>4. Bounded(w)
    BY <1>0, <1>3, <2>3 DEF Bounded, ToolResult
  <2>. HIDE DEF w
  <2>. QED  BY <1>3, <2>1, <2>3, <2>4, ChangeWInv DEF ToolResult, live
<1>. QED  BY <1>1, <1>2, <1>3

LEMMA SealWInv == ASSUME WInv, NEW t \in Turns, Seal(t) PROVE WInv'
<1>0. Bounded(worker[t]) /\ worker[t] \in WorkerState /\ worker \in [Turns -> WorkerState]
        /\ WorkersOK
  BY DEF WInv, WorkersOK
<1>1. CASE Goto(t, "ending")
  <2>1. WorkersOK'
    BY <1>0, <1>1, WorkerGoesTo DEF Seal, live, pcs
  <2>. QED  BY <2>1, WorkCounters DEF Seal, WInv
<1>2. ASSUME NEW rejected \in {0, worker[t].rejected, worker[t].rejected + 1},
             NEW pc \in AfterStep(t, rejected),
             worker' = [worker EXCEPT ![t] = [@ EXCEPT !.pc = pc, !.rejected = rejected,
                          !.calls = 0, !.called = 0, !.answered = 0, !.executed = FALSE]]
      PROVE  WInv'
  <2>. DEFINE w == [worker[t] EXCEPT !.pc = pc, !.rejected = rejected,
                      !.calls = 0, !.called = 0, !.answered = 0, !.executed = FALSE]
  <2>1. worker' = [worker EXCEPT ![t] = w]
    BY <1>0, <1>2
  <2>2. worker[t].rejected \in 0 .. MaxRejected /\ worker[t].rejected # MaxRejected
    BY <1>0 DEF WorkerState, Bounded, Seal
  <2>3. rejected \in 0 .. MaxRejected /\ 0 \in 0 .. MaxCalls
    BY <2>2, TurnFlowAssumption
  <2>4. pc \in {"ending", "top", "gate"}
    BY DEF AfterStep
  <2>5. /\ w \in WorkerState /\ w.pc = pc /\ w.aborted = worker[t].aborted
        /\ w.step = worker[t].step /\ w.rejected = rejected
    BY <1>0, <2>3, <2>4 DEF WorkerState, pcs
  <2>6. (worker[t].step > MaxSteps \/ rejected = MaxRejected) => pc = "ending"
    BY <2>3, TurnFlowAssumption DEF AfterStep, finalStep
  <2>7. Bounded(w)
    BY <2>5, <2>6 DEF Bounded
  <2>. HIDE DEF w
  <2>. QED  BY <2>1, <2>4, <2>5, <2>7, ChangeWInv DEF Seal, live
<1>. QED  BY <1>1, <1>2 DEF Seal

LEMMA StopHookWInv == ASSUME WInv, NEW t \in Turns, StopHook(t) PROVE WInv'
<1>0. Bounded(worker[t]) /\ worker[t] \in WorkerState /\ worker \in [Turns -> WorkerState]
        /\ WorkersOK
  BY DEF WInv, WorkersOK
<1>1. ASSUME NEW pc \in {"top", "ending"}, Goto(t, pc)
      PROVE  WInv'
  <2>1. WorkersOK'
    BY <1>0, <1>1, WorkerGoesTo DEF StopHook, Bounded, live, pcs
  <2>2. steerBuffer' = steerBuffer \/ steerBuffer' = <<>>
    BY DEF StopHook, flushSteerBuffer
  <2>. QED  BY <2>1, <2>2, WorkCounters DEF StopHook, WInv
<1>2. ASSUME worker' = [worker EXCEPT ![t].pc = "top", ![t].stopHookUsed = TRUE],
             UNCHANGED steerBuffer
      PROVE  WInv'
  <2>. DEFINE w == [worker[t] EXCEPT !.pc = "top", !.stopHookUsed = TRUE]
  <2>1. worker' = [worker EXCEPT ![t] = w]
    BY <1>0, <1>2
  <2>2. /\ w \in WorkerState /\ w.pc = "top" /\ w.aborted = worker[t].aborted
        /\ w.step = worker[t].step /\ w.rejected = worker[t].rejected
    BY <1>0 DEF WorkerState, pcs
  <2>3. Bounded(w)
    BY <1>0, <2>2 DEF StopHook, Bounded
  <2>. HIDE DEF w
  <2>. QED  BY <1>2, <2>1, <2>2, <2>3, ChangeWInv DEF StopHook, live
<1>. QED  BY <1>1, <1>2 DEF StopHook

LEMMA StepWInv == WInv /\ [Next]_vars => WInv'
<1>. SUFFICES ASSUME WInv, [Next]_vars
              PROVE  WInv'
  OBVIOUS
<1>1. ASSUME NEW t \in Turns, Work(t) \/ ContentPart(t)
      PROVE  WInv'
  <2>1. CASE ContentPart(t)
    BY <2>1 DEF ContentPart, WInv, WorkersOK, CountersOK, Bounded, SingleOwner, live
  <2>. QED  BY <1>1, <2>1, MoveWInv, BeginStepWInv, BatchWInv, SealWInv, StopHookWInv,
               EndWInv DEF Work
<1>2. CASE UNCHANGED vars
  BY <1>2 DEF vars, WInv, WorkersOK, CountersOK, Bounded, SingleOwner, live
<1>. QED  BY <1>1, <1>2, PromptWInv, CancelWInv, CrashWInv DEF Next, AtRest

THEOREM WorkersInductive == Spec => []WInv
BY InitWInv, StepWInv, PTL DEF Spec

\* The state of the turns is well formed; in particular a turn never takes more
\* than one step beyond its budget.
THEOREM TypeCorrect == Spec => []TypeOK
<1>1. WInv /\ ContextInv => TypeOK
  BY DEF WInv, CountersOK, WorkersOK, ContextInv, Good, TypeOK
<1>. QED  BY <1>1, WorkersInductive, ContextGood, PTL

\* The one worker that was not told to stop is the one a cancel or a steer
\* reaches, also while cancelled workers wind down beside it.
THEOREM OneOwner == Spec => []SingleOwner
BY WorkersInductive, PTL DEF WInv, WorkersOK

-----------------------------------------------------------------------------
(***************************************************************************)
(* The conversation's messages and their types, and what each operation    *)
(* does to the inputs a conversation holds.                                *)
(***************************************************************************)

Numbers == 1 .. MaxInputs
Step    == Turns \X (0 .. MaxSteps + 1)
CallId  == Turns \X (0 .. MaxSteps + 1) \X (1 .. MaxCalls)

UserM == [role : {"user"}, input : Numbers]
AsstM == [role : {"assistant"}, step : Step, sendable : BOOLEAN, toolCalls : Seq(CallId)]
ToolM == [role : {"tool"}, toolCallId : CallId]
Msg   == UserM \cup AsstM \cup ToolM

CtxT == [history : Seq(Msg), openSteps : SUBSET Step,
         pendingToolResultIds : SUBSET CallId, deferredMessages : Seq(UserM)]

\* What the conversation holds of the inputs, in its order.
Speech(c) == Inputs(c.history) \o Inputs(c.deferredMessages)

LEMMA MsgRoles ==
    ASSUME NEW m \in Msg
    PROVE  /\ m.role = "user" <=> m \in UserM
           /\ m.role = "assistant" <=> m \in AsstM
           /\ m.role = "tool" <=> m \in ToolM
           /\ m.role \in {"user", "assistant", "tool"}
BY DEF Msg, UserM, AsstM, ToolM

LEMMA MsgSpeaks == Speaks(Msg, Numbers) /\ UserM \subseteq Msg
BY MsgRoles DEF Speaks, UserM, Msg

LEMMA UserSeq == Seq(UserM) \subseteq Seq(Msg)
BY MsgSpeaks, SeqMonotonic

LEMMA SpeechType ==
    ASSUME NEW c \in CtxT
    PROVE  /\ Inputs(c.history) \in Seq(Numbers) /\ Inputs(c.deferredMessages) \in Seq(Numbers)
           /\ Speech(c) \in Seq(Numbers)
           /\ Inputs(c.history \o c.deferredMessages) = Speech(c)
           /\ Inputs(<<>>) = <<>>
<1>1. c.history \in Seq(Msg) /\ c.deferredMessages \in Seq(Msg)
  BY UserSeq DEF CtxT
<1>2. Inputs(c.history) \in Seq(Numbers) /\ Inputs(c.deferredMessages) \in Seq(Numbers)
  BY <1>1, MsgSpeaks, InputsType
<1>3. Inputs(c.history \o c.deferredMessages) = Inputs(c.history) \o Inputs(c.deferredMessages)
  BY <1>1, MsgSpeaks, InputsConcat
<1>4. Inputs(<<>>) = <<>>
  BY FlattenEmpty DEF Inputs
<1>. QED  BY <1>2, <1>3, <1>4, ConcatProperties DEF Speech

LEMMA EmptyContextType == EmptyContext \in CtxT /\ Speech(EmptyContext) = <<>>
<1>1. EmptyContext \in CtxT
  BY EmptySeq DEF EmptyContext, CtxT
<1>. QED  BY <1>1, SpeechType, EmptySeq, ConcatEmptySeq DEF EmptyContext, Speech

\* The messages of inputs say these inputs.
LEMMA MessagesSay ==
    ASSUME NEW ns \in Seq(Numbers)
    PROVE  Messages(ns) \in Seq(UserM) /\ Inputs(Messages(ns)) = ns
<1>1. /\ Len(ns) \in Nat /\ DOMAIN ns = 1 .. Len(ns)
      /\ \A i \in 1 .. Len(ns) : ns[i] \in Numbers
  BY LenProperties, ElementOfSeq
<1>2. Messages(ns) \in [1 .. Len(ns) -> UserM]
  BY <1>1 DEF Messages, Input, UserM
<1>3. Messages(ns) \in Seq(UserM)
  BY <1>1, <1>2, SeqDef
<1>. DEFINE T == {r \in Seq(Numbers) : Inputs([i \in DOMAIN r |-> Input(r[i])]) = r}
<1>4. Seq(Numbers) \subseteq T
  <2>1. <<>> \in T
    <3>1. [i \in DOMAIN <<>> |-> Input(<<>>[i])] = <<>>
      OBVIOUS
    <3>. QED  BY <3>1, EmptySeq, FlattenEmpty DEF Inputs
  <2>2. ASSUME NEW r \in Seq(Numbers), NEW n \in Numbers, r \in T
        PROVE  Append(r, n) \in T
    <3>. DEFINE a == Messages(r)
                b == Messages(Append(r, n))
                one == Input(n)
    <3>1. /\ Append(r, n) \in Seq(Numbers) /\ Len(Append(r, n)) = Len(r) + 1 /\ Len(r) \in Nat
          /\ DOMAIN r = 1 .. Len(r) /\ DOMAIN Append(r, n) = 1 .. Len(r) + 1
          /\ \A i \in 1 .. Len(r) : Append(r, n)[i] = r[i]
          /\ Append(r, n)[Len(r) + 1] = n
      BY AppendProperties, LenProperties
    <3>2. one \in UserM
      BY DEF Input, UserM
    <3>3. a \in Seq(UserM) /\ Len(a) = Len(r)
      <4>1. a \in [1 .. Len(r) -> UserM]
        BY <3>1, ElementOfSeq DEF Messages, Input, UserM
      <4>. QED  BY <3>1, <4>1, SeqDef
    <3>4. b = Append(a, one)
      <4>1. b \in [1 .. Len(r) + 1 -> UserM]
        BY <3>1, ElementOfSeq DEF Messages, Input, UserM
      <4>2. b \in Seq(UserM) /\ Len(b) = Len(r) + 1
        BY <3>1, <4>1, SeqDef
      <4>3. \A i \in 1 .. Len(r) : b[i] = a[i]
        BY <3>1 DEF Messages
      <4>4. b[Len(r) + 1] = one
        BY <3>1 DEF Messages
      <4>. HIDE DEF a, b, one
      <4>5. /\ Append(a, one) \in Seq(UserM) /\ Len(Append(a, one)) = Len(r) + 1
            /\ \A i \in 1 .. Len(r) : Append(a, one)[i] = a[i]
            /\ Append(a, one)[Len(r) + 1] = one
        BY <3>2, <3>3, AppendProperties
      <4>6. \A i \in 1 .. Len(b) : b[i] = Append(a, one)[i]
        <5>1. \A i \in 1 .. Len(b) : i \in 1 .. Len(r) \/ i = Len(r) + 1
          BY <3>1, <4>2
        <5>. QED  BY <4>3, <4>4, <4>5, <5>1
      <4>. QED  BY <4>2, <4>5, <4>6, SeqEqual
    <3>5. Inputs(a) = r
      BY <2>2 DEF Messages
    <3>6. Said(Msg)[one] = <<n>> /\ one \in Msg
      BY <3>2, MsgSpeaks DEF Said, Input
    <3>. HIDE DEF a, b, one
    <3>7. Inputs(b) = r \o <<n>>
      <4>. DEFINE g == Said(Msg)
      <4>1. a \in Seq(Msg) /\ b \in Seq(Msg)
        BY <3>2, <3>3, <3>4, UserSeq, AppendProperties
      <4>2. Gather(Append(a, one), g) = Gather(a, g) \o g[one]
        <5>1. g \in [Msg -> Seq(Numbers)]
          BY <4>1, MsgSpeaks, InputsGather
        <5>. HIDE DEF g
        <5>. QED  BY <3>6, <4>1, <5>1, GatherAppend
      <4>. QED  BY <3>4, <3>5, <3>6, <4>1, <4>2, MsgSpeaks, InputsGather
    <3>. QED  BY <3>1, <3>7, AppendIsConcat DEF b, Messages
  <2>. HIDE DEF T
  <2>. QED  BY <2>1, <2>2, SequenceInduction
<1>5. Inputs([i \in DOMAIN ns |-> Input(ns[i])]) = ns
  BY <1>4
<1>. QED  BY <1>3, <1>5 DEF Messages

LEMMA FlushSpeech ==
    ASSUME NEW c \in CtxT
    PROVE  /\ flushDeferredMessagesIfToolExchangeClosed(c) \in CtxT
           /\ Speech(flushDeferredMessagesIfToolExchangeClosed(c)) = Speech(c)
<1>. DEFINE h == c.history \o c.deferredMessages
            d == [c EXCEPT !.history = h, !.deferredMessages = <<>>]
<1>1. h \in Seq(Msg)
  BY UserSeq, ConcatProperties DEF CtxT
<1>2. Inputs(h) = Speech(c) /\ Inputs(<<>>) = <<>> /\ Inputs(h) \in Seq(Numbers)
  BY SpeechType
<1>. HIDE DEF h
<1>3. d \in CtxT /\ d.history = h /\ d.deferredMessages = <<>>
  BY <1>1, EmptySeq DEF CtxT
<1>4. Speech(d) = Speech(c)
  BY <1>2, <1>3, ConcatEmptySeq DEF Speech
<1>. QED  BY <1>3, <1>4 DEF flushDeferredMessagesIfToolExchangeClosed, h

\* An input goes to the end of what the conversation holds, deferred or not.
LEMMA AppendSpeech ==
    ASSUME NEW c \in CtxT, NothingStranded(c), NEW ns \in Seq(Numbers)
    PROVE  /\ appendMessage(c, Messages(ns)) \in CtxT
           /\ Speech(appendMessage(c, Messages(ns))) = Speech(c) \o ns
<1>. DEFINE ms == Messages(ns)
            dh == [c EXCEPT !.history = @ \o ms]
            dd == [c EXCEPT !.deferredMessages = @ \o ms]
<1>1. ms \in Seq(UserM) /\ ms \in Seq(Msg) /\ Inputs(ms) = ns
  BY MessagesSay, UserSeq
<1>. HIDE DEF ms
<1>2. /\ c.history \in Seq(Msg) /\ c.deferredMessages \in Seq(UserM)
      /\ c.deferredMessages \in Seq(Msg)
  BY UserSeq DEF CtxT
<1>3. CASE hasOpenToolExchange(c)
  <2>. DEFINE q == c.deferredMessages \o ms
  <2>1. q \in Seq(UserM)
    BY <1>1, <1>2, ConcatProperties
  <2>2. Inputs(q) = Inputs(c.deferredMessages) \o ns
    BY <1>1, <1>2, MsgSpeaks, InputsConcat
  <2>3. appendMessage(c, ms) = [c EXCEPT !.deferredMessages = q]
    BY <1>3 DEF appendMessage
  <2>. HIDE DEF q
  <2>4. /\ appendMessage(c, ms) \in CtxT /\ appendMessage(c, ms).history = c.history
        /\ appendMessage(c, ms).deferredMessages = q
    BY <2>1, <2>3 DEF CtxT
  <2>5. Inputs(c.history) \o (Inputs(c.deferredMessages) \o ns)
            = (Inputs(c.history) \o Inputs(c.deferredMessages)) \o ns
    <3>. DEFINE u == Inputs(c.history)
                v == Inputs(c.deferredMessages)
    <3>1. u \in Seq(Numbers) /\ v \in Seq(Numbers)
      BY SpeechType
    <3>. HIDE DEF u, v
    <3>2. u \o (v \o ns) = (u \o v) \o ns
      BY <3>1, ConcatAssociative
    <3>. QED  BY <3>2 DEF u, v
  <2>. QED  BY <2>2, <2>4, <2>5 DEF Speech, ms
<1>4. CASE ~ hasOpenToolExchange(c)
  <2>. DEFINE h == c.history \o ms
  <2>1. h \in Seq(Msg)
    BY <1>1, <1>2, ConcatProperties
  <2>2. Inputs(h) = Inputs(c.history) \o ns
    BY <1>1, <1>2, MsgSpeaks, InputsConcat
  <2>3. appendMessage(c, ms) = [c EXCEPT !.history = h] /\ c.deferredMessages = <<>>
    BY <1>4 DEF appendMessage, NothingStranded
  <2>. HIDE DEF h
  <2>4. /\ appendMessage(c, ms) \in CtxT /\ appendMessage(c, ms).history = h
        /\ appendMessage(c, ms).deferredMessages = <<>>
    BY <2>1, <2>3 DEF CtxT
  <2>5. /\ Inputs(<<>>) = <<>> /\ Inputs(c.history) \o ns \in Seq(Numbers)
        /\ Inputs(c.history) \o <<>> = Inputs(c.history)
    BY SpeechType, ConcatProperties, ConcatEmptySeq
  <2>. QED  BY <2>2, <2>3, <2>4, <2>5, ConcatEmptySeq DEF Speech, ms
<1>. QED  BY <1>3, <1>4

\* What a content part, and a tool call, make of the messages.
Marked(s) ==
    [m \in Msg |-> IF m.role = "assistant" /\ m.step = s
                   THEN [m EXCEPT !.sendable = TRUE] ELSE m]

Called(s, id) ==
    [m \in Msg |-> IF m.role = "assistant" /\ m.step = s
                   THEN [m EXCEPT !.toolCalls = Append(@, id)] ELSE m]

\* A change of assistant messages in their places.
InPlace(f) ==
    /\ f \in [Msg -> Msg]
    /\ \A m \in Msg : f[m].role = m.role /\ (m.role # "assistant" => f[m] = m)
                        /\ (m.role = "assistant" => f[m].step = m.step)

LEMMA ChangesInPlace ==
    /\ \A s : InPlace(Marked(s))
    /\ \A s, id : id \in CallId => InPlace(Called(s, id))
<1>1. ASSUME NEW s
      PROVE  InPlace(Marked(s))
  <2>1. \A m \in AsstM : [m EXCEPT !.sendable = TRUE] \in AsstM
                           /\ [m EXCEPT !.sendable = TRUE].step = m.step
    BY DEF AsstM
  <2>. QED  BY <2>1, MsgRoles DEF InPlace, Marked, Msg, AsstM
<1>2. ASSUME NEW s, NEW id \in CallId
      PROVE  InPlace(Called(s, id))
  <2>1. ASSUME NEW m \in AsstM
        PROVE  [m EXCEPT !.toolCalls = Append(@, id)] \in AsstM
                 /\ [m EXCEPT !.toolCalls = Append(@, id)].step = m.step
    <3>. DEFINE q == Append(m.toolCalls, id)
    <3>1. q \in Seq(CallId)
      BY AppendProperties DEF AsstM
    <3>2. [m EXCEPT !.toolCalls = Append(@, id)] = [m EXCEPT !.toolCalls = q]
      BY DEF AsstM
    <3>. HIDE DEF q
    <3>. QED  BY <3>1, <3>2 DEF AsstM
  <2>2. \A m \in AsstM : [m EXCEPT !.toolCalls = Append(@, id)].role = "assistant"
    BY DEF AsstM
  <2>. QED  BY <2>1, <2>2, MsgRoles DEF InPlace, Called, Msg
<1>. QED  BY <1>1, <1>2

LEMMA MappedSpeech ==
    ASSUME NEW h \in Seq(Msg), NEW f, InPlace(f)
    PROVE  Mapped(h, f) \in Seq(Msg) /\ Len(Mapped(h, f)) = Len(h) /\ Inputs(Mapped(h, f)) = Inputs(h)
<1>1. Len(h) \in Nat /\ DOMAIN h = 1 .. Len(h) /\ \A i \in 1 .. Len(h) : h[i] \in Msg
  BY LenProperties, ElementOfSeq
<1>2. Mapped(h, f) \in [1 .. Len(h) -> Msg]
  BY <1>1 DEF Mapped, InPlace
<1>3. Mapped(h, f) \in Seq(Msg) /\ Len(Mapped(h, f)) = Len(h)
  BY <1>1, <1>2, SeqDef
<1>4. DOMAIN Mapped(h, f) = DOMAIN h
  BY <1>1, <1>2
<1>5. \A i \in DOMAIN h : (IF Mapped(h, f)[i].role = "user" THEN <<Mapped(h, f)[i].input>> ELSE <<>>)
                           = (IF h[i].role = "user" THEN <<h[i].input>> ELSE <<>>)
  BY <1>1 DEF Mapped, InPlace
<1>. QED  BY <1>3, <1>4, <1>5 DEF Inputs

\* The events of a step, as changes in place.
LEMMA StepEvents ==
    ASSUME NEW c \in CtxT, NEW s
    PROVE  /\ contentPart(c, s) =
                IF s \in c.openSteps THEN [c EXCEPT !.history = Mapped(c.history, Marked(s))] ELSE c
           /\ \A id \in CallId : toolCall(c, s, id) =
                IF s \in c.openSteps
                THEN [c EXCEPT !.history = Mapped(c.history, Called(s, id)),
                               !.pendingToolResultIds = @ \cup {id}]
                ELSE c
<1>1. \A i \in DOMAIN c.history : c.history[i] \in Msg
  BY LenProperties, ElementOfSeq DEF CtxT
<1>2. InStep(c, s, LAMBDA m : [m EXCEPT !.sendable = TRUE])
        = [c EXCEPT !.history = Mapped(c.history, Marked(s))]
  BY <1>1 DEF InStep, Mapped, Marked
<1>3. ASSUME NEW id \in CallId
      PROVE  InStep(c, s, LAMBDA m : [m EXCEPT !.toolCalls = Append(@, id)])
                = [c EXCEPT !.history = Mapped(c.history, Called(s, id))]
  BY <1>1 DEF InStep, Mapped, Called
<1>4. ASSUME NEW id \in CallId
      PROVE  [[c EXCEPT !.history = Mapped(c.history, Called(s, id))]
                 EXCEPT !.pendingToolResultIds = @ \cup {id}]
              = [c EXCEPT !.history = Mapped(c.history, Called(s, id)),
                          !.pendingToolResultIds = @ \cup {id}]
  BY DEF CtxT
<1>. QED  BY <1>2, <1>3, <1>4 DEF contentPart, toolCall

LEMMA StepEventsSpeech ==
    ASSUME NEW c \in CtxT, NEW s
    PROVE  /\ contentPart(c, s) \in CtxT /\ Speech(contentPart(c, s)) = Speech(c)
           /\ \A id \in CallId : toolCall(c, s, id) \in CtxT /\ Speech(toolCall(c, s, id)) = Speech(c)
<1>1. c.history \in Seq(Msg)
  BY DEF CtxT
<1>2. ASSUME NEW f, InPlace(f), NEW P \in SUBSET CallId,
             NEW d, d = [c EXCEPT !.history = Mapped(c.history, f), !.pendingToolResultIds = P]
      PROVE  d \in CtxT /\ Speech(d) = Speech(c)
  <2>1. Mapped(c.history, f) \in Seq(Msg) /\ Inputs(Mapped(c.history, f)) = Inputs(c.history)
    BY <1>1, <1>2, MappedSpeech
  <2>2. d \in CtxT /\ d.history = Mapped(c.history, f) /\ d.deferredMessages = c.deferredMessages
    BY <1>2, <2>1 DEF CtxT
  <2>. QED  BY <2>1, <2>2 DEF Speech
<1>3. contentPart(c, s) \in CtxT /\ Speech(contentPart(c, s)) = Speech(c)
  <2>1. [c EXCEPT !.history = Mapped(c.history, Marked(s))]
          = [c EXCEPT !.history = Mapped(c.history, Marked(s)),
                      !.pendingToolResultIds = c.pendingToolResultIds]
    BY DEF CtxT
  <2>2. c.pendingToolResultIds \in SUBSET CallId
    BY DEF CtxT
  <2>3. CASE s \in c.openSteps
    <3>. DEFINE f == Marked(s)
                d == [c EXCEPT !.history = Mapped(c.history, f)]
    <3>1. d = contentPart(c, s)
      BY <2>3, StepEvents
    <3>2. InPlace(f)
      BY ChangesInPlace
    <3>3. d = [c EXCEPT !.history = Mapped(c.history, f),
                        !.pendingToolResultIds = c.pendingToolResultIds]
      BY <2>1
    <3>. HIDE DEF f, d
    <3>4. d \in CtxT /\ Speech(d) = Speech(c)
      BY <1>2, <2>2, <3>2, <3>3
    <3>. QED  BY <3>1, <3>4
  <2>4. CASE s \notin c.openSteps
    BY <2>4, StepEvents
  <2>. QED  BY <2>3, <2>4
<1>4. ASSUME NEW id \in CallId
      PROVE  toolCall(c, s, id) \in CtxT /\ Speech(toolCall(c, s, id)) = Speech(c)
  <2>. DEFINE P == c.pendingToolResultIds \cup {id}
  <2>1. [c EXCEPT !.history = Mapped(c.history, Called(s, id)), !.pendingToolResultIds = @ \cup {id}]
          = [c EXCEPT !.history = Mapped(c.history, Called(s, id)), !.pendingToolResultIds = P]
    BY DEF CtxT
  <2>2. P \in SUBSET CallId
    BY DEF CtxT
  <2>3. InPlace(Called(s, id))
    BY ChangesInPlace
  <2>. HIDE DEF P
  <2>4. CASE s \in c.openSteps
    <3>. DEFINE f == Called(s, id)
                d == [c EXCEPT !.history = Mapped(c.history, f), !.pendingToolResultIds = P]
    <3>1. d = toolCall(c, s, id)
      BY <2>1, <2>4, StepEvents
    <3>. HIDE DEF f, d
    <3>2. d \in CtxT /\ Speech(d) = Speech(c)
      <4>1. InPlace(f) /\ d = [c EXCEPT !.history = Mapped(c.history, f), !.pendingToolResultIds = P]
        BY <2>3 DEF f, d
      <4>. QED  BY <1>2, <2>2, <4>1
    <3>. QED  BY <3>1, <3>2
  <2>5. CASE s \notin c.openSteps
    BY <2>5, StepEvents
  <2>. QED  BY <2>4, <2>5
<1>. QED  BY <1>3, <1>4

LEMMA StepBeginSpeech ==
    ASSUME NEW c \in CtxT, NEW s \in Step
    PROVE  stepBegin(c, s) \in CtxT /\ Speech(stepBegin(c, s)) = Speech(c)
<1>. DEFINE m == Opened(s)
            h == Append(c.history, m)
<1>1. m \in Msg /\ Said(Msg)[m] = <<>>
  <2>1. m \in AsstM
    BY EmptySeq DEF Opened, AsstM
  <2>. QED  BY <2>1 DEF Msg, Said, Opened
<1>. HIDE DEF m
<1>2. c.history \in Seq(Msg) /\ h \in Seq(Msg)
  BY <1>1, AppendProperties DEF CtxT
<1>3. Inputs(h) = Inputs(c.history)
  <2>. DEFINE g == Said(Msg)
  <2>1. g \in [Msg -> Seq(Numbers)] /\ Inputs(c.history) = Gather(c.history, g)
    BY <1>2, MsgSpeaks, InputsGather
  <2>2. Inputs(h) = Gather(h, g)
    <3>. HIDE DEF h
    <3>. QED  BY <1>2, MsgSpeaks, InputsGather
  <2>. HIDE DEF g
  <2>3. Gather(h, g) = Gather(c.history, g) \o g[m]
    BY <1>1, <1>2, <2>1, GatherAppend, SMTT(30)
  <2>. QED  BY <1>1, <2>1, <2>2, <2>3, SpeechType, ConcatEmptySeq DEF g
<1>4. stepBegin(c, s) = [c EXCEPT !.history = h, !.openSteps = @ \cup {s}]
  BY DEF stepBegin, m, CtxT
<1>. HIDE DEF h
<1>5. /\ stepBegin(c, s) \in CtxT /\ stepBegin(c, s).history = h
      /\ stepBegin(c, s).deferredMessages = c.deferredMessages
  BY <1>2, <1>4 DEF CtxT
<1>. QED  BY <1>3, <1>5 DEF Speech

\* The messages of results.
ResultsOf(ids) == [i \in DOMAIN ids |-> Result(ids[i])]

LEMMA ResultsOfType ==
    ASSUME NEW ids \in Seq(CallId)
    PROVE  /\ ResultsOf(ids) \in Seq(ToolM) /\ ResultsOf(ids) \in Seq(Msg)
           /\ Len(ResultsOf(ids)) = Len(ids) /\ Inputs(ResultsOf(ids)) = <<>>
<1>1. Len(ids) \in Nat /\ DOMAIN ids = 1 .. Len(ids) /\ \A i \in 1 .. Len(ids) : ids[i] \in CallId
  BY LenProperties, ElementOfSeq
<1>2. ResultsOf(ids) \in [1 .. Len(ids) -> ToolM]
  BY <1>1 DEF ResultsOf, Result, ToolM
<1>3. ResultsOf(ids) \in Seq(ToolM) /\ Len(ResultsOf(ids)) = Len(ids)
  BY <1>1, <1>2, SeqDef
<1>4. ToolM \subseteq Msg
  BY DEF Msg
<1>5. \A i \in DOMAIN ResultsOf(ids) : ResultsOf(ids)[i].role # "user"
  BY <1>1, <1>2 DEF ToolM
<1>6. ResultsOf(ids) \in Seq(Msg)
  BY <1>3, <1>4, SeqMonotonic
<1>. QED  BY <1>3, <1>5, <1>6, InputsNone

LEMMA ResultsSpeech ==
    ASSUME NEW c \in CtxT, NEW ids \in Seq(CallId)
    PROVE  /\ toolResults(c, ids) \in CtxT /\ Speech(toolResults(c, ids)) = Speech(c)
           /\ closeAbandonedToolExchange(c, ids) \in CtxT
           /\ Speech(closeAbandonedToolExchange(c, ids)) = Speech(c)
<1>. DEFINE h == c.history \o ResultsOf(ids)
            P == c.pendingToolResultIds \ Range(ids)
            d == [c EXCEPT !.history = h, !.pendingToolResultIds = P]
<1>1. c.history \in Seq(Msg) /\ ResultsOf(ids) \in Seq(Msg) /\ h \in Seq(Msg)
  BY ResultsOfType, ConcatProperties DEF CtxT
<1>2. Inputs(h) = Inputs(c.history)
  <2>1. Inputs(h) = Inputs(c.history) \o Inputs(ResultsOf(ids))
    BY <1>1, MsgSpeaks, InputsConcat
  <2>. QED  BY <2>1, ResultsOfType, SpeechType, ConcatEmptySeq
<1>3. toolResults(c, ids) = flushDeferredMessagesIfToolExchangeClosed(d)
  BY DEF toolResults, ResultsOf
<1>. HIDE DEF h
<1>4. d \in CtxT /\ d.history = h /\ d.deferredMessages = c.deferredMessages
  BY <1>1 DEF CtxT
<1>5. Speech(d) = Speech(c)
  BY <1>2, <1>4 DEF Speech
<1>. HIDE DEF d
<1>6. toolResults(c, ids) \in CtxT /\ Speech(toolResults(c, ids)) = Speech(c)
  BY <1>3, <1>4, <1>5, FlushSpeech
<1>. QED  BY <1>6 DEF closeAbandonedToolExchange

\* Dropping a message takes no input along.
LEMMA DropSpeech ==
    ASSUME NEW c \in CtxT
    PROVE  /\ dropVacuousOpenMessages(c) \in CtxT
           /\ Speech(dropVacuousOpenMessages(c)) = Speech(c)
<1>. DEFINE V == {m \in Range(c.history) : isVacuous(c, m)}
            K == Range(c.history) \ V
            h == Select(c.history, K)
            O == c.openSteps \ {m.step : m \in V}
<1>1. c.history \in Seq(Msg) /\ Range(c.history) \subseteq Msg
  BY RangeOfSeq DEF CtxT
<1>2. h \in Seq(Msg)
  BY <1>1, SelectType
<1>3. Inputs(h) = Inputs(c.history)
  <2>. DEFINE T == K \cup (Msg \ Range(c.history))
  <2>1. \A m \in Msg : m.role = "user" => m \in T
    BY DEF isVacuous
  <2>2. h = Select(c.history, T)
    <3>1. \A i \in DOMAIN c.history : c.history[i] \in K <=> c.history[i] \in T
      BY <1>1 DEF Range
    <3>. HIDE DEF T, K
    <3>. QED  BY <3>1 DEF Select
  <2>. HIDE DEF T, h
  <2>. QED  BY <1>1, <2>1, <2>2, MsgSpeaks, InputsSelected
<1>4. dropVacuousOpenMessages(c) = [c EXCEPT !.history = h, !.openSteps = O]
  BY DEF dropVacuousOpenMessages, CtxT
<1>5. O \in SUBSET Step
  BY DEF CtxT
<1>. HIDE DEF h, O
<1>6. /\ dropVacuousOpenMessages(c) \in CtxT /\ dropVacuousOpenMessages(c).history = h
      /\ dropVacuousOpenMessages(c).deferredMessages = c.deferredMessages
  BY <1>2, <1>4, <1>5 DEF CtxT
<1>. QED  BY <1>3, <1>6 DEF Speech

\* Both conversations, the live one and the one a replay rebuilds, are well
\* formed and hold the same inputs in the same order.
ConversationInv == ctx \in CtxT /\ wire \in CtxT /\ Speech(ctx) = Speech(wire)

\* What a step does with the inputs: it leaves them alone, buffers one, hands over
\* those in the buffer (and a new one), or forgets the buffer.
Quiet ==
    /\ ctx' \in CtxT /\ wire' \in CtxT
    /\ Speech(ctx') = Speech(ctx) /\ Speech(wire') = Speech(wire)
    /\ UNCHANGED <<steerBuffer, crashes>>

Buffers ==
    /\ UNCHANGED <<ctx, wire, crashes>>
    /\ \E n \in Numbers : steerBuffer' = Append(steerBuffer, n)

HandsOver ==
    \E ns \in Seq(Numbers) :
        /\ ns = steerBuffer \/ \E n \in Numbers : ns = Append(steerBuffer, n)
        /\ ctx' \in CtxT /\ wire' \in CtxT
        /\ Speech(ctx') = Speech(ctx) \o ns /\ Speech(wire') = Speech(wire) \o ns
        /\ steerBuffer' = <<>> /\ crashes' = crashes

Forgets ==
    /\ ctx' \in CtxT /\ wire' = wire /\ Speech(ctx') = Speech(wire)
    /\ steerBuffer' = <<>> /\ crashes' = crashes + 1

LEMMA PendingFinite == ASSUME NEW c \in CtxT PROVE IsFiniteSet(c.pendingToolResultIds) /\ c.pendingToolResultIds \subseteq CallId
<1>1. IsFiniteSet(Turns) /\ IsFiniteSet(0 .. MaxSteps + 1) /\ IsFiniteSet(1 .. MaxCalls)
  BY TurnFlowAssumption, FS_Interval DEF Turns
<1>2. IsFiniteSet(CallId)
  <2>. DEFINE P == (Turns \X (0 .. MaxSteps + 1)) \X (1 .. MaxCalls)
              f == [p \in P |-> <<p[1][1], p[1][2], p[2]>>]
  <2>1. IsFiniteSet(P)
    BY <1>1, FS_Product
  <2>2. f \in Surjection(P, CallId)
    <3>1. f \in [P -> CallId]
      BY DEF CallId
    <3>2. ASSUME NEW id \in CallId
          PROVE  \E p \in P : f[p] = id
      <4>. DEFINE p == <<<<id[1], id[2]>>, id[3]>>
      <4>1. p \in P /\ f[p] = id
        BY DEF CallId
      <4>. QED  BY <4>1
    <3>. QED  BY <3>1, <3>2 DEF Surjection
  <2>. QED  BY <2>1, <2>2, FS_Surjection
<1>3. c.pendingToolResultIds \in SUBSET CallId
  BY DEF CtxT
<1>. QED  BY <1>2, <1>3, FS_Subset

LEMMA PendingSequence ==
    ASSUME NEW c \in CtxT, NEW ids \in recorded(c.pendingToolResultIds)
    PROVE  /\ ids \in Seq(CallId) /\ Range(ids) = c.pendingToolResultIds
           /\ ids = <<>> <=> c.pendingToolResultIds = {}
<1>. DEFINE P == c.pendingToolResultIds
<1>1. IsFiniteSet(P) /\ P \subseteq CallId
  BY PendingFinite
<1>. HIDE DEF P
<1>2. ids \in Seq(P) /\ Range(ids) = P /\ (ids = <<>> <=> P = {})
  BY <1>1, SequenceOfSet DEF recorded, P
<1>. QED  BY <1>1, <1>2, SeqMonotonic DEF P

LEMMA BufferType == WInv => steerBuffer \in Seq(Numbers) /\ inputs \in Nat
<1>. SUFFICES ASSUME WInv
              PROVE  steerBuffer \in Seq(Numbers) /\ inputs \in Nat
  OBVIOUS
<1>1. inputs \in Nat /\ inputs <= MaxInputs /\ steerBuffer \in Seq(1 .. inputs) /\ MaxInputs \in Nat
  BY TurnFlowAssumption DEF WInv, CountersOK
<1>. QED  BY <1>1, BufferGrows DEF Numbers

LEMMA RecordHandsOver ==
    ASSUME ConversationInv, ContextInv, NEW ns \in Seq(Numbers),
           ns = steerBuffer \/ \E n \in Numbers : ns = Append(steerBuffer, n),
           Record(LAMBDA c : appendMessage(c, Messages(ns))),
           steerBuffer' = <<>>, crashes' = crashes
    PROVE  HandsOver
<1>1. ctx' = appendMessage(ctx, Messages(ns)) /\ wire' = appendMessage(wire, Messages(ns))
  BY DEF Record
<1>2. /\ ctx \in CtxT /\ NothingStranded(ctx) /\ wire \in CtxT /\ NothingStranded(wire)
  BY DEF ConversationInv, ContextInv, Good
<1>3. /\ ctx' \in CtxT /\ Speech(ctx') = Speech(ctx) \o ns
      /\ wire' \in CtxT /\ Speech(wire') = Speech(wire) \o ns
  BY <1>1, <1>2, AppendSpeech
<1>. QED  BY <1>3 DEF HandsOver

LEMMA WorkSpeech ==
    ASSUME WInv, ConversationInv, ContextInv, NEW t \in Turns, Work(t) \/ ContentPart(t)
    PROVE  Quiet \/ HandsOver
<1>0. /\ worker[t] \in WorkerState /\ uuid(t) \in Step
      /\ \A i \in 1 .. MaxCalls : callId(t, i) \in CallId
  BY DEF WInv, WorkersOK, WorkerState, uuid, Step, callId, CallId
<1>1. CASE flushSteerBuffer /\ crashes' = crashes
  BY <1>1, BufferType, RecordHandsOver DEF flushSteerBuffer
<1>2. CASE UNCHANGED <<ctx, wire, steerBuffer, crashes>>
  BY <1>2 DEF Quiet, ConversationInv
<1>3. CASE StepBegin(t)
  BY <1>0, <1>2, <1>3, StepBeginSpeech DEF StepBegin, Record, Quiet, ConversationInv
<1>4. CASE ContentPart(t)
  BY <1>4, StepEventsSpeech DEF ContentPart, Record, Quiet, ConversationInv
<1>5. CASE ToolCall(t)
  <2>1. worker[t].called + 1 \in 1 .. MaxCalls
    BY <1>0, <1>5, TurnFlowAssumption DEF ToolCall, WorkerState
  <2>. DEFINE id == callId(t, worker[t].called + 1)
  <2>2. id \in CallId
    BY <1>0, <2>1
  <2>3. ctx' = toolCall(ctx, uuid(t), id) /\ wire' = toolCall(wire, uuid(t), id)
            /\ UNCHANGED <<steerBuffer, crashes>>
    BY <1>5 DEF ToolCall, Record
  <2>. HIDE DEF id
  <2>. QED  BY <2>2, <2>3, StepEventsSpeech DEF Quiet, ConversationInv
<1>6. CASE ToolResult(t)
  <2>1. worker[t].answered + 1 \in 1 .. MaxCalls
    BY <1>0, <1>6, TurnFlowAssumption DEF ToolResult, WorkerState
  <2>. DEFINE ids == <<callId(t, worker[t].answered + 1)>>
  <2>2. ids \in Seq(CallId)
    BY <1>0, <2>1
  <2>3. ctx' = toolResults(ctx, ids) /\ wire' = toolResults(wire, ids)
            /\ UNCHANGED <<steerBuffer, crashes>>
    BY <1>6 DEF ToolResult, Record, toolResult
  <2>. HIDE DEF ids
  <2>. QED  BY <2>2, <2>3, ResultsSpeech DEF Quiet, ConversationInv
<1>7. CASE Seal(t)
  BY <1>2, <1>7, FlushSpeech DEF Seal, Record, stepEnd, Quiet, ConversationInv
<1>8. CASE End(t)
  <2>1. PICK ids \in recorded(ctx.pendingToolResultIds) :
          /\ ctx' = dropVacuousOpenMessages(closeAbandonedToolExchange(ctx, ids))
          /\ wire' = closeAbandonedToolExchange(wire, ids)
    BY <1>8 DEF End
  <2>2. ids \in Seq(CallId)
    BY <2>1, PendingSequence DEF ConversationInv
  <2>. DEFINE c == closeAbandonedToolExchange(ctx, ids)
  <2>3. c \in CtxT /\ Speech(c) = Speech(ctx) /\ wire' \in CtxT /\ Speech(wire') = Speech(wire)
    BY <2>1, <2>2, ResultsSpeech DEF ConversationInv
  <2>4. ctx' = dropVacuousOpenMessages(c)
    BY <2>1
  <2>. HIDE DEF c
  <2>5. ctx' \in CtxT /\ Speech(ctx') = Speech(ctx)
    BY <2>3, <2>4, DropSpeech
  <2>. QED  BY <1>8, <2>3, <2>5 DEF End, Quiet
<1>. QED  BY <1>1, <1>2, <1>3, <1>4, <1>5, <1>6, <1>7, <1>8
          DEF Work, HookDone, BeginStep, LLMAnswers, Fail, Gate, StopHook

LEMMA StepSpeech ==
    ASSUME WInv, ConversationInv, ContextInv, [Next]_vars
    PROVE  Quiet \/ Buffers \/ HandsOver \/ Forgets
<1>1. CASE PromptOrSteer
  <2>1. /\ inputs' \in Numbers /\ steerBuffer \in Seq(Numbers) /\ crashes' = crashes
    BY <1>1, BufferType, TurnFlowAssumption DEF PromptOrSteer, Numbers
  <2>2. CASE activeTurn # None
    BY <1>1, <2>1, <2>2 DEF PromptOrSteer, Buffers
  <2>3. CASE activeTurn = None
    <3>. DEFINE ns == Append(steerBuffer, inputs')
    <3>1. launch(inputs')
      BY <1>1, <2>3 DEF PromptOrSteer
    <3>2. ns \in Seq(Numbers) /\ \E n \in Numbers : ns = Append(steerBuffer, n)
      BY <2>1, AppendProperties
    <3>3. Record(LAMBDA c : appendMessage(c, Messages(ns))) /\ steerBuffer' = <<>>
      BY <3>1 DEF launch, runOneTurn
    <3>. HIDE DEF ns
    <3>. QED  BY <2>1, <3>2, <3>3, RecordHandsOver
  <2>. QED  BY <2>2, <2>3
<1>2. CASE Cancel
  BY <1>2 DEF Cancel, Quiet, ConversationInv
<1>3. ASSUME NEW t \in Turns, Work(t) \/ ContentPart(t)
      PROVE  Quiet \/ HandsOver
  BY <1>3, WorkSpeech
<1>4. CASE CrashAndResume
  BY <1>4, DropSpeech DEF CrashAndResume, Forgets, ConversationInv
<1>5. CASE UNCHANGED vars
  BY <1>5 DEF vars, Quiet, ConversationInv
<1>. QED  BY <1>1, <1>2, <1>3, <1>4, <1>5 DEF Next, AtRest

LEMMA StepConversationInv ==
    ASSUME ConversationInv, Quiet \/ Buffers \/ HandsOver \/ Forgets
    PROVE  ConversationInv'
BY DEF ConversationInv, Quiet, Buffers, HandsOver, Forgets, Speech

THEOREM ConversationTyped == Spec => []ConversationInv
<1>1. Init => ConversationInv
  BY EmptyContextType DEF Init, ConversationInv
<1>2. WInv /\ ContextInv /\ ConversationInv /\ [Next]_vars => ConversationInv'
  BY StepSpeech, StepConversationInv
<1>. QED  BY <1>1, <1>2, WorkersInductive, ContextGood, PTL DEF Spec

\* The handed over part is where the accepted inputs begin.
LEMMA HandedOverFirst ==
    ASSUME NEW d \in Seq(Numbers), NEW b \in Seq(Numbers)
    PROVE  Len(d) \in Nat /\ Len(d) <= Len(d \o b) /\ d = SubSeq(d \o b, 1, Len(d))
<1>1. Len(d) \in Nat /\ Len(b) \in Nat /\ Len(d \o b) = Len(d) + Len(b)
  BY LenProperties, ConcatProperties
<1>2. CASE Len(d) = 0
  <2>1. d = <<>> /\ SubSeq(d \o b, 1, 0) = <<>>
    BY <1>2, EmptySeq, SubSeqEmpty
  <2>. QED  BY <1>1, <1>2, <2>1
<1>3. CASE Len(d) # 0
  <2>1. 1 \in 1 .. Len(d) /\ Len(d) \in 1 .. Len(d)
    BY <1>1, <1>3
  <2>2. SubSeq(d \o b, 1, Len(d)) = SubSeq(d, 1, Len(d))
    BY <2>1, SubSeqOfConcat1
  <2>. QED  BY <1>1, <2>2, SubSeqFull
<1>. QED  BY <1>2, <1>3

LEMMA InboxStep ==
    ASSUME WInv, WInv', ConversationInv, ConversationInv', Quiet \/ Buffers \/ HandsOver \/ Forgets
    PROVE  [Promise!Next]_<<Accepted, Delivered, crashes>>
<1>. DEFINE d == Speech(ctx)
            e == Speech(ctx')
<1>0. /\ d \in Seq(Numbers) /\ e \in Seq(Numbers)
      /\ steerBuffer \in Seq(Numbers) /\ steerBuffer' \in Seq(Numbers)
      /\ Delivered = d /\ Delivered' = e
      /\ Accepted = d \o steerBuffer /\ Accepted' = e \o steerBuffer'
  <2>1. ctx \in CtxT /\ ctx' \in CtxT
    BY DEF ConversationInv
  <2>2. Inputs(ctx.history \o ctx.deferredMessages) = d /\ d \in Seq(Numbers)
    BY <2>1, SpeechType
  <2>3. Inputs(ctx'.history \o ctx'.deferredMessages) = e /\ e \in Seq(Numbers)
    BY <2>1, SpeechType
  <2>4. steerBuffer' \in Seq(Numbers)
    <3>1. /\ inputs' \in Nat /\ inputs' <= MaxInputs /\ steerBuffer' \in Seq(1 .. inputs')
          /\ MaxInputs \in Nat
      BY TurnFlowAssumption DEF WInv, CountersOK
    <3>. QED  BY <3>1, BufferGrows DEF Numbers
  <2>. QED  BY <2>2, <2>3, <2>4, BufferType DEF Delivered, Accepted
<1>. HIDE DEF d, e
<1>1. Len(d) <= Len(e) => Promise!Deliver
  <2>1. /\ Len(e) \in Nat /\ Len(e) <= Len(e \o steerBuffer')
        /\ e = SubSeq(e \o steerBuffer', 1, Len(e))
    BY <1>0, HandedOverFirst
  <2>2. Len(d) \in Nat /\ Len(e \o steerBuffer') \in Nat
    BY <1>0, LenProperties, ConcatProperties
  <2>3. Len(d) <= Len(e) => \E n \in Len(d) .. Len(e \o steerBuffer') :
                                e = SubSeq(e \o steerBuffer', 1, n)
    <3>. DEFINE k == Len(e)
                total == Len(e \o steerBuffer')
    <3>1. k \in Nat /\ total \in Nat /\ k <= total /\ e = SubSeq(e \o steerBuffer', 1, k)
      BY <2>1, <2>2
    <3>. HIDE DEF k, total
    <3>2. Len(d) <= k => k \in Len(d) .. total
      BY <2>2, <3>1
    <3>. QED  BY <3>1, <3>2 DEF k, total
  <2>. QED  BY <1>0, <2>3 DEF Promise!Deliver
<1>2. CASE Quiet
  BY <1>0, <1>2 DEF Quiet, d, e
<1>3. ASSUME NEW n \in Numbers, UNCHANGED crashes, Len(d) <= Len(e),
             e \o steerBuffer' = Append(d \o steerBuffer, n)
      PROVE  Promise!Next
  BY <1>0, <1>1, <1>3 DEF Promise!Next, Promise!Step, Promise!Accept, Numbers
<1>4. ASSUME NEW n \in Numbers
      PROVE  d \o Append(steerBuffer, n) = Append(d \o steerBuffer, n)
  <2>. DEFINE one == <<n>>
              db  == d \o steerBuffer
  <2>1. one \in Seq(Numbers) /\ db \in Seq(Numbers)
    BY <1>0, ConcatProperties
  <2>2. Append(steerBuffer, n) = steerBuffer \o one /\ Append(db, n) = db \o one
    <3>1. Append(steerBuffer, n) = steerBuffer \o one
      BY <1>0, AppendIsConcat
    <3>2. Append(db, n) = db \o one
      <4>. HIDE DEF db
      <4>. QED  BY <2>1, AppendIsConcat
    <3>. QED  BY <3>1, <3>2
  <2>. HIDE DEF one
  <2>3. d \o (steerBuffer \o one) = (d \o steerBuffer) \o one
    <3>1. \A x, y, z \in Seq(Numbers) : x \o (y \o z) = (x \o y) \o z
      BY ConcatAssociative
    <3>. QED  BY <1>0, <2>1, <3>1, SMTT(30)
  <2>. QED  BY <2>2, <2>3
<1>5. CASE Buffers
  <2>1. PICK n \in Numbers : steerBuffer' = Append(steerBuffer, n)
    BY <1>5 DEF Buffers
  <2>2. e = d /\ UNCHANGED crashes /\ Len(d) \in Nat
    BY <1>0, <1>5, LenProperties DEF Buffers, d, e
  <2>. QED  BY <1>3, <1>4, <2>1, <2>2
<1>6. CASE HandsOver
  <2>1. PICK ns \in Seq(Numbers) :
          /\ ns = steerBuffer \/ \E n \in Numbers : ns = Append(steerBuffer, n)
          /\ e = d \o ns /\ steerBuffer' = <<>> /\ UNCHANGED crashes
    BY <1>6 DEF HandsOver, d, e
  <2>2. e \o steerBuffer' = d \o ns /\ Len(d) <= Len(e)
    <3>1. e \o <<>> = e /\ Len(d) \in Nat /\ Len(ns) \in Nat /\ Len(d \o ns) = Len(d) + Len(ns)
      BY <1>0, ConcatEmptySeq, ConcatProperties, LenProperties
    <3>. QED  BY <2>1, <3>1
  <2>3. CASE ns = steerBuffer
    BY <1>0, <1>1, <2>1, <2>2, <2>3 DEF Promise!Next, Promise!Step
  <2>4. ASSUME NEW n \in Numbers, ns = Append(steerBuffer, n)
        PROVE  Promise!Next
    BY <1>3, <1>4, <2>1, <2>2, <2>4
  <2>. QED  BY <2>1, <2>3, <2>4
<1>7. CASE Forgets
  <2>1. e = d /\ steerBuffer' = <<>> /\ crashes' = crashes + 1
    BY <1>7 DEF Forgets, ConversationInv, d, e
  <2>2. e \o <<>> = e
    BY <1>0, ConcatEmptySeq
  <2>. QED  BY <1>0, <2>1, <2>2 DEF Promise!Next, Promise!Restart
<1>. QED  BY <1>2, <1>5, <1>6, <1>7

\* What prompt() and steer() accept is delivered once, in the order of the calls,
\* and never taken back, whatever turns are cancelled, overlap, fail or die: a
\* crash forgets what was not delivered yet, and that alone.
THEOREM InboxImplemented == Spec => InboxSpec
<1>1. Init => Promise!Init
  <2>. SUFFICES ASSUME Init
                PROVE  Promise!Init
    OBVIOUS
  <2>1. Inputs(ctx.history \o ctx.deferredMessages) = <<>>
    BY EmptyContextType, SpeechType DEF Init
  <2>2. steerBuffer = <<>> /\ crashes = 0 /\ <<>> \o <<>> = <<>>
    BY ConcatEmptySeq, EmptySeq DEF Init
  <2>. QED  BY <2>1, <2>2 DEF Promise!Init, Accepted, Delivered
<1>2. WInv /\ WInv' /\ ContextInv /\ ConversationInv /\ ConversationInv' /\ [Next]_vars
          => [Promise!Next]_<<Accepted, Delivered, crashes>>
  <2>. SUFFICES ASSUME WInv, WInv', ContextInv, ConversationInv, ConversationInv', [Next]_vars
                PROVE  [Promise!Next]_<<Accepted, Delivered, crashes>>
    OBVIOUS
  <2>1. Quiet \/ Buffers \/ HandsOver \/ Forgets
    BY StepSpeech
  <2>. QED  BY <2>1, InboxStep
<1>. QED  BY <1>1, <1>2, WorkersInductive, ContextGood, ConversationTyped, PTL
          DEF Spec, InboxSpec, Promise!Spec

-----------------------------------------------------------------------------
(***************************************************************************)
(* The calls that wait for a result.  Each belongs to the batch its worker *)
(* is busy with, and comes after the results that batch has recorded; only *)
(* a crash leaves calls of a worker that is gone.                          *)
(***************************************************************************)

CountsOK(w) ==
    /\ w.answered <= w.called /\ w.called <= w.calls
    /\ w.pc \notin {"tools", "ending"} => w.called = 0

Awaited(id) ==
    LET w == worker[id[1]]
    IN  w.pc = "tools" /\ id[2] = w.step /\ w.answered < id[3] /\ id[3] <= w.called

Owed(id) ==
    /\ id[1] <= turnId
    /\ live(id[1]) => Awaited(id)
    /\ crashes = 0 => live(id[1])

OwedInv ==
    /\ \A t \in Turns : CountsOK(worker[t])
    /\ \A id \in ctx.pendingToolResultIds : Owed(id)

LEMMA IdParts ==
    ASSUME NEW id \in CallId
    PROVE  /\ id[1] \in Turns /\ id[1] \in Nat /\ id[2] \in Nat /\ id[3] \in Nat
           /\ <<id[1], id[2]>> \in Step
<1>1. id[1] \in Turns /\ id[2] \in 0 .. MaxSteps + 1 /\ id[3] \in 1 .. MaxCalls
  BY DEF CallId
<1>. QED  BY <1>1, TurnFlowAssumption DEF Turns, Step

LEMMA PendingAfter ==
    ASSUME NEW c \in CtxT
    PROVE  /\ \A ms : appendMessage(c, ms).pendingToolResultIds = c.pendingToolResultIds
           /\ \A s : /\ stepBegin(c, s).pendingToolResultIds = c.pendingToolResultIds
                     /\ contentPart(c, s).pendingToolResultIds = c.pendingToolResultIds
           /\ \A s, id : toolCall(c, s, id).pendingToolResultIds =
                            IF s \in c.openSteps THEN c.pendingToolResultIds \cup {id}
                            ELSE c.pendingToolResultIds
           /\ \A ids : toolResults(c, ids).pendingToolResultIds = c.pendingToolResultIds \ Range(ids)
           /\ stepEnd(c).pendingToolResultIds = c.pendingToolResultIds
           /\ dropVacuousOpenMessages(c).pendingToolResultIds = c.pendingToolResultIds
<1>. USE DEF CtxT
<1>1. \A ms : appendMessage(c, ms).pendingToolResultIds = c.pendingToolResultIds
  BY DEF appendMessage
<1>2. \A s : /\ stepBegin(c, s).pendingToolResultIds = c.pendingToolResultIds
             /\ contentPart(c, s).pendingToolResultIds = c.pendingToolResultIds
  BY DEF stepBegin, contentPart, InStep
<1>3. \A s, id : toolCall(c, s, id).pendingToolResultIds =
                    IF s \in c.openSteps THEN c.pendingToolResultIds \cup {id}
                    ELSE c.pendingToolResultIds
  BY DEF toolCall, InStep
<1>4. \A ids : toolResults(c, ids).pendingToolResultIds = c.pendingToolResultIds \ Range(ids)
  BY DEF toolResults, flushDeferredMessagesIfToolExchangeClosed
<1>5. stepEnd(c).pendingToolResultIds = c.pendingToolResultIds
  BY DEF stepEnd, flushDeferredMessagesIfToolExchangeClosed
<1>6. dropVacuousOpenMessages(c).pendingToolResultIds = c.pendingToolResultIds
  BY DEF dropVacuousOpenMessages
<1>. QED  BY <1>1, <1>2, <1>3, <1>4, <1>5, <1>6

\* The worker of t changes to w; what is still pending, but for calls of t, was
\* pending before.
LEMMA OwedChange ==
    ASSUME WInv, OwedInv, ConversationInv, ConversationInv', NEW t \in Turns,
           NEW w \in WorkerState, worker' = [worker EXCEPT ![t] = w], CountsOK(w),
           turnId <= turnId', turnId' \in Nat, crashes' = crashes,
           \A id \in ctx'.pendingToolResultIds :
              \/ id[1] # t /\ id \in ctx.pendingToolResultIds
              \/ /\ id[1] = t /\ t <= turnId' /\ w.pc = "tools" /\ id[2] = w.step
                 /\ w.answered < id[3] /\ id[3] <= w.called
    PROVE  OwedInv'
<1>1. worker \in [Turns -> WorkerState] /\ worker'[t] = w /\ \A s \in Turns \ {t} : worker'[s] = worker[s]
  BY DEF WInv, WorkersOK
<1>2. \A s \in Turns : CountsOK(worker'[s])
  BY <1>1 DEF OwedInv
<1>3. ASSUME NEW id \in ctx'.pendingToolResultIds
      PROVE  Owed(id)'
  <2>1. id[1] \in Turns /\ turnId \in Nat /\ id[1] \in Nat
    <3>1. id \in CallId
      BY DEF ConversationInv, CtxT
    <3>2. id[1] \in Turns /\ id[1] \in Nat
      BY <3>1, IdParts
    <3>3. turnId \in Nat
      BY TurnFlowAssumption DEF WInv, CountersOK
    <3>. QED  BY <3>2, <3>3
  <2>2. CASE id[1] # t /\ id \in ctx.pendingToolResultIds
    BY <1>1, <2>1, <2>2 DEF OwedInv, Owed, Awaited, live
  <2>3. CASE /\ id[1] = t /\ t <= turnId' /\ w.pc = "tools" /\ id[2] = w.step
             /\ w.answered < id[3] /\ id[3] <= w.called
    BY <1>1, <2>1, <2>3 DEF Owed, Awaited, live
  <2>. QED  BY <2>2, <2>3
<1>. QED  BY <1>2, <1>3 DEF OwedInv, CountsOK

\* A worker that is not in a batch is owed nothing.
LEMMA OwedNothing ==
    ASSUME OwedInv, NEW t \in Turns, live(t), worker[t].pc # "tools"
    PROVE  \A id \in ctx.pendingToolResultIds : id[1] # t
BY DEF OwedInv, Owed, Awaited

LEMMA WorkOwed ==
    ASSUME WInv, OwedInv, ConversationInv, ConversationInv', ContextInv,
           NEW t \in Turns, Work(t) \/ ContentPart(t)
    PROVE  OwedInv'
<1>. DEFINE P  == ctx.pendingToolResultIds
            P1 == ctx'.pendingToolResultIds
<1>0. /\ worker[t] \in WorkerState /\ worker \in [Turns -> WorkerState]
      /\ CountsOK(worker[t]) /\ ctx \in CtxT /\ turnId \in Nat /\ t <= turnId
  <2>1. worker[t].pc # "unborn"
    BY DEF Work, ContentPart, HookDone,
       BeginStep, StepBegin, LLMAnswers, Fail, ToolCall, ToolResult, Seal, Gate, StopHook, End
  <2>2. t \in Nat /\ turnId \in Nat /\ (t > turnId => worker[t].pc = "unborn")
    BY TurnFlowAssumption DEF Turns, WInv, WorkersOK, CountersOK
  <2>. QED  BY <2>1, <2>2, TurnFlowAssumption DEF WInv, WorkersOK, CountersOK, OwedInv, ConversationInv
<1>1. turnId' = turnId /\ crashes' = crashes
  BY DEF Work, ContentPart, HookDone,
       BeginStep, StepBegin, LLMAnswers, Fail, ToolCall, ToolResult, Seal, Gate, StopHook, End
\* Steps outside a batch, and into one.
<1>2. ASSUME live(t), worker[t].pc # "tools" \/ worker[t].answered = worker[t].called, P1 \subseteq P,
             NEW w \in WorkerState, worker' = [worker EXCEPT ![t] = w], CountsOK(w)
      PROVE  OwedInv'
  <2>1. \A id \in P1 : id[1] # t
    <3>1. CASE worker[t].pc # "tools"
      BY <1>2, <3>1, OwedNothing
    <3>2. CASE worker[t].answered = worker[t].called
      <4>1. ASSUME NEW id \in P, id[1] = t
            PROVE  FALSE
        <5>1. worker[t].answered < id[3] /\ id[3] <= worker[t].called
          BY <1>2, <4>1 DEF OwedInv, Owed, Awaited
        <5>2. id[3] \in Nat /\ worker[t].answered \in Nat
          <6>1. id \in CallId
            BY <1>0 DEF CtxT
          <6>2. id[3] \in Nat
            BY <6>1, IdParts
          <6>. QED  BY <1>0, <6>2, TurnFlowAssumption DEF WorkerState
        <5>. QED  BY <3>2, <5>1, <5>2
      <4>. QED  BY <1>2, <4>1
    <3>. QED  BY <1>2, <3>1, <3>2
  <2>2. \A id \in ctx'.pendingToolResultIds : id[1] # t /\ id \in ctx.pendingToolResultIds
    BY <1>2, <2>1
  <2>3. turnId <= turnId' /\ turnId' \in Nat
    BY <1>0, <1>1
  <2>. QED  BY <1>1, <1>2, <2>2, <2>3, OwedChange
<1>3. CASE ContentPart(t)
  <2>1. P1 = P /\ worker' = worker
    BY <1>0, <1>3, PendingAfter DEF ContentPart, Record
  <2>2. \A id \in P1 : Owed(id)'
    BY <1>1, <2>1 DEF OwedInv, Owed, Awaited, live
  <2>. QED  BY <2>1, <2>2 DEF OwedInv, CountsOK
<1>4. CASE ToolCall(t)
  <2>. DEFINE w  == [worker[t] EXCEPT !.called = @ + 1]
              id0 == callId(t, worker[t].called + 1)
  <2>1. worker' = [worker EXCEPT ![t] = w] /\ worker[t].pc = "tools"
            /\ worker[t].called < worker[t].calls
            /\ ctx' = toolCall(ctx, uuid(t), id0)
    BY <1>0, <1>4 DEF ToolCall, Record
  <2>2. worker[t].called + 1 \in 0 .. MaxCalls /\ worker[t].called \in Nat
            /\ worker[t].answered \in Nat /\ worker[t].calls \in Nat
    BY <1>0, <2>1, TurnFlowAssumption DEF WorkerState
  <2>3. /\ w \in WorkerState /\ w.pc = "tools" /\ w.called = worker[t].called + 1
        /\ w.answered = worker[t].answered /\ w.calls = worker[t].calls /\ w.step = worker[t].step
    BY <1>0, <2>1, <2>2 DEF WorkerState
  <2>4. CountsOK(w)
    BY <1>0, <2>1, <2>2, <2>3 DEF CountsOK
  <2>5. P1 \subseteq P \cup {id0}
    <3>1. P1 = IF uuid(t) \in ctx.openSteps THEN P \cup {id0} ELSE P
      <4>. DEFINE s == uuid(t)
      <4>. HIDE DEF id0, s
      <4>1. toolCall(ctx, s, id0).pendingToolResultIds =
                IF s \in ctx.openSteps THEN ctx.pendingToolResultIds \cup {id0}
                ELSE ctx.pendingToolResultIds
        BY <1>0, PendingAfter, SMTT(30)
      <4>. QED  BY <2>1, <4>1 DEF s
    <3>. QED  BY <3>1
  <2>6. ASSUME NEW id \in ctx'.pendingToolResultIds
        PROVE  \/ id[1] # t /\ id \in ctx.pendingToolResultIds
               \/ /\ id[1] = t /\ t <= turnId' /\ w.pc = "tools" /\ id[2] = w.step
                  /\ w.answered < id[3] /\ id[3] <= w.called
    <3>1. CASE id = id0
      <4>1. id[1] = t /\ id[2] = worker[t].step /\ id[3] = worker[t].called + 1
        BY <3>1 DEF callId
      <4>. QED  BY <1>0, <1>1, <2>2, <2>3, <4>1 DEF CountsOK
    <3>2. CASE id \in P /\ id[1] = t
      <4>1. id[2] = worker[t].step /\ worker[t].answered < id[3] /\ id[3] <= worker[t].called
        BY <2>1, <3>2 DEF OwedInv, Owed, Awaited, live
      <4>2. id[3] \in Nat
        BY <1>0, <3>2, IdParts DEF CtxT
      <4>. QED  BY <1>0, <1>1, <2>2, <2>3, <3>2, <4>1, <4>2
    <3>. QED  BY <2>5, <3>1, <3>2
  <2>. HIDE DEF w
  <2>7. turnId <= turnId' /\ turnId' \in Nat
    BY <1>0, <1>1
  <2>. QED  BY <1>1, <2>1, <2>3, <2>4, <2>6, <2>7, OwedChange
<1>5. CASE ToolResult(t)
  <2>. DEFINE w  == [worker[t] EXCEPT !.answered = @ + 1]
              id0 == callId(t, worker[t].answered + 1)
  <2>1. worker' = [worker EXCEPT ![t] = w] /\ worker[t].pc = "tools"
            /\ worker[t].answered < worker[t].called
            /\ ctx' = toolResults(ctx, <<id0>>)
    BY <1>0, <1>5 DEF ToolResult, Record, toolResult
  <2>2. worker[t].answered + 1 \in 0 .. MaxCalls /\ worker[t].called \in Nat
            /\ worker[t].answered \in Nat /\ worker[t].calls \in Nat
    BY <1>0, <2>1, TurnFlowAssumption DEF WorkerState
  <2>3. /\ w \in WorkerState /\ w.pc = "tools" /\ w.called = worker[t].called
        /\ w.answered = worker[t].answered + 1 /\ w.calls = worker[t].calls
        /\ w.step = worker[t].step
    BY <1>0, <2>1, <2>2 DEF WorkerState
  <2>4. CountsOK(w)
    BY <1>0, <2>1, <2>2, <2>3 DEF CountsOK
  <2>5. P1 = P \ {id0}
    <3>1. Range(<<id0>>) = {id0}
      BY DEF Range
    <3>. QED  BY <1>0, <2>1, <3>1, PendingAfter
  <2>6. ASSUME NEW id \in ctx'.pendingToolResultIds
        PROVE  \/ id[1] # t /\ id \in ctx.pendingToolResultIds
               \/ /\ id[1] = t /\ t <= turnId' /\ w.pc = "tools" /\ id[2] = w.step
                  /\ w.answered < id[3] /\ id[3] <= w.called
    <3>1. CASE id[1] = t
      <4>0. id \in P /\ id # id0
        BY <2>5
      <4>1. id[2] = worker[t].step /\ worker[t].answered < id[3] /\ id[3] <= worker[t].called
        BY <2>1, <3>1, <4>0 DEF OwedInv, Owed, Awaited, live
      <4>2. id[3] \in Nat /\ id = <<id[1], id[2], id[3]>>
        BY <1>0, <4>0, IdParts DEF CtxT, CallId
      <4>3. id[3] # worker[t].answered + 1
        BY <3>1, <4>0, <4>1, <4>2 DEF callId
      <4>. QED  BY <1>0, <1>1, <2>2, <2>3, <3>1, <4>1, <4>2, <4>3
    <3>. QED  BY <2>5, <3>1
  <2>. HIDE DEF w
  <2>7. turnId <= turnId' /\ turnId' \in Nat
    BY <1>0, <1>1
  <2>. QED  BY <1>1, <2>1, <2>3, <2>4, <2>6, <2>7, OwedChange
<1>. HIDE DEF P, P1
<1>6. ASSUME HookDone(t) \/ BeginStep(t) \/ StepBegin(t) \/ LLMAnswers(t) \/ Fail(t) \/ Seal(t)
                \/ Gate(t) \/ StopHook(t) \/ End(t)
      PROVE  P1 \subseteq P
  <2>. USE <1>0, PendingAfter DEF P, P1
  <2>1. CASE UNCHANGED ctx
    BY <2>1
  <2>2. CASE flushSteerBuffer
    BY <2>2 DEF flushSteerBuffer, Record
  <2>3. CASE StepBegin(t)
    BY <2>1, <2>3 DEF StepBegin, Record
  <2>4. CASE Seal(t)
    BY <2>1, <2>4 DEF Seal, Record
  <2>5. CASE End(t)
    <3>1. PICK ids \in recorded(P) : ctx' = dropVacuousOpenMessages(closeAbandonedToolExchange(ctx, ids))
      BY <2>5 DEF End
    <3>2. ids \in Seq(CallId)
      BY PendingSequence, <3>1 DEF P
    <3>. DEFINE c == closeAbandonedToolExchange(ctx, ids)
    <3>3. c \in CtxT /\ c.pendingToolResultIds \subseteq P
      BY <3>2, ResultsSpeech DEF closeAbandonedToolExchange
    <3>4. ctx' = dropVacuousOpenMessages(c)
      BY <3>1
    <3>. HIDE DEF c
    <3>. QED  BY <3>3, <3>4
  <2>. QED  BY <1>6, <2>1, <2>2, <2>3, <2>4, <2>5
            DEF HookDone, BeginStep, LLMAnswers, Fail, Gate, StopHook
\* The worker goes on, is in no batch or at the end of one.
<1>7. ASSUME NEW w \in WorkerState, worker' = [worker EXCEPT ![t] = w], CountsOK(w),
             HookDone(t) \/ BeginStep(t) \/ StepBegin(t) \/ LLMAnswers(t) \/ Fail(t) \/ Seal(t)
                \/ Gate(t) \/ StopHook(t) \/ End(t)
      PROVE  OwedInv'
  <2>1. worker[t].pc \notin {"unborn", "ended"}
          /\ (worker[t].pc # "tools" \/ worker[t].answered = worker[t].calls)
    BY <1>7 DEF HookDone, BeginStep, StepBegin, LLMAnswers, Fail, Seal, Gate, StopHook, End
  <2>2. worker[t].answered = worker[t].calls => worker[t].answered = worker[t].called
    BY <1>0, TurnFlowAssumption DEF CountsOK, WorkerState
  <2>. QED  BY <1>2, <1>6, <1>7, <2>1, <2>2 DEF live
<1>8. ASSUME NEW pc \in pcs \ {"unborn", "ended"}, Goto(t, pc),
             HookDone(t) \/ StepBegin(t) \/ Fail(t) \/ Seal(t) \/ Gate(t) \/ StopHook(t) \/ BeginStep(t),
             pc \in {"tools", "ending"} \/ worker[t].pc \notin {"tools", "ending"}
      PROVE  OwedInv'
  <2>. DEFINE w == [worker[t] EXCEPT !.pc = pc]
  <2>1. worker' = [worker EXCEPT ![t] = w] /\ w \in WorkerState
    BY <1>0, <1>8 DEF Goto, WorkerState
  <2>2. CountsOK(w)
    BY <1>0, <1>8 DEF CountsOK, WorkerState
  <2>. HIDE DEF w
  <2>. QED  BY <1>7, <1>8, <2>1, <2>2
<1>9. CASE HookDone(t) \/ StepBegin(t) \/ Fail(t) \/ Gate(t)
  <2>1. \E pc \in {"ending", "top", "llm", "stopHook"} : Goto(t, pc)
    BY <1>9 DEF HookDone, StepBegin, Fail, Gate
  <2>2. worker[t].pc \notin {"tools", "ending"}
    BY <1>9 DEF HookDone, StepBegin, Fail, Gate
  <2>. QED  BY <1>8, <1>9, <2>1, <2>2 DEF pcs
<1>10. CASE BeginStep(t)
  <2>1. CASE Goto(t, "ending")
    BY <1>8, <1>10, <2>1 DEF pcs
  <2>2. ASSUME NEW stop \in BOOLEAN,
               worker' = [worker EXCEPT ![t].pc = "before", ![t].step = @ + 1,
                                        ![t].failureStop = stop]
        PROVE  OwedInv'
    <3>. DEFINE w == [worker[t] EXCEPT !.pc = "before", !.step = @ + 1, !.failureStop = stop]
    <3>1. worker' = [worker EXCEPT ![t] = w] /\ worker[t].pc = "top"
      BY <1>0, <1>10, <2>2 DEF BeginStep
    <3>2. worker[t].step + 1 \in 0 .. MaxSteps + 1
      BY <1>0, <3>1, TurnFlowAssumption DEF WInv, WorkersOK, Bounded, WorkerState
    <3>3. w \in WorkerState /\ CountsOK(w)
      BY <1>0, <3>1, <3>2 DEF CountsOK, WorkerState, pcs
    <3>. HIDE DEF w
    <3>. QED  BY <1>7, <1>10, <3>1, <3>3
  <2>. QED  BY <1>10, <2>1, <2>2 DEF BeginStep
<1>11. CASE LLMAnswers(t)
  <2>1. PICK k \in 0 .. MaxCalls, executed \in BOOLEAN :
          worker' = [worker EXCEPT ![t].pc = "tools", ![t].calls = k, ![t].executed = executed]
    BY <1>11 DEF LLMAnswers
  <2>. DEFINE w == [worker[t] EXCEPT !.pc = "tools", !.calls = k, !.executed = executed]
  <2>2. worker' = [worker EXCEPT ![t] = w] /\ worker[t].pc = "llm"
    BY <1>0, <1>11, <2>1 DEF LLMAnswers
  <2>3. /\ w \in WorkerState /\ w.pc = "tools" /\ w.calls = k /\ w.called = worker[t].called
        /\ w.answered = worker[t].answered
    BY <1>0 DEF WorkerState, pcs
  <2>4. worker[t].called = 0 /\ worker[t].answered = 0 /\ k >= 0
    BY <1>0, <2>2, TurnFlowAssumption DEF CountsOK, WorkerState
  <2>5. CountsOK(w)
    BY <2>3, <2>4 DEF CountsOK
  <2>. HIDE DEF w
  <2>. QED  BY <1>7, <1>11, <2>2, <2>3, <2>5
<1>12. CASE Seal(t)
  <2>1. CASE Goto(t, "ending")
    BY <1>8, <1>12, <2>1 DEF pcs
  <2>2. ASSUME NEW rejected \in {0, worker[t].rejected, worker[t].rejected + 1},
               NEW pc \in AfterStep(t, rejected),
               worker' = [worker EXCEPT ![t] = [@ EXCEPT !.pc = pc, !.rejected = rejected,
                          !.calls = 0, !.called = 0, !.answered = 0, !.executed = FALSE]]
        PROVE  OwedInv'
    <3>. DEFINE w == [worker[t] EXCEPT !.pc = pc, !.rejected = rejected,
                        !.calls = 0, !.called = 0, !.answered = 0, !.executed = FALSE]
    <3>1. worker' = [worker EXCEPT ![t] = w] /\ worker[t].pc = "tools"
      BY <1>0, <1>12, <2>2 DEF Seal
    <3>2. rejected \in 0 .. MaxRejected /\ 0 \in 0 .. MaxCalls
      BY <1>0, <3>1, TurnFlowAssumption DEF WInv, WorkersOK, Bounded, WorkerState
    <3>3. pc \in {"ending", "top", "gate"}
      BY DEF AfterStep
    <3>4. w \in WorkerState /\ w.calls = 0 /\ w.called = 0 /\ w.answered = 0
      BY <1>0, <3>2, <3>3 DEF WorkerState, pcs
    <3>5. CountsOK(w)
      BY <3>4 DEF CountsOK
    <3>. HIDE DEF w
    <3>. QED  BY <1>7, <1>12, <3>1, <3>4, <3>5
  <2>. QED  BY <1>12, <2>1, <2>2 DEF Seal
<1>13. CASE StopHook(t)
  <2>0. worker[t].pc = "stopHook"
    BY <1>13 DEF StopHook
  <2>1. ASSUME NEW pc \in {"top", "ending"}, Goto(t, pc)
        PROVE  OwedInv'
    BY <1>8, <1>13, <2>0, <2>1 DEF pcs
  <2>2. ASSUME worker' = [worker EXCEPT ![t].pc = "top", ![t].stopHookUsed = TRUE]
        PROVE  OwedInv'
    <3>. DEFINE w == [worker[t] EXCEPT !.pc = "top", !.stopHookUsed = TRUE]
    <3>1. worker' = [worker EXCEPT ![t] = w]
      BY <1>0, <2>2
    <3>2. w \in WorkerState /\ CountsOK(w)
      BY <1>0, <2>0 DEF CountsOK, WorkerState, pcs
    <3>. HIDE DEF w
    <3>. QED  BY <1>7, <1>13, <3>1, <3>2
  <2>. QED  BY <1>13, <2>1, <2>2 DEF StopHook
<1>14. CASE End(t)
  <2>1. worker' = [worker EXCEPT ![t] = Over]
    BY <1>14 DEF End
  <2>2. Over \in WorkerState /\ CountsOK(Over)
    BY IdleOK DEF Over, Idle, CountsOK
  <2>. QED  BY <1>7, <1>14, <2>1, <2>2
<1>. QED  BY <1>3, <1>4, <1>5, <1>9, <1>10, <1>11, <1>12, <1>13, <1>14 DEF Work

\* A call that the log has is one of a turn that was launched.
LoggedInv == \A id \in wire.pendingToolResultIds : id[1] <= turnId

LEMMA StepLogged ==
    ASSUME WInv, LoggedInv, ConversationInv, ConversationInv', [Next]_vars
    PROVE  LoggedInv'
<1>0. wire \in CtxT /\ turnId \in Nat
  BY TurnFlowAssumption DEF ConversationInv, WInv, CountersOK
<1>1. turnId' \in Nat /\ turnId <= turnId'
  <2>1. turnId' = turnId \/ turnId' = turnId + 1
    BY DEF Next, AtRest, vars, PromptOrSteer, launch, Cancel, CrashAndResume, Work, ContentPart,
       HookDone, BeginStep, StepBegin, LLMAnswers, Fail, ToolCall, ToolResult, Seal, Gate, StopHook, End
  <2>. QED  BY <1>0, <2>1
<1>2. ASSUME wire'.pendingToolResultIds \subseteq wire.pendingToolResultIds
      PROVE  LoggedInv'
  <2>1. \A id \in wire.pendingToolResultIds : id[1] \in Nat
    BY <1>0, IdParts DEF CtxT
  <2>. QED  BY <1>0, <1>1, <1>2, <2>1 DEF LoggedInv
<1>3. CASE UNCHANGED wire
  BY <1>2, <1>3
<1>4. ASSUME NEW ms, wire' = appendMessage(wire, ms)
      PROVE  LoggedInv'
  BY <1>0, <1>2, <1>4, PendingAfter
<1>5. CASE PromptOrSteer
  BY <1>3, <1>4, <1>5 DEF PromptOrSteer, launch, runOneTurn, Record
<1>6. ASSUME NEW t \in Turns, ToolCall(t)
      PROVE  LoggedInv'
  <2>. DEFINE id0 == callId(t, worker[t].called + 1)
              s == uuid(t)
  <2>1. wire' = toolCall(wire, s, id0) /\ worker[t].pc = "tools" /\ turnId' = turnId
    BY <1>6 DEF ToolCall, Record
  <2>2. id0[1] = t /\ t <= turnId
    BY <1>0, <2>1, TurnFlowAssumption DEF callId, WInv, WorkersOK, Turns
  <2>. HIDE DEF id0, s
  <2>3. wire'.pendingToolResultIds \subseteq wire.pendingToolResultIds \cup {id0}
    <3>1. toolCall(wire, s, id0).pendingToolResultIds =
              IF s \in wire.openSteps THEN wire.pendingToolResultIds \cup {id0}
              ELSE wire.pendingToolResultIds
      <4>1. \A s1, id1 : toolCall(wire, s1, id1).pendingToolResultIds =
                IF s1 \in wire.openSteps THEN wire.pendingToolResultIds \cup {id1}
                ELSE wire.pendingToolResultIds
        BY <1>0, PendingAfter
      <4>. QED  BY <4>1
    <3>. QED  BY <2>1, <3>1
  <2>. QED  BY <2>1, <2>2, <2>3 DEF LoggedInv
<1>7. ASSUME NEW t \in Turns, ToolResult(t)
      PROVE  LoggedInv'
  BY <1>0, <1>2, <1>7, PendingAfter DEF ToolResult, Record, toolResult
<1>8. ASSUME NEW t \in Turns, End(t)
      PROVE  LoggedInv'
  <2>1. PICK ids : wire' = closeAbandonedToolExchange(wire, ids)
    BY <1>8 DEF End
  <2>2. toolResults(wire, ids).pendingToolResultIds \subseteq wire.pendingToolResultIds
    BY <1>0, PendingAfter
  <2>. QED  BY <1>2, <1>3, <2>1, <2>2 DEF closeAbandonedToolExchange
<1>9. ASSUME NEW t \in Turns, flushSteerBuffer \/ StepBegin(t) \/ ContentPart(t) \/ Seal(t)
      PROVE  LoggedInv'
  <2>1. CASE flushSteerBuffer
    BY <1>4, <2>1 DEF flushSteerBuffer, Record
  <2>2. CASE StepBegin(t)
    BY <1>0, <1>2, <1>3, <2>2, PendingAfter DEF StepBegin, Record
  <2>3. CASE ContentPart(t)
    BY <1>0, <1>2, <2>3, PendingAfter DEF ContentPart, Record
  <2>4. CASE Seal(t)
    BY <1>0, <1>2, <1>3, <2>4, PendingAfter DEF Seal, Record
  <2>. QED  BY <1>9, <2>1, <2>2, <2>3, <2>4
<1>. QED  BY <1>3, <1>5, <1>6, <1>7, <1>8, <1>9
          DEF Next, AtRest, vars, Cancel, CrashAndResume, Work, HookDone, BeginStep, LLMAnswers,
              Fail, Gate, StopHook

LEMMA StepOwed ==
    ASSUME WInv, LoggedInv, OwedInv, ConversationInv, ConversationInv', ContextInv, [Next]_vars
    PROVE  OwedInv'
<1>0. ctx \in CtxT /\ turnId \in Nat /\ crashes \in Nat
  BY TurnFlowAssumption DEF ConversationInv, WInv, CountersOK
<1>1. ASSUME UNCHANGED <<worker, turnId, crashes>>, UNCHANGED ctx.pendingToolResultIds
      PROVE  OwedInv'
  BY <1>1 DEF OwedInv, Owed, Awaited, CountsOK, live
<1>2. CASE PromptOrSteer
  <2>1. CASE activeTurn # None
    BY <1>1, <1>2, <2>1 DEF PromptOrSteer
  <2>2. CASE activeTurn = None
    <3>. DEFINE t == turnId + 1
                w == [Idle EXCEPT !.pc = "hook", !.prompt = inputs']
    <3>1. /\ t \in Turns /\ turnId' = t /\ worker' = [worker EXCEPT ![t] = w]
          /\ \E ms : ctx' = appendMessage(ctx, ms)
          /\ crashes' = crashes /\ inputs' \in 0 .. MaxInputs
      BY <1>2, <2>2, TurnFlowAssumption
         DEF PromptOrSteer, launch, runOneTurn, Record, WInv, CountersOK
    <3>2. w \in WorkerState
      BY <3>1, IdleOK DEF WorkerState, pcs
    <3>5. CountsOK(w)
      BY DEF Idle, CountsOK
    <3>3. \A id \in ctx'.pendingToolResultIds : id[1] # t /\ id \in ctx.pendingToolResultIds
      <4>1. ctx'.pendingToolResultIds = ctx.pendingToolResultIds
        BY <1>0, <3>1, PendingAfter
      <4>2. \A id \in ctx.pendingToolResultIds : id[1] <= turnId /\ id[1] \in Nat
        BY <1>0, IdParts DEF OwedInv, Owed, CtxT
      <4>. QED  BY <1>0, <4>1, <4>2
    <3>. HIDE DEF w
    <3>4. turnId <= turnId' /\ turnId' \in Nat
      BY <1>0, <3>1
    <3>. QED  BY <3>1, <3>2, <3>3, <3>4, <3>5, OwedChange
  <2>. QED  BY <2>1, <2>2
<1>3. CASE Cancel
  <2>. DEFINE w == [worker[activeTurn] EXCEPT !.aborted = TRUE]
  <2>1. /\ activeTurn \in Turns /\ worker' = [worker EXCEPT ![activeTurn] = w]
        /\ worker[activeTurn] \in WorkerState
        /\ UNCHANGED <<ctx, turnId, crashes>>
    BY <1>3 DEF Cancel, WInv, WorkersOK
  <2>2. worker \in [Turns -> WorkerState]
    BY DEF WInv, WorkersOK
  <2>3. \A t \in Turns : worker'[t] = worker[t] \/ worker'[t] = [worker[t] EXCEPT !.aborted = TRUE]
    BY <2>1, <2>2
  <2>4. \A t \in Turns : /\ worker'[t].pc = worker[t].pc /\ worker'[t].step = worker[t].step
                         /\ worker'[t].calls = worker[t].calls /\ worker'[t].called = worker[t].called
                         /\ worker'[t].answered = worker[t].answered
    BY <2>2, <2>3, ZenonT(30) DEF WorkerState
  <2>5. \A id \in ctx.pendingToolResultIds : id[1] \in Turns
    BY <1>0, IdParts DEF CtxT
  <2>. QED  BY <2>1, <2>4, <2>5 DEF OwedInv, Owed, Awaited, CountsOK, live
<1>4. CASE CrashAndResume
  <2>1. /\ crashes' # 0 /\ turnId' = turnId
        /\ \A t \in Turns : worker'[t].pc \in {"unborn", "ended"} /\ CountsOK(worker'[t])
    BY <1>0, <1>4, IdleOK DEF CrashAndResume, OwedInv, CountsOK, live, Over, Idle
  <2>2. \A id \in ctx'.pendingToolResultIds : id[1] \in Turns /\ id[1] <= turnId
    <3>1. ctx'.pendingToolResultIds = wire.pendingToolResultIds /\ wire \in CtxT
      BY <1>4, PendingAfter DEF CrashAndResume, ConversationInv
    <3>2. \A id \in wire.pendingToolResultIds : id[1] \in Turns
      BY <3>1, IdParts DEF CtxT
    <3>. QED  BY <3>1, <3>2 DEF LoggedInv
  <2>. QED  BY <2>1, <2>2 DEF OwedInv, Owed, Awaited, CountsOK, live
<1>5. ASSUME NEW t \in Turns, Work(t) \/ ContentPart(t)
      PROVE  OwedInv'
  BY <1>5, WorkOwed
<1>. QED  BY <1>1, <1>2, <1>3, <1>4, <1>5 DEF Next, AtRest, vars

THEOREM CallsOwed == Spec => [](OwedInv /\ LoggedInv)
<1>1. Init => OwedInv /\ LoggedInv
  BY DEF Init, OwedInv, LoggedInv, EmptyContext, CountsOK, Idle
<1>2. WInv /\ OwedInv /\ LoggedInv /\ ConversationInv /\ ConversationInv' /\ ContextInv /\ [Next]_vars
          => OwedInv' /\ LoggedInv'
  BY StepOwed, StepLogged
<1>. QED  BY <1>1, <1>2, WorkersInductive, ContextGood, ConversationTyped, PTL DEF Spec

\* As long as the process has not died, a request is built from all that was
\* said before it: no call of the steps before still waits, so nothing is deferred.
\* (After a crash it may be: the exchange the process died in is left open.)
THEOREM NothingHeldBackWithoutCrash == Spec => [](crashes = 0 => NothingHeldBack)
<1>1. ContextInv /\ ConversationInv /\ OwedInv => (crashes = 0 => NothingHeldBack)
  <2>. SUFFICES ASSUME ContextInv, ConversationInv, OwedInv, crashes = 0,
                       NEW t \in Turns, worker[t].pc = "before",
                       \A u \in Turns \ {t} : ~ live(u)
                PROVE  ctx.deferredMessages = <<>>
    BY DEF NothingHeldBack
  <2>1. ASSUME NEW id \in ctx.pendingToolResultIds
        PROVE  FALSE
    <3>1. id[1] \in Turns
      BY IdParts DEF ConversationInv, CtxT
    <3>2. live(id[1]) /\ worker[id[1]].pc = "tools"
      BY DEF OwedInv, Owed, Awaited
    <3>. QED  BY <3>1, <3>2
  <2>. QED  BY <2>1 DEF ContextInv, Good, NothingStranded, hasOpenToolExchange
<1>. QED  BY <1>1, CallsOwed, ContextGood, ConversationTyped, PTL

-----------------------------------------------------------------------------
(***************************************************************************)
(* What a crash would change.  The live conversation is the logged one     *)
(* without the messages of some steps, all of which a replay would drop.   *)
(***************************************************************************)

Standing(D) == {m \in Msg : m.role = "assistant" => m.step \notin D}

Without(c, D) == [c EXCEPT !.history = Select(@, Standing(D)), !.openSteps = @ \ D]

VacuousSteps(c) == {m.step : m \in {n \in Range(c.history) : isVacuous(c, n)}}

OneEach(c) ==
    \A m, n \in Range(c.history) :
        m.role = "assistant" /\ n.role = "assistant" /\ m.step = n.step => m = n

LEMMA CtxEqual ==
    ASSUME NEW c \in CtxT, NEW d \in CtxT, c.history = d.history, c.openSteps = d.openSteps,
           c.pendingToolResultIds = d.pendingToolResultIds, c.deferredMessages = d.deferredMessages
    PROVE  c = d
BY DEF CtxT

LEMMA WithoutFields ==
    ASSUME NEW c \in CtxT, NEW D
    PROVE  /\ Without(c, D) \in CtxT
           /\ Without(c, D).history = Select(c.history, Standing(D))
           /\ Without(c, D).openSteps = c.openSteps \ D
           /\ Without(c, D).pendingToolResultIds = c.pendingToolResultIds
           /\ Without(c, D).deferredMessages = c.deferredMessages
<1>. DEFINE h == Select(c.history, Standing(D))
<1>1. h \in Seq(Msg)
  BY SelectType DEF CtxT
<1>2. Without(c, D) = [c EXCEPT !.history = h, !.openSteps = @ \ D]
  BY DEF Without, CtxT
<1>. HIDE DEF h
<1>3. /\ Without(c, D) \in CtxT /\ Without(c, D).history = h
      /\ Without(c, D).openSteps = c.openSteps \ D
      /\ Without(c, D).pendingToolResultIds = c.pendingToolResultIds
      /\ Without(c, D).deferredMessages = c.deferredMessages
  BY <1>1, <1>2 DEF CtxT
<1>. QED  BY <1>3 DEF h

LEMMA DropFields ==
    ASSUME NEW c \in CtxT, OneEach(c)
    PROVE  dropVacuousOpenMessages(c) = Without(c, VacuousSteps(c))
<1>. DEFINE V == {m \in Range(c.history) : isVacuous(c, m)}
            W == VacuousSteps(c)
<1>1. \A m \in Range(c.history) : m \in Msg
  BY RangeOfSeq DEF CtxT
<1>2. \A i \in DOMAIN c.history : c.history[i] \in Range(c.history) \ V <=> c.history[i] \in Standing(W)
  BY <1>1 DEF Range, Standing, VacuousSteps, OneEach, isVacuous
<1>3. Select(c.history, Range(c.history) \ V) = Select(c.history, Standing(W))
  <2>. HIDE DEF V, W
  <2>. QED  BY <1>2, SelectSame
<1>4. {m.step : m \in V} = W
  BY DEF VacuousSteps
<1>5. dropVacuousOpenMessages(c)
        = [c EXCEPT !.history = Select(c.history, Range(c.history) \ V),
                    !.openSteps = c.openSteps \ {m.step : m \in V}]
  BY DEF dropVacuousOpenMessages, CtxT
<1>6. Without(c, W) = [c EXCEPT !.history = Select(c.history, Standing(W)), !.openSteps = c.openSteps \ W]
  BY DEF Without, CtxT
<1>. HIDE DEF V, W
<1>7. dropVacuousOpenMessages(c) = Without(c, W)
  BY <1>3, <1>4, <1>5, <1>6
<1>. QED  BY <1>7 DEF W

\* Dropping some of the messages that have nothing to send before the others
\* makes no difference.
LEMMA DropOnce ==
    ASSUME NEW c \in CtxT, OneEach(c), NEW D, D \subseteq VacuousSteps(c)
    PROVE  dropVacuousOpenMessages(Without(c, D)) = dropVacuousOpenMessages(c)
<1>. DEFINE d == Without(c, D)
            V == VacuousSteps(c)
            K == Range(c.history)
<1>1. c.history \in Seq(Msg) /\ K \subseteq Msg
  BY RangeOfSeq DEF CtxT
<1>2. /\ d \in CtxT /\ d.history = Select(c.history, Standing(D)) /\ d.openSteps = c.openSteps \ D
      /\ d.pendingToolResultIds = c.pendingToolResultIds
      /\ d.deferredMessages = c.deferredMessages
  BY WithoutFields
<1>. HIDE DEF d
<1>3. Range(d.history) = K \cap Standing(D)
  BY <1>1, <1>2, SelectRange
<1>4. OneEach(d)
  BY <1>3 DEF OneEach
<1>5. VacuousSteps(d) = V \ D
  BY <1>1, <1>2, <1>3 DEF VacuousSteps, isVacuous, Standing, OneEach
<1>6. dropVacuousOpenMessages(d) = Without(d, V \ D) /\ dropVacuousOpenMessages(c) = Without(c, V)
  BY <1>2, <1>4, <1>5, DropFields
<1>7. Standing(D) \cap Standing(V \ D) = Standing(V)
  <2>. HIDE DEF V
  <2>1. D \subseteq V
    BY DEF V
  <2>. QED  BY <2>1 DEF Standing
<1>. HIDE DEF V
<1>8. Select(Select(c.history, Standing(D)), Standing(V \ D)) = Select(c.history, Standing(V))
  <2>. DEFINE A == Standing(D)
              B == Standing(V \ D)
  <2>1. A \cap B = Standing(V)
    BY <1>7
  <2>. HIDE DEF A, B
  <2>2. Select(Select(c.history, A), B) = Select(c.history, A \cap B)
    BY <1>1, SelectSelect
  <2>. QED  BY <2>1, <2>2 DEF A, B
<1>9. (c.openSteps \ D) \ (V \ D) = c.openSteps \ V
  BY DEF V
<1>10. Without(d, V \ D) = Without(c, V)
  <2>. DEFINE e == Without(d, V \ D)
              f == Without(c, V)
  <2>1. /\ e \in CtxT /\ e.history = Select(d.history, Standing(V \ D))
        /\ e.openSteps = d.openSteps \ (V \ D)
        /\ e.pendingToolResultIds = d.pendingToolResultIds
        /\ e.deferredMessages = d.deferredMessages
    BY <1>2, WithoutFields
  <2>2. /\ f \in CtxT /\ f.history = Select(c.history, Standing(V))
        /\ f.openSteps = c.openSteps \ V
        /\ f.pendingToolResultIds = c.pendingToolResultIds
        /\ f.deferredMessages = c.deferredMessages
    BY WithoutFields
  <2>. HIDE DEF e, f
  <2>3. e.history = f.history /\ e.openSteps = f.openSteps
    BY <1>2, <1>8, <1>9, <2>1, <2>2
  <2>4. e.pendingToolResultIds = f.pendingToolResultIds /\ e.deferredMessages = f.deferredMessages
    BY <1>2, <2>1, <2>2
  <2>5. e = f
    BY <2>1, <2>2, <2>3, <2>4, CtxEqual
  <2>. QED  BY <2>5 DEF e, f
<1>. QED  BY <1>6, <1>10 DEF d

(***************************************************************************)
(* What appends to a conversation: results, and inputs behind them once    *)
(* nothing is pending.  What it appends depends on what is pending and     *)
(* deferred alone.                                                         *)
(***************************************************************************)

Extended(c, a, b, P, q) ==
    [c EXCEPT !.history = @ \o (a \o b), !.pendingToolResultIds = P, !.deferredMessages = q]

Extension(c, a, b, P, q) ==
    /\ a \in Seq(ToolM) /\ b \in Seq(UserM) /\ q \in Seq(UserM)
    /\ P \subseteq c.pendingToolResultIds
    /\ b # <<>> => P = {}

LEMMA ExtendedFields ==
    ASSUME NEW c \in CtxT, NEW a, NEW b, NEW P, NEW q, Extension(c, a, b, P, q)
    PROVE  /\ Extended(c, a, b, P, q) \in CtxT
           /\ Extended(c, a, b, P, q).history = c.history \o (a \o b)
           /\ Extended(c, a, b, P, q).openSteps = c.openSteps
           /\ Extended(c, a, b, P, q).pendingToolResultIds = P
           /\ Extended(c, a, b, P, q).deferredMessages = q
           /\ a \o b \in Seq(UserM \cup ToolM) /\ a \o b \in Seq(Msg)
<1>. DEFINE r == a \o b
            h == c.history \o r
            d == [c EXCEPT !.history = h, !.pendingToolResultIds = P, !.deferredMessages = q]
<1>1. UserM \subseteq UserM \cup ToolM /\ ToolM \subseteq UserM \cup ToolM /\ UserM \cup ToolM \subseteq Msg
  BY DEF Msg
<1>2. a \in Seq(UserM \cup ToolM) /\ b \in Seq(UserM \cup ToolM)
  BY <1>1, SeqMonotonic DEF Extension
<1>3. r \in Seq(UserM \cup ToolM)
  BY <1>2, ConcatProperties
<1>4. r \in Seq(Msg)
  BY <1>1, <1>3, SeqMonotonic
<1>. HIDE DEF r
<1>5. c.history \in Seq(Msg)
  BY DEF CtxT
<1>6. h \in Seq(Msg)
  BY <1>4, <1>5, ConcatProperties
<1>7. Extended(c, a, b, P, q) = d
  BY DEF Extended, r, CtxT
<1>. HIDE DEF h
<1>8. /\ d \in CtxT /\ d.history = h /\ d.openSteps = c.openSteps /\ d.pendingToolResultIds = P
      /\ d.deferredMessages = q
  BY <1>6 DEF CtxT, Extension
<1>. QED  BY <1>3, <1>4, <1>7, <1>8 DEF h, r

LEMMA ExtendedOpen ==
    ASSUME NEW c \in CtxT, NEW a, NEW b, NEW P, NEW q
    PROVE  Extended(c, a, b, P, q).openSteps = c.openSteps
BY DEF Extended, CtxT

\* It does the same to the conversation without the messages of some steps.
LEMMA ExtendedWithout ==
    ASSUME NEW c \in CtxT, NEW a, NEW b, NEW P, NEW q, Extension(c, a, b, P, q), NEW D
    PROVE  Extended(Without(c, D), a, b, P, q) = Without(Extended(c, a, b, P, q), D)
<1>. DEFINE d == Without(c, D)
            e == Extended(c, a, b, P, q)
            f == Extended(d, a, b, P, q)
            g == Without(e, D)
            T == Standing(D)
            r == a \o b
<1>0. \A x \in CtxT : Extension(x, a, b, P, q) =>
        /\ Extended(x, a, b, P, q) \in CtxT
        /\ Extended(x, a, b, P, q).history = x.history \o (a \o b)
        /\ Extended(x, a, b, P, q).openSteps = x.openSteps
        /\ Extended(x, a, b, P, q).pendingToolResultIds = P
        /\ Extended(x, a, b, P, q).deferredMessages = q
        /\ a \o b \in Seq(UserM \cup ToolM) /\ a \o b \in Seq(Msg)
  BY ExtendedFields
<1>1. /\ d \in CtxT /\ d.history = Select(c.history, T) /\ d.openSteps = c.openSteps \ D
      /\ d.pendingToolResultIds = c.pendingToolResultIds
  BY WithoutFields
<1>2. /\ e \in CtxT /\ e.history = c.history \o r /\ e.openSteps = c.openSteps
      /\ e.pendingToolResultIds = P /\ e.deferredMessages = q
      /\ r \in Seq(UserM \cup ToolM) /\ r \in Seq(Msg)
  BY <1>0
<1>. HIDE DEF d, e
<1>3. Extension(d, a, b, P, q)
  BY <1>1 DEF Extension
<1>4. /\ f \in CtxT /\ f.history = d.history \o r /\ f.openSteps = d.openSteps
      /\ f.pendingToolResultIds = P /\ f.deferredMessages = q
  BY <1>0, <1>1, <1>3
<1>5. /\ g \in CtxT /\ g.history = Select(e.history, T) /\ g.openSteps = e.openSteps \ D
      /\ g.pendingToolResultIds = P /\ g.deferredMessages = q
  BY <1>2, WithoutFields
<1>. HIDE DEF f, g
<1>6. Select(c.history \o r, T) = Select(c.history, T) \o r
  <2>1. \A i \in DOMAIN r : r[i] \in UserM \cup ToolM
    BY <1>2, LenProperties, ElementOfSeq
  <2>2. \A m \in UserM \cup ToolM : m \in T
    BY MsgRoles DEF Standing, Msg, UserM, ToolM
  <2>. HIDE DEF r, T
  <2>3. Select(r, T) = r
    BY <1>2, <2>1, <2>2, SelectAll
  <2>4. c.history \in Seq(Msg)
    BY DEF CtxT
  <2>5. \A x, y \in Seq(Msg) : Select(x \o y, T) = Select(x, T) \o Select(y, T)
    BY SelectConcat
  <2>6. Select(c.history \o r, T) = Select(c.history, T) \o Select(r, T)
    BY <1>2, <2>4, <2>5
  <2>. QED  BY <2>3, <2>6
<1>. HIDE DEF r, T
<1>7. f.history = g.history /\ f.openSteps = g.openSteps
  BY <1>1, <1>2, <1>4, <1>5, <1>6
<1>8. f = g
  BY <1>4, <1>5, <1>7, CtxEqual
<1>. QED  BY <1>8 DEF d, e, f, g

LEMMA AppendExtends ==
    ASSUME NEW c \in CtxT, NEW ms \in Seq(UserM)
    PROVE  LET a == <<>>
               b == IF hasOpenToolExchange(c) THEN <<>> ELSE ms
               P == c.pendingToolResultIds
               q == IF hasOpenToolExchange(c) THEN c.deferredMessages \o ms ELSE c.deferredMessages
           IN  /\ Extension(c, a, b, P, q)
               /\ \A d \in CtxT : /\ d.pendingToolResultIds = c.pendingToolResultIds
                                   /\ d.deferredMessages = c.deferredMessages
                                   => appendMessage(d, ms) = Extended(d, a, b, P, q)
<1>1. c.deferredMessages \in Seq(UserM) /\ c.deferredMessages \o ms \in Seq(UserM) /\ <<>> \in Seq(ToolM)
  BY ConcatProperties, EmptySeq DEF CtxT
<1>2. <<>> \o ms = ms /\ <<>> \o <<>> = <<>> /\ \A d \in CtxT : d.history \o <<>> = d.history
  BY ConcatEmptySeq, EmptySeq DEF CtxT
<1>3. CASE hasOpenToolExchange(c)
  <2>. DEFINE q == c.deferredMessages \o ms
  <2>1. q \in Seq(UserM) /\ <<>> \in Seq(ToolM) /\ <<>> \in Seq(UserM)
    BY <1>1, EmptySeq
  <2>2. ASSUME NEW d \in CtxT, d.pendingToolResultIds = c.pendingToolResultIds,
               d.deferredMessages = c.deferredMessages
        PROVE  appendMessage(d, ms) = Extended(d, <<>>, <<>>, c.pendingToolResultIds, q)
    <3>1. appendMessage(d, ms) = [d EXCEPT !.deferredMessages = q]
      BY <1>3, <2>2 DEF appendMessage, hasOpenToolExchange
    <3>2. Extended(d, <<>>, <<>>, c.pendingToolResultIds, q)
            = [d EXCEPT !.history = d.history, !.pendingToolResultIds = d.pendingToolResultIds,
                        !.deferredMessages = q]
      BY <1>2, <2>2 DEF Extended, CtxT
    <3>. HIDE DEF q
    <3>. QED  BY <3>1, <3>2 DEF CtxT
  <2>. HIDE DEF q
  <2>3. Extension(c, <<>>, <<>>, c.pendingToolResultIds, q)
    BY <2>1 DEF Extension
  <2>. QED  BY <1>3, <2>2, <2>3 DEF q
<1>4. CASE ~ hasOpenToolExchange(c)
  <2>1. ASSUME NEW d \in CtxT, d.pendingToolResultIds = c.pendingToolResultIds,
               d.deferredMessages = c.deferredMessages
        PROVE  appendMessage(d, ms) = Extended(d, <<>>, ms, c.pendingToolResultIds, c.deferredMessages)
    <3>1. appendMessage(d, ms) = [d EXCEPT !.history = d.history \o ms]
      BY <1>4, <2>1 DEF appendMessage, hasOpenToolExchange, CtxT
    <3>2. Extended(d, <<>>, ms, c.pendingToolResultIds, c.deferredMessages)
            = [d EXCEPT !.history = d.history \o ms, !.pendingToolResultIds = d.pendingToolResultIds,
                        !.deferredMessages = d.deferredMessages]
      BY <1>2, <2>1 DEF Extended, CtxT
    <3>. DEFINE h == d.history \o ms
    <3>. HIDE DEF h
    <3>. QED  BY <3>1, <3>2 DEF CtxT
  <2>2. Extension(c, <<>>, ms, c.pendingToolResultIds, c.deferredMessages)
    BY <1>1, <1>4 DEF Extension, hasOpenToolExchange
  <2>. QED  BY <1>4, <2>1, <2>2
<1>. QED  BY <1>3, <1>4

LEMMA ResultsExtend ==
    ASSUME NEW c \in CtxT, NEW ids \in Seq(CallId)
    PROVE  LET a == ResultsOf(ids)
               P == c.pendingToolResultIds \ Range(ids)
               b == IF P = {} THEN c.deferredMessages ELSE <<>>
               q == IF P = {} THEN <<>> ELSE c.deferredMessages
           IN  /\ Extension(c, a, b, P, q)
               /\ \A d \in CtxT : /\ d.pendingToolResultIds = c.pendingToolResultIds
                                   /\ d.deferredMessages = c.deferredMessages
                                   => toolResults(d, ids) = Extended(d, a, b, P, q)
<1>. DEFINE a == ResultsOf(ids)
            P == c.pendingToolResultIds \ Range(ids)
            b == IF P = {} THEN c.deferredMessages ELSE <<>>
            q == IF P = {} THEN <<>> ELSE c.deferredMessages
<1>1. /\ c.deferredMessages \in Seq(UserM) /\ <<>> \in Seq(UserM) /\ a \in Seq(ToolM)
      /\ a \in Seq(Msg) /\ c.deferredMessages \in Seq(Msg)
  BY ResultsOfType, EmptySeq, UserSeq DEF CtxT
<1>2. Extension(c, a, b, P, q)
  <2>1. b \in Seq(UserM) /\ q \in Seq(UserM) /\ P \subseteq c.pendingToolResultIds /\ (b # <<>> => P = {})
    BY <1>1
  <2>. HIDE DEF a, b, P, q
  <2>. QED  BY <1>1, <2>1 DEF Extension
<1>3. ASSUME NEW d \in CtxT, d.pendingToolResultIds = c.pendingToolResultIds,
             d.deferredMessages = c.deferredMessages
      PROVE  toolResults(d, ids) = Extended(d, a, b, P, q)
  <2>. DEFINE e == [d EXCEPT !.history = d.history \o a, !.pendingToolResultIds = P]
  <2>1. toolResults(d, ids) = flushDeferredMessagesIfToolExchangeClosed(e)
    BY <1>3 DEF toolResults, ResultsOf, CtxT
  <2>2. d.history \in Seq(Msg) /\ d.history \o a \in Seq(Msg)
    BY <1>1, ConcatProperties DEF CtxT
  <2>. HIDE DEF a, P
  <2>3. CASE P # {}
    <3>1. b = <<>> /\ q = c.deferredMessages
      BY <2>3
    <3>2. a \o <<>> = a
      BY <1>1, ConcatEmptySeq
    <3>3. flushDeferredMessagesIfToolExchangeClosed(e) = e
      BY <2>3 DEF flushDeferredMessagesIfToolExchangeClosed, hasOpenToolExchange, CtxT
    <3>4. Extended(d, a, <<>>, P, c.deferredMessages)
            = [d EXCEPT !.history = d.history \o a, !.pendingToolResultIds = P,
                        !.deferredMessages = d.deferredMessages]
      BY <1>3, <3>2 DEF Extended, CtxT
    <3>5. e = Extended(d, a, <<>>, P, c.deferredMessages)
      BY <3>4 DEF CtxT
    <3>. QED  BY <2>1, <3>1, <3>3, <3>5
  <2>4. CASE P = {}
    <3>1. b = c.deferredMessages /\ q = <<>>
      BY <2>4
    <3>2. d.history \o (a \o c.deferredMessages) = (d.history \o a) \o c.deferredMessages
      <4>1. \A x, y, z \in Seq(Msg) : x \o (y \o z) = (x \o y) \o z
        BY ConcatAssociative, SMTT(30)
      <4>. QED  BY <1>1, <2>2, <4>1, ZenonT(30)
    <3>3. flushDeferredMessagesIfToolExchangeClosed(e)
            = [e EXCEPT !.history = (d.history \o a) \o c.deferredMessages, !.deferredMessages = <<>>]
      BY <1>3, <2>4 DEF flushDeferredMessagesIfToolExchangeClosed, hasOpenToolExchange, CtxT
    <3>. DEFINE h == (d.history \o a) \o c.deferredMessages
                k == d.history \o a
    <3>4. Extended(d, a, c.deferredMessages, P, <<>>)
            = [d EXCEPT !.history = h, !.pendingToolResultIds = P, !.deferredMessages = <<>>]
      BY <3>2 DEF Extended, CtxT
    <3>5. flushDeferredMessagesIfToolExchangeClosed(e)
            = [[d EXCEPT !.history = k, !.pendingToolResultIds = P]
                  EXCEPT !.history = h, !.deferredMessages = <<>>]
      BY <3>3
    <3>. HIDE DEF h, k, e
    <3>6. flushDeferredMessagesIfToolExchangeClosed(e) = Extended(d, a, c.deferredMessages, P, <<>>)
      BY <3>4, <3>5 DEF CtxT
    <3>. QED  BY <2>1, <3>1, <3>6
  <2>. QED  BY <2>3, <2>4
<1>. QED  BY <1>2, <1>3

\* The end of a step finds nothing to hand over.
LEMMA SealsNothing ==
    ASSUME NEW c \in CtxT, NothingStranded(c)
    PROVE  stepEnd(c) = c
<1>1. CASE hasOpenToolExchange(c)
  BY <1>1 DEF stepEnd, flushDeferredMessagesIfToolExchangeClosed
<1>2. CASE ~ hasOpenToolExchange(c)
  <2>1. c.deferredMessages = <<>> /\ c.history \o <<>> = c.history
    BY <1>2, ConcatEmptySeq DEF NothingStranded, CtxT
  <2>2. stepEnd(c) = [c EXCEPT !.history = c.history, !.deferredMessages = <<>>]
    BY <1>2, <2>1 DEF stepEnd, flushDeferredMessagesIfToolExchangeClosed, CtxT
  <2>. QED  BY <2>1, <2>2 DEF CtxT
<1>. QED  BY <1>1, <1>2

LEMMA RangeAppend ==
    ASSUME NEW S, NEW r \in Seq(S), NEW x \in S
    PROVE  Range(Append(r, x)) = Range(r) \cup {x}
<1>1. /\ Len(r) \in Nat /\ DOMAIN r = 1 .. Len(r) /\ DOMAIN Append(r, x) = 1 .. Len(r) + 1
      /\ \A i \in 1 .. Len(r) : Append(r, x)[i] = r[i]
      /\ Append(r, x)[Len(r) + 1] = x
  BY AppendProperties, LenProperties
<1>2. \A i \in 1 .. Len(r) + 1 : i \in 1 .. Len(r) \/ i = Len(r) + 1
  BY <1>1
<1>3. \A i \in 1 .. Len(r) : i \in 1 .. Len(r) + 1
  BY <1>1
<1>4. Len(r) + 1 \in 1 .. Len(r) + 1
  BY <1>1
<1>. QED  BY <1>1, <1>2, <1>3, <1>4 DEF Range

\* A change in place, and what becomes pending with it.
Changed(c, f, P) == [c EXCEPT !.history = Mapped(@, f), !.pendingToolResultIds = P]

LEMMA ChangedFields ==
    ASSUME NEW c \in CtxT, NEW f, InPlace(f), NEW P \in SUBSET CallId
    PROVE  /\ Changed(c, f, P) \in CtxT
           /\ Changed(c, f, P).history = Mapped(c.history, f)
           /\ Changed(c, f, P).openSteps = c.openSteps
           /\ Changed(c, f, P).pendingToolResultIds = P
           /\ Changed(c, f, P).deferredMessages = c.deferredMessages
<1>. DEFINE h == Mapped(c.history, f)
<1>1. h \in Seq(Msg)
  BY MappedSpeech DEF CtxT
<1>2. Changed(c, f, P) = [c EXCEPT !.history = h, !.pendingToolResultIds = P]
  BY DEF Changed, CtxT
<1>. HIDE DEF h
<1>3. /\ Changed(c, f, P) \in CtxT /\ Changed(c, f, P).history = h
      /\ Changed(c, f, P).openSteps = c.openSteps
      /\ Changed(c, f, P).pendingToolResultIds = P
      /\ Changed(c, f, P).deferredMessages = c.deferredMessages
  BY <1>1, <1>2 DEF CtxT
<1>. QED  BY <1>3 DEF h

LEMMA ChangedOpen ==
    ASSUME NEW c \in CtxT, NEW f, NEW P
    PROVE  Changed(c, f, P).openSteps = c.openSteps
BY DEF Changed, CtxT

LEMMA ChangedWithout ==
    ASSUME NEW c \in CtxT, NEW f, InPlace(f), NEW P \in SUBSET CallId, NEW D
    PROVE  Changed(Without(c, D), f, P) = Without(Changed(c, f, P), D)
<1>. DEFINE d == Without(c, D)
            e == Changed(c, f, P)
            u == Changed(d, f, P)
            v == Without(e, D)
            T == Standing(D)
<1>1. /\ d \in CtxT /\ d.history = Select(c.history, T) /\ d.openSteps = c.openSteps \ D
      /\ d.deferredMessages = c.deferredMessages
  BY WithoutFields
<1>2. /\ e \in CtxT /\ e.history = Mapped(c.history, f) /\ e.openSteps = c.openSteps
      /\ e.pendingToolResultIds = P /\ e.deferredMessages = c.deferredMessages
  BY ChangedFields
<1>. HIDE DEF d, e
<1>3. /\ u \in CtxT /\ u.history = Mapped(d.history, f) /\ u.openSteps = d.openSteps
      /\ u.pendingToolResultIds = P /\ u.deferredMessages = d.deferredMessages
  BY <1>1, ChangedFields
<1>4. /\ v \in CtxT /\ v.history = Select(e.history, T) /\ v.openSteps = e.openSteps \ D
      /\ v.pendingToolResultIds = P /\ v.deferredMessages = e.deferredMessages
  BY <1>2, WithoutFields
<1>. HIDE DEF u, v
<1>5. Select(Mapped(c.history, f), T) = Mapped(Select(c.history, T), f)
  <2>1. \A x \in Msg : f[x] \in T <=> x \in T
    BY DEF InPlace, Standing
  <2>2. f \in [Msg -> Msg] /\ c.history \in Seq(Msg)
    BY DEF InPlace, CtxT
  <2>. HIDE DEF T
  <2>. QED  BY <2>1, <2>2, SelectMapped
<1>. HIDE DEF T
<1>6. u.history = v.history /\ u.openSteps = v.openSteps /\ u.deferredMessages = v.deferredMessages
  BY <1>1, <1>2, <1>3, <1>4, <1>5
<1>7. u = v
  BY <1>3, <1>4, <1>6, CtxEqual
<1>. QED  BY <1>7 DEF d, e, u, v

LEMMA BeginFields ==
    ASSUME NEW c \in CtxT, NEW s \in Step
    PROVE  /\ stepBegin(c, s) \in CtxT /\ Opened(s) \in Msg
           /\ stepBegin(c, s).history = Append(c.history, Opened(s))
           /\ stepBegin(c, s).openSteps = c.openSteps \cup {s}
           /\ stepBegin(c, s).pendingToolResultIds = c.pendingToolResultIds
           /\ stepBegin(c, s).deferredMessages = c.deferredMessages
<1>1. Opened(s) \in Msg
  BY EmptySeq DEF Opened, AsstM, Msg
<1>. DEFINE h == Append(c.history, Opened(s))
<1>2. stepBegin(c, s) = [c EXCEPT !.history = h, !.openSteps = @ \cup {s}]
  BY DEF stepBegin, CtxT
<1>. HIDE DEF h
<1>3. /\ stepBegin(c, s).history = h /\ stepBegin(c, s).openSteps = c.openSteps \cup {s}
      /\ stepBegin(c, s).pendingToolResultIds = c.pendingToolResultIds
      /\ stepBegin(c, s).deferredMessages = c.deferredMessages
  BY <1>2 DEF CtxT
<1>. QED  BY <1>1, <1>3, StepBeginSpeech DEF h

LEMMA BeginWithout ==
    ASSUME NEW c \in CtxT, NEW s \in Step, NEW D, s \notin D
    PROVE  stepBegin(Without(c, D), s) = Without(stepBegin(c, s), D)
<1>. DEFINE d == Without(c, D)
            e == stepBegin(c, s)
            u == stepBegin(d, s)
            v == Without(e, D)
            T == Standing(D)
            m == Opened(s)
<1>1. /\ d \in CtxT /\ d.history = Select(c.history, T) /\ d.openSteps = c.openSteps \ D
      /\ d.deferredMessages = c.deferredMessages
      /\ d.pendingToolResultIds = c.pendingToolResultIds
  BY WithoutFields
<1>2. /\ e \in CtxT /\ e.history = Append(c.history, m) /\ e.openSteps = c.openSteps \cup {s}
      /\ e.pendingToolResultIds = c.pendingToolResultIds
      /\ e.deferredMessages = c.deferredMessages /\ m \in Msg
  BY BeginFields
<1>. HIDE DEF d, e
<1>3. /\ u \in CtxT /\ u.history = Append(d.history, m) /\ u.openSteps = d.openSteps \cup {s}
      /\ u.pendingToolResultIds = d.pendingToolResultIds /\ u.deferredMessages = d.deferredMessages
  BY <1>1, BeginFields
<1>4. /\ v \in CtxT /\ v.history = Select(e.history, T) /\ v.openSteps = e.openSteps \ D
      /\ v.pendingToolResultIds = e.pendingToolResultIds /\ v.deferredMessages = e.deferredMessages
  BY <1>2, WithoutFields
<1>. HIDE DEF u, v
<1>5. Select(Append(c.history, m), T) = Append(Select(c.history, T), m)
  <2>1. m \in T
    BY <1>2 DEF Standing, Opened
  <2>2. c.history \in Seq(Msg)
    BY DEF CtxT
  <2>. HIDE DEF T, m
  <2>. QED  BY <1>2, <2>1, <2>2, SelectAppend
<1>. HIDE DEF T, m
<1>6. /\ u.history = v.history /\ u.openSteps = v.openSteps /\ u.deferredMessages = v.deferredMessages
      /\ u.pendingToolResultIds = v.pendingToolResultIds
  BY <1>1, <1>2, <1>3, <1>4, <1>5
<1>7. u = v
  BY <1>3, <1>4, <1>6, CtxEqual
<1>. QED  BY <1>7 DEF d, e, u, v

(***************************************************************************)
(* The steps of a conversation: each message that is an answer is that of  *)
(* one open step, and carries calls of this step.                          *)
(***************************************************************************)

Steps(c) ==
    /\ \A m \in Range(c.history) : m.role = "assistant" =>
          /\ m.step \in c.openSteps
          /\ \A id \in Range(m.toolCalls) : <<id[1], id[2]>> = m.step
    /\ OneEach(c)

LEMMA ExtendedSteps ==
    ASSUME NEW c \in CtxT, Steps(c), NEW a, NEW b, NEW P, NEW q, Extension(c, a, b, P, q),
           NEW e, e = Extended(c, a, b, P, q)
    PROVE  Steps(e) /\ VacuousSteps(e) = VacuousSteps(c)
<1>. DEFINE r == a \o b
<1>0. \A x \in CtxT : Extension(x, a, b, P, q) =>
        /\ Extended(x, a, b, P, q) \in CtxT
        /\ Extended(x, a, b, P, q).history = x.history \o (a \o b)
        /\ Extended(x, a, b, P, q).openSteps = x.openSteps
        /\ Extended(x, a, b, P, q).pendingToolResultIds = P
        /\ Extended(x, a, b, P, q).deferredMessages = q
        /\ a \o b \in Seq(UserM \cup ToolM) /\ a \o b \in Seq(Msg)
  BY ExtendedFields
<1>1. /\ e.history = c.history \o r /\ e.openSteps = c.openSteps
      /\ r \in Seq(UserM \cup ToolM) /\ r \in Seq(Msg)
  BY <1>0
<1>. HIDE DEF r
<1>2. \A m \in Range(r) : m.role # "assistant"
  <2>1. Range(r) \subseteq UserM \cup ToolM
    BY <1>1, RangeOfSeq
  <2>. QED  BY <2>1 DEF UserM, ToolM
<1>3. Range(e.history) = Range(c.history) \cup Range(r)
  BY <1>1, RangeConcatenation DEF CtxT
<1>4. Steps(e)
  BY <1>1, <1>2, <1>3 DEF Steps, OneEach
<1>5. VacuousSteps(e) = VacuousSteps(c)
  <2>1. {n \in Range(e.history) : isVacuous(e, n)} = {n \in Range(c.history) : isVacuous(c, n)}
    BY <1>1, <1>2, <1>3 DEF isVacuous
  <2>. QED  BY <2>1 DEF VacuousSteps
<1>. QED  BY <1>4, <1>5

LEMMA BeginSteps ==
    ASSUME NEW c \in CtxT, Steps(c), NEW s \in Step, s \notin c.openSteps,
           NEW e, e = stepBegin(c, s)
    PROVE  Steps(e) /\ VacuousSteps(c) \subseteq VacuousSteps(e)
<1>1. /\ e.history = Append(c.history, Opened(s)) /\ e.openSteps = c.openSteps \cup {s}
      /\ Opened(s) \in Msg
  BY BeginFields
<1>2. Range(e.history) = Range(c.history) \cup {Opened(s)}
  BY <1>1, RangeAppend DEF CtxT
<1>3. Opened(s).step = s /\ Opened(s).role = "assistant" /\ Opened(s).toolCalls = <<>>
        /\ Range(Opened(s).toolCalls) = {}
  BY DEF Opened, Range
<1>. QED  BY <1>1, <1>2, <1>3 DEF Steps, OneEach, VacuousSteps, isVacuous

\* The two changes a step makes.
LEMMA StepChanges ==
    ASSUME NEW s \in Step
    PROVE  /\ InPlace(Marked(s))
           /\ \A m \in Msg : ~ (m.role = "assistant" /\ m.step = s) => Marked(s)[m] = m
           /\ \A m \in AsstM : \A id \in Range(Marked(s)[m].toolCalls) : id \in Range(m.toolCalls)
           /\ \A x \in CallId : <<x[1], x[2]>> = s =>
                 /\ InPlace(Called(s, x))
                 /\ \A m \in Msg : ~ (m.role = "assistant" /\ m.step = s) => Called(s, x)[m] = m
                 /\ \A m \in AsstM : \A id \in Range(Called(s, x)[m].toolCalls) :
                        id \in Range(m.toolCalls) \/ (id = x /\ m.step = s)
<1>1. AsstM \subseteq Msg
  BY DEF Msg
<1>2. \A m \in AsstM : Marked(s)[m].toolCalls = m.toolCalls
  BY <1>1 DEF Marked, AsstM
<1>3. ASSUME NEW x \in CallId, NEW m \in AsstM, NEW id \in Range(Called(s, x)[m].toolCalls)
      PROVE  id \in Range(m.toolCalls) \/ (id = x /\ m.step = s)
  <2>1. CASE m.step = s
    <3>1. Called(s, x)[m].toolCalls = Append(m.toolCalls, x)
      BY <1>1, <2>1 DEF Called, AsstM
    <3>2. m.toolCalls \in Seq(CallId)
      BY DEF AsstM
    <3>3. Range(Append(m.toolCalls, x)) = Range(m.toolCalls) \cup {x}
      BY <3>2, RangeAppend
    <3>. QED  BY <1>3, <2>1, <3>1, <3>3
  <2>2. CASE m.step # s
    BY <1>1, <1>3, <2>2 DEF Called
  <2>. QED  BY <2>1, <2>2
<1>4. \A m \in Msg : ~ (m.role = "assistant" /\ m.step = s) => Marked(s)[m] = m
  BY DEF Marked
<1>5. \A x \in CallId, m \in Msg : ~ (m.role = "assistant" /\ m.step = s) => Called(s, x)[m] = m
  BY DEF Called
<1>6. InPlace(Marked(s)) /\ \A x \in CallId : InPlace(Called(s, x))
  BY ChangesInPlace
<1>7. \A m \in AsstM : \A id \in Range(Marked(s)[m].toolCalls) : id \in Range(m.toolCalls)
  BY <1>2
<1>. QED  BY <1>3, <1>4, <1>5, <1>6, <1>7

(***************************************************************************)
(* What a step does with the workers.                                      *)
(***************************************************************************)

Starts(t) ==
    /\ t = turnId' /\ turnId' = turnId + 1 /\ worker'[t].pc = "hook"
    /\ Overlap \/ \A u \in Turns : ~ live(u)

GoesOn(t) ==
    /\ live(t)
    /\ \/ worker'[t].step = worker[t].step /\ (worker'[t].pc = "before" => worker[t].pc = "before")
       \/ worker'[t].step = worker[t].step + 1 /\ worker'[t].pc = "before"
    /\ worker'[t].pc \in {"llm", "tools"}
          => worker[t].pc \in {"llm", "tools"} \/ (StepBegin(t) /\ ~ worker[t].aborted)

LEMMA WorkerMoves ==
    ASSUME WInv, [Next]_vars
    PROVE  /\ turnId' = turnId \/ turnId' = turnId + 1
           /\ \A t \in Turns : live(t)' => Starts(t) \/ GoesOn(t)
           /\ (\A t \in Turns : live(t) => live(t)') \/ CrashAndResume \/ \E t \in Turns : End(t)
<1>0. /\ worker \in [Turns -> WorkerState] /\ turnId \in Nat
      /\ \A t \in Turns : worker[t] = [worker[t] EXCEPT !.pc = worker[t].pc]
  BY TurnFlowAssumption DEF WInv, WorkersOK, CountersOK, WorkerState
<1>1. turnId' = turnId \/ turnId' = turnId + 1
  BY DEF Next, AtRest, vars, PromptOrSteer, launch, Cancel, CrashAndResume, Work, ContentPart,
     HookDone, BeginStep, StepBegin, LLMAnswers, Fail, ToolCall, ToolResult, Seal, Gate, StopHook, End
<1>2. ASSUME UNCHANGED worker
      PROVE  \A t \in Turns : (live(t)' => GoesOn(t)) /\ (live(t) => live(t)')
  BY <1>2 DEF live, GoesOn
\* One worker changes.
<1>3. ASSUME NEW t \in Turns, NEW w, worker' = [worker EXCEPT ![t] = w], live(t),
             w.pc \notin {"unborn", "ended"},
             \/ w.step = worker[t].step /\ (w.pc = "before" => worker[t].pc = "before")
             \/ w.step = worker[t].step + 1 /\ w.pc = "before",
             w.pc \in {"llm", "tools"}
               => worker[t].pc \in {"llm", "tools"} \/ (StepBegin(t) /\ ~ worker[t].aborted)
      PROVE  \A s \in Turns : (live(s)' => GoesOn(s)) /\ (live(s) => live(s)')
  <2>1. worker'[t] = w /\ \A s \in Turns \ {t} : worker'[s] = worker[s]
    BY <1>0, <1>3
  <2>. QED  BY <1>3, <2>1 DEF live, GoesOn
<1>4. CASE PromptOrSteer
  <2>1. CASE activeTurn = None
    <3>. DEFINE t == turnId + 1
                w == [Idle EXCEPT !.pc = "hook", !.prompt = inputs']
    <3>1. /\ t \in Turns /\ turnId' = t /\ worker' = [worker EXCEPT ![t] = w]
          /\ Overlap \/ \A u \in Turns : ~ live(u)
      BY <1>4, <2>1 DEF PromptOrSteer, launch
    <3>2. w.pc = "hook"
      BY DEF Idle
    <3>3. t > turnId
      BY <1>0
    <3>4. worker[t].pc = "unborn"
      BY <3>1, <3>3 DEF WInv, WorkersOK
    <3>. HIDE DEF w
    <3>5. worker'[t] = w /\ \A s \in Turns \ {t} : worker'[s] = worker[s]
      BY <1>0, <3>1
    <3>6. \A s \in Turns \ {t} : live(s)' => GoesOn(s)
      BY <3>5 DEF live, GoesOn
    <3>7. Starts(t)
      BY <3>1, <3>2, <3>5 DEF Starts
    <3>8. \A s \in Turns : live(s) => live(s)'
      BY <3>2, <3>4, <3>5 DEF live
    <3>. HIDE DEF t
    <3>. QED  BY <1>1, <3>6, <3>7, <3>8
  <2>2. CASE activeTurn # None
    BY <1>1, <1>2, <1>4, <2>2 DEF PromptOrSteer
  <2>. QED  BY <2>1, <2>2
<1>5. CASE Cancel
  <2>. DEFINE t == activeTurn
              w == [worker[t] EXCEPT !.aborted = TRUE]
  <2>1. t \in Turns /\ worker' = [worker EXCEPT ![t] = w] /\ live(t)
    BY <1>5 DEF Cancel, WInv, WorkersOK, SingleOwner
  <2>2. w.pc = worker[t].pc /\ w.step = worker[t].step
    BY <1>0, <2>1 DEF WorkerState
  <2>. HIDE DEF w
  <2>3. \A s \in Turns : (live(s)' => GoesOn(s)) /\ (live(s) => live(s)')
    BY <1>3, <2>1, <2>2 DEF live
  <2>. QED  BY <1>1, <2>3
<1>6. CASE CrashAndResume
  <2>1. \A t \in Turns : ~ live(t)'
    BY <1>0, <1>6, IdleOK DEF CrashAndResume, live
  <2>. QED  BY <1>1, <1>6, <2>1
<1>7. ASSUME NEW t \in Turns, End(t)
      PROVE  \A s \in Turns : live(s)' => GoesOn(s)
  <2>1. worker'[t] = Over /\ \A s \in Turns \ {t} : worker'[s] = worker[s]
    BY <1>0, <1>7 DEF End
  <2>. QED  BY <2>1, IdleOK DEF live, GoesOn
<1>8. ASSUME NEW t \in Turns, NEW pc \in {"ending", "top", "llm", "stopHook"}, Goto(t, pc), live(t),
             pc = "llm" => StepBegin(t) /\ ~ worker[t].aborted
      PROVE  \A s \in Turns : (live(s)' => GoesOn(s)) /\ (live(s) => live(s)')
  <2>. DEFINE w == [worker[t] EXCEPT !.pc = pc]
  <2>1. worker' = [worker EXCEPT ![t] = w] /\ w.pc = pc /\ w.step = worker[t].step
    BY <1>0, <1>8 DEF Goto, WorkerState
  <2>. HIDE DEF w
  <2>. QED  BY <1>3, <1>8, <2>1
<1>9. ASSUME NEW t \in Turns, HookDone(t) \/ StepBegin(t) \/ Fail(t) \/ Gate(t)
      PROVE  \A s \in Turns : (live(s)' => GoesOn(s)) /\ (live(s) => live(s)')
  <2>1. \E pc \in {"ending", "top", "llm", "stopHook"} :
            Goto(t, pc) /\ (pc = "llm" => StepBegin(t) /\ ~ worker[t].aborted)
    BY <1>9 DEF HookDone, StepBegin, Fail, Gate
  <2>2. live(t)
    BY <1>9 DEF HookDone, StepBegin, Fail, Gate, live
  <2>. QED  BY <1>8, <2>1, <2>2
<1>10. ASSUME NEW t \in Turns, BeginStep(t)
       PROVE  \A s \in Turns : (live(s)' => GoesOn(s)) /\ (live(s) => live(s)')
  <2>1. live(t)
    BY <1>10 DEF BeginStep, live
  <2>2. ASSUME NEW stop \in BOOLEAN,
               worker' = [worker EXCEPT ![t].pc = "before", ![t].step = @ + 1,
                                        ![t].failureStop = stop]
        PROVE  \A s \in Turns : (live(s)' => GoesOn(s)) /\ (live(s) => live(s)')
    <3>. DEFINE w == [worker[t] EXCEPT !.pc = "before", !.step = @ + 1, !.failureStop = stop]
    <3>1. worker' = [worker EXCEPT ![t] = w] /\ w.pc = "before" /\ w.step = worker[t].step + 1
      BY <1>0, <2>2 DEF WorkerState
    <3>. HIDE DEF w
    <3>. QED  BY <1>3, <2>1, <3>1
  <2>. QED  BY <1>8, <1>10, <2>1, <2>2 DEF BeginStep
<1>11. ASSUME NEW t \in Turns, LLMAnswers(t)
       PROVE  \A s \in Turns : (live(s)' => GoesOn(s)) /\ (live(s) => live(s)')
  <2>1. PICK k \in 0 .. MaxCalls, executed \in BOOLEAN :
          worker' = [worker EXCEPT ![t].pc = "tools", ![t].calls = k, ![t].executed = executed]
    BY <1>11 DEF LLMAnswers
  <2>. DEFINE w == [worker[t] EXCEPT !.pc = "tools", !.calls = k, !.executed = executed]
  <2>2. worker' = [worker EXCEPT ![t] = w] /\ worker[t].pc = "llm"
    BY <1>0, <1>11, <2>1 DEF LLMAnswers
  <2>3. w.pc = "tools" /\ w.step = worker[t].step
    BY <1>0 DEF WorkerState
  <2>. HIDE DEF w
  <2>. QED  BY <1>3, <2>2, <2>3 DEF live
<1>12. ASSUME NEW t \in Turns, ToolCall(t) \/ ToolResult(t)
       PROVE  \A s \in Turns : (live(s)' => GoesOn(s)) /\ (live(s) => live(s)')
  <2>1. \E w : worker' = [worker EXCEPT ![t] = w] /\ w.pc = "tools" /\ w.step = worker[t].step
    <3>1. CASE ToolCall(t)
      <4>. DEFINE w == [worker[t] EXCEPT !.called = @ + 1]
      <4>1. worker' = [worker EXCEPT ![t] = w] /\ w.pc = "tools" /\ w.step = worker[t].step
        BY <1>0, <3>1 DEF ToolCall, WorkerState
      <4>. QED  BY <4>1
    <3>2. CASE ToolResult(t)
      <4>. DEFINE w == [worker[t] EXCEPT !.answered = @ + 1]
      <4>1. worker' = [worker EXCEPT ![t] = w] /\ w.pc = "tools" /\ w.step = worker[t].step
        BY <1>0, <3>2 DEF ToolResult, WorkerState
      <4>. QED  BY <4>1
    <3>. QED  BY <1>12, <3>1, <3>2
  <2>2. worker[t].pc = "tools"
    BY <1>12 DEF ToolCall, ToolResult
  <2>. QED  BY <1>3, <2>1, <2>2 DEF live
<1>13. ASSUME NEW t \in Turns, Seal(t)
       PROVE  \A s \in Turns : (live(s)' => GoesOn(s)) /\ (live(s) => live(s)')
  <2>1. live(t)
    BY <1>13 DEF Seal, live
  <2>2. ASSUME NEW rejected, NEW pc \in AfterStep(t, rejected),
               worker' = [worker EXCEPT ![t] = [@ EXCEPT !.pc = pc, !.rejected = rejected,
                          !.calls = 0, !.called = 0, !.answered = 0, !.executed = FALSE]]
        PROVE  \A s \in Turns : (live(s)' => GoesOn(s)) /\ (live(s) => live(s)')
    <3>. DEFINE w == [worker[t] EXCEPT !.pc = pc, !.rejected = rejected,
                        !.calls = 0, !.called = 0, !.answered = 0, !.executed = FALSE]
    <3>1. worker' = [worker EXCEPT ![t] = w] /\ w.pc = pc /\ w.step = worker[t].step
      BY <1>0, <2>2 DEF WorkerState
    <3>2. pc \in {"ending", "top", "gate"}
      BY DEF AfterStep
    <3>. HIDE DEF w
    <3>. QED  BY <1>3, <2>1, <3>1, <3>2
  <2>. QED  BY <1>8, <1>13, <2>1, <2>2 DEF Seal
<1>14. ASSUME NEW t \in Turns, StopHook(t)
       PROVE  \A s \in Turns : (live(s)' => GoesOn(s)) /\ (live(s) => live(s)')
  <2>1. live(t)
    BY <1>14 DEF StopHook, live
  <2>2. ASSUME worker' = [worker EXCEPT ![t].pc = "top", ![t].stopHookUsed = TRUE]
        PROVE  \A s \in Turns : (live(s)' => GoesOn(s)) /\ (live(s) => live(s)')
    <3>. DEFINE w == [worker[t] EXCEPT !.pc = "top", !.stopHookUsed = TRUE]
    <3>1. worker' = [worker EXCEPT ![t] = w] /\ w.pc = "top" /\ w.step = worker[t].step
      BY <1>0, <2>2 DEF WorkerState
    <3>. HIDE DEF w
    <3>. QED  BY <1>3, <2>1, <3>1
  <2>. QED  BY <1>8, <1>14, <2>1, <2>2 DEF StopHook
<1>15. ASSUME NEW t \in Turns, Work(t) \/ ContentPart(t), ~ End(t)
       PROVE  \A s \in Turns : (live(s)' => GoesOn(s)) /\ (live(s) => live(s)')
  BY <1>2, <1>9, <1>10, <1>11, <1>12, <1>13, <1>14, <1>15 DEF Work, ContentPart
<1>. QED  BY <1>1, <1>2, <1>4, <1>5, <1>6, <1>7, <1>15 DEF Next, AtRest, vars

(***************************************************************************)
(* The live conversation and the logged one, when a turn starts only once  *)
(* the last worker has wound down.  Steps are numbered upwards, so that a  *)
(* step that begins was never open; the steps dropped from the live        *)
(* conversation are of workers that are gone, and when none works they are *)
(* all a replay drops.                                                     *)
(***************************************************************************)

Dropped == wire.openSteps \ ctx.openSteps

StepNumbers ==
    \A s \in wire.openSteps :
        /\ s[1] <= turnId
        /\ live(s[1]) => /\ s[2] <= worker[s[1]].step
                         /\ worker[s[1]].pc = "before" => s[2] # worker[s[1]].step

Alone == \A s, t \in Turns : live(s) /\ live(t) => s = t

ReplayInv ==
    /\ Alone
    /\ Steps(wire) /\ StepNumbers
    /\ ctx = Without(wire, Dropped)
    /\ Dropped \subseteq VacuousSteps(wire)
    /\ \A s \in Dropped : ~ live(s[1])
    /\ (\A t \in Turns : ~ live(t)) => VacuousSteps(wire) \subseteq Dropped
    /\ \A t \in Turns : worker[t].pc \in {"llm", "tools"} => uuid(t) \in ctx.openSteps

Stays == UNCHANGED <<ctx, wire>>

Extends ==
    \E a, b, P, q : /\ Extension(wire, a, b, P, q)
                    /\ wire' = Extended(wire, a, b, P, q)
                    /\ ctx' = Extended(ctx, a, b, P, q)

Opens(t) ==
    /\ worker[t].pc = "before" /\ worker'[t].pc = "llm"
    /\ wire' = stepBegin(wire, uuid(t)) /\ ctx' = stepBegin(ctx, uuid(t))

Changes(t) ==
    /\ worker[t].pc \in {"llm", "tools"}
    /\ \E f, P :
         /\ InPlace(f) /\ P \in SUBSET CallId
         /\ \A m \in Msg : ~ (m.role = "assistant" /\ m.step = uuid(t)) => f[m] = m
         /\ \A m \in AsstM : \A id \in Range(f[m].toolCalls) :
               id \in Range(m.toolCalls) \/ <<id[1], id[2]>> = m.step
         /\ wire' = Changed(wire, f, P) /\ ctx' = Changed(ctx, f, P)

Settles ==
    /\ \/ wire' = wire
       \/ \E a, b, P, q : Extension(wire, a, b, P, q) /\ wire' = Extended(wire, a, b, P, q)
    /\ ctx' = dropVacuousOpenMessages(wire')
    /\ \A t \in Turns : ~ live(t)'

LEMMA ReplayFields ==
    ASSUME ConversationInv, ReplayInv
    PROVE  /\ ctx \in CtxT /\ wire \in CtxT
           /\ ctx.pendingToolResultIds = wire.pendingToolResultIds
           /\ ctx.deferredMessages = wire.deferredMessages
           /\ ctx.openSteps \subseteq wire.openSteps
<1>1. wire \in CtxT /\ ctx = Without(wire, Dropped)
  BY DEF ConversationInv, ReplayInv
<1>. DEFINE D == Dropped
<1>2. ctx = Without(wire, D)
  BY <1>1
<1>. HIDE DEF D
<1>. QED  BY <1>1, <1>2, WithoutFields

\* What is said to both conversations.
LEMMA TalkExtends ==
    ASSUME ConversationInv, ReplayInv, NEW ns \in Seq(Numbers),
           Record(LAMBDA c : appendMessage(c, Messages(ns)))
    PROVE  Extends
<1>1. ctx' = appendMessage(ctx, Messages(ns)) /\ wire' = appendMessage(wire, Messages(ns))
  BY DEF Record
<1>2. Messages(ns) \in Seq(UserM)
  BY MessagesSay
<1>. DEFINE ms == Messages(ns)
            b == IF hasOpenToolExchange(wire) THEN <<>> ELSE ms
            P == wire.pendingToolResultIds
            q == IF hasOpenToolExchange(wire) THEN wire.deferredMessages \o ms ELSE wire.deferredMessages
<1>3. /\ Extension(wire, <<>>, b, P, q)
      /\ appendMessage(wire, ms) = Extended(wire, <<>>, b, P, q)
      /\ appendMessage(ctx, ms) = Extended(ctx, <<>>, b, P, q)
  <2>. HIDE DEF ms
  <2>1. ms \in Seq(UserM)
    BY <1>2 DEF ms
  <2>. QED  BY <2>1, ReplayFields, AppendExtends
<1>. HIDE DEF b, P, q
<1>. QED  BY <1>1, <1>3 DEF Extends

\* Results, for both conversations.
LEMMA ResultsBoth ==
    ASSUME ConversationInv, ReplayInv, NEW ids \in Seq(CallId)
    PROVE  \E a, b, P, q : /\ Extension(wire, a, b, P, q)
                           /\ toolResults(wire, ids) = Extended(wire, a, b, P, q)
                           /\ toolResults(ctx, ids) = Extended(ctx, a, b, P, q)
<1>. DEFINE a == ResultsOf(ids)
            P == wire.pendingToolResultIds \ Range(ids)
            b == IF P = {} THEN wire.deferredMessages ELSE <<>>
            q == IF P = {} THEN <<>> ELSE wire.deferredMessages
<1>1. /\ Extension(wire, a, b, P, q)
      /\ toolResults(wire, ids) = Extended(wire, a, b, P, q)
      /\ toolResults(ctx, ids) = Extended(ctx, a, b, P, q)
  BY ReplayFields, ResultsExtend
<1>. HIDE DEF a, b, P, q
<1>. QED  BY <1>1

\* The teardown.
LEMMA EndSettles ==
    ASSUME WInv, ConversationInv, ReplayInv, NEW t \in Turns, End(t)
    PROVE  Settles
<1>1. PICK ids \in recorded(ctx.pendingToolResultIds) :
        /\ ctx' = dropVacuousOpenMessages(closeAbandonedToolExchange(ctx, ids))
        /\ wire' = closeAbandonedToolExchange(wire, ids)
  BY DEF End
<1>2. ids \in Seq(CallId)
  BY <1>1, PendingSequence DEF ConversationInv
<1>3. \A s \in Turns : ~ live(s)'
  <2>1. worker'[t] = Over /\ (\A s \in Turns \ {t} : worker'[s] = worker[s]) /\ live(t)
    BY DEF End, WInv, WorkersOK, live
  <2>. QED  BY <2>1, IdleOK DEF ReplayInv, Alone, live
<1>. DEFINE D == Dropped
<1>4. wire \in CtxT /\ Steps(wire) /\ ctx = Without(wire, D) /\ D \subseteq VacuousSteps(wire)
  BY DEF ReplayInv, ConversationInv
<1>5. CASE ids = <<>>
  <2>1. wire' = wire /\ ctx' = dropVacuousOpenMessages(Without(wire, D))
    BY <1>1, <1>4, <1>5 DEF closeAbandonedToolExchange
  <2>. HIDE DEF D
  <2>2. ctx' = dropVacuousOpenMessages(wire')
    BY <1>4, <2>1, DropOnce DEF Steps
  <2>. QED  BY <1>3, <2>1, <2>2 DEF Settles
<1>6. CASE ids # <<>>
  <2>1. wire' = toolResults(wire, ids) /\ ctx' = dropVacuousOpenMessages(toolResults(ctx, ids))
    BY <1>1, <1>6 DEF closeAbandonedToolExchange
  <2>2. PICK a, b, P, q : /\ Extension(wire, a, b, P, q)
                          /\ toolResults(wire, ids) = Extended(wire, a, b, P, q)
                          /\ toolResults(ctx, ids) = Extended(ctx, a, b, P, q)
    BY <1>2, ResultsBoth
  <2>. DEFINE e == Extended(wire, a, b, P, q)
  <2>. HIDE DEF D
  <2>3. e \in CtxT /\ Steps(e) /\ VacuousSteps(e) = VacuousSteps(wire)
    <3>1. e \in CtxT
      BY <1>4, <2>2, ExtendedFields
    <3>2. \A x : x = Extended(wire, a, b, P, q) => Steps(x) /\ VacuousSteps(x) = VacuousSteps(wire)
      BY <1>4, <2>2, ExtendedSteps
    <3>. QED  BY <3>1, <3>2
  <2>4. toolResults(ctx, ids) = Without(e, D)
    BY <1>4, <2>2, ExtendedWithout
  <2>. HIDE DEF e
  <2>5. dropVacuousOpenMessages(Without(e, D)) = dropVacuousOpenMessages(e)
    BY <1>4, <2>3, DropOnce DEF Steps
  <2>6. wire' = e /\ ctx' = dropVacuousOpenMessages(wire')
    BY <2>1, <2>2, <2>4, <2>5 DEF e
  <2>. QED  BY <1>3, <2>2, <2>6 DEF Settles, e
<1>. QED  BY <1>5, <1>6

\* An event of a step, for both conversations.
LEMMA EventChanges ==
    ASSUME WInv, ConversationInv, ReplayInv, NEW t \in Turns, ContentPart(t) \/ ToolCall(t)
    PROVE  Changes(t)
<1>0. /\ worker[t].pc \in {"llm", "tools"} /\ worker[t] \in WorkerState /\ uuid(t) \in Step
      /\ uuid(t) \in ctx.openSteps /\ uuid(t) \in wire.openSteps
      /\ ctx \in CtxT /\ wire \in CtxT
      /\ ctx.pendingToolResultIds = wire.pendingToolResultIds
  BY ReplayFields DEF ContentPart, ToolCall, ReplayInv, WInv, WorkersOK, WorkerState, uuid, Step
<1>. DEFINE s == uuid(t)
<1>1. CASE ContentPart(t)
  <2>. DEFINE f == Marked(s)
              P == wire.pendingToolResultIds
  <2>1. wire' = contentPart(wire, s) /\ ctx' = contentPart(ctx, s)
    BY <1>1 DEF ContentPart, Record
  <2>. HIDE DEF s
  <2>2. /\ wire' = [wire EXCEPT !.history = Mapped(wire.history, f)]
        /\ ctx' = [ctx EXCEPT !.history = Mapped(ctx.history, f)]
    BY <1>0, <2>1, StepEvents DEF s
  <2>3. wire' = Changed(wire, f, P) /\ ctx' = Changed(ctx, f, P)
    BY <1>0, <2>2 DEF Changed, CtxT
  <2>4. /\ InPlace(f)
        /\ \A m \in Msg : ~ (m.role = "assistant" /\ m.step = s) => f[m] = m
        /\ \A m \in AsstM : \A id \in Range(f[m].toolCalls) : id \in Range(m.toolCalls)
    BY <1>0, StepChanges DEF s
  <2>5. P \in SUBSET CallId
    BY <1>0 DEF CtxT
  <2>. HIDE DEF f, P
  <2>. QED  BY <1>0, <2>3, <2>4, <2>5 DEF Changes, s
<1>2. CASE ToolCall(t)
  <2>. DEFINE x == callId(t, worker[t].called + 1)
              f == Called(s, x)
              P == wire.pendingToolResultIds \cup {x}
  <2>1. wire' = toolCall(wire, s, x) /\ ctx' = toolCall(ctx, s, x)
    BY <1>2 DEF ToolCall, Record
  <2>2. x \in CallId /\ <<x[1], x[2]>> = s
    <3>1. worker[t].called + 1 \in 1 .. MaxCalls
      BY <1>0, <1>2, TurnFlowAssumption DEF ToolCall, WorkerState
    <3>2. worker[t].step \in 0 .. MaxSteps + 1
      BY <1>0 DEF WorkerState
    <3>. QED  BY <3>1, <3>2 DEF callId, CallId, uuid
  <2>. HIDE DEF s, x
  <2>3. /\ wire' = [wire EXCEPT !.history = Mapped(wire.history, f), !.pendingToolResultIds = @ \cup {x}]
        /\ ctx' = [ctx EXCEPT !.history = Mapped(ctx.history, f), !.pendingToolResultIds = @ \cup {x}]
    BY <1>0, <2>1, <2>2, StepEvents DEF s
  <2>4. wire' = Changed(wire, f, P) /\ ctx' = Changed(ctx, f, P)
    BY <1>0, <2>3 DEF Changed, CtxT
  <2>5. /\ InPlace(f)
        /\ \A m \in Msg : ~ (m.role = "assistant" /\ m.step = s) => f[m] = m
        /\ \A m \in AsstM : \A id \in Range(f[m].toolCalls) :
              id \in Range(m.toolCalls) \/ (id = x /\ m.step = s)
    BY <1>0, <2>2, StepChanges DEF s
  <2>6. P \in SUBSET CallId
    BY <1>0, <2>2 DEF CtxT
  <2>. HIDE DEF f, P
  <2>. QED  BY <1>0, <2>2, <2>4, <2>5, <2>6 DEF Changes, s
<1>. QED  BY <1>1, <1>2

LEMMA StepKinds ==
    ASSUME WInv, ContextInv, ConversationInv, ReplayInv, [Next]_vars
    PROVE  \/ Settles
           \/ /\ \A t \in Turns : live(t) => live(t)'
              /\ Stays \/ Extends \/ \E t \in Turns : Opens(t) \/ Changes(t)
<1>1. CASE CrashAndResume
  <2>1. \A t \in Turns : ~ live(t)'
    BY <1>1, IdleOK DEF CrashAndResume, live, WInv, WorkersOK
  <2>2. wire' = wire /\ ctx' = dropVacuousOpenMessages(wire)
    BY <1>1 DEF CrashAndResume
  <2>3. Settles
    BY <2>1, <2>2 DEF Settles
  <2>. QED  BY <2>3
<1>2. ASSUME NEW t \in Turns, End(t)
      PROVE  Settles
  BY <1>2, EndSettles
<1>. USE DEF Stays
<1>3. CASE ~ CrashAndResume /\ ~ \E t \in Turns : End(t)
  <2>1. \A t \in Turns : live(t) => live(t)'
    BY <1>3, WorkerMoves
  <2>2. ASSUME flushSteerBuffer
        PROVE  Extends
    BY <2>2, BufferType, TalkExtends DEF flushSteerBuffer
  <2>3. ASSUME PromptOrSteer
        PROVE  Stays \/ Extends
    <3>1. CASE activeTurn = None
      <4>. DEFINE ns == Append(steerBuffer, inputs')
      <4>1. inputs' \in Numbers /\ steerBuffer \in Seq(Numbers)
        BY <2>3, BufferType, TurnFlowAssumption DEF PromptOrSteer, Numbers
      <4>2. ns \in Seq(Numbers)
        BY <4>1, AppendProperties
      <4>3. Record(LAMBDA c : appendMessage(c, Messages(ns)))
        BY <2>3, <3>1 DEF PromptOrSteer, launch, runOneTurn
      <4>. HIDE DEF ns
      <4>4. Extends
        BY <4>2, <4>3, TalkExtends
      <4>. QED  BY <4>4
    <3>2. CASE activeTurn # None
      BY <2>3, <3>2 DEF PromptOrSteer
    <3>. QED  BY <3>1, <3>2
  <2>4. ASSUME NEW t \in Turns, StepBegin(t)
        PROVE  Stays \/ Opens(t)
    <3>1. worker \in [Turns -> WorkerState]
      BY DEF WInv, WorkersOK
    <3>. QED  BY <2>4, <3>1 DEF StepBegin, Record, Opens, Goto, WorkerState
  <2>5. ASSUME NEW t \in Turns, ContentPart(t) \/ ToolCall(t)
        PROVE  Changes(t)
    BY <2>5, EventChanges
  <2>6. ASSUME NEW t \in Turns, ToolResult(t)
        PROVE  Extends
    <3>. DEFINE ids == <<callId(t, worker[t].answered + 1)>>
    <3>1. ids \in Seq(CallId)
      <4>1. worker[t] \in WorkerState
        BY DEF WInv, WorkersOK
      <4>2. worker[t].answered + 1 \in 1 .. MaxCalls /\ worker[t].step \in 0 .. MaxSteps + 1
        BY <2>6, <4>1, TurnFlowAssumption DEF ToolResult, WorkerState
      <4>. QED  BY <4>2 DEF callId, CallId
    <3>2. ctx' = toolResults(ctx, ids) /\ wire' = toolResults(wire, ids)
      BY <2>6 DEF ToolResult, Record, toolResult
    <3>. HIDE DEF ids
    <3>. QED  BY <3>1, <3>2, ResultsBoth DEF Extends
  <2>7. ASSUME NEW t \in Turns, Seal(t)
        PROVE  Stays
    <3>1. stepEnd(ctx) = ctx /\ stepEnd(wire) = wire
      BY SealsNothing DEF ContextInv, Good, ConversationInv
    <3>. QED  BY <2>7, <3>1 DEF Seal, Record
  <2>8. CASE UNCHANGED vars
    BY <2>1, <2>8 DEF vars
  <2>9. CASE Cancel
    BY <2>1, <2>9 DEF Cancel
  <2>10. ASSUME NEW t \in Turns, Work(t) \/ ContentPart(t)
         PROVE  Stays \/ Extends \/ Opens(t) \/ Changes(t)
    <3>1. CASE UNCHANGED <<ctx, wire>>
      BY <3>1
    <3>2. CASE HookDone(t) \/ BeginStep(t) \/ LLMAnswers(t) \/ Fail(t) \/ Gate(t) \/ StopHook(t)
      BY <2>2, <3>1, <3>2 DEF HookDone, BeginStep, LLMAnswers, Fail, Gate, StopHook
    <3>. HIDE DEF Stays
    <3>. QED  BY <1>3, <2>4, <2>5, <2>6, <2>7, <2>10, <3>2 DEF Work
  <2>. QED  BY <1>3, <2>1, <2>2, <2>3, <2>8, <2>9, <2>10 DEF Next, AtRest
<1>. QED  BY <1>1, <1>2, <1>3

\* The numbers of the steps, when no step was opened but the one a worker begins.
LEMMA NumbersKept ==
    ASSUME WInv, WInv', ConversationInv, ConversationInv', ReplayInv, [Next]_vars,
           \A s \in wire'.openSteps : s \in wire.openSteps
              \/ \E t \in Turns : live(t) /\ s = uuid(t) /\ worker'[t].pc = "llm"
    PROVE  StepNumbers' /\ \A s \in wire.openSteps : live(s[1])' => live(s[1])
<1>0. /\ worker \in [Turns -> WorkerState] /\ turnId \in Nat /\ wire \in CtxT /\ wire' \in CtxT
      /\ turnId' = turnId \/ turnId' = turnId + 1
      /\ \A t \in Turns : t > turnId => worker[t].pc = "unborn"
      /\ \A t \in Turns : live(t)' => Starts(t) \/ GoesOn(t)
  BY WorkerMoves, TurnFlowAssumption DEF WInv, WorkersOK, CountersOK, ConversationInv
<1>1. \A t \in Turns : worker[t].step \in Nat
  BY <1>0, TurnFlowAssumption DEF WorkerState
<1>2. \A s \in Step : s[1] \in Turns /\ s[1] \in Nat /\ s[2] \in Nat
  BY TurnFlowAssumption DEF Step, Turns
<1>3. ASSUME NEW s \in wire.openSteps
      PROVE  /\ s[1] <= turnId' /\ (live(s[1])' => live(s[1]))
             /\ live(s[1])' => /\ s[2] <= worker'[s[1]].step
                               /\ worker'[s[1]].pc = "before" => s[2] # worker'[s[1]].step
  <2>1. s \in Step /\ s[1] \in Turns /\ s[1] \in Nat /\ s[2] \in Nat
    BY <1>0, <1>2, <1>3 DEF CtxT
  <2>2. /\ s[1] <= turnId
        /\ live(s[1]) => /\ s[2] <= worker[s[1]].step
                         /\ worker[s[1]].pc = "before" => s[2] # worker[s[1]].step
    BY <1>3 DEF ReplayInv, StepNumbers
  <2>3. s[1] <= turnId' /\ s[1] # turnId + 1
    BY <1>0, <2>1, <2>2
  <2>4. ASSUME live(s[1])'
        PROVE  GoesOn(s[1])
    <3>1. Starts(s[1]) => s[1] = turnId + 1
      BY DEF Starts
    <3>. QED  BY <1>0, <2>1, <2>3, <2>4, <3>1
  <2>5. ASSUME GoesOn(s[1])
        PROVE  /\ live(s[1]) /\ s[2] <= worker'[s[1]].step
               /\ worker'[s[1]].pc = "before" => s[2] # worker'[s[1]].step
    <3>1. worker[s[1]].step \in Nat
      BY <1>1, <2>1
    <3>. QED  BY <2>1, <2>2, <2>5, <3>1 DEF GoesOn
  <2>. QED  BY <2>3, <2>4, <2>5
<1>4. ASSUME NEW t \in Turns, live(t), worker'[t].pc = "llm"
      PROVE  /\ uuid(t)[1] <= turnId'
             /\ uuid(t)[2] <= worker'[t].step /\ uuid(t)[1] = t
  <2>1. t <= turnId /\ t \in Nat
    BY <1>0, <1>4 DEF live, Turns
  <2>2. GoesOn(t)
    <3>1. live(t)'
      BY <1>4 DEF live
    <3>2. t # turnId + 1
      BY <1>0, <2>1
    <3>. QED  BY <1>0, <3>1, <3>2 DEF Starts
  <2>3. worker'[t].step = worker[t].step
    BY <1>4, <2>2 DEF GoesOn
  <2>. QED  BY <1>0, <1>1, <2>1, <2>3 DEF uuid
<1>5. ASSUME NEW s \in wire'.openSteps
      PROVE  /\ s[1] <= turnId'
             /\ live(s[1])' => /\ s[2] <= worker'[s[1]].step
                               /\ worker'[s[1]].pc = "before" => s[2] # worker'[s[1]].step
  <2>1. CASE s \in wire.openSteps
    BY <1>3, <2>1
  <2>2. ASSUME NEW t \in Turns, live(t), s = uuid(t), worker'[t].pc = "llm"
        PROVE  /\ s[1] <= turnId'
               /\ live(s[1])' => /\ s[2] <= worker'[s[1]].step
                                 /\ worker'[s[1]].pc = "before" => s[2] # worker'[s[1]].step
    <3>1. s[1] <= turnId' /\ s[2] <= worker'[t].step /\ s[1] = t
      BY <1>4, <2>2
    <3>. QED  BY <2>2, <3>1
  <2>. QED  BY <2>1, <2>2
<1>6. \A s \in wire.openSteps : live(s[1])' => live(s[1])
  BY <1>3
<1>. QED  BY <1>5, <1>6 DEF StepNumbers, live

LEMMA AloneKept ==
    ASSUME ~ Overlap, WInv, WInv', ReplayInv, [Next]_vars
    PROVE  Alone'
<1>1. /\ \A t \in Turns : live(t)' => Starts(t) \/ GoesOn(t)
      /\ turnId \in Nat
  BY WorkerMoves, TurnFlowAssumption DEF WInv, CountersOK
<1>2. ASSUME NEW s \in Turns, NEW t \in Turns, live(s)', live(t)'
      PROVE  s = t
  <2>1. (Starts(s) \/ GoesOn(s)) /\ (Starts(t) \/ GoesOn(t))
    BY <1>1, <1>2
  <2>2. CASE GoesOn(s) /\ GoesOn(t)
    BY <2>2 DEF GoesOn, ReplayInv, Alone
  <2>3. CASE Starts(s) \/ Starts(t)
    BY <2>1, <2>3 DEF Starts, GoesOn
  <2>. QED  BY <2>1, <2>2, <2>3
<1>. QED  BY <1>2 DEF Alone, live

\* A step that begins was not open.
LEMMA OpensNew ==
    ASSUME WInv, ConversationInv, ReplayInv, NEW t \in Turns, worker[t].pc = "before"
    PROVE  uuid(t) \in Step /\ uuid(t) \notin wire.openSteps
<1>1. worker[t] \in WorkerState /\ uuid(t)[1] = t /\ uuid(t)[2] = worker[t].step /\ live(t)
  BY DEF WInv, WorkersOK, uuid, live
<1>2. uuid(t) \in Step
  BY <1>1 DEF uuid, Step, WorkerState
<1>3. ASSUME uuid(t) \in wire.openSteps
      PROVE  FALSE
  BY <1>1, <1>3 DEF ReplayInv, StepNumbers
<1>. QED  BY <1>2, <1>3

\* A step that drops nothing.
LEMMA ReplayGoesOn ==
    ASSUME ~ Overlap, WInv, WInv', ConversationInv, ConversationInv', ReplayInv, [Next]_vars,
           \A t \in Turns : live(t) => live(t)',
           NEW N, N = {} \/ \E t \in Turns : N = {uuid(t)} /\ worker[t].pc = "before" /\ worker'[t].pc = "llm",
           wire'.openSteps = wire.openSteps \cup N, ctx'.openSteps = ctx.openSteps \cup N,
           Steps(wire)', ctx' = Without(wire', Dropped), Dropped \subseteq VacuousSteps(wire'),
           (\A t \in Turns : ~ live(t)) => VacuousSteps(wire') \subseteq VacuousSteps(wire)
    PROVE  ReplayInv'
<1>1. N \cap wire.openSteps = {} /\ \A s \in N : \E t \in Turns : live(t) /\ s = uuid(t) /\ worker'[t].pc = "llm"
  BY OpensNew DEF live
<1>2. StepNumbers' /\ \A s \in wire.openSteps : live(s[1])' => live(s[1])
  <2>1. \A s \in wire'.openSteps : s \in wire.openSteps
              \/ \E t \in Turns : live(t) /\ s = uuid(t) /\ worker'[t].pc = "llm"
    BY <1>1
  <2>. QED  BY <2>1, NumbersKept
<1>3. Dropped' = Dropped
  BY <1>1 DEF Dropped
<1>4. \A s \in Dropped : ~ live(s[1])'
  BY <1>2 DEF Dropped, ReplayInv
<1>5. (\A t \in Turns : ~ live(t)') => VacuousSteps(wire') \subseteq Dropped
  <2>1. ASSUME \A t \in Turns : ~ live(t)'
        PROVE  VacuousSteps(wire') \subseteq Dropped
    <3>1. \A t \in Turns : ~ live(t)
      BY <2>1
    <3>. QED  BY <3>1 DEF ReplayInv
  <2>. QED  BY <2>1
<1>6. ASSUME NEW t \in Turns, worker'[t].pc \in {"llm", "tools"}
      PROVE  uuid(t)' \in ctx'.openSteps
  <2>1. GoesOn(t)
    <3>1. live(t)' /\ ~ Starts(t)
      BY <1>6 DEF live, Starts
    <3>. QED  BY <3>1, WorkerMoves
  <2>2. uuid(t)' = uuid(t)
    BY <1>6, <2>1 DEF GoesOn, uuid
  <2>3. CASE worker[t].pc \in {"llm", "tools"}
    BY <2>2, <2>3 DEF ReplayInv
  <2>4. CASE StepBegin(t) /\ ~ worker[t].aborted
    <3>1. ctx' = stepBegin(ctx, uuid(t)) /\ worker[t].pc = "before"
      BY <2>4 DEF StepBegin, Record
    <3>2. uuid(t) \in Step /\ ctx \in CtxT
      BY <3>1, OpensNew DEF ConversationInv
    <3>. DEFINE s == uuid(t)
    <3>. HIDE DEF s
    <3>3. stepBegin(ctx, s).openSteps = ctx.openSteps \cup {s}
      BY <3>2, BeginFields DEF s
    <3>. QED  BY <2>2, <3>1, <3>3 DEF s
  <2>. QED  BY <1>6, <2>1, <2>3, <2>4 DEF GoesOn
<1>. QED  BY AloneKept, <1>2, <1>3, <1>4, <1>5, <1>6 DEF ReplayInv

\* A change in place, to both conversations.
LEMMA ChangedBoth ==
    ASSUME NEW c \in CtxT, Steps(c), NEW D, D \subseteq VacuousSteps(c), NEW d \in CtxT, d = Without(c, D),
           NEW s, s \notin D, NEW f, InPlace(f), NEW P, P \in SUBSET CallId,
           \A m \in Msg : ~ (m.role = "assistant" /\ m.step = s) => f[m] = m,
           \A m \in AsstM : \A id \in Range(f[m].toolCalls) :
               id \in Range(m.toolCalls) \/ <<id[1], id[2]>> = m.step,
           NEW e, e = Changed(c, f, P), NEW g, g = Changed(d, f, P)
    PROVE  /\ e.openSteps = c.openSteps /\ g.openSteps = d.openSteps
           /\ Steps(e) /\ D \subseteq VacuousSteps(e) /\ g = Without(e, D)
<1>1. e.openSteps = c.openSteps /\ g.openSteps = d.openSteps
  BY ChangedOpen
<1>2. Steps(e) /\ VacuousSteps(c) \ {s} \subseteq VacuousSteps(e)
  <2>1. e.history = Mapped(c.history, f) /\ e.openSteps = c.openSteps
    BY ChangedFields
  <2>2. Range(c.history) \subseteq Msg
    BY RangeOfSeq DEF CtxT
  <2>3. Range(e.history) = {f[m] : m \in Range(c.history)}
    BY <2>1 DEF Mapped, Range
  <2>4. \A m \in Range(c.history) : f[m].role = m.role /\ (m.role = "assistant" => m \in AsstM /\ f[m].step = m.step)
    BY <2>2, MsgRoles DEF InPlace
  <2>5. Steps(e)
    BY <2>1, <2>3, <2>4 DEF Steps, OneEach
  <2>6. VacuousSteps(c) \ {s} \subseteq VacuousSteps(e)
    BY <2>1, <2>2, <2>3 DEF VacuousSteps, isVacuous
  <2>. QED  BY <2>5, <2>6
<1>3. g = Without(e, D)
  BY ChangedWithout
<1>. QED  BY <1>1, <1>2, <1>3

LEMMA StepReplayInv ==
    ASSUME ~ Overlap, WInv, WInv', ContextInv, ConversationInv, ConversationInv', ReplayInv, [Next]_vars
    PROVE  ReplayInv'
<1>. DEFINE D == Dropped
<1>0. /\ wire \in CtxT /\ wire' \in CtxT /\ ctx \in CtxT /\ Steps(wire) /\ D \subseteq VacuousSteps(wire)
      /\ ctx = Without(wire, D)
  BY DEF ConversationInv, ReplayInv
<1>1. CASE Settles
  <2>1. wire'.openSteps = wire.openSteps /\ Steps(wire)'
    <3>1. CASE wire' = wire
      BY <1>0, <3>1 DEF Steps, OneEach
    <3>2. ASSUME NEW a, NEW b, NEW P, NEW q, Extension(wire, a, b, P, q), wire' = Extended(wire, a, b, P, q)
          PROVE  wire'.openSteps = wire.openSteps /\ Steps(wire')
      <4>. DEFINE e == Extended(wire, a, b, P, q)
      <4>1. e.openSteps = wire.openSteps
        BY <1>0, ExtendedOpen
      <4>2. \A x : x = Extended(wire, a, b, P, q) => Steps(x)
        BY <1>0, <3>2, ExtendedSteps
      <4>. QED  BY <3>2, <4>1, <4>2
    <3>. QED  BY <1>1, <3>1, <3>2 DEF Settles, Steps, OneEach
  <2>. DEFINE V == VacuousSteps(wire')
  <2>2. ctx' = Without(wire', V)
    BY <1>0, <1>1, <2>1, DropFields DEF Settles, Steps
  <2>3. ctx'.openSteps = wire'.openSteps \ V
    <3>. HIDE DEF V
    <3>. QED  BY <1>0, <2>2, WithoutFields
  <2>4. V \subseteq wire'.openSteps
    BY DEF VacuousSteps, isVacuous
  <2>5. Dropped' = V
    BY <2>3, <2>4 DEF Dropped
  <2>6. \A t \in Turns : ~ live(t)' /\ worker'[t].pc \notin {"llm", "tools"}
    BY <1>1 DEF Settles, live
  <2>7. StepNumbers'
    BY <2>1, NumbersKept
  <2>8. \A s \in V : ~ live(s[1])'
    <3>1. V \subseteq Step
      BY <1>0, <2>4 DEF CtxT
    <3>2. \A s \in Step : s[1] \in Turns
      BY DEF Step
    <3>. QED  BY <2>6, <3>1, <3>2
  <2>. HIDE DEF V
  <2>9. VacuousSteps(wire)' = V
    BY DEF V, VacuousSteps, isVacuous
  <2>. QED  BY <2>1, <2>2, <2>5, <2>6, <2>7, <2>8, <2>9, AloneKept DEF ReplayInv
<1>2. ASSUME \A t \in Turns : live(t) => live(t)', Stays
      PROVE  ReplayInv'
  <2>1. Steps(wire)' /\ wire' = wire /\ ctx' = ctx
    BY <1>0, <1>2 DEF Stays, Steps, OneEach
  <2>. DEFINE N == {}
  <2>2. wire'.openSteps = wire.openSteps \cup N /\ ctx'.openSteps = ctx.openSteps \cup N
    BY <2>1
  <2>3. ctx' = Without(wire', Dropped) /\ Dropped \subseteq VacuousSteps(wire')
    BY <1>0, <2>1
  <2>4. VacuousSteps(wire') \subseteq VacuousSteps(wire)
    BY <2>1
  <2>. QED  BY <1>2, <2>1, <2>2, <2>3, <2>4, ReplayGoesOn
<1>3. ASSUME \A t \in Turns : live(t) => live(t)', Extends
      PROVE  ReplayInv'
  <2>1. PICK a, b, P, q : /\ Extension(wire, a, b, P, q)
                          /\ wire' = Extended(wire, a, b, P, q)
                          /\ ctx' = Extended(ctx, a, b, P, q)
    BY <1>3 DEF Extends
  <2>. DEFINE e == Extended(wire, a, b, P, q)
              N == {}
  <2>2. wire'.openSteps = wire.openSteps /\ ctx'.openSteps = ctx.openSteps
    BY <1>0, <2>1, ExtendedOpen
  <2>3. \A x : x = Extended(wire, a, b, P, q) => Steps(x) /\ VacuousSteps(x) = VacuousSteps(wire)
    BY <1>0, <2>1, ExtendedSteps
  <2>4. Steps(wire)' /\ VacuousSteps(wire') = VacuousSteps(wire)
    BY <2>1, <2>3 DEF Steps, OneEach
  <2>5. ctx' = Without(wire', D)
    <3>. HIDE DEF D
    <3>. QED  BY <1>0, <2>1, ExtendedWithout
  <2>7. wire'.openSteps = wire.openSteps \cup N /\ ctx'.openSteps = ctx.openSteps \cup N
    BY <2>2
  <2>. QED  BY <1>0, <1>3, <2>4, <2>5, <2>7, ReplayGoesOn
<1>4. ASSUME \A t \in Turns : live(t) => live(t)', NEW t \in Turns, Opens(t)
      PROVE  ReplayInv'
  <2>. DEFINE s == uuid(t)
              N == {s}
  <2>1. wire' = stepBegin(wire, s) /\ ctx' = stepBegin(ctx, s) /\ live(t) /\ worker[t].pc = "before"
    BY <1>4 DEF Opens, live
  <2>2. s \in Step /\ s \notin wire.openSteps
    BY <2>1, OpensNew
  <2>. HIDE DEF s
  <2>3. wire'.openSteps = wire.openSteps \cup N /\ ctx'.openSteps = ctx.openSteps \cup N
    BY <1>0, <2>1, <2>2, BeginFields
  <2>4. Steps(wire)' /\ VacuousSteps(wire) \subseteq VacuousSteps(wire')
    <3>1. \A e : e = stepBegin(wire, s) => Steps(e) /\ VacuousSteps(wire) \subseteq VacuousSteps(e)
      BY <1>0, <2>2, BeginSteps
    <3>. QED  BY <2>1, <3>1 DEF Steps, OneEach
  <2>5. s \notin D
    BY <2>2 DEF Dropped
  <2>6. ctx' = Without(wire', D)
    <3>. HIDE DEF D
    <3>. QED  BY <1>0, <2>1, <2>2, <2>5, BeginWithout
  <2>7. worker'[t].pc = "llm"
    BY <1>4 DEF Opens
  <2>8. N = {uuid(t)}
    BY DEF s
  <2>. QED  BY <1>0, <1>4, <2>1, <2>3, <2>4, <2>6, <2>7, <2>8, ReplayGoesOn
<1>5. ASSUME \A t \in Turns : live(t) => live(t)', NEW t \in Turns, Changes(t)
      PROVE  ReplayInv'
  <2>. DEFINE N == {}
  <2>1. PICK f, P :
         /\ InPlace(f) /\ P \in SUBSET CallId
         /\ \A m \in Msg : ~ (m.role = "assistant" /\ m.step = uuid(t)) => f[m] = m
         /\ \A m \in AsstM : \A id \in Range(f[m].toolCalls) :
               id \in Range(m.toolCalls) \/ <<id[1], id[2]>> = m.step
         /\ wire' = Changed(wire, f, P) /\ ctx' = Changed(ctx, f, P)
    BY <1>5 DEF Changes
  <2>2. uuid(t) \in ctx.openSteps /\ uuid(t) \notin D
    BY <1>5 DEF Changes, ReplayInv, Dropped
  <2>. DEFINE s == uuid(t)
  <2>3. InPlace(f) /\ P \in SUBSET CallId
    BY <2>1
  <2>4. \A m \in Msg : ~ (m.role = "assistant" /\ m.step = s) => f[m] = m
    BY <2>1
  <2>5. \A m \in AsstM : \A id \in Range(f[m].toolCalls) :
               id \in Range(m.toolCalls) \/ <<id[1], id[2]>> = m.step
    BY <2>1
  <2>6. wire' = Changed(wire, f, P) /\ ctx' = Changed(ctx, f, P)
    BY <2>1
  <2>7. s \notin D
    BY <2>2
  <2>. HIDE DEF s, D
  <2>8. /\ wire'.openSteps = wire.openSteps /\ ctx'.openSteps = ctx.openSteps
        /\ Steps(wire') /\ D \subseteq VacuousSteps(wire') /\ ctx' = Without(wire', D)
    BY <1>0, <2>3, <2>4, <2>5, <2>6, <2>7, ChangedBoth
  <2>9. Steps(wire)'
    BY <2>8 DEF Steps, OneEach
  <2>10. wire'.openSteps = wire.openSteps \cup N /\ ctx'.openSteps = ctx.openSteps \cup N
    BY <2>8
  <2>11. ctx' = Without(wire', Dropped) /\ Dropped \subseteq VacuousSteps(wire')
    BY <2>8 DEF D
  <2>12. live(t)
    BY <1>5 DEF Changes, live
  <2>. QED  BY <1>5, <2>9, <2>10, <2>11, <2>12, ReplayGoesOn
<1>. QED  BY <1>1, <1>2, <1>3, <1>4, <1>5, StepKinds

LEMMA InitReplayInv == Init => ReplayInv
<1>. SUFFICES ASSUME Init
              PROVE  ReplayInv
  OBVIOUS
<1>1. /\ wire = EmptyContext /\ ctx = EmptyContext /\ \A t \in Turns : worker[t].pc = "unborn"
      /\ wire.openSteps = {} /\ wire.history = <<>> /\ Range(wire.history) = {}
  BY DEF Init, Idle, EmptyContext, Range
<1>2. Dropped = {} /\ Steps(wire) /\ VacuousSteps(wire) = {} /\ StepNumbers /\ Alone
  BY <1>1 DEF Dropped, Steps, OneEach, VacuousSteps, StepNumbers, Alone, live
<1>3. ctx = Without(wire, Dropped)
  <2>. DEFINE e == Without(wire, Dropped)
  <2>1. /\ e \in CtxT /\ e.history = Select(wire.history, Standing(Dropped))
        /\ e.openSteps = wire.openSteps \ Dropped
        /\ e.pendingToolResultIds = wire.pendingToolResultIds
        /\ e.deferredMessages = wire.deferredMessages
        /\ wire \in CtxT /\ ctx \in CtxT
    BY <1>1, EmptyContextType, WithoutFields
  <2>. HIDE DEF e
  <2>2. e.history = <<>>
    BY <1>1, <2>1, SelectEmpty
  <2>3. /\ e \in CtxT /\ ctx \in CtxT /\ e.history = ctx.history /\ e.openSteps = ctx.openSteps
        /\ e.pendingToolResultIds = ctx.pendingToolResultIds
        /\ e.deferredMessages = ctx.deferredMessages
    <3>1. wire = ctx /\ wire.openSteps \ Dropped = wire.openSteps
      BY <1>1, <1>2
    <3>. QED  BY <1>1, <2>1, <2>2, <3>1
  <2>4. e = ctx
    BY <2>3, CtxEqual
  <2>. QED  BY <2>4 DEF e
<1>. QED  BY <1>1, <1>2, <1>3 DEF ReplayInv

\* The live conversation is what a replay of the log rebuilds, but for the messages
\* of steps whose workers are gone, which the replay drops (agent/turn/index.ts,
\* agent/context/index.ts): as long as no turn starts before the last worker has
\* wound down.
THEOREM ReplayInvariant == ASSUME ~ Overlap PROVE Spec => []ReplayInv
<1>1. WInv /\ WInv' /\ ContextInv /\ ConversationInv /\ ConversationInv' /\ ReplayInv /\ [Next]_vars
          => ReplayInv'
  BY StepReplayInv
<1>. QED  BY <1>1, InitReplayInv, WorkersInductive, ContextGood, ConversationTyped, PTL DEF Spec

\* A process that died with no worker at work would resume with the conversation
\* the live one held.
THEOREM ReplayFaithful == ASSUME ~ Overlap PROVE Spec => []ReplayMatches
<1>1. ConversationInv /\ ReplayInv => ReplayMatches
  <2>. SUFFICES ASSUME ConversationInv, ReplayInv, \A t \in Turns : ~ live(t)
                PROVE  dropVacuousOpenMessages(wire) = ctx
    BY DEF ReplayMatches
  <2>1. wire \in CtxT /\ OneEach(wire) /\ VacuousSteps(wire) = Dropped
    BY DEF ConversationInv, ReplayInv, Steps
  <2>. QED  BY <2>1, DropFields DEF ReplayInv
<1>. QED  BY <1>1, ReplayInvariant, ConversationTyped, PTL

-----------------------------------------------------------------------------
(***************************************************************************)
(* What may come between a call and its result.                            *)
(***************************************************************************)

Unbroken(c, died) ==
    \A i, j \in DOMAIN c.history :
        (i < j /\ c.history[i].role = "assistant" /\ Splits(c.history[i], c.history[j], died))
            => \A id \in Range(c.history[i].toolCalls) :
                  /\ id \notin c.pendingToolResultIds
                  /\ \A k \in DOMAIN c.history : k > j => c.history[k] # Result(id)

\* Only results came after the message of step s.
LastSaid(c, s) ==
    \A i, j \in DOMAIN c.history :
        (i < j /\ c.history[i].role = "assistant" /\ c.history[i].step = s)
            => c.history[j].role = "tool"

\* A message that comes between.
LEMMA SplitRoles ==
    /\ \A m, n, a : Splits(m, n, a) => n.role \in {"user", "assistant"}
    /\ \A m, n, a : n.role = "user" => Splits(m, n, a)
<1>. QED  BY DEF Splits

\* What a crash lets in.
LEMMA UnbrokenStill ==
    ASSUME NEW c, NEW m, NEW n, Unbroken(c, m), n = 0 => m = 0
    PROVE  Unbroken(c, n)
<1>1. \A i, j \in DOMAIN c.history :
        Splits(c.history[i], c.history[j], n) => Splits(c.history[i], c.history[j], m)
  BY DEF Splits
<1>. QED  BY <1>1 DEF Unbroken

LEMMA ExtendedUnbroken ==
    ASSUME NEW c \in CtxT, NEW died, Unbroken(c, died), NEW a, NEW b, NEW P, NEW q, Extension(c, a, b, P, q),
           \A m \in Range(a) : m.toolCallId \in c.pendingToolResultIds,
           NEW e, e = Extended(c, a, b, P, q)
    PROVE  /\ Unbroken(e, died)
           /\ b = <<>> => \A s : LastSaid(c, s) => LastSaid(e, s)
<1>. DEFINE r == a \o b
            h == c.history
            n == Len(h)
<1>0. \A x \in CtxT : Extension(x, a, b, P, q) =>
        /\ Extended(x, a, b, P, q) \in CtxT
        /\ Extended(x, a, b, P, q).history = x.history \o (a \o b)
        /\ Extended(x, a, b, P, q).openSteps = x.openSteps
        /\ Extended(x, a, b, P, q).pendingToolResultIds = P
        /\ Extended(x, a, b, P, q).deferredMessages = q
        /\ a \o b \in Seq(UserM \cup ToolM) /\ a \o b \in Seq(Msg)
  BY ExtendedFields
<1>1. /\ e.history = h \o r /\ e.pendingToolResultIds = P
      /\ r \in Seq(UserM \cup ToolM) /\ r \in Seq(Msg) /\ h \in Seq(Msg)
  BY <1>0 DEF CtxT
<1>2. /\ a \in Seq(ToolM) /\ b \in Seq(UserM) /\ P \subseteq c.pendingToolResultIds /\ (b # <<>> => P = {})
  BY DEF Extension
<1>3. \A m \in Range(r) : /\ m.role \in {"user", "tool"}
                          /\ m.role = "user" => b # <<>>
                          /\ m.role = "tool" => m.toolCallId \in c.pendingToolResultIds
  <2>1. Range(a) \subseteq ToolM /\ Range(b) \subseteq UserM
    BY <1>2, RangeOfSeq
  <2>2. Range(r) = Range(a) \cup Range(b)
    <3>1. a \in Seq(Msg) /\ b \in Seq(Msg)
      BY <1>2, UserSeq, SeqMonotonic DEF Msg
    <3>. QED  BY <3>1, RangeConcatenation
  <2>3. \A m \in ToolM : m.role = "tool"
    BY DEF ToolM
  <2>4. \A m \in UserM : m.role = "user"
    BY DEF UserM
  <2>5. b = <<>> => Range(b) = {}
    BY DEF Range
  <2>. QED  BY <2>1, <2>2, <2>3, <2>4, <2>5
<1>. HIDE DEF r
<1>4. /\ n \in Nat /\ DOMAIN h = 1 .. n /\ Len(r) \in Nat /\ DOMAIN r = 1 .. Len(r)
      /\ DOMAIN e.history = 1 .. n + Len(r)
      /\ \A i \in 1 .. n : e.history[i] = h[i]
      /\ \A i \in n + 1 .. n + Len(r) : e.history[i] = r[i - n] /\ i - n \in 1 .. Len(r)
  <2>1. /\ Len(h) \in Nat /\ DOMAIN h = 1 .. Len(h) /\ Len(r) \in Nat /\ DOMAIN r = 1 .. Len(r)
    BY <1>1, LenProperties
  <2>2. /\ Len(h \o r) = Len(h) + Len(r) /\ h \o r \in Seq(Msg)
        /\ \A i \in 1 .. Len(h) + Len(r) : (h \o r)[i] = IF i <= Len(h) THEN h[i] ELSE r[i - Len(h)]
    BY <1>1, ConcatProperties
  <2>3. DOMAIN (h \o r) = 1 .. Len(h) + Len(r)
    BY <2>2, LenProperties
  <2>. QED  BY <1>1, <2>1, <2>2, <2>3
<1>. HIDE DEF h, n
<1>5. \A i \in DOMAIN e.history :
        \/ i \in 1 .. n /\ e.history[i] = h[i]
        \/ i > n /\ e.history[i] \in Range(r)
  <2>1. \A i \in n + 1 .. n + Len(r) : i > n /\ e.history[i] \in Range(r)
    BY <1>4 DEF Range
  <2>2. \A i \in 1 .. n + Len(r) : i \in 1 .. n \/ i \in n + 1 .. n + Len(r)
    BY <1>4
  <2>. QED  BY <1>4, <2>1, <2>2
<1>6. \A i, j \in DOMAIN h :
        (i < j /\ h[i].role = "assistant" /\ Splits(h[i], h[j], died))
            => \A id \in Range(h[i].toolCalls) :
                  /\ id \notin c.pendingToolResultIds
                  /\ \A k \in DOMAIN h : k > j => h[k] # Result(id)
  BY DEF Unbroken, h
<1>7. \A id : Result(id).role = "tool" /\ Result(id).toolCallId = id
  BY DEF Result
<1>8. ASSUME NEW i \in DOMAIN e.history, NEW j \in DOMAIN e.history, i < j,
             e.history[i].role = "assistant", Splits(e.history[i], e.history[j], died),
             NEW id \in Range(e.history[i].toolCalls)
      PROVE  /\ id \notin e.pendingToolResultIds
             /\ \A k \in DOMAIN e.history : k > j => e.history[k] # Result(id)
  <2>1. i \in 1 .. n /\ e.history[i] = h[i] /\ i \in Int /\ j \in Int
    <3>1. e.history[i] \notin Range(r)
      BY <1>3, <1>8
    <3>2. i \in 1 .. n /\ e.history[i] = h[i]
      BY <1>5, <1>8, <3>1
    <3>3. i \in Int /\ j \in Int
      BY <1>4, <1>8
    <3>. QED  BY <3>2, <3>3
  <2>2. CASE j \in 1 .. n
    <3>1. e.history[j] = h[j]
      BY <1>4, <2>2
    <3>2. id \notin c.pendingToolResultIds /\ \A k \in DOMAIN h : k > j => h[k] # Result(id)
      BY <1>4, <1>6, <1>8, <2>1, <2>2, <3>1
    <3>3. id \notin e.pendingToolResultIds
      BY <1>1, <1>2, <3>2
    <3>4. ASSUME NEW k \in DOMAIN e.history, k > j, e.history[k] = Result(id)
          PROVE  FALSE
      <4>1. CASE k \in 1 .. n
        BY <1>4, <3>2, <3>4, <4>1
      <4>2. CASE e.history[k] \in Range(r)
        <5>1. e.history[k].role = "tool" /\ e.history[k].toolCallId = id
          BY <1>7, <3>4
        <5>. QED  BY <1>3, <3>2, <4>2, <5>1
      <4>. QED  BY <1>5, <4>1, <4>2
    <3>. QED  BY <3>3, <3>4
  <2>3. CASE j > n
    <3>0. e.history[j].role = "user" /\ e.history[j] \in Range(r)
      <4>1. e.history[j] \in Range(r)
        BY <1>4, <1>5, <1>8, <2>1, <2>3
      <4>2. e.history[j].role \in {"user", "assistant"}
        BY <1>8, SplitRoles
      <4>. QED  BY <1>3, <4>1, <4>2
    <3>1. P = {}
      BY <1>2, <1>3, <3>0
    <3>2. b # <<>>
      BY <1>3, <3>0
    <3>3. ASSUME NEW k \in DOMAIN e.history, k > j
          PROVE  e.history[k].role # "tool"
      <4>1. /\ a \in Seq(ToolM) /\ b \in Seq(UserM) /\ Len(a) \in Nat /\ Len(b) \in Nat
            /\ Len(r) = Len(a) + Len(b)
            /\ \A x \in 1 .. Len(a) : r[x] \in ToolM
            /\ \A x \in Len(a) + 1 .. Len(a) + Len(b) : r[x] \in UserM
        <5>1. Len(a) \in Nat /\ Len(b) \in Nat
          BY <1>2, LenProperties
        <5>2. \A x \in 1 .. Len(a) : a[x] \in ToolM
          BY <1>2, ElementOfSeq
        <5>3. \A x \in 1 .. Len(b) : b[x] \in UserM
          BY <1>2, ElementOfSeq
        <5>4. /\ Len(a \o b) = Len(a) + Len(b)
              /\ \A x \in 1 .. Len(a) + Len(b) : (a \o b)[x] = IF x <= Len(a) THEN a[x] ELSE b[x - Len(a)]
          <6>1. a \in Seq(Msg) /\ b \in Seq(Msg)
            BY <1>2, UserSeq, SeqMonotonic DEF Msg
          <6>. QED  BY <6>1, ConcatProperties
        <5>. QED  BY <1>2, <5>1, <5>2, <5>3, <5>4 DEF r
      <4>2. \A m \in ToolM : m.role = "tool"
        BY DEF ToolM
      <4>3. \A m \in UserM : m.role = "user"
        BY DEF UserM
      <4>4. j - n \in Len(a) + 1 .. Len(a) + Len(b)
        <5>1. j \in n + 1 .. n + Len(r) /\ e.history[j] = r[j - n] /\ j - n \in 1 .. Len(r)
          BY <1>4, <2>1, <2>3
        <5>2. j - n \notin 1 .. Len(a)
          BY <3>0, <4>1, <4>2, <5>1
        <5>. QED  BY <2>1, <4>1, <5>1, <5>2
      <4>5. k - n \in Len(a) + 1 .. Len(a) + Len(b) /\ e.history[k] = r[k - n]
        BY <1>4, <2>3, <3>3, <4>1, <4>4, SMTT(30)
      <4>. QED  BY <4>1, <4>3, <4>5
    <3>. QED  BY <1>1, <1>7, <3>1, <3>3
  <2>4. j \in 1 .. n \/ j > n
    BY <1>5
  <2>. QED  BY <2>2, <2>3, <2>4
<1>9. ASSUME b = <<>>, NEW s, LastSaid(c, s)
      PROVE  LastSaid(e, s)
  <2>1. \A i, j \in DOMAIN h : (i < j /\ h[i].role = "assistant" /\ h[i].step = s) => h[j].role = "tool"
    BY <1>9 DEF LastSaid, h
  <2>. QED  BY <1>3, <1>4, <1>5, <1>9, <2>1 DEF LastSaid
<1>. QED  BY <1>8, <1>9 DEF Unbroken

LEMMA BeginUnbroken ==
    ASSUME NEW c \in CtxT, NEW died, Unbroken(c, died), Steps(c), NEW s \in Step, s \notin c.openSteps,
           \A id \in c.pendingToolResultIds : died # 0 /\ id[1] # s[1],
           NEW e, e = stepBegin(c, s)
    PROVE  /\ Unbroken(e, died) /\ LastSaid(e, s)
<1>. DEFINE h == c.history
            n == Len(h)
            m == Opened(s)
<1>1. e.history = Append(h, m) /\ e.pendingToolResultIds = c.pendingToolResultIds /\ m \in Msg /\ h \in Seq(Msg)
  BY BeginFields DEF CtxT
<1>2. m.role = "assistant" /\ m.toolCalls = <<>> /\ m.step = s /\ Range(m.toolCalls) = {}
  BY DEF Opened, Range
<1>. HIDE DEF m
<1>3. /\ n \in Nat /\ DOMAIN h = 1 .. n /\ DOMAIN e.history = 1 .. n + 1
      /\ \A i \in 1 .. n : e.history[i] = h[i]
      /\ e.history[n + 1] = m
  BY <1>1, AppendProperties, LenProperties
<1>4. \A i \in 1 .. n : h[i].role = "assistant" => h[i].step # s
  BY <1>3 DEF Steps, Range
<1>5. \A i \in 1 .. n + 1 : i \in 1 .. n \/ i = n + 1
  BY <1>3
<1>6. \A i, j \in DOMAIN h :
        (i < j /\ h[i].role = "assistant" /\ Splits(h[i], h[j], died))
            => \A id \in Range(h[i].toolCalls) :
                  /\ id \notin c.pendingToolResultIds
                  /\ \A k \in DOMAIN h : k > j => h[k] # Result(id)
  BY DEF Unbroken
<1>7. \A id : Result(id).role = "tool"
  BY DEF Result
<1>. HIDE DEF h, n
<1>10. ASSUME NEW i \in 1 .. n, h[i].role = "assistant", Splits(h[i], m, died),
              NEW id \in Range(h[i].toolCalls)
       PROVE  id \notin c.pendingToolResultIds
  <2>1. id[1] = h[i].step[1]
    <3>1. h[i] \in Range(h)
      BY <1>3, <1>10 DEF Range
    <3>2. <<id[1], id[2]>> = h[i].step
      BY <1>10, <3>1 DEF Steps, h
    <3>. QED  BY <3>2
  <2>2. died = 0 \/ s[1] = h[i].step[1]
    BY <1>2, <1>10 DEF Splits
  <2>. QED  BY <2>1, <2>2
<1>11. ASSUME NEW i \in DOMAIN e.history, NEW j \in DOMAIN e.history, i < j,
              e.history[i].role = "assistant", Splits(e.history[i], e.history[j], died),
              NEW id \in Range(e.history[i].toolCalls)
       PROVE  /\ id \notin e.pendingToolResultIds
              /\ \A k \in DOMAIN e.history : k > j => e.history[k] # Result(id)
  <2>1. i \in 1 .. n /\ e.history[i] = h[i]
    BY <1>3, <1>5, <1>11
  <2>2. CASE j \in 1 .. n
    <3>1. /\ id \notin c.pendingToolResultIds
          /\ \A k \in DOMAIN h : k > j => h[k] # Result(id)
      BY <1>3, <1>6, <1>11, <2>1, <2>2
    <3>. QED  BY <1>1, <1>2, <1>3, <1>5, <1>7, <3>1
  <2>3. CASE j = n + 1
    <3>1. id \notin c.pendingToolResultIds
      BY <1>3, <1>10, <1>11, <2>1, <2>3
    <3>2. \A k \in 1 .. n + 1 : ~ (k > j)
      BY <1>3, <2>3
    <3>. QED  BY <1>1, <1>3, <3>1, <3>2
  <2>. QED  BY <1>3, <1>5, <2>2, <2>3
<1>8. Unbroken(e, died)
  BY <1>11 DEF Unbroken
<1>9. LastSaid(e, s)
  BY <1>2, <1>3, <1>4, <1>5 DEF LastSaid
<1>. QED  BY <1>8, <1>9

\* A change in place leaves the order alone.
LEMMA ChangedLast ==
    ASSUME NEW c \in CtxT, NEW f, InPlace(f), NEW P \in SUBSET CallId, NEW e, e = Changed(c, f, P)
    PROVE  /\ \A s : LastSaid(c, s) => LastSaid(e, s)
           /\ DOMAIN e.history = DOMAIN c.history /\ e.pendingToolResultIds = P
           /\ \A i \in DOMAIN c.history :
                 /\ e.history[i] = f[c.history[i]] /\ c.history[i] \in Msg
                 /\ e.history[i].role = c.history[i].role
                 /\ c.history[i].role = "tool" => e.history[i] = c.history[i]
                 /\ c.history[i].role = "assistant" => e.history[i].step = c.history[i].step
<1>1. \A i \in DOMAIN c.history : c.history[i] \in Msg
  BY LenProperties, ElementOfSeq DEF CtxT
<1>2. e.history = Mapped(c.history, f) /\ e.pendingToolResultIds = P
  BY ChangedFields
<1>3. /\ DOMAIN e.history = DOMAIN c.history
      /\ \A i \in DOMAIN c.history : e.history[i] = f[c.history[i]]
  BY <1>2 DEF Mapped
<1>4. \A m \in Msg : f[m].role = m.role /\ (m.role = "tool" => f[m] = m)
                      /\ (m.role = "assistant" => f[m].step = m.step)
  BY MsgRoles DEF InPlace
<1>5. \A s : LastSaid(c, s) => LastSaid(e, s)
  BY <1>1, <1>3, <1>4 DEF LastSaid
<1>. QED  BY <1>1, <1>2, <1>3, <1>4, <1>5

LEMMA ChangedUnbroken ==
    ASSUME NEW c \in CtxT, NEW died, Unbroken(c, died), NEW s, NEW f, InPlace(f), NEW P, P \in SUBSET CallId,
           \A m \in Range(c.history) : (m.role = "assistant" /\ ~ (m.step = s /\ LastSaid(c, s)))
              => /\ Range(f[m].toolCalls) \subseteq Range(m.toolCalls)
                 /\ Range(m.toolCalls) \cap P \subseteq c.pendingToolResultIds,
           NEW e, e = Changed(c, f, P)
    PROVE  Unbroken(e, died)
<1>. DEFINE h == c.history
            g == e.history
            Q == c.pendingToolResultIds
<1>1. /\ DOMAIN g = DOMAIN h /\ e.pendingToolResultIds = P
      /\ \A i \in DOMAIN h : /\ g[i] = f[h[i]] /\ g[i].role = h[i].role
                             /\ h[i].role = "tool" => g[i] = h[i]
                             /\ h[i].role = "assistant" => g[i].step = h[i].step
                             /\ h[i] \in Range(h)
  BY ChangedLast DEF Range
<1>2. \A i, j \in DOMAIN h :
        (i < j /\ h[i].role = "assistant" /\ Splits(h[i], h[j], died))
            => \A id \in Range(h[i].toolCalls) :
                  id \notin Q /\ \A k \in DOMAIN h : k > j => h[k] # Result(id)
  BY DEF Unbroken
<1>3. \A i, j \in DOMAIN h :
        (i < j /\ h[i].role = "assistant" /\ Splits(h[i], h[j], died)) => ~ (h[i].step = s /\ LastSaid(c, s))
  BY SplitRoles DEF LastSaid
<1>4. \A id : Result(id).role = "tool"
  BY DEF Result
<1>5. \A m \in Range(h) : (m.role = "assistant" /\ ~ (m.step = s /\ LastSaid(c, s)))
              => /\ Range(f[m].toolCalls) \subseteq Range(m.toolCalls)
                 /\ Range(m.toolCalls) \cap P \subseteq Q
  OBVIOUS
<1>. HIDE DEF h, g, Q
<1>6. \A i, j \in DOMAIN g :
        (i < j /\ g[i].role = "assistant" /\ Splits(g[i], g[j], died))
            => \A id \in Range(g[i].toolCalls) :
                  id \notin P /\ \A k \in DOMAIN g : k > j => g[k] # Result(id)
  <2>. SUFFICES ASSUME NEW i \in DOMAIN h, NEW j \in DOMAIN h, i < j,
                       h[i].role = "assistant", Splits(h[i], h[j], died),
                       NEW id \in Range(g[i].toolCalls)
                PROVE  id \notin P /\ \A k \in DOMAIN h : k > j => g[k] # Result(id)
    <3>1. \A i, j \in DOMAIN h : (g[i].role = "assistant" /\ Splits(g[i], g[j], died))
                => h[i].role = "assistant" /\ Splits(h[i], h[j], died)
      BY <1>1 DEF Splits
    <3>. QED  BY <1>1, <3>1
  <2>1. id \in Range(h[i].toolCalls) /\ (id \in P => id \in Q)
    BY <1>1, <1>3, <1>5
  <2>2. id \notin Q /\ \A k \in DOMAIN h : k > j => h[k] # Result(id)
    BY <1>2, <2>1
  <2>3. ASSUME NEW k \in DOMAIN h, k > j, g[k] = Result(id)
        PROVE  FALSE
    <3>1. h[k].role = "tool"
      BY <1>1, <1>4, <2>3
    <3>. QED  BY <1>1, <2>2, <2>3, <3>1
  <2>. QED  BY <2>1, <2>2, <2>3
<1>. QED  BY <1>1, <1>6 DEF Unbroken, g

(***************************************************************************)
(* While a step is at work its message is the last thing said, its calls   *)
(* wait for their results, and if anything is deferred a call of a worker  *)
(* that is gone waits too: the results of the step will not let it in.     *)
(***************************************************************************)

ExchangeInv ==
    /\ Unbroken(wire, crashes)
    /\ \A t \in Turns : worker[t].pc \in {"llm", "tools"} => LastSaid(wire, uuid(t))
    /\ wire.deferredMessages # <<>> => \E id \in wire.pendingToolResultIds : ~ live(id[1])
    /\ \A t \in Turns : worker[t].pc = "tools"
          => \A i \in worker[t].answered + 1 .. worker[t].called :
                callId(t, i) \in wire.pendingToolResultIds

LEMMA CrashesGrow ==
    ASSUME WInv, [Next]_vars
    PROVE  crashes' = 0 => crashes = 0
<1>1. crashes \in Nat
  BY TurnFlowAssumption DEF WInv, CountersOK
<1>2. crashes' = crashes \/ crashes' = crashes + 1
  BY DEF Next, AtRest, vars, PromptOrSteer, launch, Cancel, CrashAndResume, Work, ContentPart,
         HookDone, BeginStep, StepBegin, LLMAnswers, Fail, ToolCall, ToolResult, Seal, StopHook, Gate, End
<1>. QED  BY <1>1, <1>2

LEMMA GoneStaysGone ==
    ASSUME WInv, ConversationInv, LoggedInv, [Next]_vars,
           NEW id \in wire.pendingToolResultIds, ~ live(id[1])
    PROVE  id[1] \in Turns /\ ~ live(id[1])'
<1>1. id[1] \in Turns /\ id[1] \in Nat /\ id[1] <= turnId /\ turnId \in Nat
  <2>1. id \in CallId
    BY DEF ConversationInv, CtxT
  <2>2. id[1] \in Turns /\ id[1] \in Nat
    BY <2>1, IdParts
  <2>. QED  BY <2>2, TurnFlowAssumption DEF LoggedInv, WInv, CountersOK
<1>2. live(id[1])' => Starts(id[1]) \/ GoesOn(id[1])
  BY <1>1, WorkerMoves
<1>. QED  BY <1>1, <1>2 DEF Starts, GoesOn

\* Nothing of the log changes, and no step begins.
LEMMA ExchangeStays ==
    ASSUME WInv, ConversationInv, LoggedInv, ExchangeInv, [Next]_vars, wire' = wire,
           \A t \in Turns : worker'[t].pc \in {"llm", "tools"} =>
              /\ worker[t].pc \in {"llm", "tools"} /\ worker'[t].step = worker[t].step
              /\ \/ worker'[t].called = 0 /\ worker'[t].answered = 0
                 \/ /\ worker'[t].pc = worker[t].pc /\ worker'[t].called = worker[t].called
                    /\ worker'[t].answered = worker[t].answered
    PROVE  ExchangeInv'
<1>1. Unbroken(wire', crashes')
  BY CrashesGrow, UnbrokenStill DEF ExchangeInv
<1>2. ASSUME NEW t \in Turns, worker'[t].pc \in {"llm", "tools"}
      PROVE  LastSaid(wire, uuid(t))'
  BY <1>2 DEF ExchangeInv, LastSaid, uuid
<1>3. wire'.deferredMessages # <<>> => \E id \in wire'.pendingToolResultIds : ~ live(id[1])'
  BY GoneStaysGone DEF ExchangeInv
<1>4. ASSUME NEW t \in Turns, worker'[t].pc = "tools",
             NEW i \in worker'[t].answered + 1 .. worker'[t].called
      PROVE  callId(t, i)' \in wire'.pendingToolResultIds
  <2>1. worker'[t].step = worker[t].step
    BY <1>4
  <2>2. ~ (worker'[t].called = 0 /\ worker'[t].answered = 0)
    BY <1>4
  <2>3. worker[t].pc = "tools" /\ i \in worker[t].answered + 1 .. worker[t].called
    BY <1>4, <2>2
  <2>4. callId(t, i) \in wire.pendingToolResultIds
    BY <2>3 DEF ExchangeInv
  <2>. QED  BY <2>1, <2>4 DEF callId
<1>5. Unbroken(wire, crashes)'
  BY <1>1 DEF Unbroken, Splits
<1>. QED  BY <1>5, <1>2, <1>3, <1>4 DEF ExchangeInv, live

\* Something is said while no worker is in a step.
LEMMA ExchangeTalk ==
    ASSUME WInv, ConversationInv, LoggedInv, ExchangeInv, [Next]_vars,
           NEW ms \in Seq(UserM), wire' = appendMessage(wire, ms),
           \A t \in Turns : worker'[t].pc \notin {"llm", "tools"},
           \A id \in wire.pendingToolResultIds : ~ live(id[1])
    PROVE  ExchangeInv'
<1>. DEFINE b == IF hasOpenToolExchange(wire) THEN <<>> ELSE ms
            P == wire.pendingToolResultIds
            q == IF hasOpenToolExchange(wire) THEN wire.deferredMessages \o ms ELSE wire.deferredMessages
<1>0. wire \in CtxT
  BY DEF ConversationInv
<1>1. Extension(wire, <<>>, b, P, q) /\ wire' = Extended(wire, <<>>, b, P, q)
  BY <1>0, AppendExtends
<1>2. q # <<>> => P # {} \/ wire.deferredMessages # <<>>
  BY DEF hasOpenToolExchange
<1>. HIDE DEF b, q
<1>3. Unbroken(wire, crashes)'
  <2>1. \A m \in Range(<<>>) : m.toolCallId \in wire.pendingToolResultIds
    BY DEF Range
  <2>2. \A e : e = Extended(wire, <<>>, b, P, q) => Unbroken(e, crashes)
    BY <1>0, <1>1, <2>1, ExtendedUnbroken DEF ExchangeInv
  <2>3. Unbroken(wire', crashes)
    BY <1>1, <2>2
  <2>4. Unbroken(wire', crashes')
    BY <2>3, CrashesGrow, UnbrokenStill
  <2>. QED  BY <2>4 DEF Unbroken, Splits
<1>4. wire'.deferredMessages = q /\ wire'.pendingToolResultIds = P
  <2>1. \A c \in CtxT : Extension(c, <<>>, b, P, q) =>
          /\ Extended(c, <<>>, b, P, q) \in CtxT
          /\ Extended(c, <<>>, b, P, q).history = c.history \o (<<>> \o b)
          /\ Extended(c, <<>>, b, P, q).openSteps = c.openSteps
          /\ Extended(c, <<>>, b, P, q).pendingToolResultIds = P
          /\ Extended(c, <<>>, b, P, q).deferredMessages = q
          /\ <<>> \o b \in Seq(UserM \cup ToolM) /\ <<>> \o b \in Seq(Msg)
    BY ExtendedFields
  <2>. QED  BY <1>0, <1>1, <2>1
<1>5. wire'.deferredMessages # <<>> => \E id \in wire'.pendingToolResultIds : ~ live(id[1])'
  <2>1. ASSUME q # <<>>
        PROVE  \E id \in P : ~ live(id[1])
    BY <1>2, <2>1 DEF ExchangeInv
  <2>2. \A id \in P : ~ live(id[1]) => ~ live(id[1])'
    BY GoneStaysGone
  <2>. QED  BY <1>4, <2>1, <2>2
<1>. QED  BY <1>3, <1>5 DEF ExchangeInv, live

\* The worker at work is the only one.
LEMMA ExchangeWorks ==
    ASSUME WInv, ReplayInv, NEW t \in Turns, live(t), NEW w, worker' = [worker EXCEPT ![t] = w],
           [Next]_vars, Unbroken(wire', crashes),
           w.pc \in {"llm", "tools"} => LastSaid(wire', <<t, w.step>>),
           wire'.deferredMessages # <<>> => \E id \in wire'.pendingToolResultIds : ~ live(id[1])',
           w.pc = "tools" => \A i \in w.answered + 1 .. w.called :
                                 <<t, w.step, i>> \in wire'.pendingToolResultIds
    PROVE  ExchangeInv'
<1>1. worker'[t] = w /\ \A u \in Turns \ {t} : worker'[u] = worker[u] /\ worker[u].pc \in {"unborn", "ended"}
  BY DEF WInv, WorkersOK, ReplayInv, Alone, live
<1>2. Unbroken(wire, crashes)'
  <2>1. Unbroken(wire', crashes')
    BY CrashesGrow, UnbrokenStill
  <2>. QED  BY <2>1 DEF Unbroken, Splits
<1>3. \A u \in Turns : worker'[u].pc \in {"llm", "tools"} => u = t
  BY <1>1
<1>4. \A u \in Turns : worker'[u].pc \in {"llm", "tools"} => LastSaid(wire, uuid(u))'
  BY <1>1, <1>3 DEF LastSaid, uuid
<1>5. ASSUME NEW u \in Turns, worker'[u].pc = "tools",
             NEW i \in worker'[u].answered + 1 .. worker'[u].called
      PROVE  callId(u, i)' \in wire'.pendingToolResultIds
  BY <1>1, <1>3, <1>5 DEF callId
<1>6. wire'.deferredMessages # <<>> => \E id \in wire'.pendingToolResultIds : ~ live(id[1])'
  OBVIOUS
<1>. QED  BY <1>2, <1>4, <1>5, <1>6 DEF ExchangeInv, live

LEMMA ResultsUnbroken ==
    ASSUME NEW c \in CtxT, NEW died, Unbroken(c, died), NEW ids \in Seq(CallId), Range(ids) \subseteq c.pendingToolResultIds,
           NEW e, e = toolResults(c, ids)
    PROVE  /\ Unbroken(e, died) /\ e.pendingToolResultIds = c.pendingToolResultIds \ Range(ids)
           /\ e.deferredMessages # <<>>
                 => c.deferredMessages # <<>> /\ e.pendingToolResultIds # {}
           /\ (c.deferredMessages = <<>> \/ e.pendingToolResultIds # {})
                 => \A s : LastSaid(c, s) => LastSaid(e, s)
<1>. DEFINE a == ResultsOf(ids)
            P == c.pendingToolResultIds \ Range(ids)
            b == IF P = {} THEN c.deferredMessages ELSE <<>>
            q == IF P = {} THEN <<>> ELSE c.deferredMessages
<1>1. Extension(c, a, b, P, q) /\ e = Extended(c, a, b, P, q)
  BY ResultsExtend
<1>2. \A m \in Range(a) : m.toolCallId \in c.pendingToolResultIds
  <2>1. \A i \in DOMAIN ids : ids[i] \in c.pendingToolResultIds
    BY DEF Range
  <2>. QED  BY <2>1 DEF Range, ResultsOf, Result
<1>3. (b = <<>> <=> P # {} \/ c.deferredMessages = <<>>) /\ (q # <<>> => c.deferredMessages # <<>> /\ P # {})
  OBVIOUS
<1>. HIDE DEF a, b, P, q
<1>4. Unbroken(e, died) /\ (b = <<>> => \A s : LastSaid(c, s) => LastSaid(e, s))
  <2>1. \A x : x = Extended(c, a, b, P, q) => Unbroken(x, died) /\ (b = <<>> => \A s : LastSaid(c, s) => LastSaid(x, s))
    BY <1>1, <1>2, ExtendedUnbroken
  <2>. QED  BY <1>1, <2>1
<1>5. e.pendingToolResultIds = P /\ e.deferredMessages = q
  <2>1. \A x \in CtxT : Extension(x, a, b, P, q) =>
          /\ Extended(x, a, b, P, q) \in CtxT
          /\ Extended(x, a, b, P, q).history = x.history \o (a \o b)
          /\ Extended(x, a, b, P, q).openSteps = x.openSteps
          /\ Extended(x, a, b, P, q).pendingToolResultIds = P
          /\ Extended(x, a, b, P, q).deferredMessages = q
          /\ a \o b \in Seq(UserM \cup ToolM) /\ a \o b \in Seq(Msg)
    BY ExtendedFields
  <2>. QED  BY <1>1, <2>1
<1>. QED  BY <1>3, <1>4, <1>5 DEF P

\* A worker begins its step.
LEMMA OpensExchange ==
    ASSUME WInv, ConversationInv, LoggedInv, OwedInv, ReplayInv, ExchangeInv, [Next]_vars,
           NEW t \in Turns, StepBegin(t), ~ worker[t].aborted
    PROVE  ExchangeInv'
<1>. DEFINE s == uuid(t)
            w == [worker[t] EXCEPT !.pc = "llm"]
<1>1. /\ worker[t].pc = "before" /\ live(t) /\ worker' = [worker EXCEPT ![t] = w]
      /\ wire' = stepBegin(wire, s) /\ wire \in CtxT
      /\ worker[t] \in WorkerState
  BY DEF StepBegin, Goto, Record, live, ConversationInv, WInv, WorkersOK
<1>2. s \in Step /\ s \notin wire.openSteps
  BY <1>1, OpensNew
<1>3. w.pc = "llm" /\ <<t, w.step>> = s
  BY <1>1 DEF WorkerState, uuid
<1>7. s[1] = t
  BY DEF uuid
<1>. HIDE DEF s, w
<1>8. \A id \in wire.pendingToolResultIds : crashes # 0 /\ id[1] # s[1]
  <2>. SUFFICES ASSUME NEW id \in wire.pendingToolResultIds
                PROVE  crashes # 0 /\ id[1] # t
    BY <1>7
  <2>1. id \in ctx.pendingToolResultIds /\ id \in CallId
    BY <1>1, ReplayFields DEF ConversationInv, CtxT
  <2>2. Owed(id) /\ id[1] \in Turns
    BY <2>1, IdParts DEF OwedInv
  <2>3. live(id[1]) => worker[id[1]].pc = "tools"
    BY <2>2 DEF Owed, Awaited
  <2>4. live(id[1]) => id[1] = t
    BY <1>1, <2>2 DEF ReplayInv, Alone
  <2>. QED  BY <1>1, <2>2, <2>3, <2>4 DEF Owed
<1>4. Unbroken(wire', crashes) /\ LastSaid(wire', s)
  <2>1. \A e : e = stepBegin(wire, s) => Unbroken(e, crashes) /\ LastSaid(e, s)
    BY <1>1, <1>2, <1>8, BeginUnbroken DEF ReplayInv, ExchangeInv
  <2>. QED  BY <1>1, <2>1
<1>5. /\ wire'.pendingToolResultIds = wire.pendingToolResultIds
      /\ wire'.deferredMessages = wire.deferredMessages
  BY <1>1, <1>2, BeginFields
<1>6. wire'.deferredMessages # <<>> => \E id \in wire'.pendingToolResultIds : ~ live(id[1])'
  BY <1>5, GoneStaysGone DEF ExchangeInv
<1>. QED  BY <1>1, <1>3, <1>4, <1>6, ExchangeWorks

\* A part of its answer.
LEMMA PartExchange ==
    ASSUME WInv, ConversationInv, LoggedInv, ReplayInv, ExchangeInv, [Next]_vars,
           NEW t \in Turns, ContentPart(t)
    PROVE  ExchangeInv'
<1>. DEFINE s == uuid(t)
            f == Marked(s)
            P == wire.pendingToolResultIds
<1>1. /\ worker[t].pc = "llm" /\ live(t) /\ worker' = worker
      /\ wire' = contentPart(wire, s) /\ wire \in CtxT
      /\ worker[t] \in WorkerState /\ s \in wire.openSteps /\ s \in Step
  BY ReplayFields DEF ContentPart, Record, live, ConversationInv, WInv, WorkersOK, ReplayInv, CtxT
<1>. HIDE DEF s
<1>2. /\ InPlace(f) /\ P \in SUBSET CallId
      /\ \A m \in AsstM : \A id \in Range(f[m].toolCalls) : id \in Range(m.toolCalls)
  BY <1>1, StepChanges DEF CtxT
<1>. HIDE DEF f
<1>3. wire' = Changed(wire, f, P)
  <2>1. wire' = [wire EXCEPT !.history = Mapped(wire.history, f)]
    BY <1>1, StepEvents DEF f
  <2>. QED  BY <1>1, <2>1 DEF Changed, CtxT
<1>4. \A m \in Range(wire.history) : m.role = "assistant" => Range(f[m].toolCalls) \subseteq Range(m.toolCalls)
  <2>1. Range(wire.history) \subseteq Msg
    BY <1>1, RangeOfSeq DEF CtxT
  <2>2. \A m \in Msg : m.role = "assistant" => m \in AsstM
    BY MsgRoles
  <2>. QED  BY <1>2, <2>1, <2>2
<1>. HIDE DEF P
<1>5. Unbroken(wire', crashes) /\ (\A u : LastSaid(wire, u) => LastSaid(wire', u)) /\ wire'.pendingToolResultIds = P
  <2>0. P = wire.pendingToolResultIds
    BY DEF P
  <2>1. \A e : e = Changed(wire, f, P) => Unbroken(e, crashes)
    BY <1>1, <1>2, <1>4, <2>0, ChangedUnbroken DEF ExchangeInv
  <2>2. \A e : e = Changed(wire, f, P) => (\A u : LastSaid(wire, u) => LastSaid(e, u)) /\ e.pendingToolResultIds = P
    BY <1>1, <1>2, ChangedLast
  <2>. QED  BY <1>3, <2>1, <2>2
<1>6. wire'.deferredMessages = wire.deferredMessages
  BY <1>1, <1>3 DEF Changed, CtxT
<1>7. wire'.deferredMessages # <<>> => \E id \in wire'.pendingToolResultIds : ~ live(id[1])'
  BY <1>5, <1>6, GoneStaysGone DEF ExchangeInv, P
<1>8. worker' = [worker EXCEPT ![t] = worker[t]] /\ <<t, worker[t].step>> = s
  BY <1>1 DEF WInv, WorkersOK, uuid, s
<1>9. LastSaid(wire', s)
  BY <1>1, <1>5 DEF ExchangeInv, s
<1>. QED  BY <1>1, <1>5, <1>7, <1>8, <1>9, ExchangeWorks

\* A call of it.
LEMMA CallExchange ==
    ASSUME WInv, ConversationInv, LoggedInv, ReplayInv, ExchangeInv, [Next]_vars,
           NEW t \in Turns, ToolCall(t)
    PROVE  ExchangeInv'
<1>. DEFINE s == uuid(t)
            x == callId(t, worker[t].called + 1)
            f == Called(s, x)
            P == wire.pendingToolResultIds \cup {x}
            w == [worker[t] EXCEPT !.called = @ + 1]
<1>1. /\ worker[t].pc = "tools" /\ live(t) /\ worker[t].called < worker[t].calls
      /\ worker[t] \in WorkerState /\ wire \in CtxT
      /\ wire' = toolCall(wire, s, x) /\ s \in wire.openSteps /\ s \in Step
      /\ Steps(wire) /\ LastSaid(wire, s)
  BY ReplayFields DEF ToolCall, Record, live, ConversationInv, WInv, WorkersOK, ReplayInv, CtxT, ExchangeInv
<1>2. x \in CallId /\ <<x[1], x[2]>> = s
  <2>1. worker[t].called + 1 \in 1 .. MaxCalls
    BY <1>1, TurnFlowAssumption DEF WorkerState
  <2>2. worker[t].step \in 0 .. MaxSteps + 1
    BY <1>1 DEF WorkerState
  <2>. QED  BY <2>1, <2>2 DEF callId, CallId, uuid
<1>3. /\ worker' = [worker EXCEPT ![t] = w] /\ w.pc = "tools" /\ <<t, w.step>> = s
      /\ w.called = worker[t].called + 1 /\ w.answered = worker[t].answered
      /\ w.step = worker[t].step /\ worker[t].called \in Nat /\ worker[t].answered \in Nat
  <2>1. worker' = [worker EXCEPT ![t] = w]
    BY DEF ToolCall, WInv, WorkersOK
  <2>. QED  BY <1>1, <2>1, TurnFlowAssumption DEF WorkerState, uuid
<1>4. \A i \in w.answered + 1 .. w.called : <<t, w.step, i>> \in P
  <2>1. \A i \in worker[t].answered + 1 .. worker[t].called :
            <<t, worker[t].step, i>> \in wire.pendingToolResultIds
    BY <1>1 DEF ExchangeInv, callId
  <2>2. <<t, worker[t].step, worker[t].called + 1>> \in P
    BY DEF callId
  <2>3. \A i \in w.answered + 1 .. w.called :
            i \in worker[t].answered + 1 .. worker[t].called \/ i = worker[t].called + 1
    BY <1>3
  <2>. HIDE DEF w
  <2>. QED  BY <1>3, <2>1, <2>2, <2>3
<1>. HIDE DEF s, x, w
<1>5. wire' = [wire EXCEPT !.history = Mapped(wire.history, f), !.pendingToolResultIds = @ \cup {x}]
  BY <1>1, <1>2, StepEvents
<1>6. wire' = Changed(wire, f, P)
  BY <1>1, <1>5 DEF Changed, CtxT
<1>7. /\ InPlace(f) /\ P \in SUBSET CallId
      /\ \A m \in Msg : ~ (m.role = "assistant" /\ m.step = s) => f[m] = m
  BY <1>1, <1>2, StepChanges DEF CtxT
<1>8. \A m \in Range(wire.history) : (m.role = "assistant" /\ ~ (m.step = s /\ LastSaid(wire, s)))
              => /\ Range(f[m].toolCalls) \subseteq Range(m.toolCalls)
                 /\ Range(m.toolCalls) \cap P \subseteq wire.pendingToolResultIds
  <2>1. Range(wire.history) \subseteq Msg
    BY <1>1, RangeOfSeq DEF CtxT
  <2>. SUFFICES ASSUME NEW m \in Range(wire.history), m.role = "assistant", m.step # s
                PROVE  /\ Range(f[m].toolCalls) \subseteq Range(m.toolCalls)
                       /\ Range(m.toolCalls) \cap P \subseteq wire.pendingToolResultIds
    BY <1>1
  <2>2. f[m] = m
    BY <1>7, <2>1
  <2>3. x \notin Range(m.toolCalls)
    BY <1>1, <1>2 DEF Steps
  <2>. QED  BY <2>2, <2>3
<1>. HIDE DEF f, P
<1>9. Unbroken(wire', crashes) /\ (\A u : LastSaid(wire, u) => LastSaid(wire', u)) /\ wire'.pendingToolResultIds = P
  <2>1. \A e : e = Changed(wire, f, P) => Unbroken(e, crashes)
    BY <1>1, <1>7, <1>8, ChangedUnbroken DEF ExchangeInv
  <2>2. \A e : e = Changed(wire, f, P) => (\A u : LastSaid(wire, u) => LastSaid(e, u)) /\ e.pendingToolResultIds = P
    BY <1>1, <1>7, ChangedLast
  <2>. QED  BY <1>6, <2>1, <2>2
<1>10. wire'.deferredMessages = wire.deferredMessages
  BY <1>1, <1>6 DEF Changed, CtxT
<1>11. wire'.deferredMessages # <<>> => \E id \in wire'.pendingToolResultIds : ~ live(id[1])'
  BY <1>9, <1>10, GoneStaysGone DEF ExchangeInv, P
<1>12. \A i \in w.answered + 1 .. w.called : <<t, w.step, i>> \in wire'.pendingToolResultIds
  BY <1>4, <1>9
<1>13. LastSaid(wire', <<t, w.step>>)
  BY <1>1, <1>3, <1>9
<1>. QED  BY <1>1, <1>3, <1>9, <1>11, <1>12, <1>13, ExchangeWorks

\* A result of it.
LEMMA ResultExchange ==
    ASSUME WInv, ConversationInv, LoggedInv, ReplayInv, ExchangeInv, [Next]_vars,
           NEW t \in Turns, ToolResult(t)
    PROVE  ExchangeInv'
<1>. DEFINE x == callId(t, worker[t].answered + 1)
            ids == <<x>>
            w == [worker[t] EXCEPT !.answered = @ + 1]
<1>1. /\ worker[t].pc = "tools" /\ live(t) /\ worker[t].answered < worker[t].called
      /\ worker[t] \in WorkerState /\ wire \in CtxT
      /\ wire' = toolResults(wire, ids) /\ LastSaid(wire, uuid(t))
  BY DEF ToolResult, toolResult, Record, live, ConversationInv, WInv, WorkersOK, ExchangeInv
<1>2. worker[t].answered \in Nat /\ worker[t].called \in Nat
  BY <1>1, TurnFlowAssumption DEF WorkerState
<1>3. x \in wire.pendingToolResultIds /\ x[1] = t /\ x \in CallId
  <2>1. worker[t].answered + 1 \in worker[t].answered + 1 .. worker[t].called
    BY <1>1, <1>2
  <2>2. x \in wire.pendingToolResultIds
    BY <1>1, <2>1 DEF ExchangeInv
  <2>. QED  BY <1>1, <2>2 DEF callId, CtxT
<1>4. /\ worker' = [worker EXCEPT ![t] = w] /\ w.pc = "tools" /\ <<t, w.step>> = uuid(t)
      /\ w.answered = worker[t].answered + 1 /\ w.called = worker[t].called
      /\ w.step = worker[t].step
  <2>1. worker' = [worker EXCEPT ![t] = w]
    BY DEF ToolResult, WInv, WorkersOK
  <2>. QED  BY <1>1, <2>1, TurnFlowAssumption DEF WorkerState, uuid
<1>5. \A i \in w.answered + 1 .. w.called :
          <<t, w.step, i>> \in wire.pendingToolResultIds /\ <<t, w.step, i>> # x
  <2>1. \A i \in worker[t].answered + 1 .. worker[t].called :
            <<t, worker[t].step, i>> \in wire.pendingToolResultIds
    BY <1>1 DEF ExchangeInv, callId
  <2>2. \A i : i # worker[t].answered + 1 => <<t, worker[t].step, i>> # x
    BY DEF callId
  <2>3. \A i \in w.answered + 1 .. w.called :
            i \in worker[t].answered + 1 .. worker[t].called /\ i # worker[t].answered + 1
    BY <1>2, <1>4
  <2>. HIDE DEF w, x
  <2>. QED  BY <1>4, <2>1, <2>2, <2>3
<1>. HIDE DEF x, w
<1>6. ids \in Seq(CallId) /\ Range(ids) = {x}
  BY <1>3 DEF Range
<1>. HIDE DEF ids
<1>7. /\ Unbroken(wire', crashes) /\ wire'.pendingToolResultIds = wire.pendingToolResultIds \ {x}
      /\ wire'.deferredMessages # <<>>
            => wire.deferredMessages # <<>> /\ wire'.pendingToolResultIds # {}
      /\ (wire.deferredMessages = <<>> \/ wire'.pendingToolResultIds # {})
            => \A s : LastSaid(wire, s) => LastSaid(wire', s)
  <2>1. \A e : e = toolResults(wire, ids) =>
          /\ Unbroken(e, crashes) /\ e.pendingToolResultIds = wire.pendingToolResultIds \ Range(ids)
          /\ e.deferredMessages # <<>>
                => wire.deferredMessages # <<>> /\ e.pendingToolResultIds # {}
          /\ (wire.deferredMessages = <<>> \/ e.pendingToolResultIds # {})
                => \A s : LastSaid(wire, s) => LastSaid(e, s)
    BY <1>1, <1>3, <1>6, ResultsUnbroken DEF ExchangeInv
  <2>. QED  BY <1>1, <1>6, <2>1
<1>8. wire.deferredMessages # <<>> => \E id \in wire'.pendingToolResultIds : ~ live(id[1]) /\ ~ live(id[1])'
  BY <1>1, <1>3, <1>7, GoneStaysGone DEF ExchangeInv
<1>9. LastSaid(wire', <<t, w.step>>)
  BY <1>1, <1>4, <1>7, <1>8
<1>10. wire'.deferredMessages # <<>> => \E id \in wire'.pendingToolResultIds : ~ live(id[1])'
  BY <1>7, <1>8
<1>11. \A i \in w.answered + 1 .. w.called : <<t, w.step, i>> \in wire'.pendingToolResultIds
  BY <1>5, <1>7
<1>. QED  BY <1>1, <1>4, <1>7, <1>9, <1>10, <1>11, ExchangeWorks

\* The teardown.
LEMMA EndExchange ==
    ASSUME WInv, ConversationInv, LoggedInv, ReplayInv, ExchangeInv, [Next]_vars,
           NEW t \in Turns, End(t)
    PROVE  ExchangeInv'
<1>1. PICK ids \in recorded(ctx.pendingToolResultIds) : wire' = closeAbandonedToolExchange(wire, ids)
  BY DEF End
<1>2. /\ ids \in Seq(CallId) /\ Range(ids) \subseteq wire.pendingToolResultIds
      /\ wire \in CtxT
  BY <1>1, PendingSequence, ReplayFields
<1>3. worker' = [worker EXCEPT ![t] = Over] /\ live(t) /\ Over.pc = "ended"
  BY IdleOK DEF End, live
<1>4. \A u \in Turns : ~ live(u)'
  BY <1>3 DEF WInv, WorkersOK, ReplayInv, Alone, live
<1>5. CASE ids = <<>>
  <2>1. wire' = wire
    BY <1>1, <1>5 DEF closeAbandonedToolExchange
  <2>. QED  BY <1>4, <2>1, ExchangeStays DEF live
<1>6. CASE ids # <<>>
  <2>1. wire' = toolResults(wire, ids)
    BY <1>1, <1>6 DEF closeAbandonedToolExchange
  <2>2. \A e : e = toolResults(wire, ids) =>
          /\ Unbroken(e, crashes) /\ e.pendingToolResultIds = wire.pendingToolResultIds \ Range(ids)
          /\ e.deferredMessages # <<>>
                => wire.deferredMessages # <<>> /\ e.pendingToolResultIds # {}
          /\ (wire.deferredMessages = <<>> \/ e.pendingToolResultIds # {})
                => \A s : LastSaid(wire, s) => LastSaid(e, s)
    BY <1>2, ResultsUnbroken DEF ExchangeInv
  <2>3. /\ Unbroken(wire', crashes) /\ wire'.pendingToolResultIds \subseteq wire.pendingToolResultIds
        /\ wire'.deferredMessages # <<>> => wire'.pendingToolResultIds # {}
    BY <2>1, <2>2
  <2>4. \A id \in wire.pendingToolResultIds : id[1] \in Turns
    BY <1>2, IdParts DEF CtxT
  <2>5. wire'.deferredMessages # <<>> => \E id \in wire'.pendingToolResultIds : ~ live(id[1])'
    BY <1>4, <2>3, <2>4
  <2>. QED  BY <1>3, <2>3, <2>5, ExchangeWorks
<1>. QED  BY <1>5, <1>6

\* Something is said by a worker that is not in a step, or before any is at work.
LEMMA SaidExchange ==
    ASSUME WInv, ConversationInv, LoggedInv, OwedInv, ReplayInv, ExchangeInv, [Next]_vars,
           NEW t \in Turns, (live(t) /\ worker[t].pc \notin {"llm", "tools"}) \/ \A u \in Turns : ~ live(u),
           NEW w, worker' = [worker EXCEPT ![t] = w], w.pc \notin {"llm", "tools"},
           NEW ns \in Seq(Numbers), wire' = appendMessage(wire, Messages(ns))
    PROVE  ExchangeInv'
<1>1. Messages(ns) \in Seq(UserM)
  BY MessagesSay
<1>2. ASSUME NEW u \in Turns
      PROVE  worker'[u].pc \notin {"llm", "tools"}
  <2>1. worker'[t] = w /\ (u # t => worker'[u] = worker[u])
    BY DEF WInv, WorkersOK
  <2>2. u # t => ~ live(u)
    BY DEF ReplayInv, Alone
  <2>. QED  BY <2>1, <2>2 DEF live
<1>3. ASSUME NEW id \in wire.pendingToolResultIds
      PROVE  ~ live(id[1])
  <2>1. id \in ctx.pendingToolResultIds /\ id \in CallId
    BY ReplayFields DEF ConversationInv, CtxT
  <2>2. id[1] \in Turns
    BY <2>1, IdParts
  <2>3. live(id[1]) => worker[id[1]].pc = "tools"
    BY <2>1 DEF OwedInv, Owed, Awaited
  <2>. QED  BY <2>2, <2>3 DEF ReplayInv, Alone
<1>. DEFINE ms == Messages(ns)
<1>4. ms \in Seq(UserM) /\ wire' = appendMessage(wire, ms)
  BY <1>1
<1>. HIDE DEF ms
<1>. QED  BY <1>2, <1>3, <1>4, ExchangeTalk

LEMMA StepExchangeInv ==
    ASSUME ~ Overlap, WInv, ContextInv, ConversationInv, LoggedInv, OwedInv, ReplayInv, ExchangeInv,
           [Next]_vars
    PROVE  ExchangeInv'
<1>0. /\ worker \in [Turns -> WorkerState] /\ steerBuffer \in Seq(Numbers)
      /\ \A t \in Turns : worker[t] = [worker[t] EXCEPT !.pc = worker[t].pc]
  BY BufferType DEF WInv, WorkersOK, WorkerState
<1>1. CASE UNCHANGED <<worker, wire>>
  BY <1>1, ExchangeStays
<1>2. CASE Cancel
  <2>. DEFINE w == [worker[activeTurn] EXCEPT !.aborted = TRUE]
  <2>1. activeTurn \in Turns /\ worker' = [worker EXCEPT ![activeTurn] = w] /\ wire' = wire
    BY <1>2 DEF Cancel, WInv, WorkersOK
  <2>2. \A t \in Turns : worker'[t] = worker[t] \/ worker'[t] = [worker[t] EXCEPT !.aborted = TRUE]
    BY <1>0, <2>1
  <2>3. \A t \in Turns : /\ worker'[t].pc = worker[t].pc /\ worker'[t].step = worker[t].step
                         /\ worker'[t].called = worker[t].called
                         /\ worker'[t].answered = worker[t].answered
    <3>. SUFFICES ASSUME NEW t \in Turns
                  PROVE  /\ worker'[t].pc = worker[t].pc /\ worker'[t].step = worker[t].step
                         /\ worker'[t].called = worker[t].called
                         /\ worker'[t].answered = worker[t].answered
      OBVIOUS
    <3>1. worker[t] \in WorkerState
      BY <1>0
    <3>. QED  BY <2>2, <3>1 DEF WorkerState
  <2>. QED  BY <2>1, <2>3, ExchangeStays
<1>3. CASE CrashAndResume
  <2>1. wire' = wire /\ \A t \in Turns : worker'[t].pc \notin {"llm", "tools"}
    BY <1>0, <1>3, IdleOK DEF CrashAndResume, live
  <2>. QED  BY <2>1, ExchangeStays
<1>4. CASE PromptOrSteer
  <2>1. CASE activeTurn # None
    BY <1>1, <1>4, <2>1 DEF PromptOrSteer
  <2>2. CASE activeTurn = None
    <3>. DEFINE t == turnId + 1
                w == [Idle EXCEPT !.pc = "hook", !.prompt = inputs']
                ns == Append(steerBuffer, inputs')
    <3>1. /\ t \in Turns /\ worker' = [worker EXCEPT ![t] = w] /\ \A u \in Turns : ~ live(u)
          /\ wire' = appendMessage(wire, Messages(ns)) /\ inputs' \in Numbers
      BY <1>4, <2>2, BufferType, TurnFlowAssumption DEF PromptOrSteer, launch, runOneTurn, Record, Numbers
    <3>2. w.pc = "hook" /\ ns \in Seq(Numbers)
      BY <1>0, <3>1, AppendProperties DEF Idle
    <3>. HIDE DEF t, w, ns
    <3>3. w.pc \notin {"llm", "tools"}
      BY <3>2
    <3>. QED  BY <3>1, <3>2, <3>3, SaidExchange
  <2>. QED  BY <2>1, <2>2
\* A worker that says nothing, or what is in the buffer.
<1>5. ASSUME NEW t \in Turns, live(t), NEW w, worker' = [worker EXCEPT ![t] = w],
             \/ wire' = wire
             \/ flushSteerBuffer /\ worker[t].pc \notin {"llm", "tools"},
             w.pc \notin {"llm", "tools"}
      PROVE  ExchangeInv'
  <2>1. CASE wire' = wire
    <3>1. worker'[t].pc \notin {"llm", "tools"} /\ \A u \in Turns \ {t} : worker'[u] = worker[u]
      BY <1>0, <1>5
    <3>. QED  BY <2>1, <3>1, ExchangeStays
  <2>2. CASE flushSteerBuffer /\ worker[t].pc \notin {"llm", "tools"}
    <3>1. wire' = appendMessage(wire, Messages(steerBuffer))
      BY <2>2 DEF flushSteerBuffer, Record
    <3>. QED  BY <1>0, <1>5, <2>2, <3>1, SaidExchange
  <2>. QED  BY <1>5, <2>1, <2>2
<1>6. ASSUME NEW t \in Turns, NEW pc, Goto(t, pc), live(t), pc \notin {"llm", "tools"},
             wire' = wire \/ (flushSteerBuffer /\ worker[t].pc \notin {"llm", "tools"})
      PROVE  ExchangeInv'
  <2>. DEFINE w == [worker[t] EXCEPT !.pc = pc]
  <2>1. worker' = [worker EXCEPT ![t] = w] /\ w.pc = pc
    BY <1>0, <1>6 DEF Goto, WorkerState
  <2>. HIDE DEF w
  <2>. QED  BY <1>5, <1>6, <2>1
<1>7. ASSUME NEW t \in Turns, HookDone(t) \/ Fail(t) \/ Gate(t) \/ (StepBegin(t) /\ worker[t].aborted)
      PROVE  ExchangeInv'
  <2>1. live(t) /\ \E pc \in {"ending", "top", "stopHook"} : Goto(t, pc)
    BY <1>7 DEF HookDone, Fail, Gate, StepBegin, live
  <2>2. wire' = wire \/ (flushSteerBuffer /\ worker[t].pc \notin {"llm", "tools"})
    BY <1>7 DEF HookDone, Fail, Gate, StepBegin
  <2>. QED  BY <1>6, <2>1, <2>2
<1>8. ASSUME NEW t \in Turns, BeginStep(t)
      PROVE  ExchangeInv'
  <2>1. live(t) /\ worker[t].pc = "top"
    BY <1>8 DEF BeginStep, live
  <2>2. ASSUME NEW stop \in BOOLEAN, flushSteerBuffer,
               worker' = [worker EXCEPT ![t].pc = "before", ![t].step = @ + 1, ![t].failureStop = stop]
        PROVE  ExchangeInv'
    <3>. DEFINE w == [worker[t] EXCEPT !.pc = "before", !.step = @ + 1, !.failureStop = stop]
    <3>1. worker' = [worker EXCEPT ![t] = w] /\ w.pc = "before"
      BY <1>0, <2>2 DEF WorkerState
    <3>. HIDE DEF w
    <3>. QED  BY <1>5, <2>1, <2>2, <3>1
  <2>. QED  BY <1>6, <1>8, <2>1, <2>2 DEF BeginStep
<1>9. ASSUME NEW t \in Turns, StopHook(t)
      PROVE  ExchangeInv'
  <2>1. live(t) /\ worker[t].pc = "stopHook"
    BY <1>9 DEF StopHook, live
  <2>2. ASSUME worker' = [worker EXCEPT ![t].pc = "top", ![t].stopHookUsed = TRUE], wire' = wire
        PROVE  ExchangeInv'
    <3>. DEFINE w == [worker[t] EXCEPT !.pc = "top", !.stopHookUsed = TRUE]
    <3>1. worker' = [worker EXCEPT ![t] = w] /\ w.pc = "top"
      BY <1>0, <2>2 DEF WorkerState
    <3>. HIDE DEF w
    <3>. QED  BY <1>5, <2>1, <2>2, <3>1
  <2>. QED  BY <1>6, <1>9, <2>1, <2>2 DEF StopHook
<1>10. ASSUME NEW t \in Turns, LLMAnswers(t)
       PROVE  ExchangeInv'
  <2>1. PICK k \in 0 .. MaxCalls, executed \in BOOLEAN :
          worker' = [worker EXCEPT ![t].pc = "tools", ![t].calls = k, ![t].executed = executed]
    BY <1>10 DEF LLMAnswers
  <2>. DEFINE w == [worker[t] EXCEPT !.pc = "tools", !.calls = k, !.executed = executed]
  <2>2. worker' = [worker EXCEPT ![t] = w] /\ worker[t].pc = "llm" /\ wire' = wire
    BY <1>0, <1>10, <2>1 DEF LLMAnswers
  <2>3. /\ w.step = worker[t].step /\ w.called = worker[t].called
        /\ w.answered = worker[t].answered
    BY <1>0 DEF WorkerState
  <2>4. worker[t].called = 0 /\ worker[t].answered = 0
    <3>1. CountsOK(worker[t])
      BY DEF OwedInv
    <3>2. worker[t].answered \in Nat
      BY <1>0, TurnFlowAssumption DEF WorkerState
    <3>. QED  BY <2>2, <3>1, <3>2 DEF CountsOK
  <2>. HIDE DEF w
  <2>5. worker'[t] = w /\ \A u \in Turns \ {t} : worker'[u] = worker[u]
    BY <1>0, <2>2
  <2>. QED  BY <2>2, <2>3, <2>4, <2>5, ExchangeStays
<1>11. ASSUME NEW t \in Turns, Seal(t)
       PROVE  ExchangeInv'
  <2>1. live(t) /\ wire' = wire
    <3>1. stepEnd(wire) = wire
      BY SealsNothing DEF ContextInv, Good, ConversationInv
    <3>. QED  BY <1>11, <3>1 DEF Seal, live, Record
  <2>2. ASSUME NEW rejected, NEW pc \in AfterStep(t, rejected),
               worker' = [worker EXCEPT ![t] = [@ EXCEPT !.pc = pc, !.rejected = rejected,
                          !.calls = 0, !.called = 0, !.answered = 0, !.executed = FALSE]]
        PROVE  ExchangeInv'
    <3>. DEFINE w == [worker[t] EXCEPT !.pc = pc, !.rejected = rejected,
                        !.calls = 0, !.called = 0, !.answered = 0, !.executed = FALSE]
    <3>1. worker' = [worker EXCEPT ![t] = w] /\ w.pc = pc
      BY <1>0, <2>2 DEF WorkerState
    <3>2. pc \notin {"llm", "tools"}
      BY DEF AfterStep
    <3>. HIDE DEF w
    <3>. QED  BY <1>5, <2>1, <3>1, <3>2
  <2>. QED  BY <1>6, <1>11, <2>1, <2>2 DEF Seal
<1>12. ASSUME NEW t \in Turns, Work(t) \/ ContentPart(t)
       PROVE  ExchangeInv'
  <2>1. ASSUME ContentPart(t) \/ ToolCall(t) \/ ToolResult(t) \/ End(t)
        PROVE  ExchangeInv'
    BY <2>1, PartExchange, CallExchange, ResultExchange, EndExchange
  <2>2. ASSUME StepBegin(t)
        PROVE  ExchangeInv'
    BY <1>7, <2>2, OpensExchange
  <2>. QED  BY <1>7, <1>8, <1>9, <1>10, <1>11, <1>12, <2>1, <2>2 DEF Work
<1>. QED  BY <1>1, <1>2, <1>3, <1>4, <1>12 DEF Next, AtRest, vars

LEMMA InitExchangeInv == Init => ExchangeInv
<1>. SUFFICES ASSUME Init
              PROVE  ExchangeInv
  OBVIOUS
<1>1. /\ \A t \in Turns : worker[t].pc = "unborn"
      /\ wire.history = <<>> /\ DOMAIN wire.history = {} /\ wire.deferredMessages = <<>>
  BY DEF Init, Idle, EmptyContext
<1>. QED  BY <1>1 DEF ExchangeInv, Unbroken

\* While a turn starts only once the last worker has wound down, the log keeps a
\* call and its results together: no input comes between them, and no message of
\* the model but, after a crash, those of later turns.
THEOREM ExchangeInvariant == ASSUME ~ Overlap PROVE Spec => []ExchangeInv
<1>1. WInv /\ ContextInv /\ ConversationInv /\ OwedInv /\ LoggedInv /\ ReplayInv /\ ExchangeInv /\ [Next]_vars
          => ExchangeInv'
  BY StepExchangeInv
<1>. QED  BY <1>1, InitExchangeInv, WorkersInductive, ContextGood, ConversationTyped, CallsOwed,
             ReplayInvariant, PTL DEF Spec

\* In the live conversation, from which requests are made, too no input comes between
\* a call and its result (agent/context/index.ts, deferredMessages), and no message
\* of the model but, after a crash, those of other turns: it is the logged one with
\* messages left out.
THEOREM ExchangeKept == ASSUME ~ Overlap PROVE Spec => []ExchangeUnbroken
<1>1. ConversationInv /\ ReplayInv /\ ExchangeInv => ExchangeUnbroken
  <2>. SUFFICES ASSUME ConversationInv, ReplayInv, ExchangeInv
                PROVE  ExchangeUnbroken
    OBVIOUS
  <2>. DEFINE T == Standing(Dropped)
              h == wire.history
              g == ctx.history
  <2>1. g = Select(h, T) /\ h \in Seq(Msg)
    BY WithoutFields DEF ReplayInv, ConversationInv, CtxT
  <2>2. \A i, j \in DOMAIN h : (i < j /\ h[i].role = "assistant" /\ Splits(h[i], h[j], crashes))
            => \A id \in Range(h[i].toolCalls) : \A k \in DOMAIN h : k > j => h[k] # Result(id)
    BY DEF ExchangeInv, Unbroken
  <2>3. \A i \in DOMAIN h : h[i] \in Msg
    BY <2>1, LenProperties, ElementOfSeq
  <2>4. \A m \in Msg : m.role = "tool" => m = Result(m.toolCallId)
    <3>1. \A m \in ToolM : m = Result(m.toolCallId)
      BY DEF ToolM, Result
    <3>. QED  BY <3>1, MsgRoles
  <2>. HIDE DEF T, h, g
  <2>5. PICK e \in [DOMAIN Select(h, T) -> Nat] : Embeds(e, Select(h, T), h)
    BY <2>1, SelectEmbeds
  <2>6. ASSUME NEW i \in Calls(g), NEW j \in DOMAIN g, i < j, Splits(g[i], g[j], crashes),
               NEW k \in DOMAIN g, k > j, Answers(g, i, k)
        PROVE  FALSE
    <3>1. /\ i \in DOMAIN g /\ g[i].role = "assistant" /\ g[k].role = "tool"
          /\ g[k].toolCallId \in Range(g[i].toolCalls)
      BY <2>6 DEF Answers, Calls, Results, Contains, Range
    <3>2. /\ e[i] \in DOMAIN h /\ e[j] \in DOMAIN h /\ e[k] \in DOMAIN h
          /\ h[e[i]] = g[i] /\ h[e[j]] = g[j] /\ h[e[k]] = g[k] /\ e[i] < e[j] /\ e[k] > e[j]
      BY <2>1, <2>5, <2>6, <3>1 DEF Embeds
    <3>3. h[e[k]] = Result(g[k].toolCallId)
      BY <2>3, <2>4, <3>1, <3>2
    <3>. QED  BY <2>2, <2>6, <3>1, <3>2, <3>3
  <2>. QED  BY <2>6 DEF ExchangeUnbroken, g
<1>. QED  BY <1>1, ExchangeInvariant, ReplayInvariant, ConversationTyped, PTL

-----------------------------------------------------------------------------
(***************************************************************************)
(* Calls and results.  In what is logged each result comes after the       *)
(* message that carries its call and is the only one for it; a call that   *)
(* waits is there, and has none yet.  The logged conversation loses no     *)
(* message, so this is kept by what is appended; that a call is new when   *)
(* it is recorded follows from the numbers of the steps and their calls.   *)
(***************************************************************************)

Calling(m, id) == m.role = "assistant" /\ id \in Range(m.toolCalls)

InOrder(h) ==
    \A j \in DOMAIN h : h[j].role = "tool" =>
        \E i \in DOMAIN h : i < j /\ Calling(h[i], h[j].toolCallId)

Once(h) ==
    \A j, k \in DOMAIN h :
        (h[j].role = "tool" /\ h[k].role = "tool" /\ h[j].toolCallId = h[k].toolCallId) => j = k

Waiting(h, P) ==
    \A id \in P : /\ \E i \in DOMAIN h : Calling(h[i], id)
                  /\ \A j \in DOMAIN h : h[j].role = "tool" => h[j].toolCallId # id

Carried(h, O) == \A s \in O : \E i \in DOMAIN h : h[i].role = "assistant" /\ h[i].step = s

Matched(c) ==
    /\ InOrder(c.history) /\ Once(c.history)
    /\ Waiting(c.history, c.pendingToolResultIds)
    /\ Carried(c.history, c.openSteps)

\* The calls in the messages of g, but for those in N, are in the same steps of h.
CallsFrom(g, h, N) ==
    \A j \in DOMAIN g : g[j].role = "assistant" =>
        \A id \in Range(g[j].toolCalls) :
           \/ id \in N
           \/ \E i \in DOMAIN h : Calling(h[i], id) /\ h[i].step = g[j].step

LEMMA ExtendedMatched ==
    ASSUME NEW c \in CtxT, Matched(c), NEW ids \in Seq(CallId), Distinct(ids),
           Range(ids) \subseteq c.pendingToolResultIds,
           NEW a, a = ResultsOf(ids), NEW b, NEW P, P \cap Range(ids) = {}, NEW q,
           Extension(c, a, b, P, q), NEW e, e = Extended(c, a, b, P, q)
    PROVE  Matched(e) /\ CallsFrom(e.history, c.history, {})
<1>. DEFINE r == a \o b
            h == c.history
            g == h \o r
            n == Len(h)
            l == Len(r)
            Q == c.pendingToolResultIds
<1>1. /\ e.history = g /\ e.pendingToolResultIds = P /\ e.openSteps = c.openSteps
      /\ r \in Seq(Msg) /\ h \in Seq(Msg)
  <2>1. /\ e.history = c.history \o (a \o b) /\ e.openSteps = c.openSteps
        /\ e.pendingToolResultIds = P /\ e.deferredMessages = q
        /\ a \o b \in Seq(Msg)
    <3>1. \A x \in CtxT : Extension(x, a, b, P, q) =>
            /\ Extended(x, a, b, P, q) \in CtxT
            /\ Extended(x, a, b, P, q).history = x.history \o (a \o b)
            /\ Extended(x, a, b, P, q).openSteps = x.openSteps
            /\ Extended(x, a, b, P, q).pendingToolResultIds = P
            /\ Extended(x, a, b, P, q).deferredMessages = q
            /\ a \o b \in Seq(UserM \cup ToolM) /\ a \o b \in Seq(Msg)
      BY ONLY ExtendedFields
    <3>. QED  BY <3>1
  <2>. QED  BY <2>1 DEF CtxT
<1>2. /\ a \in Seq(Msg) /\ b \in Seq(Msg) /\ b \in Seq(UserM) /\ Len(a) = Len(ids)
      /\ DOMAIN ids = 1 .. Len(ids) /\ Len(ids) \in Nat /\ Len(a) \in Nat /\ Len(b) \in Nat
  BY ResultsOfType, UserSeq, LenProperties DEF Extension
<1>3. /\ l = Len(a) + Len(b) /\ \A i \in 1 .. Len(a) : r[i] = a[i]
      /\ \A i \in 1 .. Len(b) : r[Len(a) + i] = b[i]
  <2>1. a \in Seq(Msg) /\ b \in Seq(Msg)
    BY <1>2
  <2>. QED  BY ONLY <2>1, Joined
<1>4. \A i \in 1 .. Len(b) : b[i].role = "user"
  <2>1. \A i \in 1 .. Len(b) : b[i] \in UserM
    BY <1>2, LenProperties, ElementOfSeq
  <2>. QED  BY <2>1 DEF UserM
<1>5. \A i \in 1 .. Len(ids) : a[i].role = "tool" /\ a[i].toolCallId = ids[i]
  BY <1>2 DEF ResultsOf, Result
<1>6. \A i \in 1 .. l : i \in 1 .. Len(a) \/ \E k \in 1 .. Len(b) : i = Len(a) + k
  <2>. SUFFICES ASSUME NEW i \in 1 .. l, i \notin 1 .. Len(a)
                PROVE  i - Len(a) \in 1 .. Len(b) /\ i = Len(a) + (i - Len(a))
    BY ZenonT(30)
  <2>. HIDE DEF r, l
  <2>1. l \in Nat /\ l = Len(a) + Len(b)
    BY <1>2, <1>3
  <2>. QED  BY <1>2, <2>1
<1>7. \A i \in 1 .. l : /\ r[i].role # "assistant"
                        /\ r[i].role = "tool" => i \in DOMAIN ids /\ r[i].toolCallId = ids[i]
  <2>. HIDE DEF r, l
  <2>1. ASSUME NEW i \in 1 .. Len(a)
        PROVE  r[i].role = "tool" /\ i \in DOMAIN ids /\ r[i].toolCallId = ids[i]
    BY <1>2, <1>3, <1>5
  <2>2. ASSUME NEW k \in 1 .. Len(b)
        PROVE  r[Len(a) + k].role = "user"
    BY <1>3, <1>4
  <2>. QED  BY <1>6, <2>1, <2>2
<1>8. /\ n \in Nat /\ l \in Nat /\ DOMAIN h = 1 .. n /\ DOMAIN g = 1 .. n + l
      /\ \A i \in 1 .. n : g[i] = h[i]
      /\ \A i \in 1 .. l : g[n + i] = r[i]
  <2>. HIDE DEF r, h
  <2>1. r \in Seq(Msg) /\ h \in Seq(Msg)
    BY <1>1
  <2>. QED  BY ONLY <2>1, Joined DEF g, n, l
<1>. HIDE DEF r, h, g, n, l, Q
<1>9. \A j \in 1 .. n + l : j \in 1 .. n \/ \E i \in 1 .. l : j = n + i
  <2>. SUFFICES ASSUME NEW j \in 1 .. n + l, j \notin 1 .. n
                PROVE  j - n \in 1 .. l /\ j = n + (j - n)
    BY ZenonT(30)
  <2>. QED  BY <1>8
<1>10. \A i \in 1 .. n : i \in 1 .. n + l
  BY <1>8
<1>11. /\ \A j \in DOMAIN h : h[j].role = "tool" =>
             \E i \in DOMAIN h : i < j /\ Calling(h[i], h[j].toolCallId)
       /\ \A j, k \in DOMAIN h :
             (h[j].role = "tool" /\ h[k].role = "tool" /\ h[j].toolCallId = h[k].toolCallId) => j = k
       /\ \A id \in Q : /\ \E i \in DOMAIN h : Calling(h[i], id)
                        /\ \A j \in DOMAIN h : h[j].role = "tool" => h[j].toolCallId # id
       /\ \A s \in c.openSteps : \E i \in DOMAIN h : h[i].role = "assistant" /\ h[i].step = s
  BY DEF Matched, InOrder, Once, Waiting, Carried, h, Q
\* A result is an old one, or one of ids.
<1>12. ASSUME NEW j \in 1 .. n + l, g[j].role = "tool"
       PROVE  \/ j \in 1 .. n /\ g[j] = h[j]
              \/ \E i \in DOMAIN ids : j = n + i /\ g[j].toolCallId = ids[i]
  <2>1. CASE j \in 1 .. n
    BY <1>8, <2>1
  <2>2. ASSUME NEW i \in 1 .. l, j = n + i
        PROVE  i \in DOMAIN ids /\ g[j].toolCallId = ids[i]
    <3>1. g[j] = r[i]
      BY <1>8, <2>2
    <3>. QED  BY <1>7, <1>12, <3>1
  <2>. QED  BY <1>9, <1>12, <2>1, <2>2
<1>13. \A i \in DOMAIN ids : ids[i] \in Q /\ ids[i] \in Range(ids)
  BY DEF Range, Q
<1>14. ASSUME NEW j \in 1 .. n + l, g[j].role = "tool"
       PROVE  \E i \in 1 .. n + l : i < j /\ Calling(g[i], g[j].toolCallId)
  <2>1. CASE j \in 1 .. n /\ g[j] = h[j]
    <3>1. PICK i \in 1 .. n : i < j /\ Calling(h[i], h[j].toolCallId)
      BY <1>8, <1>11, <1>14, <2>1
    <3>. QED  BY <1>8, <1>10, <2>1, <3>1
  <2>2. ASSUME NEW k \in DOMAIN ids, j = n + k, g[j].toolCallId = ids[k]
        PROVE  \E i \in 1 .. n + l : i < j /\ Calling(g[i], g[j].toolCallId)
    <3>1. PICK i \in 1 .. n : Calling(h[i], ids[k])
      BY <1>8, <1>11, <1>13
    <3>2. k \in Nat /\ k >= 1
      BY <1>2
    <3>3. i < j /\ i \in 1 .. n + l
      BY <1>8, <1>10, <2>2, <3>2
    <3>. QED  BY <1>8, <2>2, <3>1, <3>3
  <2>. QED  BY <1>12, <1>14, <2>1, <2>2
<1>15. ASSUME NEW j \in 1 .. n + l, NEW k \in 1 .. n + l, g[j].role = "tool", g[k].role = "tool",
              g[j].toolCallId = g[k].toolCallId
       PROVE  j = k
  <2>1. \/ j \in 1 .. n /\ g[j] = h[j]
        \/ \E i \in DOMAIN ids : j = n + i /\ g[j].toolCallId = ids[i]
    BY <1>12, <1>15
  <2>2. \/ k \in 1 .. n /\ g[k] = h[k]
        \/ \E i \in DOMAIN ids : k = n + i /\ g[k].toolCallId = ids[i]
    BY <1>12, <1>15
  <2>3. \A i \in DOMAIN ids : \A x \in 1 .. n : h[x].role = "tool" => h[x].toolCallId # ids[i]
    BY <1>8, <1>11, <1>13
  <2>4. \A x, y \in DOMAIN ids : ids[x] = ids[y] => x = y
    BY DEF Distinct
  <2>5. CASE j \in 1 .. n /\ g[j] = h[j] /\ k \in 1 .. n /\ g[k] = h[k]
    <3>1. \A x, y \in 1 .. n :
             (h[x].role = "tool" /\ h[y].role = "tool" /\ h[x].toolCallId = h[y].toolCallId) => x = y
      BY <1>8, <1>11
    <3>. QED  BY <1>15, <2>5, <3>1
  <2>6. ASSUME NEW x \in DOMAIN ids, NEW y \in DOMAIN ids, j = n + x, k = n + y,
               g[j].toolCallId = ids[x], g[k].toolCallId = ids[y]
        PROVE  j = k
    <3>1. ids[x] = ids[y]
      BY <1>15, <2>6
    <3>2. x = y
      BY <2>4, <3>1
    <3>. QED  BY <2>6, <3>2
  <2>7. ASSUME NEW x \in DOMAIN ids, g[j].toolCallId = ids[x], k \in 1 .. n, g[k] = h[k]
        PROVE  FALSE
    BY <1>15, <2>3, <2>7
  <2>8. ASSUME NEW x \in DOMAIN ids, g[k].toolCallId = ids[x], j \in 1 .. n, g[j] = h[j]
        PROVE  FALSE
    BY <1>15, <2>3, <2>8
  <2>. QED  BY <2>1, <2>2, <2>5, <2>6, <2>7, <2>8
<1>16. ASSUME NEW id \in P
       PROVE  /\ \E i \in 1 .. n + l : Calling(g[i], id)
              /\ \A j \in 1 .. n + l : g[j].role = "tool" => g[j].toolCallId # id
  <2>1. id \in Q /\ id \notin Range(ids)
    BY <1>16 DEF Q, Extension
  <2>2. PICK i \in 1 .. n : Calling(h[i], id)
    BY <1>8, <1>11, <2>1
  <2>3. g[i] = h[i] /\ i \in 1 .. n + l
    BY <1>8, <1>10, <2>2
  <2>4. ASSUME NEW j \in 1 .. n + l, g[j].role = "tool", g[j].toolCallId = id
        PROVE  FALSE
    <3>1. \A x \in 1 .. n : h[x].role = "tool" => h[x].toolCallId # id
      BY <1>8, <1>11, <2>1
    <3>2. \A x \in DOMAIN ids : ids[x] # id
      BY <1>13, <2>1
    <3>. QED  BY <1>12, <2>4, <3>1, <3>2
  <2>. QED  BY <2>2, <2>3, <2>4
<1>17. ASSUME NEW s \in c.openSteps
       PROVE  \E i \in 1 .. n + l : g[i].role = "assistant" /\ g[i].step = s
  BY <1>8, <1>10, <1>11
<1>18. Matched(e)
  <2>1. DOMAIN g = 1 .. n + l
    BY <1>8
  <2>2. InOrder(g) /\ Once(g)
    BY <1>14, <1>15, <2>1 DEF InOrder, Once
  <2>3. Waiting(g, P) /\ Carried(g, c.openSteps)
    BY <1>16, <1>17, <2>1 DEF Waiting, Carried
  <2>. QED  BY <1>1, <2>2, <2>3 DEF Matched
<1>19. CallsFrom(g, h, {})
  <2>. SUFFICES ASSUME NEW j \in 1 .. n + l, g[j].role = "assistant"
                PROVE  j \in DOMAIN h /\ g[j] = h[j]
    BY <1>8 DEF CallsFrom, Calling
  <2>1. ASSUME NEW i \in 1 .. l, j = n + i
        PROVE  FALSE
    BY <1>7, <1>8, <2>1
  <2>2. j \in 1 .. n
    BY <1>9, <2>1
  <2>. QED  BY <1>8, <2>2
<1>. QED  BY <1>1, <1>18, <1>19 DEF h

LEMMA BeginMatched ==
    ASSUME NEW c \in CtxT, Matched(c), NEW s \in Step, NEW e, e = stepBegin(c, s)
    PROVE  Matched(e) /\ CallsFrom(e.history, c.history, {})
<1>. DEFINE h == c.history
            n == Len(h)
            m == Opened(s)
            g == Append(h, m)
            Q == c.pendingToolResultIds
<1>1. /\ e.history = g /\ e.pendingToolResultIds = Q /\ e.openSteps = c.openSteps \cup {s}
      /\ m \in Msg /\ h \in Seq(Msg)
  BY BeginFields DEF CtxT
<1>2. m.role = "assistant" /\ m.step = s /\ Range(m.toolCalls) = {}
  BY DEF Opened, Range
<1>. HIDE DEF m
<1>3. /\ n \in Nat /\ DOMAIN h = 1 .. n /\ DOMAIN g = 1 .. n + 1 /\ g[n + 1] = m
      /\ \A i \in 1 .. n : g[i] = h[i]
  BY <1>1, AppendProperties, LenProperties
<1>. HIDE DEF h, n, g, Q
<1>4. \A i \in 1 .. n + 1 : i \in 1 .. n \/ i = n + 1
  BY <1>3
<1>5. (\A i \in 1 .. n : i \in 1 .. n + 1) /\ n + 1 \in 1 .. n + 1
  BY <1>3
<1>6. /\ \A j \in 1 .. n : h[j].role = "tool" =>
             \E i \in 1 .. n : i < j /\ Calling(h[i], h[j].toolCallId)
      /\ \A j, k \in 1 .. n :
             (h[j].role = "tool" /\ h[k].role = "tool" /\ h[j].toolCallId = h[k].toolCallId) => j = k
      /\ \A id \in Q : /\ \E i \in 1 .. n : Calling(h[i], id)
                       /\ \A j \in 1 .. n : h[j].role = "tool" => h[j].toolCallId # id
      /\ \A u \in c.openSteps : \E i \in 1 .. n : h[i].role = "assistant" /\ h[i].step = u
  BY <1>3 DEF Matched, InOrder, Once, Waiting, Carried, h, Q
<1>7. \A j \in 1 .. n + 1 : g[j].role = "tool" => j \in 1 .. n /\ g[j] = h[j]
  BY <1>2, <1>3, <1>4
<1>8. \A j \in 1 .. n + 1 : g[j].role = "tool" =>
          \E i \in 1 .. n + 1 : i < j /\ Calling(g[i], g[j].toolCallId)
  <2>. SUFFICES ASSUME NEW j \in 1 .. n, h[j].role = "tool"
                PROVE  \E i \in 1 .. n + 1 : i < j /\ Calling(g[i], h[j].toolCallId)
    BY <1>7
  <2>1. PICK i \in 1 .. n : i < j /\ Calling(h[i], h[j].toolCallId)
    BY <1>6
  <2>. QED  BY <1>3, <1>5, <2>1
<1>9. \A id \in Q : /\ \E i \in 1 .. n + 1 : Calling(g[i], id)
                    /\ \A j \in 1 .. n + 1 : g[j].role = "tool" => g[j].toolCallId # id
  <2>. SUFFICES ASSUME NEW id \in Q
                PROVE  /\ \E i \in 1 .. n + 1 : Calling(g[i], id)
                       /\ \A j \in 1 .. n + 1 : g[j].role = "tool" => g[j].toolCallId # id
    OBVIOUS
  <2>1. PICK i \in 1 .. n : Calling(h[i], id)
    BY <1>6
  <2>2. \A j \in 1 .. n + 1 : g[j].role = "tool" => g[j].toolCallId # id
    BY <1>6, <1>7
  <2>. QED  BY <1>3, <1>5, <2>1, <2>2
<1>10. \A u \in c.openSteps \cup {s} : \E i \in 1 .. n + 1 : g[i].role = "assistant" /\ g[i].step = u
  BY <1>2, <1>3, <1>5, <1>6
<1>11. \A j, k \in 1 .. n + 1 :
          (g[j].role = "tool" /\ g[k].role = "tool" /\ g[j].toolCallId = g[k].toolCallId) => j = k
  BY <1>6, <1>7
<1>12. Matched(e)
  <2>1. DOMAIN g = 1 .. n + 1
    BY <1>3
  <2>2. InOrder(g) /\ Once(g)
    BY <1>8, <1>11, <2>1 DEF InOrder, Once
  <2>3. Waiting(g, Q) /\ Carried(g, c.openSteps \cup {s})
    BY <1>9, <1>10, <2>1 DEF Waiting, Carried
  <2>. QED  BY <1>1, <2>2, <2>3 DEF Matched
<1>13. CallsFrom(g, h, {})
  <2>. SUFFICES ASSUME NEW j \in 1 .. n + 1, g[j].role = "assistant", Range(g[j].toolCalls) # {}
                PROVE  j \in DOMAIN h /\ g[j] = h[j]
    BY <1>3 DEF CallsFrom, Calling
  <2>. QED  BY <1>2, <1>3, <1>4
<1>. QED  BY <1>1, <1>12, <1>13 DEF h

\* A change in place that adds the calls N, which are new, to the message of step s.
Gains(m, s, f, N) ==
    /\ Range(m.toolCalls) \subseteq Range(f[m].toolCalls)
    /\ Range(f[m].toolCalls) \subseteq Range(m.toolCalls) \cup N
    /\ m.step = s => N \subseteq Range(f[m].toolCalls)

AddsCalls(c, s, f, N) ==
    /\ \A m \in AsstM : Gains(m, s, f, N)
    /\ \A m \in Range(c.history) : \A id \in N : ~ Calling(m, id)

LEMMA ChangedMatched ==
    ASSUME NEW c \in CtxT, Matched(c), NEW s, s \in c.openSteps, NEW f, InPlace(f), NEW N \in SUBSET CallId,
           AddsCalls(c, s, f, N),
           NEW P, P = c.pendingToolResultIds \cup N, NEW e, e = Changed(c, f, P)
    PROVE  Matched(e) /\ CallsFrom(e.history, c.history, N)
<1>. DEFINE h == c.history
            g == e.history
            Q == c.pendingToolResultIds
<1>0. P \in SUBSET CallId /\ Q \subseteq CallId
  BY DEF CtxT
<1>1. /\ DOMAIN g = DOMAIN h /\ e.pendingToolResultIds = P
      /\ \A i \in DOMAIN h : /\ g[i] = f[h[i]] /\ h[i] \in Msg
                             /\ g[i].role = h[i].role
                             /\ h[i].role = "tool" => g[i] = h[i]
      /\ e.openSteps = c.openSteps
  BY <1>0, ChangedLast, ChangedOpen
<1>2. \A i \in DOMAIN h : h[i] \in Range(h)
  BY DEF Range
<1>3. \A i \in DOMAIN h : h[i].role = "assistant" =>
        /\ g[i].step = h[i].step
        /\ Range(h[i].toolCalls) \subseteq Range(g[i].toolCalls)
        /\ Range(g[i].toolCalls) \subseteq Range(h[i].toolCalls) \cup N
        /\ h[i].step = s => N \subseteq Range(g[i].toolCalls)
  <2>0. \A m \in AsstM : Gains(m, s, f, N)
    BY DEF AddsCalls
  <2>1. \A m \in Msg : m.role = "assistant" => m \in AsstM
    BY MsgRoles
  <2>2. \A m \in Msg : m.role = "assistant" => f[m].step = m.step
    BY DEF InPlace
  <2>. HIDE DEF h, g
  <2>. SUFFICES ASSUME NEW i \in DOMAIN h, h[i].role = "assistant"
                PROVE  /\ g[i].step = h[i].step
                       /\ Range(h[i].toolCalls) \subseteq Range(g[i].toolCalls)
                       /\ Range(g[i].toolCalls) \subseteq Range(h[i].toolCalls) \cup N
                       /\ h[i].step = s => N \subseteq Range(g[i].toolCalls)
    OBVIOUS
  <2>3. g[i] = f[h[i]] /\ h[i] \in Msg /\ h[i] \in AsstM
    BY <1>1, <2>1
  <2>4. Gains(h[i], s, f, N)
    BY <2>0, <2>3
  <2>. QED  BY <2>2, <2>3, <2>4 DEF Gains
<1>4. /\ \A j \in DOMAIN h : h[j].role = "tool" =>
             \E i \in DOMAIN h : i < j /\ Calling(h[i], h[j].toolCallId)
      /\ \A j, k \in DOMAIN h :
             (h[j].role = "tool" /\ h[k].role = "tool" /\ h[j].toolCallId = h[k].toolCallId) => j = k
      /\ \A id \in Q : /\ \E i \in DOMAIN h : Calling(h[i], id)
                       /\ \A j \in DOMAIN h : h[j].role = "tool" => h[j].toolCallId # id
      /\ \A u \in c.openSteps : \E i \in DOMAIN h : h[i].role = "assistant" /\ h[i].step = u
  BY DEF Matched, InOrder, Once, Waiting, Carried
<1>5. \A i \in DOMAIN h : \A id \in N : ~ Calling(h[i], id)
  BY <1>2 DEF AddsCalls
<1>6. CallsFrom(g, h, N)
  <2>. SUFFICES ASSUME NEW i \in DOMAIN h, g[i].role = "assistant", NEW id \in Range(g[i].toolCalls), id \notin N
                PROVE  Calling(h[i], id) /\ h[i].step = g[i].step
    BY <1>1 DEF CallsFrom
  <2>. HIDE DEF h, g
  <2>1. h[i].role = "assistant"
    BY <1>1
  <2>2. g[i].step = h[i].step /\ Range(g[i].toolCalls) \subseteq Range(h[i].toolCalls) \cup N
    BY <1>3, <2>1
  <2>. QED  BY <2>1, <2>2 DEF Calling
<1>. HIDE DEF h, g, Q
<1>7. \A i \in DOMAIN h : \A id : Calling(h[i], id) => Calling(g[i], id)
  BY <1>1, <1>3 DEF Calling
<1>8. \A j \in DOMAIN h : g[j].role = "tool" => \E i \in DOMAIN h : i < j /\ Calling(g[i], g[j].toolCallId)
  BY <1>1, <1>4, <1>7
<1>9. \A j, k \in DOMAIN h :
             (g[j].role = "tool" /\ g[k].role = "tool" /\ g[j].toolCallId = g[k].toolCallId) => j = k
  BY <1>1, <1>4
<1>10. \A u \in c.openSteps : \E i \in DOMAIN h : g[i].role = "assistant" /\ g[i].step = u
  BY <1>1, <1>3, <1>4
<1>11. ASSUME NEW id \in P
       PROVE  /\ \E i \in DOMAIN h : Calling(g[i], id)
              /\ \A j \in DOMAIN h : g[j].role = "tool" => g[j].toolCallId # id
  <2>1. CASE id \in Q
    BY <1>1, <1>4, <1>7, <2>1
  <2>2. CASE id \in N
    <3>1. PICK i \in DOMAIN h : h[i].role = "assistant" /\ h[i].step = s
      BY <1>4
    <3>2. Calling(g[i], id)
      BY <1>1, <1>3, <2>2, <3>1 DEF Calling
    <3>3. \A j \in DOMAIN h : h[j].role = "tool" => h[j].toolCallId # id
      BY <1>4, <1>5, <2>2
    <3>. QED  BY <1>1, <3>1, <3>2, <3>3
  <2>. QED  BY <1>11, <2>1, <2>2 DEF Q
<1>12. Matched(e)
  <2>1. DOMAIN g = DOMAIN h /\ e.pendingToolResultIds = P /\ e.openSteps = c.openSteps
    BY <1>1
  <2>2. InOrder(g) /\ Once(g)
    BY <1>8, <1>9, <2>1 DEF InOrder, Once
  <2>3. Waiting(g, P) /\ Carried(g, c.openSteps)
    BY <1>10, <1>11, <2>1 DEF Waiting, Carried
  <2>. QED  BY <2>1, <2>2, <2>3 DEF Matched, g
<1>. QED  BY <1>6, <1>12 DEF g, h

\* The calls of a teardown, each once.
LEMMA RecordedDistinct ==
    ASSUME NEW S, IsFiniteSet(S), NEW s \in recorded(S)
    PROVE  Distinct(s)
<1>. DEFINE n == Cardinality(S)
<1>1. s \in SetToSeqs(S)
  BY DEF recorded
<1>2. n \in Nat /\ s \in [1 .. n -> S] /\ \A i, j \in 1 .. n : i # j => s[i] # s[j]
  BY <1>1, FS_CardinalityType DEF SetToSeqs
<1>. HIDE DEF n
<1>. QED  BY <1>2 DEF Distinct

\* Results for calls that wait.
LEMMA ResultsMatched ==
    ASSUME NEW c \in CtxT, Matched(c), NEW ids \in Seq(CallId), Distinct(ids),
           Range(ids) \subseteq c.pendingToolResultIds, NEW e, e = toolResults(c, ids)
    PROVE  Matched(e) /\ CallsFrom(e.history, c.history, {})
<1>. DEFINE a == ResultsOf(ids)
            P == c.pendingToolResultIds \ Range(ids)
            b == IF P = {} THEN c.deferredMessages ELSE <<>>
            q == IF P = {} THEN <<>> ELSE c.deferredMessages
<1>1. Extension(c, a, b, P, q) /\ e = Extended(c, a, b, P, q)
  BY ResultsExtend
<1>2. P \cap Range(ids) = {} /\ a = ResultsOf(ids)
  OBVIOUS
<1>. HIDE DEF a, b, P, q
<1>3. \A x : x = Extended(c, a, b, P, q) => Matched(x) /\ CallsFrom(x.history, c.history, {})
  BY <1>1, <1>2, ExtendedMatched
<1>. QED  BY <1>1, <1>3

\* What is said.
LEMMA SaidMatched ==
    ASSUME NEW c \in CtxT, Matched(c), NEW ms \in Seq(UserM), NEW e, e = appendMessage(c, ms)
    PROVE  Matched(e) /\ CallsFrom(e.history, c.history, {})
<1>. DEFINE ids == <<>>
            a == <<>>
            b == IF hasOpenToolExchange(c) THEN <<>> ELSE ms
            P == c.pendingToolResultIds
            q == IF hasOpenToolExchange(c) THEN c.deferredMessages \o ms ELSE c.deferredMessages
<1>1. Extension(c, a, b, P, q) /\ e = Extended(c, a, b, P, q)
  BY AppendExtends
<1>2. /\ ids \in Seq(CallId) /\ Distinct(ids) /\ Range(ids) = {} /\ a = ResultsOf(ids)
  BY EmptySeq DEF Distinct, Range, ResultsOf
<1>. HIDE DEF a, b, P, q, ids
<1>3. Range(ids) \subseteq c.pendingToolResultIds /\ P \cap Range(ids) = {}
  BY <1>2
<1>4. \A x : x = Extended(c, a, b, P, q) => Matched(x) /\ CallsFrom(x.history, c.history, {})
  BY <1>1, <1>2, <1>3, ExtendedMatched
<1>. QED  BY <1>1, <1>4

\* The calls of a step that is at work are those its worker has recorded.
CallsSoFar ==
    \A t \in Turns : worker[t].pc \in {"llm", "tools"} =>
        \A i \in DOMAIN wire.history :
            (wire.history[i].role = "assistant" /\ wire.history[i].step = uuid(t))
                => \A id \in Range(wire.history[i].toolCalls) : id[3] <= worker[t].called

PlacedInv == Matched(wire) /\ CallsSoFar

LEMMA PartMatched ==
    ASSUME WInv, ConversationInv, ReplayInv, PlacedInv, NEW t \in Turns, ContentPart(t)
    PROVE  Matched(wire') /\ CallsFrom(wire'.history, wire.history, {})
<1>. DEFINE s == uuid(t)
            f == Marked(s)
            P == wire.pendingToolResultIds
<1>1. /\ wire' = contentPart(wire, s) /\ wire \in CtxT /\ s \in wire.openSteps /\ s \in Step
      /\ Matched(wire)
  BY ReplayFields DEF ContentPart, Record, ConversationInv, ReplayInv, CtxT, PlacedInv
<1>. HIDE DEF s
<1>2. InPlace(f) /\ \A m \in AsstM : f[m].toolCalls = m.toolCalls
  <2>1. AsstM \subseteq Msg
    BY DEF Msg
  <2>2. \A m \in AsstM : Marked(s)[m].toolCalls = m.toolCalls
    BY <2>1 DEF Marked, AsstM
  <2>3. InPlace(Marked(s))
    BY <1>1, StepChanges
  <2>. QED  BY <2>2, <2>3
<1>. HIDE DEF f
<1>3. wire' = Changed(wire, f, P)
  <2>1. wire' = [wire EXCEPT !.history = Mapped(wire.history, f)]
    BY <1>1, StepEvents DEF f
  <2>. QED  BY <1>1, <2>1 DEF Changed, CtxT
<1>. DEFINE N == {}
<1>4. N \in SUBSET CallId /\ P = wire.pendingToolResultIds \cup N /\ AddsCalls(wire, s, f, N)
  BY <1>2 DEF AddsCalls, Gains
<1>. HIDE DEF N, P
<1>5. \A x : x = Changed(wire, f, P) => Matched(x) /\ CallsFrom(x.history, wire.history, N)
  <2>1. wire \in CtxT /\ Matched(wire) /\ s \in wire.openSteps /\ InPlace(f)
    BY <1>1, <1>2
  <2>. QED  BY <1>4, <2>1, ChangedMatched
<1>. QED  BY <1>3, <1>5 DEF N

\* A call is new.
LEMMA CallMatched ==
    ASSUME WInv, ConversationInv, ReplayInv, PlacedInv, NEW t \in Turns, ToolCall(t)
    PROVE  Matched(wire') /\ CallsFrom(wire'.history, wire.history, {callId(t, worker[t].called + 1)})
<1>. DEFINE s == uuid(t)
            x == callId(t, worker[t].called + 1)
            f == Called(s, x)
            N == {x}
            P == wire.pendingToolResultIds \cup N
<1>1. /\ worker[t].pc = "tools" /\ worker[t].called < worker[t].calls
      /\ worker[t] \in WorkerState /\ wire \in CtxT
      /\ wire' = toolCall(wire, s, x) /\ s \in wire.openSteps /\ s \in Step
      /\ Steps(wire) /\ Matched(wire)
  BY ReplayFields DEF ToolCall, Record, ConversationInv, WInv, WorkersOK, ReplayInv, CtxT, PlacedInv
<1>2. /\ x \in CallId /\ <<x[1], x[2]>> = s /\ x[3] = worker[t].called + 1
      /\ worker[t].called \in Nat
  <2>1. worker[t].called + 1 \in 1 .. MaxCalls /\ worker[t].called \in Nat
    BY <1>1, TurnFlowAssumption DEF WorkerState
  <2>2. worker[t].step \in 0 .. MaxSteps + 1
    BY <1>1 DEF WorkerState
  <2>. QED  BY <2>1, <2>2 DEF callId, CallId, uuid
<1>3. ASSUME NEW m \in Range(wire.history), Calling(m, x)
      PROVE  FALSE
  <2>1. m.step = s
    BY <1>1, <1>2, <1>3 DEF Steps, Calling
  <2>2. x[3] <= worker[t].called
    BY <1>1, <1>3, <2>1 DEF PlacedInv, CallsSoFar, Calling, Range
  <2>. HIDE DEF x
  <2>. QED  BY <1>2, <2>2
<1>. HIDE DEF s, x
<1>4. wire' = Changed(wire, f, P)
  <2>1. wire' = [wire EXCEPT !.history = Mapped(wire.history, f), !.pendingToolResultIds = @ \cup {x}]
    BY <1>1, <1>2, StepEvents
  <2>. QED  BY <1>1, <2>1 DEF Changed, CtxT
<1>5. InPlace(f)
  BY <1>1, <1>2, StepChanges
<1>6. ASSUME NEW m \in AsstM
      PROVE  /\ Range(m.toolCalls) \subseteq Range(f[m].toolCalls)
             /\ Range(f[m].toolCalls) \subseteq Range(m.toolCalls) \cup N
             /\ m.step = s => N \subseteq Range(f[m].toolCalls)
  <2>1. m \in Msg /\ m.role = "assistant" /\ m.toolCalls \in Seq(CallId)
    BY DEF Msg, AsstM
  <2>2. CASE m.step = s
    <3>1. f[m].toolCalls = Append(m.toolCalls, x)
      BY <2>1, <2>2 DEF Called, AsstM
    <3>2. Range(Append(m.toolCalls, x)) = Range(m.toolCalls) \cup {x}
      BY <1>2, <2>1, RangeAppend
    <3>. QED  BY <3>1, <3>2
  <2>3. CASE m.step # s
    BY <2>1, <2>3 DEF Called
  <2>. QED  BY <2>2, <2>3
<1>7. N \in SUBSET CallId /\ \A m \in Range(wire.history) : \A id \in N : ~ Calling(m, id)
  BY <1>2, <1>3
<1>8. P = wire.pendingToolResultIds \cup N /\ N = {x}
  OBVIOUS
<1>. HIDE DEF f, N, P
<1>9. \A y : y = Changed(wire, f, P) => Matched(y) /\ CallsFrom(y.history, wire.history, N)
  <2>1. AddsCalls(wire, s, f, N)
    BY <1>6, <1>7 DEF AddsCalls, Gains
  <2>2. wire \in CtxT /\ Matched(wire) /\ s \in wire.openSteps
    BY <1>1
  <2>. QED  BY <1>5, <1>7, <1>8, <2>1, <2>2, ChangedMatched
<1>10. Matched(wire') /\ CallsFrom(wire'.history, wire.history, N)
  BY <1>4, <1>9
<1>. QED  BY <1>8, <1>10 DEF x

LEMMA ResultMatched ==
    ASSUME WInv, ConversationInv, ReplayInv, ExchangeInv, PlacedInv, NEW t \in Turns, ToolResult(t)
    PROVE  Matched(wire') /\ CallsFrom(wire'.history, wire.history, {})
<1>. DEFINE x == callId(t, worker[t].answered + 1)
            ids == <<x>>
<1>1. /\ worker[t].pc = "tools" /\ worker[t].answered < worker[t].called
      /\ worker[t] \in WorkerState /\ wire \in CtxT /\ Matched(wire)
      /\ wire' = toolResults(wire, ids)
  BY DEF ToolResult, toolResult, Record, ConversationInv, WInv, WorkersOK, PlacedInv
<1>2. x \in wire.pendingToolResultIds
  <2>1. worker[t].answered \in Nat /\ worker[t].called \in Nat
    BY <1>1, TurnFlowAssumption DEF WorkerState
  <2>2. worker[t].answered + 1 \in worker[t].answered + 1 .. worker[t].called
    BY <1>1, <2>1
  <2>. QED  BY <1>1, <2>2 DEF ExchangeInv
<1>3. x \in CallId
  BY <1>1, <1>2 DEF CtxT
<1>. HIDE DEF x
<1>4. /\ ids \in Seq(CallId) /\ Range(ids) \subseteq wire.pendingToolResultIds /\ Distinct(ids)
  BY <1>2, <1>3 DEF Range, Distinct
<1>. HIDE DEF ids
<1>5. \A e : e = toolResults(wire, ids) => Matched(e) /\ CallsFrom(e.history, wire.history, {})
  BY <1>1, <1>4, ResultsMatched
<1>. QED  BY <1>1, <1>5

LEMMA SameCalls == \A h, N : CallsFrom(h, h, N)
BY DEF CallsFrom, Calling

LEMMA EndMatched ==
    ASSUME WInv, ConversationInv, ReplayInv, PlacedInv, NEW t \in Turns, End(t)
    PROVE  Matched(wire') /\ CallsFrom(wire'.history, wire.history, {})
<1>1. PICK ids \in recorded(ctx.pendingToolResultIds) : wire' = closeAbandonedToolExchange(wire, ids)
  BY DEF End
<1>2. /\ ids \in Seq(CallId) /\ Range(ids) \subseteq wire.pendingToolResultIds
      /\ wire \in CtxT /\ Matched(wire)
  BY <1>1, PendingSequence, ReplayFields DEF PlacedInv
<1>3. Distinct(ids)
  <2>1. ctx \in CtxT
    BY DEF ConversationInv
  <2>2. IsFiniteSet(ctx.pendingToolResultIds)
    BY <2>1, PendingFinite
  <2>. QED  BY <1>1, <2>2, RecordedDistinct
<1>4. CASE ids = <<>>
  BY <1>1, <1>2, <1>4, SameCalls DEF closeAbandonedToolExchange
<1>5. CASE ids # <<>>
  <2>1. wire' = toolResults(wire, ids)
    BY <1>1, <1>5 DEF closeAbandonedToolExchange
  <2>2. \A e : e = toolResults(wire, ids) => Matched(e) /\ CallsFrom(e.history, wire.history, {})
    BY <1>2, <1>3, ResultsMatched
  <2>. QED  BY <2>1, <2>2
<1>. QED  BY <1>4, <1>5

\* The calls that are new in a step.
NewCalls == {callId(t, worker[t].called + 1) : t \in {u \in Turns : ToolCall(u)}}

LEMMA StepMatched ==
    ASSUME WInv, ContextInv, ConversationInv, ReplayInv, ExchangeInv, PlacedInv, [Next]_vars
    PROVE  Matched(wire') /\ CallsFrom(wire'.history, wire.history, NewCalls)
<1>. DEFINE Goal == Matched(wire') /\ CallsFrom(wire'.history, wire.history, NewCalls)
<1>. SUFFICES Goal
  OBVIOUS
<1>0. \A N : Matched(wire') /\ CallsFrom(wire'.history, wire.history, N) /\ N \subseteq NewCalls => Goal
  BY DEF CallsFrom
<1>1. CASE wire' = wire
  BY <1>1, SameCalls DEF PlacedInv
<1>2. ASSUME NEW ns \in Seq(Numbers), wire' = appendMessage(wire, Messages(ns))
      PROVE  Goal
  <2>. DEFINE ms == Messages(ns)
  <2>1. wire \in CtxT /\ Matched(wire) /\ ms \in Seq(UserM) /\ wire' = appendMessage(wire, ms)
    BY <1>2, MessagesSay DEF ConversationInv, PlacedInv
  <2>. HIDE DEF ms
  <2>2. \A e : e = appendMessage(wire, ms) => Matched(e) /\ CallsFrom(e.history, wire.history, {})
    BY <2>1, SaidMatched
  <2>3. Matched(wire') /\ CallsFrom(wire'.history, wire.history, {})
    BY <2>1, <2>2
  <2>. HIDE DEF Goal
  <2>. QED  BY <1>0, <2>3
<1>3. ASSUME NEW t \in Turns, StepBegin(t), ~ worker[t].aborted
      PROVE  Goal
  <2>. DEFINE s == uuid(t)
  <2>1. wire \in CtxT /\ Matched(wire) /\ s \in Step /\ wire' = stepBegin(wire, s)
    BY <1>3, OpensNew DEF ConversationInv, PlacedInv, StepBegin, Record
  <2>. HIDE DEF s
  <2>2. \A e : e = stepBegin(wire, s) => Matched(e) /\ CallsFrom(e.history, wire.history, {})
    BY <2>1, BeginMatched
  <2>3. Matched(wire') /\ CallsFrom(wire'.history, wire.history, {})
    BY <2>1, <2>2
  <2>. HIDE DEF Goal
  <2>. QED  BY <1>0, <2>3
<1>4. ASSUME NEW t \in Turns, ContentPart(t) \/ ToolResult(t) \/ End(t)
      PROVE  Goal
  <2>1. Matched(wire') /\ CallsFrom(wire'.history, wire.history, {})
    BY <1>4, PartMatched, ResultMatched, EndMatched
  <2>. HIDE DEF Goal
  <2>. QED  BY <1>0, <2>1
<1>5. ASSUME NEW t \in Turns, ToolCall(t)
      PROVE  Goal
  <2>1. Matched(wire') /\ CallsFrom(wire'.history, wire.history, {callId(t, worker[t].called + 1)})
    BY <1>5, CallMatched
  <2>2. {callId(t, worker[t].called + 1)} \subseteq NewCalls
    BY <1>5 DEF NewCalls
  <2>. HIDE DEF Goal
  <2>. QED  BY <1>0, <2>1, <2>2
<1>. HIDE DEF Goal
<1>6. ASSUME flushSteerBuffer
      PROVE  Goal
  <2>1. steerBuffer \in Seq(Numbers) /\ wire' = appendMessage(wire, Messages(steerBuffer))
    BY <1>6, BufferType DEF flushSteerBuffer, Record
  <2>. QED  BY <1>2, <2>1
<1>7. CASE PromptOrSteer
  <2>1. CASE activeTurn # None
    BY <1>1, <1>7, <2>1 DEF PromptOrSteer
  <2>2. CASE activeTurn = None
    <3>. DEFINE ns == Append(steerBuffer, inputs')
    <3>1. wire' = appendMessage(wire, Messages(ns)) /\ inputs' \in Numbers /\ steerBuffer \in Seq(Numbers)
      BY <1>7, <2>2, BufferType, TurnFlowAssumption DEF PromptOrSteer, launch, runOneTurn, Record, Numbers
    <3>2. ns \in Seq(Numbers)
      BY <3>1, AppendProperties
    <3>. HIDE DEF ns
    <3>. QED  BY <1>2, <3>1, <3>2
  <2>. QED  BY <2>1, <2>2
<1>8. ASSUME NEW t \in Turns, Work(t) \/ ContentPart(t)
      PROVE  Goal
  <2>1. CASE HookDone(t) \/ BeginStep(t) \/ LLMAnswers(t) \/ Fail(t) \/ Gate(t) \/ StopHook(t)
    BY <1>1, <1>6, <2>1 DEF HookDone, BeginStep, LLMAnswers, Fail, Gate, StopHook
  <2>2. CASE StepBegin(t)
    BY <1>1, <1>3, <2>2 DEF StepBegin
  <2>3. CASE Seal(t)
    <3>1. stepEnd(wire) = wire
      BY SealsNothing DEF ContextInv, Good, ConversationInv
    <3>2. wire' = wire
      BY <2>3, <3>1 DEF Seal, Record
    <3>. QED  BY <1>1, <3>2
  <2>. QED  BY <1>4, <1>5, <1>8, <2>1, <2>2, <2>3 DEF Work
<1>9. CASE Cancel \/ CrashAndResume \/ UNCHANGED vars
  BY <1>1, <1>9 DEF Cancel, CrashAndResume, vars
<1>. QED  BY <1>7, <1>8, <1>9 DEF Next, AtRest

\* A worker in a step that is at work.
LEMMA WorkerCalls ==
    ASSUME WInv, [Next]_vars, NEW t \in Turns, worker'[t].pc \in {"llm", "tools"}
    PROVE  /\ worker'[t].step = worker[t].step
           /\ \/ StepBegin(t) /\ ~ worker[t].aborted
              \/ /\ worker[t].pc \in {"llm", "tools"}
                 /\ worker[t].called \in Nat /\ worker'[t].called \in Nat
                 /\ worker[t].called <= worker'[t].called
                 /\ ToolCall(t) => worker'[t].called = worker[t].called + 1
<1>1. GoesOn(t)
  <2>1. live(t)' /\ ~ Starts(t)
    BY DEF live, Starts
  <2>. QED  BY <2>1, WorkerMoves
<1>2. worker'[t].step = worker[t].step
  BY <1>1 DEF GoesOn
<1>. SUFFICES ASSUME ~ (StepBegin(t) /\ ~ worker[t].aborted)
              PROVE  /\ worker[t].called \in Nat /\ worker'[t].called \in Nat
                     /\ worker[t].called <= worker'[t].called
                     /\ ToolCall(t) => worker'[t].called = worker[t].called + 1
  BY <1>1, <1>2 DEF GoesOn
<1>3. /\ worker \in [Turns -> WorkerState] /\ worker[t] \in WorkerState /\ worker[t].called \in Nat
      /\ worker[t].pc \in {"llm", "tools"}
  BY <1>1, TurnFlowAssumption DEF WInv, WorkersOK, WorkerState, GoesOn
<1>4. CASE ToolCall(t)
  <2>1. worker'[t].called = worker[t].called + 1
    BY <1>3, <1>4 DEF ToolCall, WorkerState
  <2>. QED  BY <1>3, <2>1
<1>5. CASE ~ ToolCall(t)
  <2>1. worker'[t].called = worker[t].called
    <3>1. CASE worker'[t] = worker[t]
      BY <3>1
    <3>2. CASE Cancel
      <4>1. activeTurn \in Turns
        BY <3>2 DEF Cancel, WInv, WorkersOK
      <4>. QED  BY <1>3, <3>2, <4>1 DEF Cancel, WorkerState
    <3>3. CASE CrashAndResume
      BY <1>3, <3>3, IdleOK DEF CrashAndResume, live
    <3>4. CASE PromptOrSteer
      <4>1. CASE activeTurn # None
        BY <3>1, <3>4, <4>1 DEF PromptOrSteer
      <4>2. CASE activeTurn = None
        <5>. DEFINE w == [Idle EXCEPT !.pc = "hook", !.prompt = inputs']
        <5>1. worker' = [worker EXCEPT ![turnId + 1] = w] /\ turnId + 1 \in Turns
          BY <3>4, <4>2 DEF PromptOrSteer, launch
        <5>2. w.pc = "hook"
          BY DEF Idle
        <5>. HIDE DEF w
        <5>3. t # turnId + 1
          BY <1>3, <5>1, <5>2
        <5>. QED  BY <1>3, <3>1, <5>1, <5>3
      <4>. QED  BY <4>1, <4>2
    <3>5. ASSUME NEW u \in Turns, u # t, Work(u) \/ ContentPart(u)
          PROVE  worker'[t] = worker[t]
      <4>1. CASE HookDone(u) \/ BeginStep(u) \/ StepBegin(u) \/ LLMAnswers(u)
        BY <1>3, <3>5, <4>1 DEF HookDone, BeginStep, StepBegin, LLMAnswers, Goto
      <4>2. CASE Fail(u) \/ ToolCall(u) \/ ToolResult(u) \/ ContentPart(u)
        BY <1>3, <3>5, <4>2 DEF Fail, ToolCall, ToolResult, ContentPart, Goto
      <4>3. CASE Seal(u)
        BY <1>3, <3>5, <4>3 DEF Seal, Goto
      <4>4. CASE Gate(u) \/ StopHook(u) \/ End(u)
        BY <1>3, <3>5, <4>4 DEF Gate, StopHook, End, Goto
      <4>. QED  BY <3>5, <4>1, <4>2, <4>3, <4>4 DEF Work
    <3>6. CASE Work(t) \/ ContentPart(t)
      <4>1. CASE LLMAnswers(t) \/ ToolResult(t) \/ ContentPart(t)
        <5>1. CASE LLMAnswers(t)
          BY <1>3, <5>1 DEF LLMAnswers, WorkerState
        <5>2. CASE ToolResult(t)
          BY <1>3, <5>2 DEF ToolResult, WorkerState
        <5>3. CASE ContentPart(t)
          BY <1>3, <5>3 DEF ContentPart, WorkerState
        <5>. QED  BY <4>1, <5>1, <5>2, <5>3
      <4>2. CASE Fail(t)
        BY <1>3, <4>2 DEF Fail, Goto, WorkerState
      <4>3. CASE Seal(t)
        <5>1. ASSUME NEW rejected, NEW pc \in AfterStep(t, rejected),
                     worker' = [worker EXCEPT ![t] = [@ EXCEPT !.pc = pc, !.rejected = rejected,
                          !.calls = 0, !.called = 0, !.answered = 0, !.executed = FALSE]]
              PROVE  FALSE
          <6>1. worker'[t].pc = pc
            BY <1>3, <5>1 DEF WorkerState
          <6>2. pc \notin {"llm", "tools"}
            BY <5>1 DEF AfterStep
          <6>. QED  BY <6>1, <6>2
        <5>2. ~ Goto(t, "ending")
          BY <1>3 DEF Goto, WorkerState
        <5>. QED  BY <4>3, <5>1, <5>2 DEF Seal
      <4>. QED  BY <1>3, <1>5, <3>6, <4>1, <4>2, <4>3 DEF Work, HookDone, BeginStep, StepBegin, Gate,
                   StopHook, End
    <3>. QED  BY <3>1, <3>2, <3>3, <3>4, <3>5, <3>6 DEF Next, AtRest, vars
  <2>. QED  BY <1>3, <1>5, <2>1
<1>. QED  BY <1>4, <1>5

LEMMA StepCallsSoFar ==
    ASSUME WInv, ConversationInv, ReplayInv, ReplayInv', PlacedInv, [Next]_vars,
           CallsFrom(wire'.history, wire.history, NewCalls)
    PROVE  CallsSoFar'
<1>. SUFFICES ASSUME NEW t \in Turns, worker'[t].pc \in {"llm", "tools"},
                     NEW j \in DOMAIN wire'.history, wire'.history[j].role = "assistant",
                     wire'.history[j].step = uuid(t)', NEW id \in Range(wire'.history[j].toolCalls)
              PROVE  id[3] <= worker'[t].called
  BY DEF CallsSoFar
<1>1. uuid(t)' = uuid(t) /\ uuid(t)[1] = t
  BY WorkerCalls DEF uuid
<1>2. <<id[1], id[2]>> = uuid(t)
  BY <1>1 DEF ReplayInv, Steps, Range
<1>3. id[1] = t
  BY <1>1, <1>2
<1>4. CASE id \in NewCalls
  <2>1. PICK u \in Turns : ToolCall(u) /\ id = callId(u, worker[u].called + 1)
    BY <1>4 DEF NewCalls
  <2>2. u = t /\ id[3] = worker[t].called + 1
    BY <1>3, <2>1 DEF callId
  <2>3. ~ StepBegin(t)
    BY <2>1, <2>2 DEF ToolCall, StepBegin
  <2>4. worker'[t].called = worker[t].called + 1 /\ worker'[t].called \in Nat
    BY <2>1, <2>2, <2>3, WorkerCalls
  <2>. QED  BY <2>2, <2>4
<1>5. ASSUME NEW i \in DOMAIN wire.history, Calling(wire.history[i], id),
             wire.history[i].step = wire'.history[j].step
      PROVE  id[3] <= worker'[t].called
  <2>1. wire.history[i].role = "assistant" /\ id \in Range(wire.history[i].toolCalls)
           /\ wire.history[i].step = uuid(t)
    BY <1>1, <1>5 DEF Calling
  <2>2. uuid(t) \in wire.openSteps
    BY <2>1 DEF ReplayInv, Steps, Range
  <2>3. ~ StepBegin(t)
    BY <2>2, OpensNew DEF StepBegin
  <2>4. /\ worker[t].pc \in {"llm", "tools"} /\ worker[t].called \in Nat /\ worker'[t].called \in Nat
        /\ worker[t].called <= worker'[t].called
    BY <2>3, WorkerCalls
  <2>5. id[3] <= worker[t].called
    BY <2>1, <2>4 DEF PlacedInv, CallsSoFar
  <2>6. id[3] \in Nat
    <3>1. wire.history[i] \in Msg
      BY <1>5, LenProperties, ElementOfSeq DEF ConversationInv, CtxT
    <3>2. wire.history[i] \in AsstM
      BY <2>1, <3>1, MsgRoles
    <3>3. wire.history[i].toolCalls \in Seq(CallId)
      BY <3>2 DEF AsstM
    <3>4. id \in CallId
      BY <2>1, <3>3, RangeOfSeq
    <3>. QED  BY <3>4, IdParts
  <2>. QED  BY <2>4, <2>5, <2>6
<1>. QED  BY <1>4, <1>5 DEF CallsFrom

LEMMA StepPlacedInv ==
    ASSUME WInv, ContextInv, ConversationInv, ReplayInv, ReplayInv', ExchangeInv, PlacedInv, [Next]_vars
    PROVE  PlacedInv'
<1>1. Matched(wire') /\ CallsFrom(wire'.history, wire.history, NewCalls)
  BY StepMatched
<1>2. CallsSoFar'
  BY <1>1, StepCallsSoFar
<1>3. Matched(wire)'
  BY <1>1 DEF Matched, InOrder, Once, Waiting, Carried
<1>. QED  BY <1>2, <1>3 DEF PlacedInv

LEMMA InitPlacedInv == Init => PlacedInv
<1>. SUFFICES ASSUME Init
              PROVE  PlacedInv
  OBVIOUS
<1>1. /\ \A t \in Turns : worker[t].pc = "unborn"
      /\ wire.history = <<>> /\ DOMAIN wire.history = {} /\ wire.pendingToolResultIds = {}
      /\ wire.openSteps = {}
  BY DEF Init, Idle, EmptyContext
<1>. QED  BY <1>1 DEF PlacedInv, Matched, InOrder, Once, Waiting, Carried, CallsSoFar

\* In what is logged each result comes after the message that carries its call and is
\* the only one for it, if a resume waits for the worker that still winds down.
THEOREM PlacedInvariant == ASSUME ~ Overlap PROVE Spec => []PlacedInv
<1>1. WInv /\ ContextInv /\ ConversationInv /\ ReplayInv /\ ReplayInv' /\ ExchangeInv /\ PlacedInv
          /\ [Next]_vars => PlacedInv'
  BY StepPlacedInv
<1>. QED  BY <1>1, InitPlacedInv, WorkersInductive, ContextGood, ConversationTyped, ReplayInvariant,
             ExchangeInvariant, PTL DEF Spec

LEMMA MsgNamed == Named(Msg, CallId)
<1>. SUFFICES ASSUME NEW m \in Msg
              PROVE  /\ m.role = "assistant" => m.toolCalls \in Seq(CallId)
                     /\ m.role = "tool" => m = Result(m.toolCallId) /\ m.toolCallId \in CallId
  BY DEF Named
<1>1. m.role = "assistant" => m \in AsstM
  BY MsgRoles
<1>2. m.role = "tool" => m \in ToolM
  BY MsgRoles
<1>3. m \in AsstM => m.toolCalls \in Seq(CallId)
  BY DEF AsstM
<1>4. m \in ToolM => m = Result(m.toolCallId) /\ m.toolCallId \in CallId
  BY DEF ToolM, Result
<1>. QED  BY <1>1, <1>2, <1>3, <1>4

\* The logged conversation is tidy.
LEMMA MatchedTidy ==
    ASSUME NEW h \in Seq(Msg), InOrder(h), Once(h)
    PROVE  Tidy(h)
<1>1. DOMAIN h = 1 .. Len(h) /\ Len(h) \in Nat /\ \A i \in DOMAIN h : h[i] \in Msg
  BY LenProperties, ElementOfSeq
<1>2. ASSUME NEW j \in Results(h)
      PROVE  \E i \in 1 .. j - 1 : Answers(h, i, j)
  <2>1. j \in DOMAIN h /\ h[j].role = "tool"
    BY DEF Results
  <2>2. PICK i \in DOMAIN h : i < j /\ Calling(h[i], h[j].toolCallId)
    BY <2>1 DEF InOrder
  <2>3. h[i].role = "assistant" /\ h[j].toolCallId \in Range(h[i].toolCalls)
    BY <2>2 DEF Calling
  <2>4. i \in 1 .. j - 1
    BY <1>1, <2>1, <2>2
  <2>5. Contains(h[i].toolCalls, h[j].toolCallId) /\ h[i].toolCalls # <<>>
    <3>1. PICK k \in DOMAIN h[i].toolCalls : h[i].toolCalls[k] = h[j].toolCallId
      BY <2>3 DEF Range
    <3>2. h[i].toolCalls \in Seq(CallId)
      BY <1>1, <2>3, MsgNamed DEF Named
    <3>3. DOMAIN h[i].toolCalls = 1 .. Len(h[i].toolCalls) /\ Len(h[i].toolCalls) \in Nat
      BY <3>2, LenProperties
    <3>4. h[i].toolCalls # <<>>
      BY <3>1
    <3>. QED  BY <3>1, <3>3, <3>4 DEF Contains
  <2>6. Answers(h, i, j)
    BY <2>2, <2>3, <2>5 DEF Answers, Calls
  <2>. QED  BY <2>4, <2>6
<1>3. ASSUME NEW j \in Results(h), NEW k \in Results(h) \ {j}
      PROVE  h[k].toolCallId # h[j].toolCallId
  BY <1>3 DEF Once, Results
<1>. QED  BY <1>2, <1>3 DEF Tidy

\* So is the live one, which lacks only messages without calls.
LEMMA LiveTidy ==
    ASSUME ConversationInv, ReplayInv, PlacedInv
    PROVE  Tidy(ctx.history)
<1>. DEFINE T == Standing(Dropped)
            h == wire.history
<1>1. ctx.history = Select(h, T) /\ h \in Seq(Msg)
  BY WithoutFields DEF ReplayInv, ConversationInv, CtxT
<1>2. Tidy(h)
  BY <1>1, MatchedTidy DEF PlacedInv, Matched
<1>3. ASSUME NEW i \in Calls(h)
      PROVE  h[i] \in T
  <2>1. i \in DOMAIN h /\ h[i].role = "assistant" /\ h[i].toolCalls # <<>>
    BY DEF Calls
  <2>2. h[i] \in Msg /\ h[i] \in Range(h)
    BY <1>1, <2>1, LenProperties, ElementOfSeq DEF Range
  <2>3. ASSUME h[i].step \in Dropped
        PROVE  FALSE
    <3>1. PICK m \in Range(h) : isVacuous(wire, m) /\ m.step = h[i].step
      BY <2>3 DEF ReplayInv, VacuousSteps
    <3>2. m.role = "assistant" /\ m.toolCalls = <<>>
      BY <3>1 DEF isVacuous
    <3>3. m = h[i]
      BY <2>1, <2>2, <3>1, <3>2 DEF ReplayInv, Steps, OneEach
    <3>. QED  BY <2>1, <3>2, <3>3
  <2>. QED  BY <2>2, <2>3 DEF Standing
<1>. HIDE DEF T, h
<1>. QED  BY <1>1, <1>2, <1>3, TidySelected

\* What context/projector.ts repairs for (tool_result without tool_use is rejected by the
\* provider): in each request a worker is about to send, each result stands behind the
\* call it answers and is the only one to; whatever crashes, cancels and resumes came
\* before, if a resume waits for the worker that still winds down.
THEOREM ResultsPlaced == ASSUME ~ Overlap PROVE Spec => []NoStrayResult
<1>1. ConversationInv /\ ReplayInv /\ PlacedInv => NoStrayResult
  <2>. SUFFICES ASSUME ConversationInv, ReplayInv, PlacedInv
                PROVE  NoStrayResult
    OBVIOUS
  <2>1. ctx.history \in Seq(Msg)
    BY DEF ConversationInv, CtxT
  <2>2. EachPlaced(project(ctx.history, TRUE))
    BY <2>1, MsgNamed, LiveTidy, ProjectPlaces
  <2>. QED  BY <2>2 DEF EachPlaced, NoStrayResult
<1>. QED  BY <1>1, ConversationTyped, ReplayInvariant, PlacedInvariant, PTL
=============================================================================
