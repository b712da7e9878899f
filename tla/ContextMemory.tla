--------------------------- MODULE ContextMemory ----------------------------
(***************************************************************************)
(* The conversation an agent sends to the model (agent/context/index.ts):  *)
(* its operations, as functions of the memory's state.                     *)
(*                                                                         *)
(* The history keeps three kinds of message: what a prompt or a steer      *)
(* said, the assistant message a step opens, and the result of a tool      *)
(* call.  Reminders and hook output pass through appendMessage like inputs *)
(* and are left out throughout, as are token counts, message ids and       *)
(* projection edits.  Of an assistant message's content only this matters: *)
(* whether any of it can be sent (a part that is not thinking).            *)
(*                                                                         *)
(* openSteps maps the uuid of a step to the message object it opened; here *)
(* a message carries the uuid of its step, and openSteps is the set of the *)
(* uuids that are mapped.                                                  *)
(***************************************************************************)
EXTENDS Integers, SequencesExt, Functions, FiniteSetsExt

\* The elements of s that are in T, in order.
Select(s, T) == FlattenSeq([i \in DOMAIN s |-> IF s[i] \in T THEN <<s[i]>> ELSE <<>>])

Input(n)   == [role |-> "user", input |-> n]
Opened(s)  == [role |-> "assistant", step |-> s, sendable |-> FALSE, toolCalls |-> <<>>]
Result(id) == [role |-> "tool", toolCallId |-> id]

EmptyContext ==
    [history |-> <<>>, openSteps |-> {}, pendingToolResultIds |-> {},
     deferredMessages |-> <<>>]

hasOpenToolExchange(c) == c.pendingToolResultIds # {}

flushDeferredMessagesIfToolExchangeClosed(c) ==
    IF hasOpenToolExchange(c) THEN c
    ELSE [c EXCEPT !.history = @ \o c.deferredMessages, !.deferredMessages = <<>>]

\* Mutant: nothing is deferred.
appendMessageAtOnce(c, messages) == [c EXCEPT !.history = @ \o messages]

\* While a tool call waits for its result a message waits too, so that it does
\* not come between the call and the result.
appendMessage(c, messages) ==
    IF hasOpenToolExchange(c)
    THEN [c EXCEPT !.deferredMessages = @ \o messages]
    ELSE [c EXCEPT !.history = @ \o messages]

\* The events of a step, as appendLoopEvent takes them.
stepBegin(c, s) ==
    [c EXCEPT !.history = Append(@, Opened(s)), !.openSteps = @ \cup {s}]

stepEnd(c) == flushDeferredMessagesIfToolExchangeClosed(c)

\* The message of an open step changes in place; an event of a step that is
\* not open is dropped.
InStep(c, s, change(_)) ==
    [c EXCEPT !.history = [i \in DOMAIN c.history |->
        IF c.history[i].role = "assistant" /\ c.history[i].step = s
        THEN change(c.history[i]) ELSE c.history[i]]]

contentPart(c, s) ==
    IF s \notin c.openSteps THEN c
    ELSE InStep(c, s, LAMBDA m : [m EXCEPT !.sendable = TRUE])

toolCall(c, s, id) ==
    IF s \notin c.openSteps THEN c
    ELSE [InStep(c, s, LAMBDA m : [m EXCEPT !.toolCalls = Append(@, id)])
             EXCEPT !.pendingToolResultIds = @ \cup {id}]

\* Mutant: an answered call stays pending.
toolResultsStayPending(c, ids) ==
    flushDeferredMessagesIfToolExchangeClosed(
        [c EXCEPT !.history = @ \o [i \in DOMAIN ids |-> Result(ids[i])]])

\* Results for the calls ids, in that order.  What was deferred follows once
\* no call is left waiting.
toolResults(c, ids) ==
    flushDeferredMessagesIfToolExchangeClosed(
        [c EXCEPT !.history = @ \o [i \in DOMAIN ids |-> Result(ids[i])],
                  !.pendingToolResultIds = @ \ Range(ids)])

toolResult(c, id) == toolResults(c, <<id>>)

\* Mutants: the exchange is left open; it is closed without its messages.
leaveAbandonedToolExchange(c, ids) == c

forgetDeferredMessages(c, ids) ==
    IF ids = <<>> THEN c ELSE [toolResults(c, ids) EXCEPT !.deferredMessages = <<>>,
        !.history = SubSeq(@, 1, Len(c.history) + Len(ids))]

\* The error results the end of a turn supplies for the calls in ids.
closeAbandonedToolExchange(c, ids) ==
    IF ids = <<>> THEN c ELSE toolResults(c, ids)

\* Mutant: a message without text is dropped although it calls tools.
isTextless(c, m) == m.role = "assistant" /\ m.step \in c.openSteps /\ ~ m.sendable

isVacuous(c, m) ==
    /\ m.role = "assistant"
    /\ m.step \in c.openSteps
    /\ ~ m.sendable
    /\ m.toolCalls = <<>>

\* Open messages a provider would refuse leave the history and the open steps.
dropVacuousOpenMessages(c) ==
    LET vacuous == {m \in Range(c.history) : isVacuous(c, m)}
    IN  [c EXCEPT !.history = Select(@, Range(@) \ vacuous),
                  !.openSteps = @ \ {m.step : m \in vacuous}]

-----------------------------------------------------------------------------
(* Cutting the history.                                                    *)

\* What the compaction named n puts in the place of messages: it covers their
\* inputs, those of the summary it takes in among them.
Covered(messages) ==
    FlattenSeq([i \in DOMAIN messages |->
        IF messages[i].role = "user" THEN <<messages[i].input>>
        ELSE IF "covers" \in DOMAIN messages[i] THEN messages[i].covers ELSE <<>>])

Summary(n, messages) ==
    [role |-> "assistant", step |-> 0 - n, sendable |-> TRUE, toolCalls |-> <<>>,
     covers |-> Covered(messages)]

isSummary(m) == "covers" \in DOMAIN m

\* Mutant: a compaction closes every step.
applyCompactionClosesSteps(c, summary, cut) ==
    flushDeferredMessagesIfToolExchangeClosed(
        [c EXCEPT !.history = <<summary>> \o SubSeq(@, cut + 1, Len(@)), !.openSteps = {}])

\* The first cut messages give way to their summary.  A step in flight stays open:
\* its message is in the tail.
applyCompaction(c, summary, cut) ==
    LET history == <<summary>> \o SubSeq(c.history, cut + 1, Len(c.history))
    IN  flushDeferredMessagesIfToolExchangeClosed(
            [c EXCEPT !.history = history,
                      !.openSteps = @ \cap {m.step : m \in
                          {h \in Range(history) : h.role = "assistant"}}])

clear(c) == EmptyContext

\* Messages leave from the end up to the last prompt, which leaves too; a summary
\* stays.  What is pending or deferred is not looked at.
undo(c) ==
    LET h    == c.history
        last == Max({0} \cup {i \in DOMAIN h : isSummary(h[i]) \/ h[i].role = "user"})
        keep == IF last = 0 THEN 0 ELSE IF isSummary(h[last]) THEN last ELSE last - 1
    IN  [c EXCEPT !.history = SubSeq(h, 1, keep)]

\* Messages are deferred only while a tool call waits for its result.
NothingStranded(c) == c.deferredMessages # <<>> => hasOpenToolExchange(c)

-----------------------------------------------------------------------------
(* Reading the history.                                                    *)

\* The inputs among messages, in order.
Inputs(messages) ==
    FlattenSeq([i \in DOMAIN messages |->
        IF messages[i].role = "user" THEN <<messages[i].input>> ELSE <<>>])

Calls(h)   == {i \in DOMAIN h : h[i].role = "assistant" /\ h[i].toolCalls # <<>>}
Results(h) == {i \in DOMAIN h : h[i].role = "tool"}
Answers(h, i, j) == j \in Results(h) /\ i \in Calls(h) /\ Contains(h[i].toolCalls, h[j].toolCallId)
=============================================================================
