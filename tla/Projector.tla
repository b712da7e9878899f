----------------------------- MODULE Projector ------------------------------
(***************************************************************************)
(* From the history to the messages of a request (context/projector.ts).   *)
(* Merging neighbouring user messages is left out: it moves no call and no *)
(* result.  A message of thinking alone counts as empty here, which does   *)
(* not move any either.                                                    *)
(***************************************************************************)
EXTENDS ContextMemory, FiniteSetsExt

Synthetic(id) == [role |-> "tool", toolCallId |-> id, synthetic |-> TRUE]

usable(m) == ~ (m.role = "assistant" /\ ~ m.sendable /\ m.toolCalls = <<>>)

hasCalls(m) == m.role = "assistant" /\ m.toolCalls # <<>>

lastNonToolIndex(messages) ==
    Max({0} \cup {i \in DOMAIN messages : messages[i].role # "tool"})

\* Mutant: only the results right behind the message are taken.
claimedAdjacent(messages, i, consumed) ==
    {j \in i + 1 .. Len(messages) :
        /\ \A k \in i + 1 .. j : messages[k].role = "tool"
        /\ Contains(messages[i].toolCalls, messages[j].toolCallId)}

\* Mutant: a result an earlier message has taken is taken again.
claimedTwice(messages, i, consumed) ==
    {j \in i + 1 .. Len(messages) :
        messages[j].role = "tool" /\ Contains(messages[i].toolCalls, messages[j].toolCallId)}

\* The results repair() moves behind message i: for each of its calls the
\* first one later on that no earlier message has taken.
claimed(messages, i, consumed) ==
    LET candidates == {j \in i + 1 .. Len(messages) :
            j \notin consumed /\ messages[j].role = "tool"
                /\ Contains(messages[i].toolCalls, messages[j].toolCallId)}
    IN  {j \in candidates : \A k \in candidates :
            k < j => messages[k].toolCallId # messages[j].toolCallId}

\* Mutant: only a message none of whose calls is answered is completed.
missingAll(messages, i, taken) == IF taken = {} THEN messages[i].toolCalls ELSE <<>>

\* The elements of s, each in its first place: a Set made of s.
OnceEach(s) ==
    LET places == Select([k \in DOMAIN s |-> k],
                         {k \in DOMAIN s : \A l \in 1 .. k - 1 : s[l] # s[k]})
    IN  [k \in DOMAIN places |-> s[places[k]]]

\* The calls of message i that are left pending.
missing(messages, i, taken) ==
    Select(OnceEach(messages[i].toolCalls),
           Range(messages[i].toolCalls) \ {messages[j].toolCallId : j \in taken})

\* Message i with what follows it: the results taken for its calls, in the order of
\* the history, and synthetic ones for calls without.
exchange(messages, i, taken, close) ==
    LET results == Select([k \in DOMAIN messages |-> k], taken)
        absent  == IF close THEN missing(messages, i, taken) ELSE <<>>
    IN  <<messages[i]>> \o [k \in DOMAIN results |-> messages[results[k]]]
                        \o [k \in DOMAIN absent |-> Synthetic(absent[k])]

\* One round of the loop.  A call without a result may still be in flight if nothing
\* but results follows it: then it is closed only if the caller asks for that.
visit(messages, synthesizeMissing, acc, i) ==
    LET taken == claimed(messages, i, acc.consumed)
        close == synthesizeMissing \/ i < lastNonToolIndex(messages)
    IN  IF i \in acc.consumed THEN acc
        ELSE IF ~ hasCalls(messages[i])
        THEN [acc EXCEPT !.out = Append(@, messages[i])]
        ELSE [out |-> acc.out \o exchange(messages, i, taken, close),
              consumed |-> acc.consumed \cup taken]

\* Results move next to their calls, and calls without one are closed.
repairToolExchangeAdjacency(messages, synthesizeMissing) ==
    LET visited[i \in 0 .. Len(messages)] ==
            IF i = 0 THEN [out |-> <<>>, consumed |-> {}]
            ELSE visit(messages, synthesizeMissing, visited[i - 1], i)
    IN  visited[Len(messages)].out

project(history, synthesizeMissing) ==
    repairToolExchangeAdjacency(Select(history, {m \in Range(history) : usable(m)}),
                                synthesizeMissing)

-----------------------------------------------------------------------------
(* What a provider accepts.                                                *)

\* The results right after message i.
Followers(messages, i) ==
    {j \in i + 1 .. Len(messages) : \A k \in i + 1 .. j : messages[k].role = "tool"}

\* "must be followed by tool messages responding to each tool_call_id"
CallAnswered(messages, i) ==
    \A id \in Range(messages[i].toolCalls) :
        \E j \in Followers(messages, i) : messages[j].toolCallId = id

\* A result stands behind the call it answers, and is the only one to.
ResultPlaced(messages, j) ==
    \E i \in Calls(messages) :
        /\ j \in Followers(messages, i)
        /\ Answers(messages, i, j)
        /\ \A k \in Followers(messages, i) \ {j} :
              messages[k].toolCallId # messages[j].toolCallId
=============================================================================
