--------------------------- MODULE MCConversation ---------------------------
(***************************************************************************)
(* Two kinds of conversation: a new one, which Compaction runs, and one of *)
(* an old session, which holds any sequence of at most MaxLength messages  *)
(* over the tool calls in Id and is only projected.  Most of those no run  *)
(* of the agent should leave behind; the projection is there to mend them. *)
(***************************************************************************)
EXTENDS Compaction

CONSTANTS Id, MaxLength

ASSUME ConversationAssumption == MaxLength \in Nat

Messages ==
    {Input(0)} \cup {Result(id) : id \in Id}
        \cup {[Opened(0) EXCEPT !.sendable = TRUE], Opened(0)}
        \cup {[Opened(0) EXCEPT !.toolCalls = <<id>>] : id \in Id}
        \cup {[Opened(0) EXCEPT !.toolCalls = <<p[1], p[2]>>] :
                 p \in {q \in Id \X Id : q[1] # q[2]}}

Restored ==
    /\ \E n \in 1 .. MaxLength : \E h \in [1 .. n -> Messages] :
         ctx = [EmptyContext EXCEPT !.history = h]
    /\ wire = ctx /\ aliased = {}
    /\ turn = Idle /\ compacting = 0 /\ work = [w \in Workers |-> Unborn]
    /\ timedOut = FALSE /\ failures = 0 /\ count = 0 /\ reactive = FALSE
    /\ inputs = MaxInputs /\ steps = MaxSteps /\ begun = MaxCompactions
    /\ edits = MaxEdits /\ crashes = MaxCrashes
    /\ kept = Covered(ctx.history) /\ doubled = FALSE /\ damaged = TRUE

MCInit == Init \/ Restored

MCSpec == MCInit /\ [][Next]_vars /\ Fairness

\* Whatever the history, each call of a request is answered at once: "this
\* prevents the provider error ... after an interruption" (projector.ts).
EveryCallAnswered ==
    AtRequest => \A i \in Calls(request) : CallAnswered(request, i)

\* If no result of the history is stray, the request holds no stray result
\* either, wherever the results were recorded (repairToolExchangeAdjacency).
NoStrayResult ==
    AtRequest /\ Sane => \A j \in Results(request) : ResultPlaced(request, j)

\* The projection loses and doubles nothing: calls and inputs keep their order,
\* and each result of the history is in the request exactly once.
Kept ==
    LET rest(s) == Select(s, {m \in Range(s) : m.role # "tool" /\ usable(m)})
        occurrences(s, id) == Cardinality({j \in Results(s) : s[j] = Result(id)})
    IN  AtRequest =>
            /\ rest(request) = rest(ctx.history)
            /\ \A id \in {ctx.history[j].toolCallId : j \in Results(ctx.history)} :
                 occurrences(request, id) = occurrences(ctx.history, id)
=============================================================================
