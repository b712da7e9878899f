----------------------------- MODULE ToolBatch ------------------------------
(***************************************************************************)
(* One batch of tool calls (runToolCallBatch, loop/tool-call.ts) over the  *)
(* scheduler and the deduplicator of the turn (agent/turn/tool-dedup.ts).  *)
(*                                                                         *)
(* Calls are prepared one after the other: an interrupted batch settles    *)
(* what is left at once, and a result that stops the turn skips it.  What  *)
(* is prepared goes to the scheduler; then the results are finalised and   *)
(* recorded in provider order.  A call with the tool and the arguments of  *)
(* an earlier one of the step is its duplicate, and takes over its result. *)
(*                                                                         *)
(* A call is its number; its key stands for tool and arguments.  A settled *)
(* call is a task without accesses.  The ids of the calls of one answer    *)
(* differ.  The log may begin to refuse records (its error sticks).        *)
(* Nested calls, which record nothing and join no ledger, are left out.    *)
(***************************************************************************)
EXTENDS ToolScheduler

CONSTANTS Keys,
          Rejected,   \* keys preflight rejects: unknown tool, malformed arguments
          Stormy,     \* keys the storm breaker suppresses in this step
          Answers,    \* what a model may ask for: the keys of its calls
          Pending

ASSUME KeysAssumption == Rejected \subseteq Keys /\ Stormy \subseteq Keys
ASSUME AnswersAssumption == Answers \subseteq [Calls -> Keys]
ASSUME NoneDeclared == {} \in Declared

Outcomes == {"ok", "error", "aborted", "stop", "placeholder"}
Out(c, what) == [by |-> c, what |-> what]

ASSUME PendingAssumption == \A c \in Calls, what \in Outcomes : Pending # Out(c, what)

VARIABLES
    key,        \* of each call
    pc,         \* "prepare", "resolve" or "authorize" of call added + 1; "done"
    aborted,    \* the signal of the batch: the turn's, or a steer that interrupts
    broken,     \* the log refuses records
    stopped,    \* stopBatchAfterThis
    seen,       \* the ledger: "none", "original" or "duplicate"
    deferred,   \* stepDeferreds: what an original resolved, by key
    raw,        \* what a task comes to, by call
    executed,   \* calls whose tool began to run
    recorded,   \* calls with a tool.call event
    drained,    \* results taken in order so far
    results     \* tool.result events

batch == <<pc, aborted, broken, stopped, seen, deferred, raw, executed, recorded, drained,
           results>>
batchVars == <<vars, key, batch>>

BatchInit ==
    /\ Init
    /\ key \in Answers
    /\ pc = "prepare" /\ aborted = FALSE /\ broken = FALSE /\ stopped = FALSE
    /\ seen = [c \in Calls |-> "none"] /\ deferred = [k \in Keys |-> Pending]
    /\ raw = [c \in Calls |-> Pending]
    /\ executed = {} /\ recorded = {} /\ drained = 0 /\ results = <<>>

\* The user, or a steer that interrupts.
Abort ==
    /\ pc # "done" /\ ~aborted /\ aborted' = TRUE
    /\ UNCHANGED <<vars, key, pc, broken, stopped, seen, deferred, raw, executed, recorded,
                   drained, results>>

LogBreaks ==
    /\ pc # "done" /\ ~broken /\ broken' = TRUE
    /\ UNCHANGED <<vars, key, pc, aborted, stopped, seen, deferred, raw, executed, recorded,
                   drained, results>>

-----------------------------------------------------------------------------
(* Preparing *)

\* add() of the call that is being prepared.
Hand(A) ==
    /\ Add /\ accesses' = [accesses EXCEPT ![added + 1] = A]
    /\ pc' = "prepare"
    /\ UNCHANGED <<key, aborted, broken, deferred, drained, results>>

\* The call is settled without running: tool.call is recorded, and its task is resolved.
\* If the record fails an error takes its place.
SettleCall(what) ==
    LET c == added + 1
    IN  /\ IF broken
           THEN /\ raw' = [raw EXCEPT ![c] = Out(c, IF aborted THEN "aborted" ELSE "error")]
                /\ UNCHANGED <<recorded, stopped>>
           ELSE /\ raw' = [raw EXCEPT ![c] = Out(c, what)]
                /\ recorded' = recorded \cup {c}
                /\ stopped' = (stopped \/ what = "stop")
        /\ Hand({}) /\ UNCHANGED executed

\* Mutant: a call is taken for a duplicate only when its original has ended.
checkSameStepSettled(c) ==
    IF key[c] \in Stormy THEN "none"
    ELSE IF \E d \in 1 .. c - 1 :
              key[d] = key[c] /\ seen[d] = "original" /\ result[d] # "pending"
         THEN "duplicate"
         ELSE "original"

checkSameStep(c) ==
    IF key[c] \in Stormy THEN "none"
    ELSE IF \E d \in 1 .. c - 1 : key[d] = key[c] /\ seen[d] = "original" THEN "duplicate"
         ELSE "original"

\* The next call, up to the first await that takes its time: what is skipped, aborted,
\* rejected, suppressed, a duplicate, or a verification that need not run again.
Prepare ==
    /\ pc = "prepare" /\ added < N
    /\ LET c == added + 1
       IN  \/ /\ stopped \/ aborted
              /\ SettleCall(IF stopped THEN "error" ELSE "aborted") /\ UNCHANGED seen
           \/ /\ ~ stopped /\ ~ aborted
              /\ seen' = [seen EXCEPT ![c] = checkSameStep(c)]
              /\ \/ key[c] \in Rejected /\ SettleCall("error")
                 \/ /\ key[c] \notin Rejected
                    /\ \/ seen'[c] = "none" /\ SettleCall("ok")
                       \/ seen'[c] = "duplicate" /\ SettleCall("placeholder")
                       \/ seen'[c] = "original" /\ SettleCall("ok")
                       \/ /\ seen'[c] = "original" /\ pc' = "resolve"
                          /\ UNCHANGED <<vars, key, aborted, broken, stopped, deferred, raw,
                                         executed, recorded, drained, results>>

\* resolveExecution() throws, or returns an execution or an error.
Resolve ==
    /\ pc = "resolve" /\ UNCHANGED seen
    /\ \/ SettleCall("error")
       \/ aborted /\ SettleCall("aborted")
       \/ ~ aborted /\ SettleCall("stop")
       \/ /\ ~ aborted /\ pc' = "authorize"
          /\ UNCHANGED <<vars, key, aborted, broken, stopped, deferred, raw, executed,
                         recorded, drained, results>>

\* The permission hook blocks, answers itself, or lets the tool run: then the task declares
\* its accesses, and its tool begins at once unless the scheduler holds it back.
Authorize ==
    /\ pc = "authorize" /\ UNCHANGED seen
    /\ \/ aborted /\ SettleCall("aborted")
       \/ /\ ~ aborted /\ \E what \in {"ok", "error", "stop"} : SettleCall(what)
       \/ /\ ~ aborted /\ ~ broken
          /\ \E A \in Declared : Hand(A)
          /\ recorded' = recorded \cup {added'}
          /\ executed' = executed \cup (activeTasks' \ activeTasks)
          /\ UNCHANGED <<raw, stopped>>

-----------------------------------------------------------------------------
(* Running *)

\* The tool returns, fails, or is given up after the abort's grace period.  That it may
\* stop the turn concerns the turn, not this batch.
ToolEnds(c) ==
    /\ c \in executed /\ raw[c] = Pending
    /\ Settle(c) /\ result'[c] = "resolved"
    /\ \E what \in {"ok", "error"} \cup (IF aborted THEN {"aborted"} ELSE {}) :
         raw' = [raw EXCEPT ![c] = Out(c, what)]
    /\ UNCHANGED <<key, pc, aborted, broken, stopped, seen, deferred, executed, recorded,
                   drained, results>>

TaskResolves(c) ==
    /\ raw[c] # Pending
    /\ Settle(c) /\ result'[c] = "resolved"
    /\ UNCHANGED <<key, batch>>

\* Mutant: a tool that waited for another begins although the batch was interrupted.
beginsAnyway(started) == executed' = executed \cup started /\ UNCHANGED raw

\* runRunnableToolCall of the tasks that were held back.
begins(started) ==
    IF aborted
    THEN /\ raw' = [c \in Calls |-> IF c \in started THEN Out(c, "aborted") ELSE raw[c]]
         /\ UNCHANGED executed
    ELSE executed' = executed \cup started /\ UNCHANGED raw

TaskFinishes(c) ==
    /\ Finish(c)
    /\ begins(activeTasks' \ activeTasks)
    /\ UNCHANGED <<key, pc, aborted, broken, stopped, seen, deferred, recorded, drained,
                   results>>

-----------------------------------------------------------------------------
(* Recording the results *)

\* Mutant: only a success is shared with the duplicates.
resolvesSuccess(c) ==
    IF seen[c] = "original" /\ raw[c].what = "ok"
    THEN deferred' = [deferred EXCEPT ![key[c]] = raw[c]] ELSE UNCHANGED deferred

\* What finalizeResult() of an original does for its duplicates.
resolves(c) ==
    IF seen[c] = "original" THEN deferred' = [deferred EXCEPT ![key[c]] = raw[c]]
    ELSE UNCHANGED deferred

\* Mutant: results are recorded as their tools end.
FinalizeAsSettled(c) ==
    /\ pc = "prepare" /\ added = N
    /\ result[c] # "pending" /\ \A i \in 1 .. Len(results) : results[i].call # c
    /\ seen[c] = "duplicate" => deferred[key[c]] # Pending
    /\ resolves(c)
    /\ drained' = drained + 1
    /\ LET out == IF seen[c] = "duplicate" THEN deferred[key[c]] ELSE raw[c]
       IN  results' = IF broken THEN results ELSE Append(results, [call |-> c, out |-> out])
    /\ UNCHANGED <<vars, key, pc, aborted, broken, stopped, seen, raw, executed, recorded>>

\* finalizeResult(): a duplicate waits for its original.
Finalize(c) ==
    /\ pc = "prepare" /\ added = N
    /\ drained < N /\ c = drained + 1 /\ result[c] # "pending"
    /\ seen[c] = "duplicate" => deferred[key[c]] # Pending
    /\ resolves(c)
    /\ drained' = c
    /\ LET out == IF seen[c] = "duplicate" THEN deferred[key[c]] ELSE raw[c]
       IN  results' = IF broken THEN results ELSE Append(results, [call |-> c, out |-> out])
    /\ UNCHANGED <<vars, key, pc, aborted, broken, stopped, seen, raw, executed, recorded>>

Return ==
    /\ pc = "prepare" /\ drained = N /\ pc' = "done"
    /\ UNCHANGED <<vars, key, aborted, broken, stopped, seen, deferred, raw, executed,
                   recorded, drained, results>>

Returned == pc = "done" /\ UNCHANGED batchVars

BatchNext ==
    \/ Abort \/ LogBreaks
    \/ Prepare \/ Resolve \/ Authorize
    \/ \E c \in Calls :
         ToolEnds(c) \/ TaskResolves(c) \/ TaskFinishes(c) \/ Finalize(c)
    \/ Return \/ Returned

BatchSpec == BatchInit /\ [][BatchNext]_batchVars

\* Promises that are settled run on.  A tool may run and a permission prompt wait for ever,
\* but not behind an abort, which the prompt heeds and the grace period ends.
FairBatchSpec ==
    /\ BatchSpec
    /\ WF_batchVars(Prepare) /\ WF_batchVars(Resolve)
    /\ WF_batchVars(aborted /\ Authorize) /\ WF_batchVars(Return)
    /\ \A c \in Calls :
         /\ WF_batchVars(aborted /\ ToolEnds(c)) /\ WF_batchVars(TaskResolves(c))
         /\ WF_batchVars(TaskFinishes(c)) /\ WF_batchVars(Finalize(c))

-----------------------------------------------------------------------------
(* Properties *)

\* Results are recorded in provider order, each once and behind its call, whatever order
\* the tools end in; a batch that returns has recorded one for every call, those it
\* skipped, refused and aborted included, unless the log broke.
ResultsPaired ==
    /\ Len(results) <= drained
    /\ \A i \in 1 .. Len(results) : results[i].call = i /\ i \in recorded
    /\ pc = "done" /\ ~ broken => Len(results) = N /\ recorded = Calls

\* Of the calls of a step with one tool and one set of arguments at most one runs, and no
\* placeholder is ever recorded: a duplicate is recorded with what its original came to.
SameCallOnce ==
    /\ \A c, d \in executed : key[c] = key[d] => c = d
    /\ \A i \in 1 .. Len(results) :
         LET out == results[i].out
         IN  /\ out.what # "placeholder"
             /\ out.by # i => out.by < i /\ key[out.by] = key[i] /\ out = raw[out.by]

\* No tool begins to run once its batch is interrupted, though it waited in the queue when
\* that happened, nor behind a call whose settled result stops the turn; one before that
\* call which waits does still run.
NothingBehindAStop ==
    [][\A c \in executed' \ executed :
         /\ ~ aborted
         /\ \A d \in 1 .. c - 1 :
              d \in executed \/ raw[d] = Pending \/ raw[d].what # "stop"]_batchVars

\* An interrupted batch ends, whatever its tools and prompts do: no duplicate waits for an
\* original that is never finalised, no task for one that never finishes.
BatchEnds == aborted ~> pc = "done"
=============================================================================
