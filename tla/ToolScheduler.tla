--------------------------- MODULE ToolScheduler ----------------------------
(***************************************************************************)
(* The scheduler of the tool calls of one model step                       *)
(* (loop/tool-scheduler.ts).  The batch adds call 1, then call 2, ... as   *)
(* it finishes preparing each; a call starts at once unless its accesses   *)
(* conflict with a call that runs or waits, and a call that finishes       *)
(* starts those that wait for nothing any more.                            *)
(*                                                                         *)
(* Calls are numbered in provider order.  queuedTasks is a set: entries    *)
(* are appended in provider order and the rebuild in startQueuedTasks      *)
(* keeps their order, so the array is the set sorted by call number.       *)
(*                                                                         *)
(* A task's start() is an async function (tool-call.ts), so it never       *)
(* throws to the scheduler, and a task finishes in a later tick only.      *)
(***************************************************************************)
EXTENDS ToolAccess

CONSTANTS N,            \* tool calls in the step
          Declared,     \* sets of accesses a call may declare
          Node          \* nodes of the file system, by canonical path

ASSUME NAssumption == N \in Nat
ASSUME DeclaredAssumption == \A A \in Declared : \A a \in A : IsAccess(a)
ASSUME NodeAssumption == \A n \in Node : n \in Seq(Segment)

Calls == 1 .. N

VARIABLES
    added,         \* calls handed to add() so far
    accesses,      \* [Calls -> Declared], of the calls added
    activeTasks,   \* calls started and not yet finished
    queuedTasks,   \* calls waiting
    result         \* [Calls -> {"pending", "resolved", "rejected"}]

vars == <<added, accesses, activeTasks, queuedTasks, result>>

Init ==
    /\ added = 0
    /\ accesses = [t \in Calls |-> {}]
    /\ activeTasks = {}
    /\ queuedTasks = {}
    /\ result = [t \in Calls |-> "pending"]

conflictsWithAny(A, candidates) ==
    \E c \in candidates : conflict(A, accesses[c])

\* Mutant: a call overtakes those that wait.
isBlockedByActive(A, active, queuedBefore) == conflictsWithAny(A, active)

isBlocked(A, active, queuedBefore) ==
    conflictsWithAny(A, active) \/ conflictsWithAny(A, queuedBefore)

Add ==
    /\ added < N
    /\ LET t == added + 1
       IN  \E A \in Declared :
             /\ added' = t
             /\ accesses' = [accesses EXCEPT ![t] = A]
             /\ IF isBlocked(A, activeTasks, queuedTasks)
                THEN queuedTasks' = queuedTasks \cup {t} /\ UNCHANGED activeTasks
                ELSE activeTasks' = activeTasks \cup {t} /\ UNCHANGED queuedTasks
    /\ UNCHANGED result

\* The tool's promise settles; the call counts as active until finish() runs.
Settle(t) ==
    /\ t \in activeTasks
    /\ result[t] = "pending"
    /\ \E outcome \in {"resolved", "rejected"} :
         result' = [result EXCEPT ![t] = outcome]
    /\ UNCHANGED <<added, accesses, activeTasks, queuedTasks>>

\* Mutant: a waiting call is compared with the whole old queue, itself included.
startUnlessQueued(active) ==
    {t \in queuedTasks : ~ isBlocked(accesses[t], active, queuedTasks)}

\* One pass in order starts a call unless it conflicts with a call that still
\* runs or with one before it: that one has either just started, or waits on.
startQueuedTasks(active) ==
    {t \in queuedTasks :
        ~ isBlocked(accesses[t], active, {q \in queuedTasks : q < t})}

\* Mutant: nothing is started when a call finishes.
FinishQuietly(t) ==
    /\ t \in activeTasks
    /\ result[t] # "pending"
    /\ activeTasks' = activeTasks \ {t}
    /\ UNCHANGED <<added, accesses, queuedTasks, result>>

Finish(t) ==
    /\ t \in activeTasks
    /\ result[t] # "pending"
    /\ LET running == activeTasks \ {t}
           started == startQueuedTasks(running)
       IN  /\ activeTasks' = running \cup started
           /\ queuedTasks' = queuedTasks \ started
    /\ UNCHANGED <<added, accesses, result>>

\* The batch is drained.
Drained ==
    /\ added = N
    /\ activeTasks = {}
    /\ queuedTasks = {}
    /\ UNCHANGED vars

Next ==
    \/ Add
    \/ \E t \in Calls : Settle(t) \/ Finish(t)
    \/ Drained

Spec == Init /\ [][Next]_vars

-----------------------------------------------------------------------------

Waiting(t) == t \in queuedTasks
Started(t) == t \in 1 .. added /\ ~ Waiting(t)
Finished(t) == Started(t) /\ t \notin activeTasks

\* The scheduler holds no call that was not added.
TypeOK ==
    /\ added \in 0 .. N
    /\ accesses \in [Calls -> Declared \cup {{}}]
    /\ activeTasks \subseteq 1 .. added
    /\ queuedTasks \subseteq 1 .. added
    /\ result \in [Calls -> {"pending", "resolved", "rejected"}]

\* Two calls never run at the same time over a node one of them changes:
\* what the conflict test in add() and startQueuedTasks() is there for.
NoRace ==
    \A s, t \in activeTasks :
        s # t => \A a \in accesses[s], b \in accesses[t], n \in Node :
                    ~ RaceOn(a, b, n)

\* However two calls spell their paths, they do not run together over a node on
\* disk unless both only read it: what normalizePath in tool-access.ts is for.
NoRaceOnDisk ==
    \A s, t \in activeTasks :
        s # t => \A a \in accesses[s], b \in accesses[t], n \in Node :
                    OnDisk(a, n) /\ OnDisk(b, n) => ReadsOnly(a) /\ ReadsOnly(b)

\* Of two calls whose accesses conflict the later one starts only after the
\* earlier one has finished, so both see the files in the order the model
\* asked for ("tasks with conflicting resource accesses wait").
ProviderOrder ==
    \A s, t \in 1 .. added :
        (s < t /\ conflict(accesses[s], accesses[t]) /\ Started(t)) => Finished(s)

\* No wake-up is lost: whatever waits, waits for a call that still runs or
\* waits before it, so some finish() will look at it again.
WaitsForSomeone ==
    \A t \in queuedTasks :
        \E s \in activeTasks \cup queuedTasks :
            s < t /\ conflict(accesses[t], accesses[s])

\* startQueuedTasks states what the loop of the code computes: in order, a call
\* that conflicts with one that runs by now, or stays queued, stays queued.
LoopPass(active) ==
    LET pass[t \in 0 .. added] ==
            IF t = 0 THEN [started |-> {}, stillQueued |-> {}]
            ELSE LET acc == pass[t - 1]
                 IN  IF t \notin queuedTasks THEN acc
                     ELSE IF isBlocked(accesses[t], active \cup acc.started, acc.stillQueued)
                     THEN [acc EXCEPT !.stillQueued = @ \cup {t}]
                     ELSE [acc EXCEPT !.started = @ \cup {t}]
    IN  pass[added]

LoopAgrees ==
    \A t \in activeTasks :
        startQueuedTasks(activeTasks \ {t}) = LoopPass(activeTasks \ {t}).started

\* A waiting call never turns a running one out, and a finished call never
\* runs again: finish() and startQueuedTasks() move calls one way only.
RunsOnce ==
    [][\A t \in Calls :
         /\ Finished(t) => Finished(t)'
         /\ (t \in activeTasks /\ t \notin activeTasks') => result[t] # "pending"]_vars
=============================================================================
