----------------------------- MODULE Background -----------------------------
(***************************************************************************)
(* Background tasks: BackgroundProcessManager (tools/background/manager.ts)*)
(* and the notifications of BackgroundManager (agent/background/index.ts), *)
(* over the closing and reopening of their session and crashes.            *)
(*                                                                         *)
(* A task is a process (bash) or a coroutine (agent).  It ends on its own, *)
(* is stopped, or is found lost when its session is opened again; its      *)
(* owner is told once.  An opening of the session has managers of its own: *)
(* gen counts openings, owner is the opening that registered a task.  The  *)
(* managers of an earlier opening live on in the same program: bash tasks  *)
(* may outlast the close of a session (keepAlive), not a crash.            *)
(*                                                                         *)
(* The turn and the conversation are TurnFlow's, seen from here: a turn is *)
(* active or not, a tool exchange open or not, and a message that comes    *)
(* inside one is deferred.  What is logged is durable at once.             *)
(***************************************************************************)
EXTENDS Integers, Sequences, FiniteSets, SequencesExt

CONSTANTS Tasks,
          KeepAlive,    \* the settings of keepAliveOnExit to consider
          MaxRunning,   \* maxRunningTasks
          MaxGen        \* bound: openings of the session

ASSUME TasksAssumption == IsFiniteSet(Tasks)
ASSUME SettingsAssumption == KeepAlive \subseteq BOOLEAN
ASSUME BoundsAssumption == MaxRunning \in Nat /\ MaxGen \in Nat

Terminal == {"completed", "failed", "killed", "lost"}
Statuses == {"none", "running"} \cup Terminal

VARIABLES
  keepAlive,  \* the setting, which does not change
  session,    \* "open", "closing", "closed", "loading"
  gen,
  outlived,   \* the session was opened while an earlier manager had a task or a write left
  agents,     \* the tasks registered with registerAgentTask
  owner, status, exitKnown, fired, stopRequested,  \* ManagedProcess
  proc,       \* the process itself: "none", "runs", "exited"
  fin,        \* finalizeTerminal: "no", "persist", "drain", "retired"
  again,      \* settleProcessExit persists a second time
  stopping,   \* stop(): "no", "term", "grace", "kill", "await", "fin"
  toStop,     \* the tasks close() waits for
  queue,      \* persistWriteQueue
  disk,       \* the task's file
  unwritten,  \* history: the outcome a write of which failed, or "none"
  reserved,   \* reservedTaskSlots
  ghosts,     \* loaded tasks a reconcile has still to look at: their status, or "none"
  notifying,  \* notifyBackgroundTask waits for the output
  scheduled, delivered,        \* notification keys: a task and its status
  turn, exchange,              \* a turn is active; a tool exchange is open
  steerBuffer, deferred, wire  \* notifications; wire counts the records of each

settled == <<keepAlive, outlived, agents, gen, owner>>
taskVars == <<keepAlive, outlived, agents, owner, status, exitKnown, fired,
              stopRequested, proc, fin, again>>
noteVars == <<scheduled, delivered, steerBuffer, deferred, wire>>
turnVars == <<turn, exchange>>
files == <<disk, unwritten>>
vars == <<session, gen, taskVars, stopping, toStop, queue, files, reserved,
          ghosts, notifying, turnVars, noteVars>>

Keys == Tasks \X Terminal

Init ==
  /\ keepAlive \in KeepAlive /\ outlived = FALSE /\ session = "open" /\ gen = 1
  /\ agents = {}
  /\ owner = [t \in Tasks |-> 0] /\ status = [t \in Tasks |-> "none"]
  /\ exitKnown = [t \in Tasks |-> FALSE] /\ fired = [t \in Tasks |-> FALSE]
  /\ stopRequested = [t \in Tasks |-> FALSE] /\ proc = [t \in Tasks |-> "none"]
  /\ fin = [t \in Tasks |-> "no"] /\ again = [t \in Tasks |-> FALSE]
  /\ stopping = [t \in Tasks |-> "no"] /\ toStop = {}
  /\ queue = [t \in Tasks |-> <<>>] /\ disk = [t \in Tasks |-> "none"]
  /\ unwritten = [t \in Tasks |-> "none"]
  /\ reserved = 0 /\ ghosts = [t \in Tasks |-> "none"]
  /\ notifying = [t \in Tasks |-> FALSE]
  /\ turn = FALSE /\ exchange = FALSE
  /\ scheduled = {} /\ delivered = {} /\ steerBuffer = {} /\ deferred = {}
  /\ wire = [k \in Keys |-> 0]

\* activeTaskCount of the managers of this opening.
Active == {t \in Tasks : owner[t] = gen /\ status[t] = "running"}

\* Mutant: reservations do not count.
assertIgnoringReserved == Cardinality(Active) < MaxRunning

assertCanRegister == Cardinality(Active) + reserved < MaxRunning

-----------------------------------------------------------------------------
(* The conversation *)

\* appendUserMessage: logged, and held back while a tool exchange is open.
AppendNotes(keys, open) ==
  /\ wire' = [k \in Keys |-> IF k \in keys THEN wire[k] + 1 ELSE wire[k]]
  /\ IF open THEN deferred' = deferred \cup keys /\ UNCHANGED delivered
     ELSE delivered' = delivered \cup keys /\ UNCHANGED deferred

\* steer(): joins the active turn, or launches one that appends it with what the buffer
\* still holds.
Steer(key) ==
  IF turn
  THEN /\ steerBuffer' = steerBuffer \cup {key}
       /\ UNCHANGED <<turn, wire, deferred, delivered>>
  ELSE /\ AppendNotes(steerBuffer \cup {key}, exchange)
       /\ turn' = TRUE /\ steerBuffer' = {}

others == <<session, gen, taskVars, stopping, toStop, queue, files, reserved, ghosts,
            notifying, scheduled>>

UserPrompt ==
  /\ session = "open" /\ ~turn
  /\ AppendNotes(steerBuffer, exchange) /\ turn' = TRUE /\ steerBuffer' = {}
  /\ UNCHANGED <<exchange, others>>

ToolExchangeOpens ==
  /\ session = "open" /\ turn /\ ~exchange
  /\ exchange' = TRUE
  /\ UNCHANGED <<turn, steerBuffer, deferred, wire, delivered, others>>

\* The last result arrives: what was held back joins the history; the step ends and the
\* buffer is flushed.
ToolExchangeCloses ==
  /\ session = "open" /\ turn /\ exchange
  /\ exchange' = FALSE
  /\ wire' = [k \in Keys |-> IF k \in steerBuffer THEN wire[k] + 1 ELSE wire[k]]
  /\ delivered' = delivered \cup deferred \cup steerBuffer
  /\ deferred' = {} /\ steerBuffer' = {}
  /\ UNCHANGED <<turn, others>>

\* A turn that ends closes what it abandons.  A cancelled one leaves the buffer behind.
TurnEnds ==
  /\ session = "open" /\ turn
  /\ turn' = FALSE /\ exchange' = FALSE
  /\ delivered' = delivered \cup deferred /\ deferred' = {}
  /\ UNCHANGED <<steerBuffer, wire, others>>

-----------------------------------------------------------------------------
(* Registering *)

Reserve ==
  /\ session = "open" /\ assertCanRegister
  /\ reserved' = reserved + 1
  /\ UNCHANGED <<session, gen, taskVars, stopping, toStop, queue, files, ghosts, notifying,
                 turnVars, noteVars>>

Release ==
  /\ reserved > 0 /\ reserved' = reserved - 1
  /\ UNCHANGED <<session, gen, taskVars, stopping, toStop, queue, files, ghosts, notifying,
                 turnVars, noteVars>>

\* A reservation is given back and taken by the task in the same step.
Register(t) ==
  /\ session = "open" /\ status[t] = "none" /\ disk[t] = "none" /\ unwritten[t] = "none"
  /\ \/ reserved > 0 /\ reserved' = reserved - 1
     \/ assertCanRegister /\ UNCHANGED reserved
  /\ owner' = [owner EXCEPT ![t] = gen]
  /\ agents' \in {agents, agents \cup {t}}
  /\ status' = [status EXCEPT ![t] = "running"]
  /\ proc' = [proc EXCEPT ![t] = "runs"]
  /\ queue' = [queue EXCEPT ![t] = Append(@, "running")]
  /\ UNCHANGED <<keepAlive, outlived, session, gen, exitKnown, fired, stopRequested, fin,
                 again, stopping, toStop, files, ghosts, notifying, turnVars, noteVars>>

-----------------------------------------------------------------------------
(* Ending *)

\* finalizeTerminal up to its first await.
Finalize(t, s) ==
  /\ status' = [status EXCEPT ![t] = s]
  /\ stopRequested' = [stopRequested EXCEPT ![t] = FALSE]
  /\ queue' = [queue EXCEPT ![t] = Append(@, s)]
  /\ fin' = [fin EXCEPT ![t] = "persist"]

\* writeTask is atomic; that it failed nobody hears (persistLive).
PersistWrites(t) ==
  /\ queue[t] # <<>> /\ queue' = [queue EXCEPT ![t] = Tail(@)]
  /\ \/ disk' = [disk EXCEPT ![t] = Head(queue[t])] /\ UNCHANGED unwritten
     \/ /\ unwritten' = [unwritten EXCEPT ![t] =
                             IF Head(queue[t]) \in Terminal THEN Head(queue[t]) ELSE @]
        /\ UNCHANGED disk
  /\ UNCHANGED <<session, gen, taskVars, stopping, toStop, reserved, ghosts, notifying,
                 turnVars, noteVars>>

\* The process exits, or the completion of an agent task settles: nothing of the manager
\* runs yet.
ProcExits(t) ==
  /\ proc[t] = "runs" /\ proc' = [proc EXCEPT ![t] = "exited"]
  /\ UNCHANGED <<settled, session, status, exitKnown, fired, stopRequested, fin, again,
                 stopping, toStop, queue, files, reserved, ghosts, notifying, turnVars,
                 noteVars>>

\* settleProcessExit.  An exit that comes after a stop has finalised the task fills in the
\* exit code.
SettleExit(t) ==
  /\ t \notin agents /\ proc[t] = "exited" /\ ~exitKnown[t]
  /\ exitKnown' = [exitKnown EXCEPT ![t] = TRUE]
  /\ CASE status[t] = "running" ->
            /\ \E s \in IF stopRequested[t] THEN {"killed"} ELSE {"completed", "failed"} :
                 Finalize(t, s)
            /\ UNCHANGED again
       [] status[t] = "killed" ->
            /\ queue' = [queue EXCEPT ![t] = Append(@, "killed")]
            /\ again' = [again EXCEPT ![t] = TRUE]
            /\ UNCHANGED <<status, stopRequested, fin>>
       [] OTHER -> UNCHANGED <<status, stopRequested, fin, queue, again>>
  /\ UNCHANGED <<settled, session, fired, proc, stopping, toStop, files, reserved,
                 ghosts, notifying, turnVars, noteVars>>

Settled(t, outcomes) ==
  /\ t \in agents /\ ~exitKnown[t] /\ exitKnown' = [exitKnown EXCEPT ![t] = TRUE]
  /\ IF status[t] = "running" THEN \E s \in outcomes : Finalize(t, s)
     ELSE UNCHANGED <<status, stopRequested, fin, queue>>
  /\ UNCHANGED <<settled, session, fired, proc, again, stopping, toStop, files, reserved,
                 ghosts, notifying, turnVars, noteVars>>

\* The race of an agent task's completion with its deadline.  The completion may be an
\* abort, which whoever stops the task, or cancels the subagent's turn, brings about.
SettleAgent(t) == proc[t] = "exited" /\ Settled(t, {"completed", "failed", "killed"})
Deadline(t) == proc[t] = "runs" /\ Settled(t, {"failed"})

\* Whoever notifies: the session is closing, or a newer opening has managers of its own.
closed(t) == session # "open" \/ owner[t] # gen

key(t) == <<t, status[t]>>

\* Mutant: whoever stopped a task knows already.
fireUnlessKilled(t) ==
  /\ fired' = [fired EXCEPT ![t] = TRUE]
  /\ IF ~fired[t] /\ ~closed(t) /\ status[t] # "killed"
     THEN /\ scheduled' = scheduled \cup {key(t)}
          /\ notifying' = [notifying EXCEPT ![t] = TRUE]
     ELSE UNCHANGED <<scheduled, notifying>>

\* fireTerminalCallbacks, and notifyBackgroundTask up to its await.
fireTerminalCallbacks(t) ==
  /\ fired' = [fired EXCEPT ![t] = TRUE]
  /\ IF ~fired[t] /\ ~closed(t) /\ key(t) \notin scheduled \cup delivered
     THEN /\ scheduled' = scheduled \cup {key(t)}
          /\ notifying' = [notifying EXCEPT ![t] = TRUE]
     ELSE UNCHANGED <<scheduled, notifying>>

\* Mutant: the terminal record is written behind the notification.
persistedLater(t) == status[t] \in Terminal

\* The first write of t's terminal record is done; a second one may wait.
persisted(t) ==
  status[t] \in Terminal /\ Len(queue[t]) <= IF again[t] THEN 1 ELSE 0

Persisted(t) ==
  /\ \/ /\ fin[t] = "persist" /\ persisted(t)
        /\ fin' = [fin EXCEPT ![t] = "drain"] /\ UNCHANGED again
     \/ /\ again[t] /\ queue[t] = <<>>
        /\ again' = [again EXCEPT ![t] = FALSE] /\ UNCHANGED fin
  /\ fireTerminalCallbacks(t)
  /\ UNCHANGED <<settled, session, status, exitKnown, stopRequested, proc, stopping,
                 toStop, queue, files, reserved, ghosts, turnVars, delivered, steerBuffer,
                 deferred, wire>>

\* The output queue is drained: the entry leaves `processes` for the retired ring.
Retire(t) ==
  /\ fin[t] = "drain" /\ fin' = [fin EXCEPT ![t] = "retired"]
  /\ UNCHANGED <<settled, session, status, exitKnown, fired, stopRequested, proc, again,
                 stopping, toStop, queue, files, reserved, ghosts, notifying, turnVars,
                 noteVars>>

\* Mutant: the latch is checked before the await only.
steerAnyway(t) == Steer(key(t)) /\ UNCHANGED scheduled

\* The rest of notifyBackgroundTask, once the output is read.
notifyBuilt(t) ==
  IF key(t) \in delivered
  THEN UNCHANGED <<turn, noteVars>>
  ELSE IF closed(t)
  THEN /\ scheduled' = IF owner[t] = gen THEN scheduled \ {key(t)} ELSE scheduled
       /\ UNCHANGED <<turn, delivered, steerBuffer, deferred, wire>>
  ELSE Steer(key(t)) /\ UNCHANGED scheduled

NotifyBuilt(t) ==
  /\ notifying[t] /\ notifying' = [notifying EXCEPT ![t] = FALSE]
  /\ notifyBuilt(t)
  /\ UNCHANGED <<session, gen, taskVars, stopping, toStop, queue, files, reserved, ghosts,
                 exchange>>

-----------------------------------------------------------------------------
(* Stopping *)

stopOthers == <<settled, session, exitKnown, fired, proc, again, toStop, files, reserved,
                ghosts, notifying, turnVars, noteVars>>

\* stop() up to its first await.  A retired task has nothing to stop.
BeginStop(S) ==
  /\ stopRequested' =
       [t \in Tasks |-> stopRequested[t] \/ (t \in S /\ status[t] = "running")]
  /\ stopping' = [t \in Tasks |->
       IF t \in S /\ stopping[t] = "no"
       THEN IF status[t] = "running" THEN "term" ELSE "await"
       ELSE stopping[t]]

Stop(t) ==
  /\ session = "open" /\ owner[t] = gen /\ fin[t] # "retired" /\ stopping[t] = "no"
  /\ BeginStop({t})
  /\ UNCHANGED <<status, fin, queue, stopOthers>>

\* Mutant: without SIGKILL's effect the task is not finalised.
stopForcedIfGone(t) == stopping[t] \in {"grace", "kill"} /\ proc[t] = "exited"

\* The task is finalised here, its process gone or not.
stopForced(t) ==
  \/ stopping[t] = "kill"
  \/ stopping[t] = "grace" /\ proc[t] = "exited"

\* SIGTERM; then the grace ends, or the lifecycle settles before; then SIGKILL.
StopContinues(t) ==
  /\ \/ /\ stopping[t] = "term"
        /\ stopping' = [stopping EXCEPT ![t] = "grace"]
        /\ UNCHANGED <<status, stopRequested, fin, queue>>
     \/ /\ stopping[t] \in {"grace", "kill"} /\ status[t] \in Terminal
        /\ stopping' = [stopping EXCEPT ![t] = "await"]
        /\ UNCHANGED <<status, stopRequested, fin, queue>>
     \/ /\ stopping[t] = "grace" /\ status[t] = "running" /\ proc[t] = "runs"
        /\ stopping' = [stopping EXCEPT ![t] = "kill"]
        /\ UNCHANGED <<status, stopRequested, fin, queue>>
     \/ /\ status[t] = "running" /\ stopForced(t)
        /\ stopping' = [stopping EXCEPT ![t] = "fin"] /\ Finalize(t, "killed")
  /\ UNCHANGED stopOthers

\* Mutant: a stop that finds the task ended does not await the write.
stopDoneEarly(t) ==
  \/ stopping[t] = "await"
  \/ stopping[t] = "fin" /\ fin[t] = "retired"

\* What a stop awaits last: the write of the terminal record, or its own finalizeTerminal.
stopDone(t) ==
  \/ stopping[t] = "await" /\ persisted(t)
  \/ stopping[t] = "fin" /\ fin[t] = "retired"

StopReturns(t) ==
  /\ stopDone(t) /\ stopping' = [stopping EXCEPT ![t] = "no"]
  /\ UNCHANGED <<status, stopRequested, fin, queue, stopOthers>>

-----------------------------------------------------------------------------
(* The session *)

\* Session.close(): latch, cancel the turns, stop the tasks the policy does not spare.
Close ==
  /\ session = "open" /\ session' = "closing"
  /\ toStop' = IF keepAlive THEN Active \cap agents ELSE Active
  /\ BeginStop(toStop')
  /\ turn' = FALSE /\ exchange' = FALSE
  /\ delivered' = delivered \cup deferred /\ deferred' = {}
  /\ UNCHANGED <<settled, status, exitKnown, fired, proc, fin, again, queue, files,
                 reserved, ghosts, notifying, scheduled, steerBuffer, wire>>

Closed ==
  /\ session = "closing" /\ \A t \in toStop : stopping[t] = "no"
  /\ session' = "closed" /\ toStop' = {} /\ reserved' = 0
  /\ UNCHANGED <<gen, taskVars, stopping, queue, files, ghosts, notifying, turnVars,
                 noteVars>>

\* Mutant: the marks are not rebuilt.
noMarks == {}

\* What the replay marks as delivered: the notifications of the history it rebuilds.
replayedMarks == {k \in Keys : wire[k] > 0} \ deferred

\* The replay marks what the history holds as delivered; the managers start empty.
Open ==
  /\ session = "closed" /\ gen < MaxGen
  /\ session' = "loading" /\ gen' = gen + 1
  /\ ghosts' = disk
  /\ scheduled' = {} /\ steerBuffer' = {}
  /\ delivered' = replayedMarks
  /\ outlived' = (outlived \/ \E t \in Tasks : status[t] = "running" \/ queue[t] # <<>>)
  /\ UNCHANGED <<keepAlive, agents, owner, status, exitKnown, fired, stopRequested, proc,
                 fin, again, stopping, toStop, queue, files, reserved, notifying, turnVars,
                 deferred, wire>>

\* The program dies: its memory, its queues and its coroutines with it.
Crash ==
  /\ gen < MaxGen
  /\ session' = "closed"
  /\ status' = [t \in Tasks |-> "none"] /\ fin' = [t \in Tasks |-> "no"]
  /\ proc' = [t \in Tasks |-> "none"] /\ fired' = [t \in Tasks |-> FALSE]
  /\ exitKnown' = [t \in Tasks |-> FALSE] /\ again' = [t \in Tasks |-> FALSE]
  /\ stopRequested' = [t \in Tasks |-> FALSE]
  /\ owner' = [t \in Tasks |-> 0] /\ agents' = {}
  /\ stopping' = [t \in Tasks |-> "no"] /\ toStop' = {}
  /\ queue' = [t \in Tasks |-> <<>>] /\ notifying' = [t \in Tasks |-> FALSE]
  /\ reserved' = 0 /\ ghosts' = [t \in Tasks |-> "none"] /\ turn' = FALSE
  /\ scheduled' = {} /\ delivered' = {} /\ steerBuffer' = {}
  /\ UNCHANGED <<keepAlive, outlived, gen, files, exchange, deferred, wire>>

\* markLoadedTasksLost: a task that has no live process is lost.
MarkLost(t) ==
  /\ session = "loading" /\ ghosts[t] = "running"
  /\ ghosts' = [ghosts EXCEPT ![t] = "lost"]
  /\ disk' = [disk EXCEPT ![t] = "lost"]
  /\ UNCHANGED <<session, gen, taskVars, stopping, toStop, queue, unwritten, reserved,
                 notifying, turnVars, noteVars>>

\* Its write fails: the session is not opened.
MarkLostFails(t) ==
  /\ session = "loading" /\ ghosts[t] = "running"
  /\ session' = "closed" /\ ghosts' = [u \in Tasks |-> "none"]
  /\ UNCHANGED <<gen, taskVars, stopping, toStop, queue, files, reserved,
                 notifying, turnVars, noteVars>>

\* restoreBackgroundTaskNotifications, one task of the list.
RestoreNotification(t) ==
  /\ session = "loading" /\ ghosts[t] # "none" /\ \A u \in Tasks : ghosts[u] # "running"
  /\ ghosts' = [ghosts EXCEPT ![t] = "none"]
  /\ LET k == <<t, ghosts[t]>>
     IN  IF k \in scheduled \cup delivered
         THEN UNCHANGED <<scheduled, delivered, deferred, wire>>
         ELSE scheduled' = scheduled \cup {k} /\ AppendNotes({k}, exchange)
  /\ UNCHANGED <<session, gen, taskVars, stopping, toStop, queue, files, reserved,
                 notifying, turnVars, steerBuffer>>

Opened ==
  /\ session = "loading" /\ \A t \in Tasks : ghosts[t] = "none"
  /\ session' = "open"
  /\ UNCHANGED <<gen, taskVars, stopping, toStop, queue, files, reserved, ghosts, notifying,
                 turnVars, noteVars>>

TaskStep(t) ==
  \/ Register(t) \/ ProcExits(t) \/ SettleExit(t) \/ SettleAgent(t) \/ Deadline(t)
  \/ PersistWrites(t) \/ Persisted(t) \/ Retire(t) \/ NotifyBuilt(t)
  \/ Stop(t) \/ StopContinues(t) \/ StopReturns(t)
  \/ MarkLost(t) \/ MarkLostFails(t) \/ RestoreNotification(t)

Next ==
  \/ UserPrompt \/ ToolExchangeOpens \/ ToolExchangeCloses \/ TurnEnds
  \/ Reserve \/ Release
  \/ \E t \in Tasks : TaskStep(t)
  \/ Close \/ Closed \/ Open \/ Opened \/ Crash

Spec == Init /\ [][Next]_vars

\* Writes, reads, signals and timers complete, and an exit is noticed.  No task has to end,
\* no deadline to fire, and nobody has to stop, close or open anything.
FairSpec ==
  /\ Spec
  /\ \A t \in Tasks :
       /\ WF_vars(PersistWrites(t)) /\ WF_vars(SettleExit(t) \/ SettleAgent(t))
       /\ WF_vars(Persisted(t)) /\ WF_vars(NotifyBuilt(t))
       /\ WF_vars(Retire(t)) /\ WF_vars(StopContinues(t) \/ StopReturns(t))
  /\ WF_vars(Closed)

-----------------------------------------------------------------------------
(* Properties *)

\* Running tasks and reservations never exceed the limit, whichever way a task registers.
CapacityKept == Cardinality(Active) + reserved <= MaxRunning

\* A task is reported with one outcome, over crashes, failed writes and reopenings: the
\* outcome is on the disk before anyone hears of it.  Only where its write failed may a
\* second one follow, and that is "lost".  (As long as no manager of an earlier opening had
\* something left to do: a task it kept running is found lost by the next, and its real
\* end is written over that.)
OneOutcomeReported ==
  ~outlived =>
    \A k1, k2 \in Keys :
      k1[1] = k2[1] /\ k1 # k2 /\ wire[k1] > 0 /\ wire[k2] > 0
      => {k1[2], k2[2]} = {unwritten[k1[1]], "lost"}

\* A notification in the history of the conversation is not added again, by a second end
\* of its task or by a reconcile.  One that is held back by an open exchange may be.
DeliveredNeverAgain ==
  [][\A k \in Keys : wire'[k] > wire[k] => wire[k] = 0 \/ k \in deferred]_vars

\* When a stop() returns, the task has ended and its file says so, or the write of this very
\* end has been tried and failed.  (Of a manager whose session has not been opened again
\* since.)
StopMeansDisk ==
  [][\A t \in {u \in Tasks : owner[u] = gen} :
       stopping[t] # "no" /\ stopping'[t] = "no" /\ status'[t] # "none"
       => /\ status[t] \in Terminal
          /\ disk[t] = status[t] \/
               (unwritten[t] = status[t] /\ disk[t] \notin Terminal)]_vars

\* From the moment a session begins to close no notification starts a turn in it or waits
\* in its buffer, those whose output was being read included.
Shut == session \in {"closing", "closed"}
ClosedSilent ==
  [][Shut /\ session' # "loading" =>
       ~(turn' /\ ~turn) /\ (steerBuffer' \subseteq steerBuffer)]_vars

\* A session that begins to close gets closed: every stop() returns, though its process
\* may never end.
CloseEnds == session = "closing" ~> session # "closing"

\* The end of a task of this opening reaches its agent, unless the session closes.
EndReported ==
  \A t \in Tasks :
    (session = "open" /\ owner[t] = gen /\ status[t] \in Terminal)
      ~> (session # "open" \/
          \E k \in Keys : k[1] = t /\ (wire[k] > 0 \/ k \in steerBuffer))
=============================================================================
