------------------------------ MODULE Subagent ------------------------------
(***************************************************************************)
(* A child agent and the messages its parent sends it while it runs        *)
(* (session/subagent-host.ts, session/subagent-messages.ts), and the call  *)
(* of the Agent tool that waits for it (tools/builtin/collaboration/       *)
(* agent.ts).                                                              *)
(*                                                                         *)
(* A run of the child is one turn, and a few more if its answer is short   *)
(* or messages wait.  A steer joins the turn that runs, by the turn's      *)
(* steer buffer; other messages wait in the mailbox for the next turn, in  *)
(* this run or in a later one, until their deadline.  A message that is    *)
(* sent again while its first copy is on its way is taken for a retry.     *)
(* The host's call waits for the run, or hands it to the background tasks  *)
(* when the child asks for something or time is up.                        *)
(*                                                                         *)
(* Messages are numbered as they are accepted.  All are given the same     *)
(* time, so they expire in that order.  Of the child's turn only what the  *)
(* buffer sees is left (TurnFlow has the rest).  Left out: the budget and  *)
(* the texts of the child's own requests, messages that are too long, a    *)
(* parent that is gone itself, children of the child, and turns the child  *)
(* begins by itself between those of its run.                              *)
(***************************************************************************)
EXTENDS Integers, FiniteSets

CONSTANTS
    Steers,       \* keys (operation and text) of steers and interjects
    Queued,       \* keys of plain messages
    Limit,        \* DEFAULT_IN_FLIGHT_LIMIT
    Expansions,   \* SUMMARY_CONTINUATION_ATTEMPTS
    Deliveries,   \* MAX_PARENT_MESSAGE_DELIVERY_TURNS
    MaxRuns,      \* bound: spawn and resumes
    MaxSent,      \* bound: messages accepted
    MaxNotices    \* bound: steers of others

ASSUME SubagentAssumption ==
    /\ Limit \in Nat \ {0} /\ Expansions \in Nat /\ Deliveries \in Nat
    /\ MaxRuns \in Nat /\ MaxSent \in Nat /\ MaxNotices \in Nat

Keys == Steers \cup Queued

VARIABLES
    pc,           \* none, preparing, turn, ending, ended, releasing
    call,         \* the Agent tool's call: none, waiting, leg, joined, task, adrift
    linked,       \* the parent's signal reaches the child
    background,   \* runInBackground
    aborted,      \* the child's signal
    stopped,      \* history: the task was stopped
    structured,   \* the run has to end in an answer of a given form
    expansions, deliveries,    \* turns left for either purpose
    ok,           \* the run has completed
    gated,        \* the turn ends by way of its stop gate
    mailbox, buffer,           \* messages
    length,       \* steerBuffer.length, the steers of others included
    ledger,       \* parentMessageSeen
    past,         \* messages up to this one are past their deadline
    heard,        \* history: messages that reached the child's context
    sent, runs, notices

turnState == <<structured, expansions, deliveries, ok, gated>>
callState == <<call, linked, background, stopped>>
mail == <<mailbox, buffer, length, ledger, heard, sent>>
vars == <<pc, callState, aborted, turnState, mail, past, runs, notices>>

None == [kind |-> "none", n |-> 0]
Nothing == [k \in Keys |-> None]

Init ==
    /\ pc = "none" /\ call = "none" /\ linked = FALSE /\ background = FALSE
    /\ aborted = FALSE /\ stopped = FALSE /\ structured = FALSE
    /\ expansions = 0 /\ deliveries = 0 /\ ok = FALSE /\ gated = FALSE
    /\ mailbox = {} /\ buffer = {} /\ length = 0 /\ ledger = Nothing
    /\ past = 0 /\ heard = {} /\ sent = 0 /\ runs = 0 /\ notices = 0

ids(ms) == {m.id : m \in ms}

\* What reclaimExpired() leaves.
live == {m \in mailbox : m.id > past}

\* turn.hasActiveTurn: an abort ends the turn for all but its worker.
hasActiveTurn == pc \in {"turn", "ending"} /\ ~ aborted

-----------------------------------------------------------------------------
(* Messages: sendMessage() *)

\* Mutant: a copy that was the last in the buffer is taken for read.
inFlightBehind(key) ==
    \/ ledger[key].kind = "mailbox" /\ ledger[key].n \in ids(live)
    \/ ledger[key].kind = "steer" /\ hasActiveTurn /\ length > ledger[key].n

\* parentMessageInFlight(): the mailbox holds the copy, or the buffer is as long as when
\* the copy joined it.
inFlight(key) ==
    \/ ledger[key].kind = "mailbox" /\ ledger[key].n \in ids(live)
    \/ ledger[key].kind = "steer" /\ hasActiveTurn /\ length >= ledger[key].n

\* A copy that joins when nothing will flush the buffer any more is late.
Message(key) == [id |-> sent + 1, key |-> key, run |-> runs, late |-> pc = "ending"]

joinsTurn(key) == key \in Steers /\ ~ structured /\ hasActiveTurn /\ length < Limit

\* A retry: nothing is sent.
Retry(key) ==
    /\ pc # "none" /\ inFlight(key)
    /\ mailbox' = IF ledger[key].kind = "mailbox" THEN live ELSE mailbox
    /\ UNCHANGED <<pc, callState, aborted, turnState, buffer, length, ledger, heard, sent, past,
                   runs, notices>>

Steer(key) ==
    /\ pc # "none" /\ ~ inFlight(key) /\ joinsTurn(key)
    /\ sent < MaxSent /\ sent' = sent + 1
    /\ buffer' = buffer \cup {Message(key)} /\ length' = length + 1
    /\ ledger' = [ledger EXCEPT ![key] = [kind |-> "steer", n |-> length']]
    /\ mailbox' = IF ledger[key].kind = "mailbox" THEN live ELSE mailbox
    /\ UNCHANGED <<pc, callState, aborted, turnState, heard, past, runs, notices>>

Post(key) ==
    /\ pc # "none" /\ ~ inFlight(key) /\ ~ joinsTurn(key)
    /\ IF Cardinality(live) < Limit
       THEN /\ sent < MaxSent /\ sent' = sent + 1
            /\ mailbox' = live \cup {Message(key)}
            /\ ledger' = [ledger EXCEPT ![key] = [kind |-> "mailbox", n |-> sent']]
       ELSE /\ mailbox' = live
            /\ ledger' = [ledger EXCEPT ![key] = None]
            /\ UNCHANGED sent
    /\ UNCHANGED <<pc, callState, aborted, turnState, buffer, length, heard, past, runs, notices>>

\* Five minutes after it was sent.
Expire ==
    /\ past < sent /\ past' = past + 1
    /\ UNCHANGED <<pc, callState, aborted, turnState, mail, runs, notices>>

-----------------------------------------------------------------------------
(* The run: spawn(), resume() and runChild() *)

\* In the foreground the call waits for the run, alone or in a race; in the background
\* the run is a task from the start.
Launch ==
    /\ pc = "none" /\ runs < MaxRuns
    /\ runs' = runs + 1 /\ pc' = "preparing"
    /\ call' \in {"waiting", "joined", "task"}
    /\ background' = (call' = "task") /\ linked' = ~ background'
    /\ aborted' = FALSE /\ stopped' = FALSE /\ ok' = FALSE /\ gated' = FALSE
    /\ structured' \in BOOLEAN
    /\ expansions' = IF structured' THEN 0 ELSE Expansions
    /\ deliveries' = IF structured' THEN 1 ELSE Deliveries
    /\ UNCHANGED <<mail, past, notices>>

\* The retries are forgotten, the mailbox is read into the prompt, and what the last turn
\* left in its buffer comes before it.
BeginTurn ==
    /\ pc' = "turn" /\ gated' = FALSE
    /\ heard' = heard \cup ids(live) \cup ids(buffer)
    /\ mailbox' = {} /\ buffer' = {} /\ length' = 0
    /\ ledger' = Nothing
    /\ UNCHANGED sent

\* The child is configured and the start hook has run.
Prepared ==
    /\ pc = "preparing"
    /\ IF aborted THEN pc' = "releasing" /\ UNCHANGED <<turnState, mail>>
       ELSE BeginTurn /\ UNCHANGED <<structured, expansions, deliveries, ok>>
    /\ UNCHANGED <<callState, aborted, past, runs, notices>>

flushSteerBuffer ==
    /\ heard' = heard \cup ids(buffer)
    /\ buffer' = {} /\ length' = 0
    /\ UNCHANGED <<mailbox, ledger, sent>>

\* A step begins.
StepBoundary ==
    /\ pc = "turn" /\ ~ aborted
    /\ flushSteerBuffer
    /\ UNCHANGED <<pc, callState, aborted, turnState, past, runs, notices>>

\* The stop gate: the turn goes on if anyone said something, and ends otherwise.
StopGate ==
    /\ pc = "turn" /\ ~ aborted
    /\ IF length > 0
       THEN flushSteerBuffer /\ UNCHANGED <<pc, gated>>
       ELSE pc' = "ending" /\ gated' = TRUE /\ UNCHANGED mail
    /\ UNCHANGED <<callState, aborted, structured, expansions, deliveries, ok, past, runs, notices>>

\* The turn ends with its wrap-up step or by a breaker, which ask no gate.
StopShort ==
    /\ pc = "turn" /\ ~ aborted /\ pc' = "ending"
    /\ UNCHANGED <<callState, aborted, turnState, mail, past, runs, notices>>

TurnEnds ==
    /\ pc = "ending" /\ ~ aborted /\ pc' = "ended"
    /\ UNCHANGED <<callState, aborted, turnState, mail, past, runs, notices>>

\* The turn fails, or the run hears of the abort, which is before the turn's worker does.
TurnFails ==
    /\ pc \in {"turn", "ending"} /\ pc' = "releasing"
    /\ UNCHANGED <<callState, aborted, turnState, mail, past, runs, notices>>

\* Something else steers the child: a task of its own that ended.
Notice ==
    /\ hasActiveTurn /\ notices < MaxNotices
    /\ notices' = notices + 1 /\ length' = length + 1
    /\ UNCHANGED <<pc, callState, aborted, turnState, mailbox, buffer, ledger, heard, sent, past,
                   runs>>

\* Another turn, for a longer answer or for messages that wait, or the end of the run,
\* which has failed if it should have gone on and was told to stop.
Continue ==
    /\ pc = "ended"
    /\ \E short \in BOOLEAN :
         LET expand == short /\ expansions > 0
             deliver == live # {} /\ deliveries > 0
         IN  IF ~ (expand \/ deliver) \/ aborted
             THEN /\ pc' = "releasing" /\ ok' = ~ (expand \/ deliver) /\ mailbox' = live
                  /\ UNCHANGED <<structured, expansions, deliveries, gated, buffer, length, ledger,
                                 heard, sent>>
             ELSE /\ BeginTurn
                  /\ expansions' = IF expand THEN expansions - 1 ELSE expansions
                  /\ deliveries' = IF deliver THEN deliveries - 1 ELSE deliveries
                  /\ UNCHANGED <<structured, ok>>
    /\ UNCHANGED <<callState, aborted, past, runs, notices>>

\* Mutant: the mailbox goes with the child.
EvictPurges ==
    /\ pc = "releasing" /\ pc' = "none"
    /\ ledger' = Nothing /\ mailbox' = {} /\ buffer' = {} /\ length' = 0
    /\ call' = "none" /\ linked' = FALSE
    /\ UNCHANGED <<background, stopped, aborted, turnState, heard, sent, past, runs, notices>>

\* The child's resources are released, or five seconds are over: the agent goes, with its
\* buffer and what is known of retries; the mailbox stays.
Evict ==
    /\ pc = "releasing" /\ pc' = "none"
    /\ ledger' = Nothing /\ buffer' = {} /\ length' = 0
    /\ call' = "none" /\ linked' = FALSE
    /\ UNCHANGED <<background, stopped, aborted, turnState, mailbox, heard, sent, past, runs,
                   notices>>

-----------------------------------------------------------------------------
(* The call: awaitForegroundCompletion() *)

\* The child asks for something, or the time the call may take is over.
OtherLeg ==
    /\ call = "waiting" /\ call' = "leg"
    /\ UNCHANGED <<pc, linked, background, stopped, aborted, turnState, mail, past, runs, notices>>

\* Mutant: the signal is not looked at again.
HandOverAtOnce ==
    /\ call = "leg"
    /\ \/ call' = "task" /\ linked' = FALSE /\ background' = TRUE
       \/ call' = "adrift" /\ UNCHANGED <<linked, background>>
    /\ UNCHANGED <<pc, stopped, aborted, turnState, mail, past, runs, notices>>

\* The call goes on: a run that was cancelled meanwhile is waited for; any other becomes
\* a background task, unless there is no room for it.
HandOver ==
    /\ call = "leg"
    /\ \/ aborted /\ call' = "joined" /\ UNCHANGED <<linked, background>>
       \/ ~ aborted /\ call' = "task" /\ linked' = FALSE /\ background' = TRUE
       \/ ~ aborted /\ call' = "adrift" /\ UNCHANGED <<linked, background>>
    /\ UNCHANGED <<pc, stopped, aborted, turnState, mail, past, runs, notices>>

\* The parent's turn is cancelled.
CancelParent ==
    /\ pc # "none" /\ (linked \/ ~ background)
    /\ aborted' = TRUE
    /\ UNCHANGED <<pc, callState, turnState, mail, past, runs, notices>>

\* The task is stopped, or has run for too long.
TaskStop ==
    /\ call = "task" /\ aborted' = TRUE /\ stopped' = TRUE
    /\ UNCHANGED <<pc, call, linked, background, turnState, mail, past, runs, notices>>

\* No child runs.
AtRest == pc = "none" /\ UNCHANGED vars

Next ==
    \/ \E key \in Keys : Retry(key) \/ Steer(key) \/ Post(key)
    \/ Expire \/ Launch \/ Prepared \/ StepBoundary \/ StopGate \/ StopShort \/ TurnEnds
    \/ TurnFails \/ Notice \/ Continue \/ Evict
    \/ OtherLeg \/ HandOver \/ CancelParent \/ TaskStop
    \/ AtRest

Spec == Init /\ [][Next]_vars

-----------------------------------------------------------------------------
(* Properties *)

\* Copies the child will still read: the deliverable ones of the mailbox, and those in the
\* buffer of a turn that runs.
Underway == live \cup (IF hasActiveTurn THEN buffer ELSE {})

\* "A retried send ... must not reach the child twice while the first copy is still in
\* flight" (sendMessage): of what was sent in one run no two copies of one message are
\* underway, by whichever channel each travels and however often the buffer was flushed
\* and filled again.  A later run has forgotten what an earlier one left in the mailbox.
OneCopyUnderway ==
    \A a, b \in Underway : a.key = b.key /\ a.run = b.run => a = b

\* "Nothing else may discard an accepted message" (subagent-messages.ts): one that waits
\* leaves by being read or by its deadline.  A steer may also go with the child's buffer:
\* when the run fails, when its last turn asked no stop gate, or when it came behind it.
NothingDiscarded ==
    [][\A m \in mailbox \cup buffer :
         \/ m \in mailbox' \cup buffer'
         \/ m.id \in heard'
         \/ m \in mailbox /\ m.id <= past
         \/ m \in buffer /\ (~ ok \/ ~ gated \/ m.late)]_vars

\* A run that was handed to the background is ended by its own stop alone: no cancel of the
\* parent's turn reaches it, and one that was cancelled before is never handed over
\* ("Backgrounding that child would resurrect a deliberately cancelled run",
\* awaitForegroundCompletion).
HandedOverSurvives == call = "task" /\ aborted => stopped
=============================================================================
