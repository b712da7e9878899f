-------------------------- MODULE CompactionProofs --------------------------
(***************************************************************************)
(* Compactions beside turns, undo and clear, for any number of them and    *)
(* whatever the turn, the user and the provider do: they keep out of each  *)
(* other's way, no input is lost or comes back, a replay of the log finds  *)
(* the conversation as it is, and no result loses its call.                *)
(***************************************************************************)
EXTENDS MCConversation, ConversationProofs

\* The states of a worker have these fields.
IsWork(r) ==
    r = [pc |-> r.pc, history |-> r.history, cut |-> r.cut, aborted |-> r.aborted,
         blocked |-> r.blocked, outcome |-> r.outcome]

Shape ==
    /\ begun \in 0 .. MaxCompactions
    /\ compacting \in 0 .. begun
    /\ DOMAIN work = Workers
    /\ work = [w \in Workers |-> work[w]]
    /\ \A w \in Workers : IsWork(work[w])

\* Who was begun is at work or has come to an end.
Born == \A w \in Workers : w <= begun => work[w].pc \in {"busy", "over"}

IInv == Shape /\ Born /\ OneCompaction

LEMMA InitInv == Init => IInv
  BY CompactionAssumption DEF Init, IInv, Shape, Born, OneCompaction, IsWork, Unborn, Workers

\* A compaction begins only when none is in flight.
LEMMA BeginKeeps ==
  ASSUME IInv, NEW source, NEW blocked, Begin(source, blocked)
  PROVE  IInv'
<1> USE CompactionAssumption DEF IInv, Workers
<1>1. CASE UNCHANGED <<compacting, work, begun>>
  BY <1>1 DEF Shape, Born, OneCompaction, IsWork
<1>2. CASE /\ begun < MaxCompactions
           /\ begun' = begun + 1 /\ compacting' = begun'
           /\ \E n \in cuts(source) :
                work' = [work EXCEPT ![begun'] = [Unborn EXCEPT !.pc = "busy",
                                                      !.history = ctx.history, !.cut = n,
                                                      !.blocked = blocked]]
  <2>1. compacting = 0
    BY DEF Begin
  <2>2. PICK n : work' = [work EXCEPT ![begun'] = [Unborn EXCEPT !.pc = "busy",
                                                       !.history = ctx.history, !.cut = n,
                                                       !.blocked = blocked]]
    BY <1>2
  <2>3. begun' \in Workers /\ begun \in 0 .. MaxCompactions
    BY <1>2 DEF Shape
  <2>4. /\ work'[begun'] = [pc |-> "busy", history |-> ctx.history, cut |-> n,
                            aborted |-> FALSE, blocked |-> blocked, outcome |-> "none"]
        /\ \A w \in Workers : w # begun' => work'[w] = work[w]
        /\ DOMAIN work' = Workers /\ work' = [w \in Workers |-> work'[w]]
    BY <2>2, <2>3 DEF Shape, Unborn
  <2>5. Shape'
    <3>1. IsWork(work'[begun'])
      BY <2>4 DEF IsWork
    <3>2. \A w \in Workers : IsWork(work'[w])
      BY <2>4, <3>1 DEF Shape
    <3>3. begun' \in 0 .. MaxCompactions /\ compacting' \in 0 .. begun'
      BY <1>2, <2>3
    <3> QED BY <2>4, <3>2, <3>3 DEF Shape
  <2>6. Born'
    BY <1>2, <2>3, <2>4 DEF Born
  <2>7. OneCompaction'
    BY <1>2, <2>1, <2>3, <2>4 DEF OneCompaction
  <2> QED BY <2>5, <2>6, <2>7
<1> QED BY <1>1, <1>2 DEF Begin

\* None begins: the one in flight may learn that the turn waits for it.
LEMMA NoneBegins ==
  ASSUME IInv, NEW blocked, BeginNone(blocked)
  PROVE  /\ UNCHANGED <<compacting, count, begun, damaged>>
         /\ DOMAIN work' = Workers /\ work' = [w \in Workers |-> work'[w]]
         /\ \A w \in Workers :
               work'[w] = [work[w] EXCEPT !.blocked =
                             IF blocked /\ w = compacting THEN TRUE ELSE @]
<1>1. DOMAIN work = Workers /\ \A w \in Workers : IsWork(work[w])
  BY DEF IInv, Shape
<1>2. \A w \in Workers : work[w] = [work[w] EXCEPT !.blocked = @]
  BY <1>1 DEF IsWork
<1>3. \A w \in Workers : w # 0
  BY CompactionAssumption DEF Workers
<1>4. CASE blocked /\ compacting # 0
  <2>1. work' = [work EXCEPT ![compacting].blocked = TRUE]
    BY <1>4 DEF BeginNone
  <2> QED BY <1>1, <1>2, <1>4, <2>1 DEF BeginNone
<1>5. CASE ~ (blocked /\ compacting # 0)
  <2>1. work' = work
    BY <1>5 DEF BeginNone
  <2> QED BY <1>1, <1>2, <1>3, <1>5, <2>1 DEF BeginNone, IInv, Shape
<1> QED BY <1>4, <1>5

\* To the rest of its state that makes no difference.
LEMMA NoneBeginsWork ==
  ASSUME IInv, NEW blocked, BeginNone(blocked), NEW w \in Workers
  PROVE  /\ IsWork(work'[w])
         /\ work'[w].pc = work[w].pc /\ work'[w].history = work[w].history
         /\ work'[w].cut = work[w].cut /\ work'[w].aborted = work[w].aborted
<1>1. PICK b : work'[w] = [work[w] EXCEPT !.blocked = b]
  BY NoneBegins
<1>2. IsWork(work[w])
  BY DEF IInv, Shape
<1> QED BY <1>1, <1>2 DEF IsWork

LEMMA NoneBeginsKeeps ==
  ASSUME IInv, NEW blocked, BeginNone(blocked)
  PROVE  IInv'
<1>1. UNCHANGED <<compacting, begun>> /\ DOMAIN work' = Workers /\ work' = [w \in Workers |-> work'[w]]
  BY NoneBegins
<1>2. \A w \in Workers : /\ IsWork(work'[w]) /\ work'[w].pc = work[w].pc
                          /\ work'[w].aborted = work[w].aborted
  BY NoneBeginsWork
<1> QED BY <1>1, <1>2 DEF IInv, Shape, Born, OneCompaction

\* Whoever was in flight and is cancelled is out of the way.
LEMMA CancelKeeps ==
  ASSUME IInv, compacting' = 0, work' = markCanceled(work), begun' = begun
  PROVE  IInv'
<1> USE CompactionAssumption DEF IInv, Workers
<1>1. /\ \A w \in Workers : w # compacting => work'[w] = work[w]
      /\ DOMAIN work' = Workers /\ work' = [w \in Workers |-> work'[w]]
  BY DEF markCanceled, Shape
<1>2. compacting \in Workers =>
        work'[compacting] = [work[compacting] EXCEPT !.aborted = TRUE]
  BY DEF markCanceled, Shape
<1>3. compacting \in Workers =>
        /\ IsWork(work'[compacting]) /\ work'[compacting].aborted
        /\ work'[compacting].pc = work[compacting].pc
  BY <1>2 DEF Shape, IsWork
<1>4. Shape'
  BY <1>1, <1>3 DEF Shape
<1>5. Born'
  BY <1>1, <1>3 DEF Born, Shape
<1>6. OneCompaction'
  BY <1>1, <1>3 DEF OneCompaction
<1> QED BY <1>4, <1>5, <1>6

\* A worker that ends leaves the compaction in flight alone, unless it is its own.
LEMMA OverKeeps ==
  ASSUME IInv, NEW w \in Workers, NEW o,
         work' = [work EXCEPT ![w] = [Unborn EXCEPT !.pc = "over", !.outcome = o]],
         compacting' = compacting \/ (compacting' = 0 /\ compacting \in {0, w}),
         begun' = begun
  PROVE  IInv'
<1> USE CompactionAssumption DEF IInv, Workers
<1>1. /\ work'[w] = [pc |-> "over", history |-> <<>>, cut |-> 0, aborted |-> FALSE,
                     blocked |-> FALSE, outcome |-> o]
      /\ \A v \in Workers : v # w => work'[v] = work[v]
      /\ DOMAIN work' = Workers /\ work' = [v \in Workers |-> work'[v]]
  BY DEF Shape, Unborn
<1>2. Shape'
  <2>1. IsWork(work'[w])
    BY <1>1 DEF IsWork
  <2>2. \A v \in Workers : IsWork(work'[v])
    BY <1>1, <2>1 DEF Shape
  <2>3. begun' \in 0 .. MaxCompactions /\ compacting' \in 0 .. begun'
    BY DEF Shape
  <2> QED BY <1>1, <2>2, <2>3 DEF Shape
<1>3. Born'
  BY <1>1 DEF Born
<1>4. OneCompaction'
  BY <1>1 DEF OneCompaction
<1> QED BY <1>2, <1>3, <1>4

LEMMA Same ==
  ASSUME IInv, UNCHANGED <<compacting, work, begun>>
  PROVE  IInv'
  BY DEF IInv, Shape, Born, OneCompaction, IsWork

LEMMA Step == IInv /\ [Next]_vars => IInv'
<1> SUFFICES ASSUME IInv, [Next]_vars
             PROVE  IInv'
  OBVIOUS
<1>1. CASE Prompt
  BY <1>1, Same DEF Prompt
<1>2. CASE Cancel
  BY <1>2, Same, CancelKeeps DEF Cancel
<1>3. CASE BeforeStep
  BY <1>3, Same, BeginKeeps, NoneBeginsKeeps DEF BeforeStep, BeginAuto
<1>4. CASE Released
  BY <1>4, Same DEF Released
<1>5. CASE StepBegin \/ ContentPart \/ LLMAnswers \/ Fail \/ ToolCall \/ ToolResult \/ Seal \/ End
  BY <1>5, Same DEF StepBegin, ContentPart, LLMAnswers, Fail, ToolCall, ToolResult, Seal, End
<1>6. CASE Overflow
  BY <1>6, Same, BeginKeeps, NoneBeginsKeeps DEF Overflow, BeginAuto
<1>7. CASE AfterStep
  BY <1>7, Same, BeginKeeps, NoneBeginsKeeps DEF AfterStep, BeginAuto
<1>8. CASE BlockTimeout
  BY <1>8, CancelKeeps DEF BlockTimeout
<1>9. CASE Compact
  BY <1>9, BeginKeeps DEF Compact
<1>10. CASE CancelCompaction
  BY <1>10, CancelKeeps DEF CancelCompaction
<1>11. CASE Undo \/ Clear \/ SnapshotWritten
  BY <1>11, Same DEF Undo, Clear, SnapshotWritten
<1>12. ASSUME NEW w \in Workers, Summarised(w)
       PROVE  IInv'
  BY <1>12, OverKeeps DEF Summarised
<1>13. ASSUME NEW w \in Workers, Failed(w)
       PROVE  IInv'
  <2>1. begun' = begun
    BY <1>13 DEF Failed
  <2>2. compacting' = compacting \/ (compacting' = 0 /\ compacting \in {0, w})
    BY <1>13 DEF Failed
  <2>3. \E o : work' = [work EXCEPT ![w] = [Unborn EXCEPT !.pc = "over", !.outcome = o]]
    BY <1>13 DEF Failed
  <2> QED BY <2>1, <2>2, <2>3, OverKeeps
<1>14. CASE CrashAndResume
  <2>1. /\ \A w \in Workers : work'[w] = IF w <= begun THEN [Unborn EXCEPT !.pc = "over"] ELSE Unborn
        /\ DOMAIN work' = Workers /\ work' = [w \in Workers |-> work'[w]]
        /\ compacting' = 0 /\ begun' = begun
    BY <1>14 DEF CrashAndResume
  <2> QED BY <2>1, CompactionAssumption DEF IInv, Shape, Born, OneCompaction, IsWork, Unborn, Workers
<1>15. CASE UNCHANGED vars
  BY <1>15, Same DEF vars
<1> QED
  BY <1>1, <1>2, <1>3, <1>4, <1>5, <1>6, <1>7, <1>8, <1>9, <1>10, <1>11, <1>12, <1>13, <1>14,
     <1>15 DEF Next, TurnStep, AtRest

\* However many compactions are begun, cancelled, time out and come back late: one that nobody
\* cancelled is the one in flight (compactionWorker's tests of its owner).
THEOREM OneCompactionAlways == Spec => []OneCompaction
<1>1. IInv => OneCompaction
  BY DEF IInv
<1> QED BY InitInv, Step, <1>1, PTL DEF Spec

-----------------------------------------------------------------------------
\* The fields of the turn.
IsTurn(t) ==
    t = [pc |-> t.pc, aborted |-> t.aborted, waits |-> t.waits, overflow |-> t.overflow,
         calls |-> t.calls, called |-> t.called, answered |-> t.answered]

Waiting == IsTurn(turn) /\ (turn.pc = "blocked" => turn.waits \in 1 .. begun)

\* The turn goes elsewhere, and knows what it waits for if that is block().
LEMMA GotoKeeps ==
  ASSUME Waiting, NEW pc, pc # "blocked", Goto(pc)
  PROVE  Waiting'
<1>1. /\ turn'.pc = pc
      /\ IsTurn(turn')
  BY DEF Goto, Waiting, IsTurn
<1> QED BY <1>1 DEF Waiting

LEMMA BlockKeeps ==
  ASSUME Waiting, Shape', NEW overflow, Block(overflow)
  PROVE  Waiting'
<1>1. /\ turn'.waits = compacting'
      /\ IsTurn(turn')
  BY DEF Block, Waiting, IsTurn
<1>2. compacting' # 0 /\ compacting' \in 0 .. begun' /\ begun' \in Nat
  BY CompactionAssumption DEF Block, Shape
<1>3. compacting' \in 1 .. begun'
  BY <1>2
<1> QED BY <1>1, <1>3 DEF Waiting

\* A turn that stays where it is may have more to choose from.
LEMMA StayKeeps ==
  ASSUME IInv, IInv', Waiting, turn'.pc = turn.pc, turn'.waits = turn.waits, IsTurn(turn'),
         begun' >= begun
  PROVE  Waiting'
  BY CompactionAssumption DEF IInv, Shape, Waiting

LEMMA BegunGrows == IInv /\ [Next]_vars => begun' >= begun
<1> SUFFICES ASSUME IInv, [Next]_vars
             PROVE  begun' >= begun
  OBVIOUS
<1>1. begun \in Nat
  BY CompactionAssumption DEF IInv, Shape
<1>2. ASSUME NEW source, NEW blocked, Begin(source, blocked) PROVE begun' >= begun
  <2>1. begun' = begun \/ begun' = begun + 1
    BY <1>2, Zenon DEF Begin
  <2> QED BY <1>1, <2>1
<1>3. ASSUME begun' = begun PROVE begun' >= begun
  BY <1>1, <1>3
<1>4. ASSUME NEW blocked, BeginAuto(blocked) \/ BeginNone(blocked)
      PROVE  begun' >= begun
  BY <1>2, <1>3, <1>4 DEF BeginAuto, BeginNone
<1>5. CASE BeforeStep
  BY <1>3, <1>4, <1>5, Zenon DEF BeforeStep
<1>6. CASE Overflow
  BY <1>3, <1>4, <1>6, Zenon DEF Overflow
<1>7. CASE AfterStep
  BY <1>3, <1>4, <1>7, Zenon DEF AfterStep
<1>8. CASE Compact
  BY <1>2, <1>8 DEF Compact
<1>9. CASE \/ Prompt \/ Cancel \/ BlockTimeout \/ CancelCompaction \/ Undo \/ Clear
            \/ SnapshotWritten \/ CrashAndResume \/ AtRest \/ UNCHANGED vars
  <2>1. begun' = begun
    BY <1>9, Zenon DEF Prompt, Cancel, BlockTimeout, CancelCompaction, Undo, Clear,
                       SnapshotWritten, CrashAndResume, AtRest, vars
  <2> QED BY <1>3, <2>1
<1>10. CASE \/ Released \/ StepBegin \/ ContentPart \/ LLMAnswers \/ Fail \/ ToolCall
             \/ ToolResult \/ Seal \/ End
  <2>1. begun' = begun
    BY <1>10, Zenon DEF Released, StepBegin, ContentPart, LLMAnswers, Fail, ToolCall, ToolResult,
                        Seal, End
  <2> QED BY <1>3, <2>1
<1>11. CASE \E w \in Workers : Summarised(w) \/ Failed(w)
  <2>1. begun' = begun
    BY <1>11, Zenon DEF Summarised, Failed
  <2> QED BY <1>3, <2>1
<1> QED BY <1>5, <1>6, <1>7, <1>8, <1>9, <1>10, <1>11 DEF Next, TurnStep

LEMMA WaitingStep == IInv /\ IInv' /\ Waiting /\ [Next]_vars => Waiting'
<1> SUFFICES ASSUME IInv, IInv', Waiting, [Next]_vars
             PROVE  Waiting'
  OBVIOUS
<1>1. begun' >= begun /\ Shape'
  BY BegunGrows DEF IInv
<1>2. IsTurn(turn)
  BY DEF Waiting
<1>3. CASE UNCHANGED turn
  BY <1>1, <1>2, <1>3, StayKeeps
<1>4. CASE Prompt \/ StepBegin \/ Fail \/ Seal
  BY <1>4, GotoKeeps DEF Prompt, StepBegin, Fail, Seal
<1>5. CASE Cancel
  <2>1. turn'.pc = turn.pc /\ turn'.waits = turn.waits /\ IsTurn(turn')
    BY <1>2, <1>5 DEF Cancel, IsTurn
  <2> QED BY <1>1, <2>1, StayKeeps
<1>6. CASE BeforeStep
  BY <1>1, <1>6, GotoKeeps, BlockKeeps DEF BeforeStep
<1>7. CASE Overflow
  BY <1>1, <1>7, GotoKeeps, BlockKeeps DEF Overflow
<1>8. CASE Released \/ LLMAnswers \/ AfterStep
  <2>1. turn'.pc # "blocked" /\ IsTurn(turn')
    BY <1>2, <1>8 DEF Released, LLMAnswers, AfterStep, IsTurn
  <2> QED BY <2>1 DEF Waiting
<1>9. CASE ToolCall \/ ToolResult
  <2>1. turn'.pc # "blocked" /\ IsTurn(turn')
    BY <1>2, <1>9 DEF ToolCall, ToolResult, IsTurn
  <2> QED BY <2>1 DEF Waiting
<1>10. CASE End \/ CrashAndResume
  BY <1>10 DEF End, CrashAndResume, Idle, Waiting, IsTurn
<1> QED
  BY <1>3, <1>4, <1>5, <1>6, <1>7, <1>8, <1>9, <1>10
     DEF Next, TurnStep, ContentPart, BlockTimeout, Compact, CancelCompaction, Undo, Clear,
         Summarised, Failed, SnapshotWritten, AtRest, vars

\* The turn waits for this one.
Awaited(w) == turn.pc = "blocked" /\ turn.waits = w

\* A worker knows that a turn waits for it (blockedByTurn) exactly as long as one does.
Told ==
    /\ turn.pc = "blocked" =>
         (work[turn.waits].pc = "busy" => work[turn.waits].blocked /\ compacting \in {0, turn.waits})
    /\ \A w \in Workers : work[w].pc = "busy" /\ work[w].blocked => Awaited(w)

\* While no turn waits nobody has been told so; a step that may begin a compaction tells one
\* worker at most, the one in flight.
LEMMA TellsOne ==
  ASSUME IInv, \A w \in Workers : ~ (work[w].pc = "busy" /\ work[w].blocked),
         NEW blocked \in BOOLEAN, BeginNone(blocked) \/ \E source : Begin(source, blocked)
  PROVE  /\ \A w \in Workers : work'[w].pc = "busy" /\ work'[w].blocked => blocked /\ w = compacting'
         /\ blocked /\ compacting' # 0 => work'[compacting'].blocked
<1> USE CompactionAssumption DEF Workers
<1>1. CASE BeginNone(blocked)
  <2>1. /\ compacting' = compacting
        /\ \A w \in Workers : work'[w] = [work[w] EXCEPT !.blocked =
                                 IF blocked /\ w = compacting THEN TRUE ELSE @]
    BY <1>1, NoneBegins
  <2>2. ASSUME NEW w \in Workers
        PROVE  /\ work'[w].pc = work[w].pc
               /\ work'[w].blocked = IF blocked /\ w = compacting THEN TRUE ELSE work[w].blocked
    <3>1. IsWork(work[w])
      BY DEF IInv, Shape
    <3> QED BY <2>1, <3>1 DEF IsWork
  <2>3. compacting # 0 => compacting \in Workers
    BY DEF IInv, Shape
  <2> QED BY <2>1, <2>2, <2>3
<1>2. ASSUME NEW source, Begin(source, blocked)
      PROVE  /\ \A w \in Workers : work'[w].pc = "busy" /\ work'[w].blocked => blocked /\ w = compacting'
             /\ blocked /\ compacting' # 0 => work'[compacting'].blocked
  <2>1. CASE UNCHANGED <<compacting, work, begun, damaged>>
    BY <1>2, <2>1 DEF Begin
  <2>2. ASSUME begun < MaxCompactions, begun' = begun + 1, compacting' = begun', NEW n,
               work' = [work EXCEPT ![begun'] = [Unborn EXCEPT !.pc = "busy",
                                                      !.history = ctx.history, !.cut = n,
                                                      !.blocked = blocked]]
        PROVE  /\ \A w \in Workers : work'[w].pc = "busy" /\ work'[w].blocked => blocked /\ w = compacting'
               /\ blocked /\ compacting' # 0 => work'[compacting'].blocked
    <3>1. begun' \in Workers /\ DOMAIN work = Workers
      BY <2>2 DEF IInv, Shape
    <3>2. /\ work'[begun'].blocked = blocked
          /\ \A w \in Workers : w # begun' => work'[w] = work[w]
      BY <2>2, <3>1 DEF Unborn
    <3> QED BY <2>2, <3>2
  <2> QED BY <1>2, <2>1, <2>2 DEF Begin
<1> QED BY <1>1, <1>2

\* Who waits is known where the compaction in flight was told.
LEMMA TellsTurn ==
  ASSUME IInv, IInv', Waiting', Told, turn.pc # "blocked",
         NEW blocked \in BOOLEAN, BeginNone(blocked) \/ \E source : Begin(source, blocked),
         IF blocked THEN turn'.pc = "blocked" /\ turn'.waits = compacting' ELSE turn'.pc # "blocked"
  PROVE  Told'
<1>1. \A w \in Workers : ~ (work[w].pc = "busy" /\ work[w].blocked)
  BY DEF Told, Awaited
<1>2. /\ \A w \in Workers : work'[w].pc = "busy" /\ work'[w].blocked => blocked /\ w = compacting'
      /\ blocked /\ compacting' # 0 => work'[compacting'].blocked
  BY <1>1, TellsOne
<1>3. turn'.pc = "blocked" => turn'.waits # 0
  BY DEF Waiting
<1> QED BY <1>2, <1>3 DEF Told, Awaited

\* Workers that are told nothing new, told to stop, or through.
LEMMA TellsNobody ==
  ASSUME IInv, Waiting, Told, compacting' \in {0, compacting},
         \A w \in Workers : work'[w].pc = "busy" =>
            work[w].pc = "busy" /\ work'[w].blocked = work[w].blocked,
         \/ turn'.pc = turn.pc /\ turn'.waits = turn.waits
         \/ turn'.pc # "blocked" /\ \A w \in Workers : Awaited(w) => work'[w].pc # "busy"
  PROVE  Told'
<1>1. turn.pc = "blocked" => turn.waits \in Workers
  BY CompactionAssumption DEF IInv, Shape, Waiting, Workers
<1> QED BY <1>1 DEF Told, Awaited

LEMMA ToldStep == IInv /\ IInv' /\ Waiting /\ Waiting' /\ Told /\ [Next]_vars => Told'
<1> SUFFICES ASSUME IInv, IInv', Waiting, Waiting', Told, [Next]_vars
             PROVE  Told'
  OBVIOUS
<1>1. CASE Compact
  <2>1. /\ turn.pc # "blocked" /\ turn' = turn
        /\ \E source : Begin(source, FALSE)
    BY <1>1 DEF Compact
  <2> QED BY <2>1, TellsTurn
<1>2. CASE AfterStep
  <2>1. /\ turn.pc # "blocked"
        /\ BeginNone(FALSE) \/ \E source : Begin(source, FALSE)
        /\ \E pc \in {"before", "ending"} :
             turn' = [turn EXCEPT !.pc = pc, !.calls = 0, !.called = 0, !.answered = 0]
    BY <1>2 DEF AfterStep, BeginAuto
  <2>2. turn'.pc # "blocked"
    BY <2>1 DEF Waiting, IsTurn
  <2> QED BY <2>1, <2>2, TellsTurn
<1>3. CASE BeforeStep
  <2>1. turn.pc # "blocked" /\ IsTurn(turn)
    BY <1>3 DEF BeforeStep, Waiting
  <2>2. CASE Goto("ending") /\ UNCHANGED <<compacting, work>>
    <3>1. turn'.pc # "blocked"
      BY <2>1, <2>2 DEF Goto, IsTurn
    <3> QED BY <2>1, <2>2, <3>1, TellsNobody DEF Awaited
  <2>3. ASSUME NEW blocked \in BOOLEAN, BeginNone(blocked) \/ BeginAuto(blocked),
               IF blocked THEN Block(FALSE) ELSE Goto("send")
        PROVE  Told'
    <3>1. BeginNone(blocked) \/ \E source : Begin(source, blocked)
      BY <2>3 DEF BeginAuto
    <3>2. IF blocked THEN turn'.pc = "blocked" /\ turn'.waits = compacting' ELSE turn'.pc # "blocked"
      BY <2>1, <2>3 DEF Block, Goto, IsTurn
    <3> QED BY <2>1, <3>1, <3>2, TellsTurn
  <2> QED BY <1>3, <2>2, <2>3 DEF BeforeStep
<1>4. CASE Overflow
  <2>1. turn.pc # "blocked" /\ IsTurn(turn)
    BY <1>4 DEF Overflow, Waiting
  <2>2. CASE Goto("ending") /\ UNCHANGED <<compacting, work>>
    <3>1. turn'.pc # "blocked"
      BY <2>1, <2>2 DEF Goto, IsTurn
    <3> QED BY <2>1, <2>2, <3>1, TellsNobody DEF Awaited
  <2>3. CASE Goto("ending") /\ BeginAuto(FALSE)
    <3>1. turn'.pc # "blocked" /\ \E source : Begin(source, FALSE)
      BY <2>1, <2>3 DEF Goto, IsTurn, BeginAuto
    <3> QED BY <2>1, <3>1, TellsTurn
  <2>4. CASE /\ BeginNone(~ turn.aborted) \/ BeginAuto(~ turn.aborted)
             /\ IF turn.aborted THEN Goto("ending") ELSE Block(TRUE)
    <3>1. BeginNone(~ turn.aborted) \/ \E source : Begin(source, ~ turn.aborted)
      BY <2>4 DEF BeginAuto
    <3>2. IF ~ turn.aborted THEN turn'.pc = "blocked" /\ turn'.waits = compacting'
          ELSE turn'.pc # "blocked"
      BY <2>1, <2>4 DEF Block, Goto, IsTurn
    <3>3. PICK blocked \in BOOLEAN : blocked = (~ turn.aborted)
      OBVIOUS
    <3> QED BY <2>1, <3>1, <3>2, <3>3, TellsTurn
  <2> QED BY <1>4, <2>2, <2>3, <2>4 DEF Overflow
<1>5. CASE Cancel \/ CancelCompaction \/ BlockTimeout
  <2>1. /\ turn'.pc = turn.pc /\ turn'.waits = turn.waits
        /\ compacting' \in {0, compacting}
        /\ UNCHANGED work \/ work' = markCanceled(work)
    BY <1>5 DEF Cancel, CancelCompaction, BlockTimeout, Waiting, IsTurn
  <2>2. \A w \in Workers : work'[w].pc = work[w].pc /\ work'[w].blocked = work[w].blocked
    BY <2>1, SMTT(30) DEF markCanceled, IInv, Shape, IsWork
  <2> QED BY <2>1, <2>2, TellsNobody
<1>6. ASSUME NEW v \in Workers, Summarised(v) \/ Failed(v)
      PROVE  Told'
  <2>1. /\ UNCHANGED turn /\ compacting' \in {0, compacting}
        /\ \E o : work' = [work EXCEPT ![v] = [Unborn EXCEPT !.pc = "over", !.outcome = o]]
    BY <1>6 DEF Summarised, Failed
  <2>2. work'[v].pc = "over" /\ \A w \in Workers : w # v => work'[w] = work[w]
    BY <2>1 DEF IInv, Shape, Unborn
  <2>3. \A w \in Workers : work'[w].pc = "busy" =>
            work[w].pc = "busy" /\ work'[w].blocked = work[w].blocked
    BY <2>2
  <2> QED BY <2>1, <2>3, TellsNobody
<1>7. CASE Released
  <2>1. turn'.pc # "blocked"
    BY <1>7 DEF Released, Waiting, IsTurn
  <2>2. UNCHANGED <<compacting, work>> /\ \A w \in Workers : Awaited(w) => work[w].pc # "busy"
    BY <1>7 DEF Released, Awaited
  <2> QED BY <2>1, <2>2, TellsNobody
<1>8. CASE CrashAndResume
  <2>1. turn'.pc # "blocked" /\ \A w \in Workers : work'[w].pc # "busy"
    BY <1>8 DEF CrashAndResume, Idle, Unborn
  <2> QED BY <2>1 DEF Told
<1>9. CASE \/ Prompt \/ StepBegin \/ LLMAnswers \/ Fail \/ ToolCall \/ ToolResult \/ Seal \/ End
  <2>1. UNCHANGED <<compacting, work>> /\ turn.pc # "blocked"
    BY <1>9 DEF Prompt, StepBegin, LLMAnswers, Fail, ToolCall, ToolResult, Seal, End
  <2>2. turn'.pc # "blocked"
    <3>1. IsTurn(turn)
      BY DEF Waiting
    <3>2. CASE Prompt \/ StepBegin \/ Fail \/ Seal
      <4>1. PICK pc \in {"before", "ending", "llm", "after"} : Goto(pc)
        BY <3>2 DEF Prompt, StepBegin, Fail, Seal
      <4> QED BY <3>1, <4>1 DEF Goto, IsTurn
    <3>3. CASE LLMAnswers
      BY <3>1, <3>3 DEF LLMAnswers, IsTurn
    <3>4. CASE ToolCall \/ ToolResult
      <4>1. \/ turn' = [turn EXCEPT !.called = @ + 1]
            \/ turn' = [turn EXCEPT !.answered = @ + 1]
        BY <3>4 DEF ToolCall, ToolResult
      <4> QED BY <2>1, <3>1, <4>1 DEF IsTurn
    <3>5. CASE End
      BY <3>5 DEF End, Idle
    <3> QED BY <1>9, <3>2, <3>3, <3>4, <3>5
  <2> QED BY <2>1, <2>2, TellsNobody DEF Awaited
<1>10. CASE ContentPart \/ Undo \/ Clear \/ SnapshotWritten \/ UNCHANGED vars
  <2>1. UNCHANGED <<turn, compacting, work>>
    BY <1>10 DEF ContentPart, Undo, Clear, SnapshotWritten, vars
  <2> QED BY <2>1, TellsNobody
<1> QED
  BY <1>1, <1>2, <1>3, <1>4, <1>5, <1>6, <1>7, <1>8, <1>9, <1>10 DEF Next, TurnStep, AtRest

\* A turn that waits has something to wait for: its compaction has come to an end, or it works,
\* knows that a turn waits for it, and is in flight, so that the timer still applies, or was told
\* to stop.
SomethingToWaitFor ==
    turn.pc = "blocked" =>
        \/ work[turn.waits].pc = "over"
        \/ /\ work[turn.waits].pc = "busy" /\ work[turn.waits].blocked
           /\ compacting = turn.waits \/ work[turn.waits].aborted

\* A compaction that fails fails the turn that waits for it; only one that was told to stop, with
\* no mark of the timer's left, lets it go on.  Where no turn waits the promise does not reject
\* ("a stale worker's rejection is observed by nobody, so throwing would become an unhandled
\* promise rejection", compactionWorker).
FailureHeard ==
    \A w \in Workers : Failed(w) =>
        IF Awaited(w) THEN ~ work[w].aborted \/ timedOut => work'[w].outcome = "failed"
        ELSE work'[w].outcome = "ok"

\* A step in which a worker fails.
LEMMA FailureHeardStep == IInv /\ Waiting /\ Told => FailureHeard
<1> SUFFICES ASSUME IInv, Waiting, Told, NEW w \in Workers, Failed(w)
             PROVE  IF Awaited(w) THEN ~ work[w].aborted \/ timedOut => work'[w].outcome = "failed"
                    ELSE work'[w].outcome = "ok"
  BY DEF FailureHeard
<1>. DEFINE stale == compacting \notin {0, w}
            late == ~ stale /\ timedOut
            over(o) == [work EXCEPT ![w] = [Unborn EXCEPT !.pc = "over", !.outcome = o]]
<1>1. work[w].pc = "busy" /\ DOMAIN work = Workers
  BY DEF Failed, IInv, Shape
<1>2. \A o : work' = over(o) => work'[w].outcome = o
  BY <1>1 DEF Unborn
<1>3. PICK abort \in {FALSE} \cup {work[w].aborted} :
         IF abort /\ ~ late THEN work' = over("ok")
         ELSE work' = over(IF work[w].blocked /\ ~ stale THEN "failed" ELSE "ok")
  BY Zenon DEF Failed
<1>. HIDE DEF over
<1>4. CASE Awaited(w)
  <2>1. work[w].blocked /\ ~ stale
    BY <1>1, <1>4 DEF Told, Awaited
  <2>2. ~ work[w].aborted \/ timedOut => ~ (abort /\ ~ late)
    BY <1>3, <2>1
  <2> QED BY <1>2, <1>3, <1>4, <2>1, <2>2
<1>5. CASE ~ Awaited(w)
  <2>1. ~ work[w].blocked
    BY <1>1, <1>5 DEF Told
  <2> QED BY <1>2, <1>3, <1>5, <2>1
<1> QED BY <1>4, <1>5

\* block() never waits for a worker that nobody will tell to stop, or whose failure would not
\* reach it, for any number of compactions, cancels and late workers: the safety half of
\* BlockedTurnGoesOn.
THEOREM NeverWaitsForNothing == Spec => []SomethingToWaitFor /\ [][FailureHeard]_vars
<1>1. Init => Waiting /\ Told
  BY CompactionAssumption DEF Init, Waiting, Told, Idle, IsTurn, Unborn, Workers
<1>2. IInv /\ Waiting /\ Told => SomethingToWaitFor
  <2> SUFFICES ASSUME IInv, Waiting, Told, turn.pc = "blocked"
               PROVE  \/ work[turn.waits].pc = "over"
                      \/ /\ work[turn.waits].pc = "busy" /\ work[turn.waits].blocked
                         /\ compacting = turn.waits \/ work[turn.waits].aborted
    BY DEF SomethingToWaitFor
  <2>1. turn.waits \in Workers /\ turn.waits <= begun
    BY CompactionAssumption DEF IInv, Shape, Waiting, Workers
  <2> QED BY <2>1 DEF IInv, Born, OneCompaction, Told
<1>3. IInv /\ Waiting /\ Told => FailureHeard
  BY FailureHeardStep
<1> QED BY InitInv, Step, WaitingStep, ToldStep, <1>1, <1>2, <1>3, PTL DEF Spec

-----------------------------------------------------------------------------
(* The parts of a conversation *)

Ids == Nat \X Nat

UserM == [role : {"user"}, input : Nat]
AsstM == [role : {"assistant"}, step : Nat, sendable : BOOLEAN, toolCalls : Seq(Ids)]
SumM  == [role : {"assistant"}, step : {z \in Int : z < 0}, sendable : {TRUE},
          toolCalls : {<<>>}, covers : Seq(Nat)]
ToolM == [role : {"tool"}, toolCallId : Ids]
Msg   == UserM \cup AsstM \cup SumM \cup ToolM

CtxT == [history : Seq(Msg), openSteps : SUBSET Nat,
         pendingToolResultIds : {P \in SUBSET Ids : IsFiniteSet(P)},
         deferredMessages : Seq(UserM)]

\* The messages that hold inputs: what the user said, and what a summary covers.
Speaking == UserM \cup SumM
Voices(c) == Select(c.history, Speaking)

\* The kinds of message tell themselves apart.
LEMMA MsgForms ==
    ASSUME NEW m \in Msg
    PROVE  /\ m.role = "user" <=> m \in UserM
           /\ m.role = "tool" <=> m \in ToolM
           /\ m.role = "assistant" <=> m \in AsstM \/ m \in SumM
           /\ isSummary(m) <=> m \in SumM
           /\ m \in Speaking <=> (isSummary(m) \/ m.role = "user")
           /\ m \in AsstM => m \notin SumM /\ m.step \in Nat
           /\ m \in SumM => m.step \notin Nat /\ m.sendable
<1>1. /\ \A u \in UserM : u.role = "user" /\ DOMAIN u = {"role", "input"}
      /\ \A u \in AsstM : /\ u.role = "assistant" /\ u.step \in Nat
                          /\ DOMAIN u = {"role", "step", "sendable", "toolCalls"}
      /\ \A u \in SumM : /\ u.role = "assistant" /\ u.step \in Int /\ u.step < 0 /\ u.sendable
                         /\ DOMAIN u = {"role", "step", "sendable", "toolCalls", "covers"}
      /\ \A u \in ToolM : u.role = "tool" /\ DOMAIN u = {"role", "toolCallId"}
  BY DEF UserM, AsstM, SumM, ToolM
<1>2. m \in UserM \/ m \in AsstM \/ m \in SumM \/ m \in ToolM
  BY DEF Msg
<1>3. m \in SumM => m.step \notin Nat
  BY <1>1
<1>. QED  BY <1>1, <1>2, <1>3 DEF isSummary, Speaking

\* What a user says is a message that holds an input.
LEMMA UserMessages == Seq(UserM) \subseteq Seq(Msg) /\ UserM \subseteq Msg /\ UserM \subseteq Speaking
<1>1. UserM \subseteq Msg
  BY DEF Msg
<1>. QED  BY <1>1, SeqMonotonic DEF Speaking

\* The messages that hold inputs are messages.
LEMMA VoicesType ==
    ASSUME NEW h \in Seq(Msg)
    PROVE  /\ Select(h, Speaking) \in Seq(Msg)
           /\ Select(h, Speaking) \o <<>> = Select(h, Speaking)
BY SelectType, ConcatEmptySeq

\* They are those of the parts.
LEMMA VoicesConcat ==
    ASSUME NEW h \in Seq(Msg), NEW r \in Seq(Msg)
    PROVE  h \o r \in Seq(Msg) /\ Select(h \o r, Speaking) = Select(h, Speaking) \o Select(r, Speaking)
<1>1. Select(h \o r, Speaking) = Select(h, Speaking) \o Select(r, Speaking)
  BY SelectConcat
<1>. QED  BY <1>1, ConcatProperties

\* All that is held back holds inputs.
LEMMA UserVoices ==
    ASSUME NEW q \in Seq(UserM)
    PROVE  q \in Seq(Msg) /\ Select(q, Speaking) = q
<1>1. q \in Seq(Msg) /\ \A i \in DOMAIN q : q[i] \in Speaking
  BY UserMessages, ElementOfSeq, LenProperties
<1>. QED  BY <1>1, SelectAll

-----------------------------------------------------------------------------
\* What an operation makes of the parts of a conversation.
Becomes(d, v, P, q, O) ==
    /\ d \in CtxT
    /\ Voices(d) = v /\ d.pendingToolResultIds = P /\ d.deferredMessages = q /\ d.openSteps = O

\* flushDeferredMessagesIfToolExchangeClosed: what was held back follows, or waits on.
LEMMA FlushBecomes ==
    ASSUME NEW c \in CtxT
    PROVE  Becomes(flushDeferredMessagesIfToolExchangeClosed(c),
                   IF c.pendingToolResultIds = {} THEN Voices(c) \o c.deferredMessages ELSE Voices(c),
                   c.pendingToolResultIds,
                   IF c.pendingToolResultIds = {} THEN <<>> ELSE c.deferredMessages,
                   c.openSteps)
<1>. DEFINE h == c.history \o c.deferredMessages
            d == [c EXCEPT !.history = h, !.deferredMessages = <<>>]
<1>1. c.history \in Seq(Msg) /\ c.deferredMessages \in Seq(UserM)
  BY DEF CtxT
<1>2. h \in Seq(Msg) /\ Select(h, Speaking) = Voices(c) \o c.deferredMessages
  <2>1. c.deferredMessages \in Seq(Msg) /\ Select(c.deferredMessages, Speaking) = c.deferredMessages
    BY <1>1, UserVoices
  <2>. QED  BY <1>1, <2>1, VoicesConcat, ZenonT(30) DEF Voices
<1>. HIDE DEF h
<1>3. /\ d \in CtxT /\ d.history = h /\ d.deferredMessages = <<>>
      /\ d.pendingToolResultIds = c.pendingToolResultIds /\ d.openSteps = c.openSteps
  BY <1>2, EmptySeq DEF CtxT
<1>4. c.pendingToolResultIds = {} =>
        Becomes(d, Voices(c) \o c.deferredMessages, c.pendingToolResultIds, <<>>, c.openSteps)
  BY <1>2, <1>3 DEF Becomes, Voices
<1>5. Becomes(c, Voices(c), c.pendingToolResultIds, c.deferredMessages, c.openSteps)
  BY DEF Becomes
<1>. QED  BY <1>4, <1>5 DEF flushDeferredMessagesIfToolExchangeClosed, hasOpenToolExchange, h

\* appendMessage: an input is said, or held back.
LEMMA AppendBecomes ==
    ASSUME NEW c \in CtxT, NEW n \in Nat
    PROVE  /\ c.pendingToolResultIds # {} =>
                Becomes(appendMessage(c, <<Input(n)>>), Voices(c), c.pendingToolResultIds,
                        c.deferredMessages \o <<Input(n)>>, c.openSteps)
           /\ c.pendingToolResultIds = {} =>
                Becomes(appendMessage(c, <<Input(n)>>), Voices(c) \o <<Input(n)>>,
                        c.pendingToolResultIds, c.deferredMessages, c.openSteps)
<1>. DEFINE ms == <<Input(n)>>
            h == c.history \o ms
            q == c.deferredMessages \o ms
            dh == [c EXCEPT !.history = h]
            dq == [c EXCEPT !.deferredMessages = q]
<1>1. ms \in Seq(UserM) /\ c.history \in Seq(Msg) /\ c.deferredMessages \in Seq(UserM)
  <2>1. Input(n) \in UserM
    BY DEF Input, UserM
  <2>. QED  BY <2>1 DEF CtxT
<1>2. appendMessage(c, ms) = IF c.pendingToolResultIds # {} THEN dq ELSE dh
  BY DEF appendMessage, hasOpenToolExchange
<1>3. h \in Seq(Msg) /\ Select(h, Speaking) = Voices(c) \o ms /\ q \in Seq(UserM)
  <2>. HIDE DEF ms
  <2>1. ms \in Seq(Msg) /\ Select(ms, Speaking) = ms
    BY <1>1, UserVoices
  <2>2. h \in Seq(Msg) /\ Select(h, Speaking) = Voices(c) \o ms
    BY <1>1, <2>1, VoicesConcat, ZenonT(30) DEF Voices
  <2>3. q \in Seq(UserM)
    BY <1>1, ConcatProperties
  <2>. QED  BY <2>2, <2>3
<1>. HIDE DEF ms, h, q
<1>4. Becomes(dh, Voices(c) \o ms, c.pendingToolResultIds, c.deferredMessages, c.openSteps)
  BY <1>3 DEF Becomes, Voices, CtxT
<1>5. Becomes(dq, Voices(c), c.pendingToolResultIds, q, c.openSteps)
  BY <1>3 DEF Becomes, Voices, CtxT
<1>. QED  BY <1>2, <1>4, <1>5 DEF ms, q

\* stepBegin: a message more that holds no input, and an open step.
LEMMA BeginBecomes ==
    ASSUME NEW c \in CtxT, NEW s \in Nat
    PROVE  Becomes(stepBegin(c, s), Voices(c), c.pendingToolResultIds, c.deferredMessages,
                   c.openSteps \cup {s})
<1>. DEFINE m == Opened(s)
            h == Append(c.history, m)
            O == c.openSteps \cup {s}
<1>1. m \in AsstM
  BY EmptySeq DEF Opened, AsstM
<1>2. m \in Msg /\ m \notin Speaking
  BY <1>1, MsgForms DEF Msg, AsstM
<1>. HIDE DEF m
<1>3. c.history \in Seq(Msg) /\ h \in Seq(Msg)
  BY <1>2, AppendProperties DEF CtxT
<1>4. Select(h, Speaking) = Voices(c)
  BY <1>2, <1>3, SelectAppend DEF Voices
<1>5. stepBegin(c, s) = [c EXCEPT !.history = h, !.openSteps = O] /\ O \in SUBSET Nat
  BY DEF stepBegin, m, CtxT
<1>. HIDE DEF h, O
<1>6. /\ stepBegin(c, s) \in CtxT /\ stepBegin(c, s).history = h
      /\ stepBegin(c, s).openSteps = O
      /\ stepBegin(c, s).deferredMessages = c.deferredMessages
      /\ stepBegin(c, s).pendingToolResultIds = c.pendingToolResultIds
  BY <1>3, <1>5 DEF CtxT
<1>. QED  BY <1>4, <1>6 DEF Becomes, Voices, O

\* What a content part, and a tool call, make of the messages.
Marked(s) ==
    [m \in Msg |-> IF m.role = "assistant" /\ m.step = s
                   THEN [m EXCEPT !.sendable = TRUE] ELSE m]

Called(s, id) ==
    [m \in Msg |-> IF m.role = "assistant" /\ m.step = s
                   THEN [m EXCEPT !.toolCalls = Append(@, id)] ELSE m]

\* A change of the message of step s in its place.
InPlace(f, s) ==
    /\ f \in [Msg -> Msg]
    /\ \A m \in Msg : ~ (m \in AsstM /\ m.step = s) => f[m] = m
    /\ \A m \in AsstM : f[m] \in AsstM /\ f[m].step = m.step

\* A content part and a tool call change the message of their step only.
LEMMA ChangesInPlace ==
    ASSUME NEW s \in Nat
    PROVE  InPlace(Marked(s), s) /\ \A id \in Ids : InPlace(Called(s, id), s)
<1>0. \A m \in SumM : m \in Msg /\ m.step # s
  BY MsgForms DEF Msg
<1>00. AsstM \subseteq Msg
  BY DEF Msg
<1>1. InPlace(Marked(s), s)
  <2>1. \A m \in AsstM : [m EXCEPT !.sendable = TRUE] \in AsstM
                           /\ [m EXCEPT !.sendable = TRUE].step = m.step
    BY DEF AsstM
  <2>2. ASSUME NEW m \in AsstM
        PROVE  m \in Msg /\ Marked(s)[m] \in AsstM /\ Marked(s)[m].step = m.step
    BY <2>1, <1>00 DEF Marked
  <2>3. ASSUME NEW m \in Msg, ~ (m \in AsstM /\ m.step = s)
        PROVE  Marked(s)[m] = m
    BY <2>3, <1>0, MsgForms DEF Marked
  <2>4. Marked(s) \in [Msg -> Msg]
    <3>1. \A m \in Msg : Marked(s)[m] \in Msg
      BY <2>2, <2>3, <1>00
    <3>. QED  BY <3>1 DEF Marked
  <2>. QED  BY <2>2, <2>3, <2>4 DEF InPlace
<1>2. ASSUME NEW id \in Ids
      PROVE  InPlace(Called(s, id), s)
  <2>1. ASSUME NEW m \in AsstM
        PROVE  [m EXCEPT !.toolCalls = Append(@, id)] \in AsstM
                 /\ [m EXCEPT !.toolCalls = Append(@, id)].step = m.step
    <3>. DEFINE q == Append(m.toolCalls, id)
    <3>1. q \in Seq(Ids)
      BY AppendProperties DEF AsstM
    <3>2. [m EXCEPT !.toolCalls = Append(@, id)] = [m EXCEPT !.toolCalls = q]
      BY DEF AsstM
    <3>. HIDE DEF q
    <3>. QED  BY <3>1, <3>2 DEF AsstM
  <2>2. ASSUME NEW m \in AsstM
        PROVE  m \in Msg /\ Called(s, id)[m] \in AsstM /\ Called(s, id)[m].step = m.step
    BY <2>1, <1>00 DEF Called
  <2>3. ASSUME NEW m \in Msg, ~ (m \in AsstM /\ m.step = s)
        PROVE  Called(s, id)[m] = m
    BY <2>3, <1>0, MsgForms DEF Called
  <2>4. Called(s, id) \in [Msg -> Msg]
    <3>1. \A m \in Msg : Called(s, id)[m] \in Msg
      BY <2>2, <2>3, <1>00
    <3>. QED  BY <3>1 DEF Called
  <2>. QED  BY <2>2, <2>3, <2>4 DEF InPlace
<1>. QED  BY <1>1, <1>2

\* They do it while the step is open.
LEMMA StepEvents ==
    ASSUME NEW c \in CtxT, NEW s
    PROVE  /\ contentPart(c, s) =
                IF s \in c.openSteps THEN [c EXCEPT !.history = Mapped(c.history, Marked(s))] ELSE c
           /\ \A id \in Ids : toolCall(c, s, id) =
                IF s \in c.openSteps
                THEN [c EXCEPT !.history = Mapped(c.history, Called(s, id)),
                               !.pendingToolResultIds = @ \cup {id}]
                ELSE c
<1>1. \A i \in DOMAIN c.history : c.history[i] \in Msg
  BY LenProperties, ElementOfSeq DEF CtxT
<1>2. InStep(c, s, LAMBDA m : [m EXCEPT !.sendable = TRUE])
        = [c EXCEPT !.history = Mapped(c.history, Marked(s))]
  BY <1>1 DEF InStep, Mapped, Marked
<1>3. ASSUME NEW id \in Ids
      PROVE  InStep(c, s, LAMBDA m : [m EXCEPT !.toolCalls = Append(@, id)])
                = [c EXCEPT !.history = Mapped(c.history, Called(s, id))]
  BY <1>1 DEF InStep, Mapped, Called
<1>4. ASSUME NEW id \in Ids
      PROVE  [[c EXCEPT !.history = Mapped(c.history, Called(s, id))]
                 EXCEPT !.pendingToolResultIds = @ \cup {id}]
              = [c EXCEPT !.history = Mapped(c.history, Called(s, id)),
                          !.pendingToolResultIds = @ \cup {id}]
  BY DEF CtxT
<1>. QED  BY <1>2, <1>3, <1>4 DEF contentPart, toolCall

\* Nothing that holds inputs changes so.
LEMMA MappedVoices ==
    ASSUME NEW h \in Seq(Msg), NEW f, NEW s, InPlace(f, s)
    PROVE  Mapped(h, f) \in Seq(Msg) /\ Select(Mapped(h, f), Speaking) = Select(h, Speaking)
<1>1. f \in [Msg -> Msg]
  BY DEF InPlace
<1>2. \A m \in Msg : f[m] \in Speaking <=> m \in Speaking
  BY MsgForms DEF InPlace, Speaking
<1>3. Mapped(h, f) \in Seq(Msg) /\ Select(Mapped(h, f), Speaking) = Mapped(Select(h, Speaking), f)
  <2>1. Mapped(h, f) \in Seq(Msg)
    BY <1>1, MappedType
  <2>. DEFINE T == Speaking
  <2>. HIDE DEF T
  <2>2. Select(Mapped(h, f), T) = Mapped(Select(h, T), f)
    BY <1>1, <1>2, SelectMapped DEF T
  <2>. QED  BY <2>1, <2>2 DEF T
<1>4. Mapped(Select(h, Speaking), f) = Select(h, Speaking)
  <2>. DEFINE v == Select(h, Speaking)
  <2>1. v \in Seq(Msg) /\ Range(v) \subseteq Speaking
    BY SelectType, SelectRange
  <2>. HIDE DEF v
  <2>2. \A i \in DOMAIN v : f[v[i]] = v[i]
    <3>1. \A i \in DOMAIN v : v[i] \in Speaking /\ v[i] \in Msg
      BY <2>1, LenProperties, ElementOfSeq DEF Range
    <3>. QED  BY <3>1, MsgForms DEF InPlace, Speaking
  <2>3. Mapped(v, f) = [i \in DOMAIN v |-> v[i]]
    BY <2>2 DEF Mapped
  <2>4. v = [i \in DOMAIN v |-> v[i]]
    BY <2>1
  <2>. QED  BY <2>3, <2>4 DEF v
<1>. QED  BY <1>3, <1>4

\* contentPart, toolCall: a call more that waits, if the step is open.
LEMMA EventsBecome ==
    ASSUME NEW c \in CtxT, NEW s \in Nat
    PROVE  /\ Becomes(contentPart(c, s), Voices(c), c.pendingToolResultIds, c.deferredMessages,
                      c.openSteps)
           /\ \A id \in Ids :
                Becomes(toolCall(c, s, id), Voices(c),
                        IF s \in c.openSteps THEN c.pendingToolResultIds \cup {id}
                                             ELSE c.pendingToolResultIds,
                        c.deferredMessages, c.openSteps)
<1>0. c.history \in Seq(Msg)
  BY DEF CtxT
<1>1. Becomes(c, Voices(c), c.pendingToolResultIds, c.deferredMessages, c.openSteps)
  BY DEF Becomes
<1>2. ASSUME NEW f, InPlace(f, s)
      PROVE  Becomes([c EXCEPT !.history = Mapped(c.history, f)], Voices(c),
                     c.pendingToolResultIds, c.deferredMessages, c.openSteps)
  <2>. DEFINE h == Mapped(c.history, f)
  <2>1. h \in Seq(Msg) /\ Select(h, Speaking) = Voices(c)
    BY <1>0, <1>2, MappedVoices DEF Voices
  <2>. HIDE DEF h
  <2>2. Becomes([c EXCEPT !.history = h], Voices(c),
                c.pendingToolResultIds, c.deferredMessages, c.openSteps)
    BY <2>1 DEF Becomes, Voices, CtxT
  <2>. QED  BY <2>2 DEF h
<1>3. Becomes(contentPart(c, s), Voices(c), c.pendingToolResultIds, c.deferredMessages, c.openSteps)
  BY <1>1, <1>2, StepEvents, ChangesInPlace, ZenonT(30)
<1>4. ASSUME NEW id \in Ids
      PROVE  Becomes(toolCall(c, s, id), Voices(c),
                     IF s \in c.openSteps THEN c.pendingToolResultIds \cup {id}
                                          ELSE c.pendingToolResultIds,
                     c.deferredMessages, c.openSteps)
  <2>. DEFINE h == Mapped(c.history, Called(s, id))
              P == c.pendingToolResultIds \cup {id}
  <2>1. h \in Seq(Msg) /\ Select(h, Speaking) = Voices(c)
    BY <1>0, MappedVoices, ChangesInPlace DEF Voices
  <2>2. P \in SUBSET Ids /\ IsFiniteSet(P)
    BY FS_AddElement DEF CtxT
  <2>3. s \in c.openSteps => toolCall(c, s, id) = [c EXCEPT !.history = h, !.pendingToolResultIds = P]
    BY StepEvents DEF CtxT
  <2>. HIDE DEF h, P
  <2>4. Becomes([c EXCEPT !.history = h, !.pendingToolResultIds = P], Voices(c), P,
                c.deferredMessages, c.openSteps)
    BY <2>1, <2>2 DEF Becomes, Voices, CtxT
  <2>5. s \notin c.openSteps => toolCall(c, s, id) = c
    BY DEF toolCall
  <2>. QED  BY <2>3, <2>4, <2>5, <1>1 DEF P
<1>. QED  BY <1>3, <1>4

-----------------------------------------------------------------------------
(* Results, dropped messages, undo and compaction *)

ResultsOf(ids) == [i \in DOMAIN ids |-> Result(ids[i])]

\* The results of calls are messages that hold no input.
LEMMA ResultsOfType ==
    ASSUME NEW ids \in Seq(Ids)
    PROVE  /\ ResultsOf(ids) \in Seq(ToolM) /\ ResultsOf(ids) \in Seq(Msg)
           /\ Len(ResultsOf(ids)) = Len(ids) /\ Select(ResultsOf(ids), Speaking) = <<>>
<1>1. Len(ids) \in Nat /\ DOMAIN ids = 1 .. Len(ids) /\ \A i \in 1 .. Len(ids) : ids[i] \in Ids
  BY LenProperties, ElementOfSeq
<1>2. ResultsOf(ids) \in [1 .. Len(ids) -> ToolM]
  BY <1>1 DEF ResultsOf, Result, ToolM
<1>3. ResultsOf(ids) \in Seq(ToolM) /\ Len(ResultsOf(ids)) = Len(ids)
  BY <1>1, <1>2, SeqDef
<1>4. ToolM \subseteq Msg
  BY DEF Msg
<1>5. ResultsOf(ids) \in Seq(Msg)
  BY <1>3, <1>4, SeqMonotonic
<1>6. Range(ResultsOf(ids)) \subseteq ToolM
  BY <1>2 DEF Range
<1>7. Select(ResultsOf(ids), Speaking) = <<>>
  <2>. DEFINE v == Select(ResultsOf(ids), Speaking)
  <2>1. v \in Seq(Msg) /\ Range(v) = Range(ResultsOf(ids)) \cap Speaking
    BY <1>5, SelectType, SelectRange
  <2>2. Range(v) = {}
    <3>1. ToolM \cap Speaking = {}
      BY <1>4, MsgForms
    <3>. QED  BY <2>1, <1>6, <3>1
  <2>. HIDE DEF v
  <2>3. Len(v) \in Nat /\ DOMAIN v = 1 .. Len(v)
    BY <2>1, LenProperties
  <2>4. Len(v) = 0
    <3>1. SUFFICES ASSUME Len(v) # 0 PROVE FALSE
      OBVIOUS
    <3>2. 1 \in DOMAIN v
      BY <2>3, <3>1
    <3>. QED  BY <3>2, <2>2 DEF Range
  <2>. QED  BY <2>1, <2>4, EmptySeq DEF v
<1>. QED  BY <1>3, <1>5, <1>7

\* toolResults: calls that no longer wait, and what was held back once none does.
LEMMA ResultsBecome ==
    ASSUME NEW c \in CtxT, NEW ids \in Seq(Ids), NEW P, P = c.pendingToolResultIds \ Range(ids)
    PROVE  Becomes(toolResults(c, ids),
                   IF P = {} THEN Voices(c) \o c.deferredMessages ELSE Voices(c), P,
                   IF P = {} THEN <<>> ELSE c.deferredMessages, c.openSteps)
<1>. DEFINE r == ResultsOf(ids)
            h == c.history \o r
            d == [c EXCEPT !.history = h, !.pendingToolResultIds = P]
<1>1. c.history \in Seq(Msg) /\ r \in Seq(Msg) /\ Select(r, Speaking) = <<>>
  BY ResultsOfType DEF CtxT
<1>. HIDE DEF r
<1>2. h \in Seq(Msg) /\ Select(h, Speaking) = Voices(c)
  <2>1. h \in Seq(Msg) /\ Select(h, Speaking) = Select(c.history, Speaking) \o Select(r, Speaking)
    BY <1>1, VoicesConcat
  <2>2. Select(c.history, Speaking) \o <<>> = Select(c.history, Speaking)
    BY <1>1, VoicesType
  <2>. HIDE DEF h
  <2>. QED  BY <1>1, <2>1, <2>2 DEF Voices
<1>3. P \in SUBSET Ids /\ IsFiniteSet(P)
  BY FS_Difference DEF CtxT
<1>4. toolResults(c, ids) = flushDeferredMessagesIfToolExchangeClosed(d)
  BY DEF toolResults, ResultsOf, CtxT, r
<1>. HIDE DEF h
<1>5. /\ d \in CtxT /\ d.history = h /\ d.pendingToolResultIds = P
      /\ d.deferredMessages = c.deferredMessages /\ d.openSteps = c.openSteps
  BY <1>2, <1>3 DEF CtxT
<1>. HIDE DEF d
<1>6. Voices(d) = Voices(c)
  BY <1>2, <1>5 DEF Voices
<1>. QED  BY <1>4, <1>5, <1>6, FlushBecomes

\* dropVacuousOpenMessages: what goes holds no input.
LEMMA DropBecomes ==
    ASSUME NEW c \in CtxT
    PROVE  Becomes(dropVacuousOpenMessages(c), Voices(c), c.pendingToolResultIds, c.deferredMessages,
                   c.openSteps \ {m.step : m \in {n \in Range(c.history) : isVacuous(c, n)}})
<1>. DEFINE V == {m \in Range(c.history) : isVacuous(c, m)}
            K == Range(c.history) \ V
            h == Select(c.history, K)
            O == c.openSteps \ {m.step : m \in V}
<1>1. c.history \in Seq(Msg) /\ Range(c.history) \subseteq Msg
  BY RangeOfSeq DEF CtxT
<1>2. h \in Seq(Msg)
  BY <1>1, SelectType
<1>3. Select(h, Speaking) = Voices(c)
  <2>1. Select(h, Speaking) = Select(c.history, K \cap Speaking)
    BY <1>1, SelectSelect
  <2>2. \A m \in Msg : isVacuous(c, m) => m \notin Speaking
    BY MsgForms DEF isVacuous, Speaking
  <2>3. \A i \in DOMAIN c.history : c.history[i] \in K \cap Speaking <=> c.history[i] \in Speaking
    <3>1. \A i \in DOMAIN c.history : c.history[i] \in Range(c.history)
      BY DEF Range
    <3>. QED  BY <3>1, <2>2, <1>1
  <2>4. Select(c.history, K \cap Speaking) = Select(c.history, Speaking)
    <3>. HIDE DEF K
    <3>. QED  BY <2>3, SelectSame
  <2>. QED  BY <2>1, <2>4 DEF Voices
<1>4. dropVacuousOpenMessages(c) = [c EXCEPT !.history = h, !.openSteps = O]
  BY DEF dropVacuousOpenMessages, CtxT
<1>5. O \in SUBSET Nat
  BY DEF CtxT
<1>. HIDE DEF h, O
<1>6. /\ dropVacuousOpenMessages(c) \in CtxT /\ dropVacuousOpenMessages(c).history = h
      /\ dropVacuousOpenMessages(c).openSteps = O
      /\ dropVacuousOpenMessages(c).deferredMessages = c.deferredMessages
      /\ dropVacuousOpenMessages(c).pendingToolResultIds = c.pendingToolResultIds
  BY <1>2, <1>4, <1>5 DEF CtxT
<1>. QED  BY <1>3, <1>6 DEF Becomes, Voices, O

\* What undo() leaves of the messages that hold inputs.
Curtail(v) ==
    IF v = <<>> THEN <<>>
    ELSE IF v[Len(v)] \in SumM THEN v ELSE SubSeq(v, 1, Len(v) - 1)

\* The last message of h that holds inputs is m, between pre and post.
SaidLast(h, pre, m, post) ==
    /\ pre \in Seq(Msg) /\ post \in Seq(Msg) /\ m \in Speaking
    /\ h = Append(pre, m) \o post
    /\ \A i \in 1 .. Len(post) : post[i] \notin Speaking

\* A history has a last message that holds an input, or none.
LEMMA LastVoice ==
    ASSUME NEW h \in Seq(Msg)
    PROVE  \/ \A i \in 1 .. Len(h) : h[i] \notin Speaking
           \/ \E pre, m, post : SaidLast(h, pre, m, post)
<1>. DEFINE Silent(s) == \A i \in 1 .. Len(s) : s[i] \notin Speaking
            T == {s \in Seq(Msg) : Silent(s) \/ \E pre, m, post : SaidLast(s, pre, m, post)}
<1>1. <<>> \in T
  BY EmptySeq
<1>2. ASSUME NEW s \in Seq(Msg), NEW x \in Msg, s \in T
      PROVE  Append(s, x) \in T
  <2>1. Append(s, x) \in Seq(Msg) /\ Len(s) \in Nat
    BY AppendProperties, LenProperties
  <2>2. CASE x \in Speaking
    <3>1. SaidLast(Append(s, x), s, x, <<>>)
      <4>1. Append(s, x) \o <<>> = Append(s, x)
        BY <2>1, ConcatEmptySeq
      <4>. QED  BY <2>2, <4>1, EmptySeq DEF SaidLast
    <3>. QED  BY <2>1, <3>1
  <2>3. CASE x \notin Speaking /\ Silent(s)
    <3>1. Silent(Append(s, x))
      BY <2>3, <2>1, AppendProperties
    <3>. QED  BY <2>1, <3>1
  <2>4. CASE x \notin Speaking /\ ~ Silent(s)
    <3>1. PICK pre, m, post : SaidLast(s, pre, m, post)
      BY <1>2, <2>4
    <3>2. pre \in Seq(Msg) /\ post \in Seq(Msg) /\ m \in Msg /\ Append(pre, m) \in Seq(Msg)
      <4>1. m \in Msg
        BY <3>1 DEF SaidLast, Speaking, Msg
      <4>. QED  BY <3>1, <4>1, AppendProperties DEF SaidLast
    <3>3. Append(s, x) = Append(pre, m) \o Append(post, x)
      <4>. DEFINE a == Append(pre, m)
      <4>1. a \in Seq(Msg) /\ s = a \o post
        BY <3>1, <3>2 DEF SaidLast
      <4>. HIDE DEF a
      <4>2. Append(a \o post, x) = a \o Append(post, x)
        <5>. DEFINE one == <<x>>
        <5>1. one \in Seq(Msg) /\ a \o post \in Seq(Msg)
          BY <3>2, <4>1, ConcatProperties
        <5>2. Append(a \o post, x) = (a \o post) \o one /\ Append(post, x) = post \o one
          BY <5>1, <3>2, AppendIsConcat
        <5>. HIDE DEF one
        <5>3. (a \o post) \o one = a \o (post \o one)
          BY <5>1, <3>2, <4>1, ConcatAssociative, SMTT(30)
        <5>. QED  BY <5>2, <5>3
      <4>. QED  BY <4>1, <4>2 DEF a
    <3>4. \A i \in 1 .. Len(Append(post, x)) : Append(post, x)[i] \notin Speaking
      BY <2>4, <3>1, <3>2, AppendProperties, LenProperties DEF SaidLast
    <3>5. SaidLast(Append(s, x), pre, m, Append(post, x))
      BY <3>1, <3>2, <3>3, <3>4, AppendProperties DEF SaidLast
    <3>. QED  BY <2>1, <3>5
  <2>. QED  BY <2>2, <2>3, <2>4
<1>. HIDE DEF T
<1>3. Seq(Msg) \subseteq T
  BY <1>1, <1>2, SequenceInduction
<1>. QED  BY <1>3 DEF T

\* Without one, nothing is left to select.
LEMMA SilentVoices ==
    ASSUME NEW h \in Seq(Msg), \A i \in 1 .. Len(h) : h[i] \notin Speaking
    PROVE  Select(h, Speaking) = <<>>
<1>1. DOMAIN h = 1 .. Len(h) /\ Len(h) \in Nat
  BY LenProperties
<1>2. Range(h) \cap Speaking = {}
  BY <1>1 DEF Range
<1>. DEFINE v == Select(h, Speaking)
<1>3. v \in Seq(Msg) /\ Range(v) = {}
  BY <1>2, SelectType, SelectRange
<1>. HIDE DEF v
<1>4. Len(v) \in Nat /\ DOMAIN v = 1 .. Len(v)
  BY <1>3, LenProperties
<1>5. ASSUME Len(v) # 0 PROVE FALSE
  <2>1. 1 \in DOMAIN v
    BY <1>4, <1>5
  <2>. QED  BY <2>1, <1>3 DEF Range
<1>. QED  BY <1>3, <1>5, EmptySeq DEF v

\* With one, it is the last that is selected.
LEMMA SplitVoices ==
    ASSUME NEW h, NEW pre, NEW m, NEW post, SaidLast(h, pre, m, post)
    PROVE  /\ h \in Seq(Msg) /\ m \in Msg /\ Append(pre, m) \in Seq(Msg)
           /\ Select(h, Speaking) = Append(Select(pre, Speaking), m)
           /\ Select(Append(pre, m), Speaking) = Append(Select(pre, Speaking), m)
<1>1. m \in Msg /\ m \in Speaking /\ pre \in Seq(Msg) /\ post \in Seq(Msg)
  BY DEF SaidLast, Speaking, Msg
<1>2. Append(pre, m) \in Seq(Msg)
  BY <1>1, AppendProperties
<1>3. Select(Append(pre, m), Speaking) = Append(Select(pre, Speaking), m)
  BY <1>1, SelectAppend
<1>4. Select(post, Speaking) = <<>>
  BY <1>1, SilentVoices DEF SaidLast
<1>. DEFINE a == Append(pre, m)
<1>5. h = a \o post /\ a \in Seq(Msg)
  BY <1>2 DEF SaidLast
<1>. HIDE DEF a
<1>6. h \in Seq(Msg) /\ Select(h, Speaking) = Select(a, Speaking)
  <2>1. a \o post \in Seq(Msg) /\ Select(a \o post, Speaking) = Select(a, Speaking) \o Select(post, Speaking)
    BY <1>1, <1>5, VoicesConcat
  <2>2. Select(a, Speaking) \o <<>> = Select(a, Speaking)
    BY <1>5, VoicesType
  <2>. QED  BY <1>4, <1>5, <2>1, <2>2
<1>. QED  BY <1>1, <1>2, <1>3, <1>6 DEF a

\* undo(): the last message that holds inputs goes with all that follows; a summary stays.
LEMMA UndoCuts ==
    ASSUME NEW c \in CtxT
    PROVE  /\ \A pre, m, post : SaidLast(c.history, pre, m, post) =>
                undo(c) = [c EXCEPT !.history = IF m \in SumM THEN Append(pre, m) ELSE pre]
           /\ (\A i \in 1 .. Len(c.history) : c.history[i] \notin Speaking)
                => undo(c) = [c EXCEPT !.history = <<>>]
<1>. DEFINE h == c.history
            S == {0} \cup {i \in DOMAIN h : isSummary(h[i]) \/ h[i].role = "user"}
<1>1. h \in Seq(Msg) /\ Len(h) \in Nat /\ DOMAIN h = 1 .. Len(h) /\ \A i \in 1 .. Len(h) : h[i] \in Msg
  BY ElementOfSeq, LenProperties DEF CtxT
<1>2. S = {0} \cup {i \in 1 .. Len(h) : h[i] \in Speaking}
  BY <1>1, MsgForms
<1>3. undo(c) = [c EXCEPT !.history = SubSeq(h, 1,
                  IF Max(S) = 0 THEN 0 ELSE IF isSummary(h[Max(S)]) THEN Max(S) ELSE Max(S) - 1)]
  BY DEF undo
<1>. HIDE DEF S
<1>4. ASSUME NEW x \in S, \A y \in S : x >= y
      PROVE  Max(S) = x
  <2>1. Max(S) \in S /\ \A y \in S : Max(S) >= y
    BY <1>4 DEF Max
  <2>2. S \subseteq Nat
    BY <1>1, <1>2
  <2>3. Max(S) >= x /\ x >= Max(S) /\ x \in Nat /\ Max(S) \in Nat
    BY <1>4, <2>1, <2>2
  <2>. QED  BY <2>3
<1>5. ASSUME NEW pre, NEW m, NEW post, SaidLast(h, pre, m, post)
      PROVE  undo(c) = [c EXCEPT !.history = IF m \in SumM THEN Append(pre, m) ELSE pre]
  <2>. DEFINE a == Append(pre, m)
              k == Len(pre) + 1
  <2>1. /\ pre \in Seq(Msg) /\ post \in Seq(Msg) /\ m \in Msg /\ m \in Speaking /\ h = a \o post
        /\ \A i \in 1 .. Len(post) : post[i] \notin Speaking
    BY <1>5 DEF SaidLast, Speaking, Msg
  <2>2. /\ a \in Seq(Msg) /\ Len(a) = k /\ Len(pre) \in Nat /\ a[k] = m
        /\ \A i \in 1 .. Len(pre) : a[i] = pre[i]
    BY <2>1, AppendProperties, LenProperties
  <2>. HIDE DEF a
  <2>3. /\ Len(h) = k + Len(post) /\ Len(post) \in Nat
        /\ \A i \in 1 .. k : h[i] = a[i]
        /\ \A i \in k + 1 .. Len(h) : h[i] = post[i - k] /\ i - k \in 1 .. Len(post)
    <3>1. /\ Len(h) = Len(a) + Len(post) /\ Len(post) \in Nat /\ Len(a) \in Nat
          /\ \A i \in 1 .. Len(a) + Len(post) : h[i] = IF i <= Len(a) THEN a[i] ELSE post[i - Len(a)]
      <4>1. /\ Len(a \o post) = Len(a) + Len(post)
            /\ \A i \in 1 .. Len(a) + Len(post) :
                  (a \o post)[i] = IF i <= Len(a) THEN a[i] ELSE post[i - Len(a)]
        BY <2>1, <2>2, ConcatProperties
      <4>2. Len(post) \in Nat /\ Len(a) \in Nat
        BY <2>1, <2>2, LenProperties
      <4>. HIDE DEF h
      <4>. QED  BY <2>1, <4>1, <4>2
    <3>. HIDE DEF h
    <3>2. k \in Nat /\ Len(a) = k
      BY <2>2
    <3>. HIDE DEF k
    <3>. QED  BY <3>1, <3>2
  <2>4. k \in S /\ \A y \in S : k >= y
    <3>1. k \in 1 .. Len(h) /\ h[k] = m
      BY <2>2, <2>3
    <3>2. \A y \in 1 .. Len(h) : y > k => h[y] \notin Speaking
      BY <2>1, <2>2, <2>3
    <3>. QED  BY <1>1, <1>2, <2>1, <2>2, <3>1, <3>2
  <2>5. Max(S) = k /\ k # 0 /\ h[k] = m
    BY <1>4, <2>2, <2>3, <2>4
  <2>6. isSummary(m) <=> m \in SumM
    BY <2>1, MsgForms
  <2>7. SubSeq(h, 1, k) = a
    <3>1. SubSeq(h, 1, k) \in Seq(Msg) /\ Len(SubSeq(h, 1, k)) = k
          /\ \A i \in 1 .. k : SubSeq(h, 1, k)[i] = h[i]
      BY <1>1, <2>2, <2>3, SubSeqProperties
    <3>. QED  BY <2>2, <2>3, <3>1, SeqEqual
  <2>8. SubSeq(h, 1, k - 1) = pre
    <3>1. SubSeq(h, 1, k - 1) \in Seq(Msg) /\ Len(SubSeq(h, 1, k - 1)) = k - 1
          /\ \A i \in 1 .. k - 1 : SubSeq(h, 1, k - 1)[i] = h[i]
      BY <1>1, <2>2, <2>3, SubSeqProperties
    <3>2. \A i \in 1 .. Len(pre) : SubSeq(h, 1, k - 1)[i] = pre[i]
      BY <2>2, <2>3, <3>1
    <3>3. Len(SubSeq(h, 1, k - 1)) = Len(pre)
      BY <2>2, <3>1
    <3>. QED  BY <2>1, <3>1, <3>2, <3>3, SeqEqual
  <2>. HIDE DEF h
  <2>9. undo(c) = [c EXCEPT !.history = SubSeq(h, 1, IF isSummary(m) THEN k ELSE k - 1)]
    BY <1>3, <2>5
  <2>. QED  BY <2>6, <2>7, <2>8, <2>9 DEF a
<1>6. ASSUME \A i \in 1 .. Len(h) : h[i] \notin Speaking
      PROVE  undo(c) = [c EXCEPT !.history = <<>>]
  <2>1. S = {0}
    BY <1>2, <1>6
  <2>2. Max(S) = 0
    BY <1>4, <2>1
  <2>3. SubSeq(h, 1, 0) = <<>>
    BY <1>1, SubSeqProperties, EmptySeq
  <2>. HIDE DEF h
  <2>. QED  BY <1>3, <2>2, <2>3
<1>. QED  BY <1>5, <1>6

\* undo(): what holds inputs loses its last message.
LEMMA UndoBecomes ==
    ASSUME NEW c \in CtxT
    PROVE  Becomes(undo(c), Curtail(Voices(c)), c.pendingToolResultIds, c.deferredMessages, c.openSteps)
<1>. DEFINE h == c.history
<1>1. h \in Seq(Msg)
  BY DEF CtxT
<1>2. ASSUME NEW k \in Seq(Msg), Select(k, Speaking) = Curtail(Voices(c))
      PROVE  Becomes([c EXCEPT !.history = k], Curtail(Voices(c)), c.pendingToolResultIds,
                     c.deferredMessages, c.openSteps)
  <2>. DEFINE d == [c EXCEPT !.history = k]
  <2>1. /\ d \in CtxT /\ d.history = k /\ d.pendingToolResultIds = c.pendingToolResultIds
        /\ d.deferredMessages = c.deferredMessages /\ d.openSteps = c.openSteps
    BY DEF CtxT
  <2>. HIDE DEF d
  <2>2. Voices(d) = Curtail(Voices(c))
    BY <1>2, <2>1 DEF Voices
  <2>3. Becomes(d, Curtail(Voices(c)), c.pendingToolResultIds, c.deferredMessages, c.openSteps)
    BY <2>1, <2>2 DEF Becomes
  <2>. QED  BY <2>3 DEF d
<1>3. CASE \A i \in 1 .. Len(h) : h[i] \notin Speaking
  <2>1. Voices(c) = <<>> /\ Select(<<>>, Speaking) = <<>>
    BY <1>1, <1>3, SilentVoices, SelectEmpty DEF Voices
  <2>2. <<>> \in Seq(Msg) /\ Curtail(Voices(c)) = <<>>
    BY <2>1, EmptySeq DEF Curtail
  <2>3. undo(c) = [c EXCEPT !.history = <<>>]
    BY <1>3, UndoCuts
  <2>. QED  BY <2>1, <2>2, <2>3, <1>2
<1>4. ASSUME NEW pre, NEW m, NEW post, SaidLast(h, pre, m, post)
      PROVE  Becomes(undo(c), Curtail(Voices(c)), c.pendingToolResultIds, c.deferredMessages, c.openSteps)
  <2>. DEFINE v == Select(pre, Speaking)
              k == IF m \in SumM THEN Append(pre, m) ELSE pre
  <2>1. /\ pre \in Seq(Msg) /\ v \in Seq(Msg) /\ m \in Msg /\ Append(pre, m) \in Seq(Msg)
        /\ Voices(c) = Append(v, m) /\ Select(Append(pre, m), Speaking) = Append(v, m)
    <3>1. pre \in Seq(Msg)
      BY <1>4 DEF SaidLast
    <3>2. v \in Seq(Msg)
      BY <3>1, SelectType
    <3>3. /\ m \in Msg /\ Append(pre, m) \in Seq(Msg)
          /\ Select(h, Speaking) = Append(v, m) /\ Select(Append(pre, m), Speaking) = Append(v, m)
      <4>. HIDE DEF h
      <4>. QED  BY <1>4, SplitVoices
    <3>. HIDE DEF v
    <3>. QED  BY <3>1, <3>2, <3>3 DEF Voices
  <2>. HIDE DEF v
  <2>2. /\ Append(v, m) # <<>> /\ Len(Append(v, m)) = Len(v) + 1 /\ Len(v) \in Nat
        /\ Append(v, m)[Len(v) + 1] = m
        /\ \A i \in 1 .. Len(v) : Append(v, m)[i] = v[i]
    BY <2>1, AppendProperties, LenProperties
  <2>3. SubSeq(Append(v, m), 1, Len(v)) = v
    <3>0. Append(v, m) \in Seq(Msg)
      BY <2>1, AppendProperties
    <3>1. SubSeq(Append(v, m), 1, Len(v)) \in Seq(Msg) /\ Len(SubSeq(Append(v, m), 1, Len(v))) = Len(v)
          /\ \A i \in 1 .. Len(v) : SubSeq(Append(v, m), 1, Len(v))[i] = Append(v, m)[i]
      BY <2>1, <2>2, <3>0, SubSeqProperties
    <3>. QED  BY <2>1, <2>2, <3>1, SeqEqual
  <2>4. Curtail(Voices(c)) = IF m \in SumM THEN Append(v, m) ELSE v
    <3>. DEFINE w == Append(v, m)
                l == Len(v)
    <3>1. w # <<>> /\ Len(w) = l + 1 /\ w[l + 1] = m /\ SubSeq(w, 1, l) = v /\ l \in Nat
      BY <2>2, <2>3
    <3>2. Voices(c) = w
      BY <2>1
    <3>. HIDE DEF w, l
    <3>3. Len(w) - 1 = l
      BY <3>1
    <3>4. Curtail(w) = IF m \in SumM THEN w ELSE v
      BY <3>1, <3>3 DEF Curtail
    <3>. QED  BY <3>2, <3>4 DEF w
  <2>5. k \in Seq(Msg) /\ Select(k, Speaking) = Curtail(Voices(c))
    BY <2>1, <2>4 DEF v
  <2>6. undo(c) = [c EXCEPT !.history = k]
    BY <1>4, UndoCuts
  <2>. HIDE DEF k
  <2>. QED  BY <2>5, <2>6, <1>2
<1>5. \/ \A i \in 1 .. Len(h) : h[i] \notin Speaking
      \/ \E pre, m, post : SaidLast(h, pre, m, post)
  BY <1>1, LastVoice
<1>. QED  BY <1>3, <1>4, <1>5

\* applyCompaction: the summary, and of what holds inputs what is behind the cut.
LEMMA CompactionBecomes ==
    ASSUME NEW c \in CtxT, NEW m \in SumM, NEW n \in 0 .. Len(c.history),
           NEW v, v = <<m>> \o Select(SubSeq(c.history, n + 1, Len(c.history)), Speaking)
    PROVE  \E O \in SUBSET c.openSteps :
             Becomes(applyCompaction(c, m, n),
                IF c.pendingToolResultIds = {} THEN v \o c.deferredMessages ELSE v,
                c.pendingToolResultIds,
                IF c.pendingToolResultIds = {} THEN <<>> ELSE c.deferredMessages, O)
<1>. DEFINE tail == SubSeq(c.history, n + 1, Len(c.history))
            h == <<m>> \o tail
            O == c.openSteps \cap {x.step : x \in {y \in Range(h) : y.role = "assistant"}}
            d == [c EXCEPT !.history = h, !.openSteps = O]
<1>1. c.history \in Seq(Msg) /\ m \in Msg /\ m \in Speaking
  BY DEF CtxT, Msg, Speaking
<1>2. tail \in Seq(Msg)
  BY <1>1, LenProperties, SubSeqProperties
<1>. HIDE DEF tail
<1>3. <<m>> \in Seq(Msg) /\ Select(<<m>>, Speaking) = <<m>>
  <2>. DEFINE s == <<m>>
  <2>1. s \in Seq(Msg)
    BY <1>1
  <2>2. \A i \in DOMAIN s : s[i] \in Speaking
    BY <1>1
  <2>. HIDE DEF s
  <2>3. Select(s, Speaking) = s
    BY <2>1, <2>2, SelectAll
  <2>. QED  BY <2>1, <2>3 DEF s
<1>4. h \in Seq(Msg) /\ Select(h, Speaking) = v
  <2>. DEFINE s == <<m>>
  <2>1. s \in Seq(Msg) /\ Select(s, Speaking) = s
    BY <1>3
  <2>. HIDE DEF s
  <2>2. s \o tail \in Seq(Msg) /\ Select(s \o tail, Speaking) = s \o Select(tail, Speaking)
    BY <1>2, <2>1, VoicesConcat
  <2>. QED  BY <2>2 DEF s, tail
<1>5. applyCompaction(c, m, n) = flushDeferredMessagesIfToolExchangeClosed(d)
  BY DEF applyCompaction, CtxT, tail
<1>. HIDE DEF h
<1>6. O \in SUBSET c.openSteps /\ O \in SUBSET Nat
  BY DEF CtxT
<1>. HIDE DEF O
<1>7. /\ d \in CtxT /\ d.history = h /\ d.pendingToolResultIds = c.pendingToolResultIds
      /\ d.deferredMessages = c.deferredMessages /\ d.openSteps = O
  BY <1>4, <1>6 DEF CtxT
<1>. HIDE DEF d
<1>8. Voices(d) = v
  BY <1>4, <1>7 DEF Voices
<1>. QED  BY <1>5, <1>6, <1>7, <1>8, FlushBecomes

\* The empty conversation.
LEMMA EmptyBecomes == Becomes(EmptyContext, <<>>, {}, <<>>, {})
<1>1. IsFiniteSet({})
  BY FS_EmptySet
<1>2. EmptyContext \in CtxT
  BY <1>1, EmptySeq DEF EmptyContext, CtxT
<1>. QED  BY <1>2, SelectEmpty DEF Becomes, Voices, EmptyContext

-----------------------------------------------------------------------------
(* What messages cover *)

\* The inputs a message holds.
Holds == [m \in Msg |-> IF m.role = "user" THEN <<m.input>>
                        ELSE IF "covers" \in DOMAIN m THEN m.covers ELSE <<>>]

\* What a message holds: its input, or what it covers.
LEMMA HoldsForms ==
    /\ Holds \in [Msg -> Seq(Nat)]
    /\ \A m \in Msg : /\ m \in UserM => Holds[m] = <<m.input>>
                      /\ m \in SumM => Holds[m] = m.covers
                      /\ m \notin Speaking => Holds[m] = <<>>
<1>1. ASSUME NEW m \in Msg
      PROVE  /\ Holds[m] \in Seq(Nat)
             /\ m \in UserM => Holds[m] = <<m.input>>
             /\ m \in SumM => Holds[m] = m.covers
             /\ m \notin Speaking => Holds[m] = <<>>
  <2>1. m \in UserM => m.input \in Nat /\ m \notin SumM
    BY MsgForms DEF UserM, SumM
  <2>2. m \in SumM => m.covers \in Seq(Nat) /\ m.role # "user"
    BY DEF SumM
  <2>3. <<>> \in Seq(Nat)
    BY EmptySeq
  <2>4. m \in UserM => <<m.input>> \in Seq(Nat)
    BY <2>1
  <2>. QED  BY <2>1, <2>2, <2>3, <2>4, MsgForms DEF Holds, isSummary
<1>. QED  BY <1>1 DEF Holds

\* Covered gathers what the messages hold.
LEMMA CoveredGather ==
    ASSUME NEW h \in Seq(Msg)
    PROVE  Covered(h) = Gather(h, Holds) /\ Covered(h) \in Seq(Nat)
<1>1. \A i \in DOMAIN h : h[i] \in Msg
  BY ElementOfSeq, LenProperties
<1>2. [i \in DOMAIN h |-> Holds[h[i]]] =
      [i \in DOMAIN h |-> IF h[i].role = "user" THEN <<h[i].input>>
                          ELSE IF "covers" \in DOMAIN h[i] THEN h[i].covers ELSE <<>>]
  BY <1>1 DEF Holds
<1>3. Covered(h) = Gather(h, Holds)
  BY <1>2 DEF Covered, Gather
<1>4. Gather(h, Holds) \in Seq(Nat)
  BY HoldsForms, GatherType
<1>. QED  BY <1>3, <1>4

\* It covers what the parts cover.
LEMMA CoveredConcat ==
    ASSUME NEW h \in Seq(Msg), NEW r \in Seq(Msg)
    PROVE  Covered(h \o r) = Covered(h) \o Covered(r)
<1>1. h \o r \in Seq(Msg)
  BY ConcatProperties
<1>2. Gather(h \o r, Holds) = Gather(h, Holds) \o Gather(r, Holds)
  BY HoldsForms, GatherConcat
<1>3. Covered(h \o r) = Gather(h \o r, Holds)
  BY <1>1, CoveredGather
<1>. QED  BY <1>2, <1>3, CoveredGather

\* One message covers what it holds.
LEMMA CoveredOne ==
    ASSUME NEW m \in Msg
    PROVE  Covered(<<m>>) = Holds[m] /\ <<m>> \in Seq(Msg)
<1>. DEFINE s == <<m>>
<1>1. s \in Seq(Msg)
  OBVIOUS
<1>2. Covered(s) = Gather(s, Holds)
  <2>. HIDE DEF s
  <2>. QED  BY <1>1, CoveredGather
<1>3. Gather(<<m>>, Holds) = Holds[m]
  BY HoldsForms, GatherOne
<1>. QED  BY <1>1, <1>2, <1>3

\* A message more covers what it holds.
LEMMA CoveredAppend ==
    ASSUME NEW h \in Seq(Msg), NEW m \in Msg
    PROVE  Covered(Append(h, m)) = Covered(h) \o Holds[m]
<1>1. Append(h, m) \in Seq(Msg)
  BY AppendProperties
<1>2. Gather(Append(h, m), Holds) = Gather(h, Holds) \o Holds[m]
  BY HoldsForms, GatherAppend
<1>3. Covered(Append(h, m)) = Gather(Append(h, m), Holds)
  BY <1>1, CoveredGather
<1>. QED  BY <1>2, <1>3, CoveredGather

\* Nothing covers nothing.
LEMMA CoveredEmpty == Covered(<<>>) = <<>>
<1>1. Gather(<<>>, Holds) = <<>>
  BY GatherEmpty
<1>. QED  BY <1>1, EmptySeq, CoveredGather

\* Messages that hold no input add nothing.
LEMMA CoveredVoices ==
    ASSUME NEW h \in Seq(Msg)
    PROVE  Covered(Select(h, Speaking)) = Covered(h)
<1>1. Select(h, Speaking) = Gather(h, Only(Msg, Speaking)) /\ Select(h, Speaking) \in Seq(Msg)
  BY SelectGather, SelectType
<1>2. Gather(Gather(h, Only(Msg, Speaking)), Holds) = Gather(h, Holds)
  BY HoldsForms, GatherSelected
<1>3. Covered(Select(h, Speaking)) = Gather(Select(h, Speaking), Holds)
  BY <1>1, CoveredGather
<1>4. Covered(h) = Gather(h, Holds)
  BY CoveredGather
<1>. QED  BY <1>1, <1>2, <1>3, <1>4

\* Of what users say, Covered and Inputs are the same.
LEMMA CoveredUsers ==
    ASSUME NEW q \in Seq(UserM)
    PROVE  Covered(q) = Inputs(q) /\ q \in Seq(Msg)
<1>1. q \in Seq(Msg) /\ \A i \in DOMAIN q : q[i] \in UserM /\ q[i].role = "user"
  <2>1. q \in Seq(Msg)
    BY UserVoices
  <2>2. DOMAIN q = 1 .. Len(q) /\ \A i \in 1 .. Len(q) : q[i] \in UserM
    BY ElementOfSeq, LenProperties
  <2>3. \A m \in UserM : m.role = "user"
    BY DEF UserM
  <2>. QED  BY <2>1, <2>2, <2>3
<1>2. Covered(q) = Inputs(q)
  BY <1>1 DEF Covered, Inputs
<1>. QED  BY <1>1, <1>2

\* Messages that hold the same, one by one, cover the same.
LEMMA CoveredSame ==
    ASSUME NEW h \in Seq(Msg), NEW r \in Seq(Msg), Len(h) = Len(r),
           \A i \in 1 .. Len(h) : Holds[h[i]] = Holds[r[i]]
    PROVE  Covered(h) = Covered(r)
<1>1. DOMAIN h = 1 .. Len(h) /\ DOMAIN r = 1 .. Len(h)
  BY LenProperties
<1>2. [i \in DOMAIN h |-> Holds[h[i]]] = [i \in DOMAIN r |-> Holds[r[i]]]
  BY <1>1
<1>3. Gather(h, Holds) = Gather(r, Holds)
  BY <1>2 DEF Gather
<1>. QED  BY <1>3, CoveredGather

\* The elements of a concatenation are those of its parts.
LEMMA RangeConcat ==
    ASSUME NEW S, NEW a \in Seq(S), NEW c \in Seq(S)
    PROVE  Range(a \o c) = Range(a) \cup Range(c)
<1>1. /\ Len(a \o c) = Len(a) + Len(c) /\ a \o c \in Seq(S)
      /\ \A i \in 1 .. Len(a) + Len(c) : (a \o c)[i] = IF i <= Len(a) THEN a[i] ELSE c[i - Len(a)]
  BY ConcatProperties
<1>2. /\ DOMAIN a = 1 .. Len(a) /\ DOMAIN c = 1 .. Len(c) /\ Len(a) \in Nat /\ Len(c) \in Nat
      /\ DOMAIN (a \o c) = 1 .. Len(a) + Len(c)
  BY <1>1, LenProperties
<1>3. ASSUME NEW x \in Range(a \o c) PROVE x \in Range(a) \cup Range(c)
  <2>1. PICK i \in 1 .. Len(a) + Len(c) : x = (a \o c)[i]
    BY <1>2 DEF Range
  <2>2. i > Len(a) => i - Len(a) \in 1 .. Len(c)
    BY <1>2
  <2>. QED  BY <1>1, <1>2, <2>1, <2>2 DEF Range
<1>4. ASSUME NEW x \in Range(a) PROVE x \in Range(a \o c)
  <2>1. PICK i \in 1 .. Len(a) : x = a[i]
    BY <1>2 DEF Range
  <2>2. i \in 1 .. Len(a) + Len(c) /\ i <= Len(a)
    BY <1>2
  <2>. QED  BY <1>1, <1>2, <2>1, <2>2 DEF Range
<1>5. ASSUME NEW x \in Range(c) PROVE x \in Range(a \o c)
  <2>1. PICK i \in 1 .. Len(c) : x = c[i]
    BY <1>2 DEF Range
  <2>. DEFINE j == Len(a) + i
  <2>2. j \in 1 .. Len(a) + Len(c) /\ ~ (j <= Len(a)) /\ j - Len(a) = i
    BY <1>2
  <2>. HIDE DEF j
  <2>. QED  BY <1>1, <1>2, <2>1, <2>2 DEF Range
<1>. QED  BY <1>3, <1>4, <1>5

\* A sequence is its first elements and the others.
LEMMA Divide ==
    ASSUME NEW S, NEW h \in Seq(S), NEW n \in 0 .. Len(h)
    PROVE  /\ SubSeq(h, 1, n) \in Seq(S) /\ SubSeq(h, n + 1, Len(h)) \in Seq(S)
           /\ Len(SubSeq(h, 1, n)) = n
           /\ \A i \in 1 .. n : SubSeq(h, 1, n)[i] = h[i]
           /\ h = SubSeq(h, 1, n) \o SubSeq(h, n + 1, Len(h))
<1>. DEFINE a == SubSeq(h, 1, n)
            b == SubSeq(h, n + 1, Len(h))
<1>1. Len(h) \in Nat /\ n \in Nat /\ n <= Len(h)
  BY LenProperties
<1>2. a \in Seq(S) /\ Len(a) = n /\ \A i \in 1 .. n : a[i] = h[i]
  BY <1>1, SubSeqProperties
<1>3. b \in Seq(S) /\ Len(b) = Len(h) - n /\ \A i \in 1 .. Len(h) - n : b[i] = h[i + n]
  <2>1. b \in Seq(S) /\ Len(b) = (IF n + 1 <= Len(h) THEN Len(h) - (n + 1) + 1 ELSE 0)
        /\ \A i \in 1 .. Len(h) - (n + 1) + 1 : b[i] = h[(n + 1) + i - 1]
    BY <1>1, SubSeqProperties
  <2>2. (IF n + 1 <= Len(h) THEN Len(h) - (n + 1) + 1 ELSE 0) = Len(h) - n
    BY <1>1
  <2>3. Len(h) - (n + 1) + 1 = Len(h) - n /\ \A i \in 1 .. Len(h) - n : (n + 1) + i - 1 = i + n
    BY <1>1
  <2>. HIDE DEF b
  <2>. QED  BY <2>1, <2>2, <2>3
<1>. HIDE DEF a, b
<1>4. a \o b \in Seq(S) /\ Len(a \o b) = Len(h)
      /\ \A i \in 1 .. Len(h) : (a \o b)[i] = IF i <= n THEN a[i] ELSE b[i - n]
  BY <1>1, <1>2, <1>3, ConcatProperties
<1>5. \A i \in 1 .. Len(h) : (a \o b)[i] = h[i]
  <2>1. ASSUME NEW i \in 1 .. Len(h), i <= n PROVE (a \o b)[i] = h[i]
    BY <1>1, <1>2, <1>4, <2>1
  <2>2. ASSUME NEW i \in 1 .. Len(h), ~ (i <= n) PROVE (a \o b)[i] = h[i]
    <3>1. i - n \in 1 .. Len(h) - n /\ (i - n) + n = i
      BY <1>1, <2>2
    <3>. QED  BY <1>3, <1>4, <2>2, <3>1
  <2>. QED  BY <2>1, <2>2
<1>6. h = a \o b
  BY <1>4, <1>5, SeqEqual
<1>. QED  BY <1>2, <1>3, <1>6 DEF a, b

\* Of what has no repetition, selecting two parts leaves these.
LEMMA SelectParts ==
    ASSUME NEW S, NEW a \in Seq(S), NEW b \in Seq(S), NEW c \in Seq(S),
           Range(b) \cap Range(a) = {}, Range(b) \cap Range(c) = {}
    PROVE  Select((a \o b) \o c, Range(a \o c)) = a \o c
<1>. DEFINE T == Range(a \o c)
<1>1. Range(a \o c) = Range(a) \cup Range(c)
  BY RangeConcat
<1>. HIDE DEF T
<1>2. Select(a, T) = a
  BY <1>1, SelectAll DEF T, Range
<1>3. Select(c, T) = c
  BY <1>1, SelectAll DEF T, Range
<1>4. Select(b, T) = <<>>
  <2>1. Select(b, T) \in Seq(S) /\ Range(Select(b, T)) = {}
    BY <1>1, SelectType, SelectRange DEF T
  <2>. DEFINE v == Select(b, T)
  <2>2. Len(v) \in Nat /\ DOMAIN v = 1 .. Len(v) /\ v \in Seq(S) /\ Range(v) = {}
    BY <2>1, LenProperties
  <2>. HIDE DEF v
  <2>3. ASSUME Len(v) # 0 PROVE FALSE
    <3>1. 1 \in DOMAIN v
      BY <2>2, <2>3
    <3>. QED  BY <2>2, <3>1 DEF Range
  <2>4. v = <<>>
    BY <2>2, <2>3, EmptySeq
  <2>. QED  BY <2>4 DEF v
<1>5. a \o b \in Seq(S)
  BY ConcatProperties
<1>6. Select(a \o b, T) = Select(a, T) \o Select(b, T)
  BY SelectConcat
<1>7. Select((a \o b) \o c, T) = Select(a \o b, T) \o Select(c, T)
  <2>. DEFINE ab == a \o b
  <2>1. ab \in Seq(S)
    BY <1>5
  <2>. HIDE DEF ab
  <2>2. Select(ab \o c, T) = Select(ab, T) \o Select(c, T)
    BY <2>1, SelectConcat, SMTT(30)
  <2>. QED  BY <2>2 DEF ab
<1>8. a \o <<>> = a
  BY ConcatEmptySeq
<1>. QED  BY <1>2, <1>3, <1>4, <1>6, <1>7, <1>8 DEF T

-----------------------------------------------------------------------------
(* The workers *)

WorkInv ==
    \A w \in Workers :
        /\ work[w].history \in Seq(Msg)
        /\ work[w].pc = "busy" => work[w].cut \in 1 .. Len(work[w].history)
        /\ w > begun => work[w].pc = "unborn"

\* Workers that are through stay through, and messages a worker starts from are the
\* conversation's.
WorkGoesOn ==
    /\ WorkInv'
    /\ \A w \in Workers : work[w].pc = "over" => work'[w].pc = "over"
    /\ \A w \in Workers : \/ work'[w].history = work[w].history \/ work'[w].history = <<>>
                          \/ work'[w].history = ctx.history

\* A set of numbers below a bound has a greatest element.
LEMMA GreatestOf ==
    ASSUME NEW n \in Nat, NEW S, S \subseteq 1 .. n, S # {}
    PROVE  Max(S) \in S /\ \A y \in S : Max(S) >= y
<1>. DEFINE T == {k \in Nat : n - k \in S}
<1>1. T # {}
  <2>1. PICK x \in S : TRUE
    OBVIOUS
  <2>2. n - x \in Nat /\ n - (n - x) = x
    BY <2>1
  <2>. QED  BY <2>1, <2>2
<1>2. PICK k \in T : \A y \in T : k <= y
  BY <1>1, LeastNumber
<1>3. n - k \in S
  BY <1>2
<1>4. ASSUME NEW y \in S PROVE n - k >= y
  <2>1. n - y \in Nat /\ n - (n - y) = y
    OBVIOUS
  <2>2. n - y \in T
    BY <2>1
  <2>3. k <= n - y /\ k \in Nat /\ y \in Nat
    BY <1>2, <2>2
  <2>. QED  BY <2>3
<1>. QED  BY <1>3, <1>4 DEF Max

\* A cut is a place in the history.
LEMMA CutsWithin ==
    ASSUME ctx \in CtxT, NEW source, NEW n \in cuts(source)
    PROVE  n \in 1 .. Len(ctx.history)
<1>1. ctx.history \in Seq(Msg) /\ Len(ctx.history) \in Nat /\ DOMAIN ctx.history = 1 .. Len(ctx.history)
  BY LenProperties DEF CtxT
<1>2. splits(ctx.history) \subseteq 1 .. Len(ctx.history)
  BY <1>1 DEF splits
<1>3. CASE source = "auto"
  BY <1>2, <1>3 DEF cuts
<1>4. CASE source # "auto"
  <2>. DEFINE found == splits(ctx.history) \ {1}
  <2>1. found \subseteq 1 .. Len(ctx.history) /\ found # {} /\ n = Max(found)
    BY <1>2, <1>4 DEF cuts
  <2>. HIDE DEF found
  <2>. QED  BY <1>1, <2>1, GreatestOf
<1>. QED  BY <1>3, <1>4

\* A worker that begins starts from the conversation's messages.
LEMMA BeginWork ==
  ASSUME IInv, WorkInv, ctx \in CtxT, NEW source, NEW blocked, Begin(source, blocked)
  PROVE  WorkGoesOn
<1> USE CompactionAssumption DEF Workers
<1>1. CASE UNCHANGED <<compacting, work, begun>>
  BY <1>1 DEF WorkGoesOn, WorkInv
<1>2. CASE /\ begun < MaxCompactions
           /\ begun' = begun + 1 /\ compacting' = begun'
           /\ \E n \in cuts(source) :
                work' = [work EXCEPT ![begun'] = [Unborn EXCEPT !.pc = "busy",
                                                      !.history = ctx.history, !.cut = n,
                                                      !.blocked = blocked]]
  <2>1. PICK n \in cuts(source) :
                work' = [work EXCEPT ![begun'] = [Unborn EXCEPT !.pc = "busy",
                                                      !.history = ctx.history, !.cut = n,
                                                      !.blocked = blocked]]
    BY <1>2
  <2>2. n \in 1 .. Len(ctx.history) /\ ctx.history \in Seq(Msg)
    BY CutsWithin DEF CtxT
  <2>3. begun' \in Workers /\ begun \in 0 .. MaxCompactions /\ begun' = begun + 1 /\ DOMAIN work = Workers
    BY <1>2 DEF IInv, Shape
  <2>4. /\ work'[begun'].pc = "busy" /\ work'[begun'].history = ctx.history /\ work'[begun'].cut = n
        /\ \A w \in Workers : w # begun' => work'[w] = work[w]
    BY <2>1, <2>3 DEF Unborn
  <2>5. work[begun'].pc = "unborn"
    BY <2>3 DEF WorkInv
  <2>6. \A w \in Workers : w > begun' => w > begun
    BY <2>3
  <2>7. WorkInv'
    BY <2>2, <2>3, <2>4, <2>6 DEF WorkInv
  <2>. QED  BY <2>4, <2>5, <2>7 DEF WorkGoesOn
<1> QED BY <1>1, <1>2 DEF Begin

\* When none begins all keep theirs.
LEMMA NoneBeginsGoesOn ==
  ASSUME IInv, WorkInv, NEW blocked, BeginNone(blocked)
  PROVE  WorkGoesOn
<1>1. UNCHANGED begun /\ \A w \in Workers : /\ work'[w].pc = work[w].pc /\ work'[w].cut = work[w].cut
                                           /\ work'[w].history = work[w].history
  BY NoneBegins, NoneBeginsWork
<1>. QED  BY <1>1 DEF WorkInv, WorkGoesOn

\* One that is cancelled keeps them.
LEMMA CancelWork ==
  ASSUME IInv, WorkInv, work' = markCanceled(work), begun' = begun
  PROVE  WorkGoesOn
<1>1. \A w \in Workers : work'[w].pc = work[w].pc /\ work'[w].history = work[w].history
                            /\ work'[w].cut = work[w].cut
  BY DEF markCanceled, IInv, Shape, IsWork
<1>. QED  BY <1>1 DEF WorkInv, WorkGoesOn

\* One that is through forgets them.
LEMMA OverWork ==
  ASSUME IInv, WorkInv, NEW w \in Workers, NEW o, work[w].pc = "busy",
         work' = [work EXCEPT ![w] = [Unborn EXCEPT !.pc = "over", !.outcome = o]],
         begun' = begun
  PROVE  WorkGoesOn /\ work'[w].pc = "over" /\ work'[w].history = <<>>
<1>1. /\ work'[w].pc = "over" /\ work'[w].history = <<>>
      /\ \A v \in Workers : v # w => work'[v] = work[v]
  BY DEF IInv, Shape, Unborn
<1>2. w <= begun /\ begun \in Nat /\ w \in Nat
  BY CompactionAssumption, SMTT(30) DEF WorkInv, IInv, Shape, Workers
<1>. QED  BY <1>1, <1>2, EmptySeq DEF WorkInv, WorkGoesOn

\* The others go on.
LEMMA SameWork ==
  ASSUME WorkInv, UNCHANGED <<work, begun>>
  PROVE  WorkGoesOn
BY DEF WorkInv, WorkGoesOn

\* So it is with every step.
LEMMA WorkStep ==
  ASSUME IInv, WorkInv, ctx \in CtxT, [Next]_vars
  PROVE  WorkGoesOn
<1>1. CASE Prompt
  BY <1>1, SameWork DEF Prompt
<1>2. CASE Cancel
  BY <1>2, SameWork, CancelWork DEF Cancel
<1>3. CASE BeforeStep
  BY <1>3, SameWork, BeginWork, NoneBeginsGoesOn DEF BeforeStep, BeginAuto
<1>4. CASE Released
  BY <1>4, SameWork DEF Released
<1>5. CASE StepBegin \/ ContentPart \/ LLMAnswers \/ Fail \/ ToolCall \/ ToolResult \/ Seal \/ End
  BY <1>5, SameWork DEF StepBegin, ContentPart, LLMAnswers, Fail, ToolCall, ToolResult, Seal, End
<1>6. CASE Overflow
  BY <1>6, SameWork, BeginWork, NoneBeginsGoesOn DEF Overflow, BeginAuto
<1>7. CASE AfterStep
  BY <1>7, SameWork, BeginWork, NoneBeginsGoesOn DEF AfterStep, BeginAuto
<1>8. CASE BlockTimeout
  BY <1>8, CancelWork DEF BlockTimeout
<1>9. CASE Compact
  BY <1>9, BeginWork DEF Compact
<1>10. CASE CancelCompaction
  BY <1>10, CancelWork DEF CancelCompaction
<1>11. CASE Undo \/ Clear \/ SnapshotWritten
  BY <1>11, SameWork DEF Undo, Clear, SnapshotWritten
<1>12. ASSUME NEW w \in Workers, Summarised(w)
       PROVE  WorkGoesOn
  BY <1>12, OverWork DEF Summarised
<1>13. ASSUME NEW w \in Workers, Failed(w)
       PROVE  WorkGoesOn
  <2>1. begun' = begun /\ work[w].pc = "busy"
    BY <1>13 DEF Failed
  <2>2. \E o : work' = [work EXCEPT ![w] = [Unborn EXCEPT !.pc = "over", !.outcome = o]]
    BY <1>13 DEF Failed
  <2> QED BY <2>1, <2>2, OverWork
<1>14. CASE CrashAndResume
  <2>1. \A w \in Workers : /\ work'[w].history = <<>>
                           /\ work'[w].pc = IF w <= begun THEN "over" ELSE "unborn"
    BY <1>14 DEF CrashAndResume, Unborn
  <2>2. begun' = begun /\ begun \in Nat /\ \A w \in Workers : w \in Nat
    BY <1>14, CompactionAssumption DEF CrashAndResume, IInv, Shape, Workers
  <2>3. \A w \in Workers : work[w].pc = "over" => w <= begun
    BY <2>2 DEF WorkInv
  <2>4. WorkInv'
    <3>1. <<>> \in Seq(Msg)
      BY EmptySeq
    <3>2. ASSUME NEW w \in Workers
          PROVE  /\ work'[w].history \in Seq(Msg) /\ work'[w].pc # "busy"
                 /\ w > begun' => work'[w].pc = "unborn"
      <4>1. work'[w].history = <<>> /\ work'[w].pc = IF w <= begun THEN "over" ELSE "unborn"
        BY <2>1
      <4>2. w \in Nat /\ begun \in Nat /\ begun' = begun
        BY <2>2
      <4>3. w > begun' => ~ (w <= begun)
        BY <4>2
      <4>. QED  BY <4>1, <4>3, <3>1
    <3>. QED  BY <3>2 DEF WorkInv
  <2> QED BY <2>1, <2>3, <2>4 DEF WorkGoesOn
<1>15. CASE UNCHANGED vars
  BY <1>15, SameWork DEF vars
<1> QED
  BY <1>1, <1>2, <1>3, <1>4, <1>5, <1>6, <1>7, <1>8, <1>9, <1>10, <1>11, <1>12, <1>13, <1>14,
     <1>15 DEF Next, TurnStep, AtRest

-----------------------------------------------------------------------------
\* What a record does to the live conversation and to the log's.
LEMMA Recorded ==
    /\ \A n : Record([type |-> "message", input |-> n]) =>
          /\ ctx' = appendMessage(ctx, <<Input(n)>>) /\ wire' = appendMessage(wire, <<Input(n)>>)
          /\ (doubled' <=> doubled)
    /\ \A s : Record([type |-> "step.begin", step |-> s]) =>
          ctx' = stepBegin(ctx, s) /\ wire' = stepBegin(wire, s) /\ (doubled' <=> doubled)
    /\ Record([type |-> "step.end"]) =>
          ctx' = stepEnd(ctx) /\ wire' = stepEnd(wire) /\ (doubled' <=> doubled)
    /\ \A s : Record([type |-> "content.part", step |-> s]) =>
          /\ ctx' = contentPart(ctx, s)
          /\ wire' = contentPart(wire, s) \/ (doubled' /\ wire' = contentPart(contentPart(wire, s), s))
          /\ doubled => doubled'
          /\ ~ doubled' => wire' = contentPart(wire, s)
    /\ \A s, id : Record([type |-> "tool.call", step |-> s, id |-> id]) =>
          /\ ctx' = toolCall(ctx, s, id)
          /\ wire' = toolCall(wire, s, id) \/ (doubled' /\ wire' = toolCall(toolCall(wire, s, id), s, id))
          /\ doubled => doubled'
          /\ ~ doubled' => wire' = toolCall(wire, s, id)
    /\ \A id : Record([type |-> "tool.result", id |-> id]) =>
          ctx' = toolResult(ctx, id) /\ wire' = toolResult(wire, id) /\ (doubled' <=> doubled)
    /\ Record([type |-> "clear"]) => ctx' = clear(ctx) /\ wire' = clear(wire) /\ (doubled' <=> doubled)
    /\ Record([type |-> "undo"]) => ctx' = undo(ctx) /\ wire' = undo(wire) /\ (doubled' <=> doubled)
<1>1. ASSUME NEW r, Record(r)
      PROVE  /\ ctx' = restore(ctx, r)
             /\ r.type \notin {"content.part", "tool.call"} => wire' = restore(wire, r) /\ (doubled' <=> doubled)
             /\ wire' = restore(wire, r) \/ (doubled' /\ wire' = restore(restore(wire, r), r))
             /\ doubled => doubled'
             /\ ~ doubled' => wire' = restore(wire, r)
  <2>. DEFINE again == r.type \in {"content.part", "tool.call"} /\ r.step \in aliased
  <2>1. /\ ctx' = restore(ctx, r)
        /\ wire' = IF again THEN restore(restore(wire, r), r) ELSE restore(wire, r)
        /\ doubled' <=> (doubled \/ again)
    <3>1. /\ ctx' = restore(ctx, r)
          /\ wire' = IF again THEN restore(restore(wire, r), r) ELSE restore(wire, r)
          /\ doubled' = (doubled \/ again)
      BY <1>1 DEF Record, Log
    <3>. HIDE DEF again
    <3>. QED  BY <3>1
  <2>2. r.type \notin {"content.part", "tool.call"} => ~ again
    OBVIOUS
  <2>. HIDE DEF again
  <2>. QED  BY <2>1, <2>2
<1>2. \A n, c : restore(c, [type |-> "message", input |-> n]) = appendMessage(c, <<Input(n)>>)
  BY DEF restore
<1>3. \A s, c : restore(c, [type |-> "step.begin", step |-> s]) = stepBegin(c, s)
  BY DEF restore
<1>4. \A c : restore(c, [type |-> "step.end"]) = stepEnd(c)
  BY DEF restore
<1>5. \A s, c : restore(c, [type |-> "content.part", step |-> s]) = contentPart(c, s)
  BY DEF restore
<1>6. \A s, id, c : restore(c, [type |-> "tool.call", step |-> s, id |-> id]) = toolCall(c, s, id)
  BY DEF restore
<1>7. \A id, c : restore(c, [type |-> "tool.result", id |-> id]) = toolResult(c, id)
  BY DEF restore
<1>8. \A c : restore(c, [type |-> "clear"]) = clear(c)
  BY DEF restore
<1>9. \A c : restore(c, [type |-> "undo"]) = undo(c)
  BY DEF restore
<1>10. ASSUME NEW n, Record([type |-> "message", input |-> n])
       PROVE  /\ ctx' = appendMessage(ctx, <<Input(n)>>) /\ wire' = appendMessage(wire, <<Input(n)>>)
              /\ doubled' <=> doubled
  BY <1>1, <1>2, <1>10
<1>11. ASSUME NEW s, Record([type |-> "step.begin", step |-> s])
       PROVE  ctx' = stepBegin(ctx, s) /\ wire' = stepBegin(wire, s) /\ (doubled' <=> doubled)
  BY <1>1, <1>3, <1>11
<1>12. ASSUME Record([type |-> "step.end"])
       PROVE  ctx' = stepEnd(ctx) /\ wire' = stepEnd(wire) /\ (doubled' <=> doubled)
  BY <1>1, <1>4, <1>12
<1>13. ASSUME NEW s, Record([type |-> "content.part", step |-> s])
       PROVE  /\ ctx' = contentPart(ctx, s)
              /\ wire' = contentPart(wire, s) \/ (doubled' /\ wire' = contentPart(contentPart(wire, s), s))
              /\ doubled => doubled'
              /\ ~ doubled' => wire' = contentPart(wire, s)
  BY <1>1, <1>5, <1>13
<1>14. ASSUME NEW s, NEW id, Record([type |-> "tool.call", step |-> s, id |-> id])
       PROVE  /\ ctx' = toolCall(ctx, s, id)
              /\ wire' = toolCall(wire, s, id) \/ (doubled' /\ wire' = toolCall(toolCall(wire, s, id), s, id))
              /\ doubled => doubled'
              /\ ~ doubled' => wire' = toolCall(wire, s, id)
  BY <1>1, <1>6, <1>14
<1>15. ASSUME NEW id, Record([type |-> "tool.result", id |-> id])
       PROVE  ctx' = toolResult(ctx, id) /\ wire' = toolResult(wire, id) /\ (doubled' <=> doubled)
  BY <1>1, <1>7, <1>15
<1>16. Record([type |-> "clear"]) => ctx' = clear(ctx) /\ wire' = clear(wire) /\ (doubled' <=> doubled)
  BY <1>1, <1>8
<1>17. Record([type |-> "undo"]) => ctx' = undo(ctx) /\ wire' = undo(wire) /\ (doubled' <=> doubled)
  BY <1>1, <1>9
<1>. QED  BY <1>10, <1>11, <1>12, <1>13, <1>14, <1>15, <1>16, <1>17, Zenon

-----------------------------------------------------------------------------
(* The live conversation beside the one of the log *)

Alike(c, d) ==
    /\ Voices(c) = Voices(d)
    /\ c.pendingToolResultIds = d.pendingToolResultIds /\ c.deferredMessages = d.deferredMessages

Paired(c, d) == c \in CtxT /\ d \in CtxT /\ Alike(c, d) /\ NothingStranded(c)

\* The two become alike.
LEMMA BecomePaired ==
    ASSUME NEW c, NEW d, NEW v, NEW P, NEW q, NEW O, NEW U,
           Becomes(c, v, P, q, O), Becomes(d, v, P, q, U), q # <<>> => P # {}
    PROVE  Paired(c, d) /\ c.openSteps = O /\ d.openSteps = U
BY DEF Becomes, Paired, Alike, NothingStranded, hasOpenToolExchange

\* What alike conversations share.
LEMMA Pairs ==
    ASSUME NEW c, NEW d, Paired(c, d)
    PROVE  /\ c \in CtxT /\ d \in CtxT /\ Voices(d) = Voices(c)
           /\ d.pendingToolResultIds = c.pendingToolResultIds
           /\ d.deferredMessages = c.deferredMessages
           /\ c.deferredMessages # <<>> => c.pendingToolResultIds # {}
           /\ Voices(c) \in Seq(Msg) /\ c.deferredMessages \in Seq(UserM)
           /\ c.pendingToolResultIds \in SUBSET Ids
BY SelectType DEF Paired, Alike, NothingStranded, hasOpenToolExchange, CtxT, Voices

\* Each operation, applied to both, keeps them alike.
LEMMA AppendPaired ==
    ASSUME NEW c, NEW d, Paired(c, d), NEW n \in Nat
    PROVE  Paired(appendMessage(c, <<Input(n)>>), appendMessage(d, <<Input(n)>>))
<1>. DEFINE m == <<Input(n)>>
<1>1. CASE c.pendingToolResultIds # {}
  <2>1. /\ Becomes(appendMessage(c, m), Voices(c), c.pendingToolResultIds, c.deferredMessages \o m, c.openSteps)
        /\ Becomes(appendMessage(d, m), Voices(c), c.pendingToolResultIds, c.deferredMessages \o m, d.openSteps)
    BY <1>1, Pairs, AppendBecomes
  <2>. HIDE DEF m
  <2>. QED  BY <1>1, <2>1, BecomePaired DEF m
<1>2. CASE c.pendingToolResultIds = {}
  <2>1. /\ Becomes(appendMessage(c, m), Voices(c) \o m, c.pendingToolResultIds, c.deferredMessages, c.openSteps)
        /\ Becomes(appendMessage(d, m), Voices(c) \o m, c.pendingToolResultIds, c.deferredMessages, d.openSteps)
    BY <1>2, Pairs, AppendBecomes
  <2>2. c.deferredMessages = <<>>
    BY <1>2, Pairs
  <2>. HIDE DEF m
  <2>. QED  BY <2>1, <2>2, BecomePaired DEF m
<1>. QED  BY <1>1, <1>2

\* So does a step that begins, which is then open in both.
LEMMA BeginPaired ==
    ASSUME NEW c, NEW d, Paired(c, d), NEW s \in Nat
    PROVE  /\ Paired(stepBegin(c, s), stepBegin(d, s))
           /\ s \in stepBegin(c, s).openSteps /\ s \in stepBegin(d, s).openSteps
<1>1. /\ Becomes(stepBegin(c, s), Voices(c), c.pendingToolResultIds, c.deferredMessages, c.openSteps \cup {s})
      /\ Becomes(stepBegin(d, s), Voices(c), c.pendingToolResultIds, c.deferredMessages, d.openSteps \cup {s})
  BY Pairs, BeginBecomes
<1>2. c.deferredMessages # <<>> => c.pendingToolResultIds # {}
  BY Pairs
<1>. QED  BY <1>1, <1>2, BecomePaired

\* So does a content part, once or twice.
LEMMA PartPaired ==
    ASSUME NEW c, NEW d, Paired(c, d), NEW s \in Nat
    PROVE  /\ Paired(contentPart(c, s), contentPart(d, s))
           /\ Paired(contentPart(c, s), contentPart(contentPart(d, s), s))
           /\ contentPart(c, s).openSteps = c.openSteps
           /\ contentPart(d, s).openSteps = d.openSteps
           /\ contentPart(contentPart(d, s), s).openSteps = d.openSteps
<1>. DEFINE e == contentPart(d, s)
<1>1. /\ Becomes(contentPart(c, s), Voices(c), c.pendingToolResultIds, c.deferredMessages, c.openSteps)
      /\ Becomes(e, Voices(c), c.pendingToolResultIds, c.deferredMessages, d.openSteps)
  BY Pairs, EventsBecome
<1>2. c.deferredMessages # <<>> => c.pendingToolResultIds # {}
  BY Pairs
<1>. HIDE DEF e
<1>3. Becomes(contentPart(e, s), Voices(c), c.pendingToolResultIds, c.deferredMessages, d.openSteps)
  <2>1. e \in CtxT /\ Voices(e) = Voices(c) /\ e.openSteps = d.openSteps
        /\ e.pendingToolResultIds = c.pendingToolResultIds /\ e.deferredMessages = c.deferredMessages
    BY <1>1 DEF Becomes
  <2>2. Becomes(contentPart(e, s), Voices(e), e.pendingToolResultIds, e.deferredMessages, e.openSteps)
    BY <2>1, EventsBecome
  <2>. QED  BY <2>1, <2>2
<1>4. Paired(contentPart(c, s), e) /\ contentPart(c, s).openSteps = c.openSteps /\ e.openSteps = d.openSteps
  BY <1>1, <1>2, BecomePaired
<1>5. Paired(contentPart(c, s), contentPart(e, s)) /\ contentPart(e, s).openSteps = d.openSteps
  BY <1>1, <1>2, <1>3, BecomePaired
<1>. QED  BY <1>4, <1>5 DEF e

\* So does a tool call, once or twice, if its step is open in both or in neither.
LEMMA CallPaired ==
    ASSUME NEW c, NEW d, Paired(c, d), NEW s \in Nat, s \in c.openSteps <=> s \in d.openSteps,
           NEW id \in Ids
    PROVE  /\ Paired(toolCall(c, s, id), toolCall(d, s, id))
           /\ Paired(toolCall(c, s, id), toolCall(toolCall(d, s, id), s, id))
           /\ toolCall(c, s, id).openSteps = c.openSteps
           /\ toolCall(d, s, id).openSteps = d.openSteps
           /\ toolCall(toolCall(d, s, id), s, id).openSteps = d.openSteps
<1>. DEFINE e == toolCall(d, s, id)
            P == IF s \in c.openSteps THEN c.pendingToolResultIds \cup {id} ELSE c.pendingToolResultIds
<1>1. /\ Becomes(toolCall(c, s, id), Voices(c), P, c.deferredMessages, c.openSteps)
      /\ Becomes(e, Voices(c), P, c.deferredMessages, d.openSteps)
  BY Pairs, EventsBecome
<1>2. c.deferredMessages # <<>> => P # {}
  BY Pairs
<1>3. P = IF s \in c.openSteps THEN P \cup {id} ELSE P
  OBVIOUS
<1>. HIDE DEF e, P
<1>4. Becomes(toolCall(e, s, id), Voices(c), P, c.deferredMessages, d.openSteps)
  <2>1. e \in CtxT /\ Voices(e) = Voices(c) /\ e.openSteps = d.openSteps
        /\ e.pendingToolResultIds = P /\ e.deferredMessages = c.deferredMessages
    BY <1>1 DEF Becomes
  <2>2. Becomes(toolCall(e, s, id), Voices(e),
                IF s \in e.openSteps THEN e.pendingToolResultIds \cup {id} ELSE e.pendingToolResultIds,
                e.deferredMessages, e.openSteps)
    BY <2>1, EventsBecome
  <2>. QED  BY <1>3, <2>1, <2>2
<1>5. Paired(toolCall(c, s, id), e) /\ toolCall(c, s, id).openSteps = c.openSteps /\ e.openSteps = d.openSteps
  BY <1>1, <1>2, BecomePaired
<1>6. Paired(toolCall(c, s, id), toolCall(e, s, id)) /\ toolCall(e, s, id).openSteps = d.openSteps
  BY <1>1, <1>2, <1>4, BecomePaired
<1>. QED  BY <1>5, <1>6 DEF e

\* So do results.
LEMMA ResultsPaired ==
    ASSUME NEW c, NEW d, Paired(c, d), NEW ids \in Seq(Ids)
    PROVE  /\ Paired(toolResults(c, ids), toolResults(d, ids))
           /\ toolResults(c, ids).openSteps = c.openSteps
           /\ toolResults(d, ids).openSteps = d.openSteps
           /\ \/ /\ Voices(toolResults(c, ids)) = Voices(c)
                 /\ toolResults(c, ids).deferredMessages = c.deferredMessages
              \/ /\ Voices(toolResults(c, ids)) = Voices(c) \o c.deferredMessages
                 /\ toolResults(c, ids).deferredMessages = <<>>
<1>. DEFINE P == c.pendingToolResultIds \ Range(ids)
            v == IF P = {} THEN Voices(c) \o c.deferredMessages ELSE Voices(c)
            q == IF P = {} THEN <<>> ELSE c.deferredMessages
<1>1. P = d.pendingToolResultIds \ Range(ids)
  BY Pairs
<1>. HIDE DEF P
<1>2. Becomes(toolResults(c, ids), v, P, q, c.openSteps)
  BY Pairs, ResultsBecome DEF P
<1>3. Becomes(toolResults(d, ids), v, P, q, d.openSteps)
  BY <1>1, Pairs, ResultsBecome
<1>4. q # <<>> => P # {}
  OBVIOUS
<1>5. Voices(toolResults(c, ids)) = v /\ toolResults(c, ids).deferredMessages = q
  BY <1>2 DEF Becomes
<1>6. \/ v = Voices(c) /\ q = c.deferredMessages
      \/ v = Voices(c) \o c.deferredMessages /\ q = <<>>
  OBVIOUS
<1>. HIDE DEF v, q
<1>7. /\ Paired(toolResults(c, ids), toolResults(d, ids))
      /\ toolResults(c, ids).openSteps = c.openSteps
      /\ toolResults(d, ids).openSteps = d.openSteps
  BY <1>2, <1>3, <1>4, BecomePaired
<1>. QED  BY <1>5, <1>6, <1>7

\* So does the end of a step.
LEMMA FlushPaired ==
    ASSUME NEW c, NEW d, Paired(c, d)
    PROVE  /\ Paired(stepEnd(c), stepEnd(d))
           /\ stepEnd(c).openSteps = c.openSteps /\ stepEnd(d).openSteps = d.openSteps
           /\ \/ /\ Voices(stepEnd(c)) = Voices(c) /\ stepEnd(c).deferredMessages = c.deferredMessages
              \/ /\ Voices(stepEnd(c)) = Voices(c) \o c.deferredMessages
                 /\ stepEnd(c).deferredMessages = <<>>
<1>. DEFINE P == c.pendingToolResultIds
            v == IF P = {} THEN Voices(c) \o c.deferredMessages ELSE Voices(c)
            q == IF P = {} THEN <<>> ELSE c.deferredMessages
<1>2. Becomes(stepEnd(c), v, P, q, c.openSteps)
  BY Pairs, FlushBecomes DEF stepEnd
<1>3. Becomes(stepEnd(d), v, P, q, d.openSteps)
  BY Pairs, FlushBecomes DEF stepEnd
<1>4. q # <<>> => P # {}
  OBVIOUS
<1>5. Voices(stepEnd(c)) = v /\ stepEnd(c).deferredMessages = q
  BY <1>2 DEF Becomes
<1>6. \/ v = Voices(c) /\ q = c.deferredMessages
      \/ v = Voices(c) \o c.deferredMessages /\ q = <<>>
  OBVIOUS
<1>. HIDE DEF v, q, P
<1>7. Paired(stepEnd(c), stepEnd(d)) /\ stepEnd(c).openSteps = c.openSteps /\ stepEnd(d).openSteps = d.openSteps
  BY <1>2, <1>3, <1>4, BecomePaired
<1>. QED  BY <1>5, <1>6, <1>7

\* So does undo.
LEMMA UndoPaired ==
    ASSUME NEW c, NEW d, Paired(c, d)
    PROVE  /\ Paired(undo(c), undo(d))
           /\ Voices(undo(c)) = Curtail(Voices(c)) /\ undo(c).deferredMessages = c.deferredMessages
<1>1. /\ Becomes(undo(c), Curtail(Voices(c)), c.pendingToolResultIds, c.deferredMessages, c.openSteps)
      /\ Becomes(undo(d), Curtail(Voices(c)), c.pendingToolResultIds, c.deferredMessages, d.openSteps)
  BY Pairs, UndoBecomes
<1>2. c.deferredMessages # <<>> => c.pendingToolResultIds # {}
  BY Pairs
<1>3. Paired(undo(c), undo(d))
  BY <1>1, <1>2, BecomePaired
<1>. QED  BY <1>1, <1>3 DEF Becomes

\* Dropping what no provider would take leaves the two alike, even on one side.
LEMMA DropPaired ==
    ASSUME NEW c, NEW d, Paired(c, d)
    PROVE  /\ Paired(dropVacuousOpenMessages(c), d)
           /\ Voices(dropVacuousOpenMessages(c)) = Voices(c)
           /\ dropVacuousOpenMessages(c).deferredMessages = c.deferredMessages
           /\ Paired(dropVacuousOpenMessages(d), d)
           /\ Voices(dropVacuousOpenMessages(d)) = Voices(c)
           /\ dropVacuousOpenMessages(d).deferredMessages = c.deferredMessages
<1>. DEFINE Oc == c.openSteps \ {m.step : m \in {n \in Range(c.history) : isVacuous(c, n)}}
            Od == d.openSteps \ {m.step : m \in {n \in Range(d.history) : isVacuous(d, n)}}
<1>1. /\ Becomes(dropVacuousOpenMessages(c), Voices(c), c.pendingToolResultIds, c.deferredMessages, Oc)
      /\ Becomes(dropVacuousOpenMessages(d), Voices(c), c.pendingToolResultIds, c.deferredMessages, Od)
      /\ Becomes(d, Voices(c), c.pendingToolResultIds, c.deferredMessages, d.openSteps)
  BY Pairs, DropBecomes DEF Becomes
<1>2. c.deferredMessages # <<>> => c.pendingToolResultIds # {}
  BY Pairs
<1>. HIDE DEF Oc, Od
<1>3. Paired(dropVacuousOpenMessages(c), d) /\ Paired(dropVacuousOpenMessages(d), d)
  BY <1>1, <1>2, BecomePaired
<1>. QED  BY <1>1, <1>3 DEF Becomes

-----------------------------------------------------------------------------
(* The conversation goes on *)

\* What a snapshot saves of the open steps is all there is after a compaction.
LEMMA SnapshotWhole ==
    ASSUME NEW c \in CtxT, NEW m \in SumM, NEW n \in 0 .. Len(c.history)
    PROVE  toJSONSnapshot(applyCompaction(c, m, n)) = applyCompaction(c, m, n)
<1>. DEFINE tail == SubSeq(c.history, n + 1, Len(c.history))
            h == <<m>> \o tail
            A(s) == {x.step : x \in {y \in Range(s) : y.role = "assistant"}}
            O == c.openSteps \cap A(h)
            d == [c EXCEPT !.history = h, !.openSteps = O]
            e == flushDeferredMessagesIfToolExchangeClosed(d)
<1>1. c.history \in Seq(Msg) /\ m \in Msg /\ c.deferredMessages \in Seq(Msg)
  BY UserMessages DEF CtxT, Msg
<1>2. h \in Seq(Msg)
  <2>1. tail \in Seq(Msg)
    BY <1>1, LenProperties, SubSeqProperties
  <2>. DEFINE s == <<m>>
  <2>2. s \in Seq(Msg)
    BY <1>1
  <2>. HIDE DEF s, tail
  <2>3. s \o tail \in Seq(Msg)
    BY <2>1, <2>2, ConcatProperties
  <2>. QED  BY <2>3 DEF s
<1>3. applyCompaction(c, m, n) = e
  BY DEF applyCompaction, CtxT
<1>. HIDE DEF h
<1>4. d.history = h /\ d.openSteps = O /\ d.deferredMessages = c.deferredMessages
      /\ DOMAIN d = {"history", "openSteps", "pendingToolResultIds", "deferredMessages"}
      /\ d = [d EXCEPT !.openSteps = O]
  BY DEF CtxT
<1>. HIDE DEF d
<1>5. \/ e = d
      \/ e = [d EXCEPT !.history = h \o c.deferredMessages, !.deferredMessages = <<>>]
  BY <1>4 DEF flushDeferredMessagesIfToolExchangeClosed, hasOpenToolExchange
<1>6. A(h) \subseteq A(h \o c.deferredMessages)
  <2>1. Range(h) \subseteq Range(h \o c.deferredMessages)
    <3>1. /\ DOMAIN h = 1 .. Len(h) /\ Len(h) \in Nat /\ Len(c.deferredMessages) \in Nat
          /\ DOMAIN (h \o c.deferredMessages) = 1 .. Len(h) + Len(c.deferredMessages)
          /\ \A i \in 1 .. Len(h) : (h \o c.deferredMessages)[i] = h[i]
      BY <1>1, <1>2, LenProperties, ConcatProperties
    <3>. QED  BY <3>1 DEF Range
  <2>. QED  BY <2>1
<1>7. CASE e = d
  <2>1. toJSONSnapshot(e) = [d EXCEPT !.openSteps = O \cap A(h)]
    BY <1>4, <1>7 DEF toJSONSnapshot
  <2>2. O \cap A(h) = O
    OBVIOUS
  <2>. QED  BY <1>3, <1>4, <1>7, <2>1, <2>2
<1>8. CASE e = [d EXCEPT !.history = h \o c.deferredMessages, !.deferredMessages = <<>>]
  <2>. DEFINE hh == h \o c.deferredMessages
  <2>1. O \cap A(hh) = O
    BY <1>6
  <2>2. e.history = hh /\ e.openSteps = O /\ e = [e EXCEPT !.openSteps = O]
    BY <1>4, <1>8
  <2>. HIDE DEF hh, e, O
  <2>3. toJSONSnapshot(e) = [e EXCEPT !.openSteps = O \cap A(hh)]
    BY <2>2 DEF toJSONSnapshot
  <2>. QED  BY <1>3, <2>1, <2>2, <2>3
<1>. QED  BY <1>5, <1>7, <1>8

-----------------------------------------------------------------------------
\* The live conversation and the log's agree on what holds inputs, on the calls that wait and
\* on the messages held back; the step in flight is open in both or in neither.
ConversationInv ==
    /\ Paired(ctx, wire)
    /\ inputs \in Nat /\ steps \in Nat /\ turn.called \in Nat /\ turn.answered \in Nat
    /\ turn.pc \in {"llm", "tools"} => (steps \in ctx.openSteps <=> steps \in wire.openSteps)

\* What a step may do to what holds inputs.
Delivers ==
    /\ inputs' = inputs /\ kept' = kept
    /\ \/ Voices(ctx') = Voices(ctx) /\ ctx'.deferredMessages = ctx.deferredMessages
       \/ Voices(ctx') = Voices(ctx) \o ctx.deferredMessages /\ ctx'.deferredMessages = <<>>

TakesIn ==
    /\ inputs' = inputs + 1 /\ kept' = Append(kept, inputs')
    /\ \/ /\ Voices(ctx') = Voices(ctx)
          /\ ctx'.deferredMessages = ctx.deferredMessages \o <<Input(inputs')>>
       \/ /\ Voices(ctx') = Voices(ctx) \o <<Input(inputs')>>
          /\ ctx.deferredMessages = <<>> /\ ctx'.deferredMessages = <<>>

TakesBack ==
    /\ inputs' = inputs
    /\ kept' = Select(kept, Range(Covered(ctx'.history) \o Inputs(ctx'.deferredMessages)))
    /\ Voices(ctx') = Curtail(Voices(ctx)) /\ ctx'.deferredMessages = ctx.deferredMessages

Forgets ==
    /\ inputs' = inputs /\ kept' = <<>>
    /\ Voices(ctx') = <<>> /\ ctx'.deferredMessages = <<>>

CutsShort(w, n) ==
    LET v == <<Summary(w, SubSeq(work[w].history, 1, n))>>
                \o Select(SubSeq(ctx.history, n + 1, Len(ctx.history)), Speaking)
    IN  /\ inputs' = inputs /\ kept' = kept
        /\ work[w].pc = "busy" /\ work'[w].pc = "over" /\ unchangedSince(w)
        /\ n \in 1 .. Len(work[w].history)
        /\ \/ Voices(ctx') = v /\ ctx'.deferredMessages = ctx.deferredMessages
           \/ Voices(ctx') = v \o ctx.deferredMessages /\ ctx'.deferredMessages = <<>>

Shortens == \E w \in Workers : \E n \in Nat : CutsShort(w, n)

ConversationGoesOn ==
    ConversationInv' /\ (Delivers \/ TakesIn \/ TakesBack \/ Forgets \/ Shortens)

\* A step that leaves the conversation alone delivers nothing.
LEMMA SameConversation ==
    ASSUME ConversationInv, UNCHANGED <<ctx, wire, inputs, steps, kept>>,
           turn'.called \in Nat, turn'.answered \in Nat,
           turn'.pc \in {"llm", "tools"} => turn.pc \in {"llm", "tools"}
    PROVE  ConversationGoesOn
BY DEF ConversationInv, ConversationGoesOn, Delivers

\* A step keeps the invariant if it keeps its parts.
LEMMA NextConversation ==
    ASSUME ConversationInv, Paired(ctx', wire'), inputs' \in Nat, steps' \in Nat,
           turn'.called \in Nat, turn'.answered \in Nat,
           turn'.pc \in {"llm", "tools"} => (steps' \in ctx'.openSteps <=> steps' \in wire'.openSteps),
           Delivers \/ TakesIn \/ TakesBack \/ Forgets \/ Shortens
    PROVE  ConversationGoesOn
BY DEF ConversationInv, ConversationGoesOn

\* Prompt takes an input in.
LEMMA PromptConversation ==
    ASSUME ConversationInv, Waiting, Prompt
    PROVE  ConversationGoesOn
<1>. DEFINE m == <<Input(inputs')>>
<1>1. /\ inputs' \in Nat /\ inputs' = inputs + 1 /\ kept' = Append(kept, inputs') /\ steps' = steps
      /\ Paired(ctx, wire)
  BY DEF Prompt, ConversationInv
<1>2. ctx' = appendMessage(ctx, m) /\ wire' = appendMessage(wire, m)
  BY Recorded DEF Prompt
<1>3. Paired(ctx', wire')
  BY <1>1, <1>2, AppendPaired
<1>4. TakesIn
  <2>1. CASE ctx.pendingToolResultIds # {}
    <3>1. Becomes(ctx', Voices(ctx), ctx.pendingToolResultIds, ctx.deferredMessages \o m, ctx.openSteps)
      BY <1>1, <1>2, <2>1, Pairs, AppendBecomes
    <3>. HIDE DEF m
    <3>2. Voices(ctx') = Voices(ctx) /\ ctx'.deferredMessages = ctx.deferredMessages \o m
      BY <3>1 DEF Becomes
    <3>. QED  BY <1>1, <3>2 DEF TakesIn, m
  <2>2. CASE ctx.pendingToolResultIds = {}
    <3>1. Becomes(ctx', Voices(ctx) \o m, ctx.pendingToolResultIds, ctx.deferredMessages, ctx.openSteps)
      BY <1>1, <1>2, <2>2, Pairs, AppendBecomes
    <3>2. ctx.deferredMessages = <<>>
      BY <1>1, <2>2, Pairs
    <3>. HIDE DEF m
    <3>3. Voices(ctx') = Voices(ctx) \o m /\ ctx'.deferredMessages = <<>>
      BY <3>1, <3>2 DEF Becomes
    <3>. QED  BY <1>1, <3>2, <3>3 DEF TakesIn, m
  <2>. QED  BY <2>1, <2>2
<1>5. turn'.pc = "before" /\ turn'.called = turn.called /\ turn'.answered = turn.answered
  BY DEF Prompt, Goto, Waiting, IsTurn
<1>6. turn.called \in Nat /\ turn.answered \in Nat /\ steps \in Nat
  BY DEF ConversationInv
<1>. QED  BY <1>1, <1>3, <1>4, <1>5, <1>6, NextConversation

\* StepBegin opens the step in both.
LEMMA StepBeginConversation ==
    ASSUME ConversationInv, Waiting, StepBegin
    PROVE  ConversationGoesOn
<1>0. /\ turn'.pc \in {"ending", "llm"} /\ turn'.called = turn.called /\ turn'.answered = turn.answered
      /\ inputs' = inputs /\ kept' = kept
      /\ turn.aborted => turn'.pc = "ending"
  BY DEF StepBegin, Goto, Waiting, IsTurn
<1>1. /\ turn.called \in Nat /\ turn.answered \in Nat /\ steps \in Nat /\ inputs \in Nat
      /\ Paired(ctx, wire)
  BY DEF ConversationInv
<1>2. CASE turn.aborted
  <2>1. UNCHANGED <<ctx, wire, steps>>
    BY <1>2 DEF StepBegin, memory
  <2>. QED  BY <1>0, <1>1, <1>2, <2>1, SameConversation
<1>3. CASE ~ turn.aborted
  <2>1. steps' \in Nat /\ ctx' = stepBegin(ctx, steps') /\ wire' = stepBegin(wire, steps')
    <3>1. steps' = steps + 1 /\ Record([type |-> "step.begin", step |-> steps'])
      BY <1>3 DEF StepBegin
    <3>. QED  BY <1>1, <3>1, Recorded
  <2>2. Paired(ctx', wire') /\ (steps' \in ctx'.openSteps <=> steps' \in wire'.openSteps)
    BY <1>1, <2>1, BeginPaired
  <2>3. Delivers
    <3>1. Becomes(ctx', Voices(ctx), ctx.pendingToolResultIds, ctx.deferredMessages, ctx.openSteps \cup {steps'})
      BY <1>1, <2>1, Pairs, BeginBecomes
    <3>. QED  BY <1>0, <3>1 DEF Becomes, Delivers
  <2>. QED  BY <1>0, <1>1, <2>1, <2>2, <2>3, NextConversation
<1>. QED  BY <1>2, <1>3

\* ContentPart may count twice in the log.
LEMMA PartConversation ==
    ASSUME ConversationInv, ContentPart
    PROVE  ConversationGoesOn
<1>1. /\ turn.called \in Nat /\ turn.answered \in Nat /\ steps \in Nat /\ inputs \in Nat
      /\ Paired(ctx, wire) /\ (steps \in ctx.openSteps <=> steps \in wire.openSteps)
      /\ UNCHANGED <<turn, steps, inputs, kept>>
  BY DEF ConversationInv, ContentPart
<1>2. /\ ctx' = contentPart(ctx, steps)
      /\ wire' = contentPart(wire, steps) \/ wire' = contentPart(contentPart(wire, steps), steps)
  BY Recorded DEF ContentPart
<1>3. Paired(ctx', wire') /\ (steps' \in ctx'.openSteps <=> steps' \in wire'.openSteps)
  <2>1. CASE wire' = contentPart(wire, steps)
    <3>1. Paired(ctx', wire') /\ ctx'.openSteps = ctx.openSteps /\ wire'.openSteps = wire.openSteps
      BY <1>1, <1>2, <2>1, PartPaired
    <3>. QED  BY <1>1, <3>1
  <2>2. CASE wire' = contentPart(contentPart(wire, steps), steps)
    <3>1. Paired(ctx', wire') /\ ctx'.openSteps = ctx.openSteps /\ wire'.openSteps = wire.openSteps
      BY <1>1, <1>2, <2>2, PartPaired
    <3>. QED  BY <1>1, <3>1
  <2>. QED  BY <1>2, <2>1, <2>2
<1>4. Delivers
  <2>1. Becomes(ctx', Voices(ctx), ctx.pendingToolResultIds, ctx.deferredMessages, ctx.openSteps)
    BY <1>1, <1>2, Pairs, EventsBecome
  <2>. QED  BY <1>1, <2>1 DEF Becomes, Delivers
<1>. QED  BY <1>1, <1>3, <1>4, NextConversation

\* ToolCall may count twice in the log.
LEMMA CallConversation ==
    ASSUME ConversationInv, Waiting, ToolCall
    PROVE  ConversationGoesOn
<1>. DEFINE id == <<steps, turn'.called>>
<1>1. /\ turn.called \in Nat /\ turn.answered \in Nat /\ steps \in Nat /\ inputs \in Nat
      /\ Paired(ctx, wire) /\ (steps \in ctx.openSteps <=> steps \in wire.openSteps)
      /\ UNCHANGED <<steps, inputs, kept>>
      /\ turn'.called = turn.called + 1 /\ turn'.answered = turn.answered /\ turn'.called \in Nat
  BY DEF ConversationInv, ToolCall, Waiting, IsTurn
<1>2. id \in Ids
  BY <1>1 DEF Ids
<1>3. /\ ctx' = toolCall(ctx, steps, id)
      /\ wire' = toolCall(wire, steps, id) \/ wire' = toolCall(toolCall(wire, steps, id), steps, id)
  <2>1. Record([type |-> "tool.call", step |-> steps, id |-> id])
    BY DEF ToolCall
  <2>. HIDE DEF id
  <2>. QED  BY <2>1, Recorded
<1>. HIDE DEF id
<1>4. Paired(ctx', wire') /\ (steps' \in ctx'.openSteps <=> steps' \in wire'.openSteps)
  <2>1. CASE wire' = toolCall(wire, steps, id)
    <3>1. Paired(ctx', wire') /\ ctx'.openSteps = ctx.openSteps /\ wire'.openSteps = wire.openSteps
      BY <1>1, <1>2, <1>3, <2>1, CallPaired
    <3>. QED  BY <1>1, <3>1
  <2>2. CASE wire' = toolCall(toolCall(wire, steps, id), steps, id)
    <3>1. Paired(ctx', wire') /\ ctx'.openSteps = ctx.openSteps /\ wire'.openSteps = wire.openSteps
      BY <1>1, <1>2, <1>3, <2>2, CallPaired
    <3>. QED  BY <1>1, <3>1
  <2>. QED  BY <1>3, <2>1, <2>2
<1>5. Delivers
  <2>1. Voices(ctx') = Voices(ctx) /\ ctx'.deferredMessages = ctx.deferredMessages
    BY <1>1, <1>2, <1>3, Pairs, EventsBecome, ZenonT(30) DEF Becomes
  <2>. QED  BY <1>1, <2>1 DEF Delivers
<1>. QED  BY <1>1, <1>4, <1>5, NextConversation

\* ToolResult delivers what was held back when it answers the last call.
LEMMA ResultConversation ==
    ASSUME ConversationInv, Waiting, ToolResult
    PROVE  ConversationGoesOn
<1>. DEFINE ids == <<<<steps, turn'.answered>>>>
<1>1. /\ turn.called \in Nat /\ turn.answered \in Nat /\ steps \in Nat /\ inputs \in Nat
      /\ Paired(ctx, wire) /\ (steps \in ctx.openSteps <=> steps \in wire.openSteps)
      /\ UNCHANGED <<steps, inputs, kept>>
      /\ turn'.called = turn.called /\ turn'.answered = turn.answered + 1 /\ turn'.answered \in Nat
  BY DEF ConversationInv, ToolResult, Waiting, IsTurn
<1>2. ids \in Seq(Ids)
  <2>1. <<steps, turn'.answered>> \in Ids
    BY <1>1 DEF Ids
  <2>. QED  BY <2>1
<1>3. ctx' = toolResults(ctx, ids) /\ wire' = toolResults(wire, ids)
  BY Recorded DEF ToolResult, toolResult
<1>. HIDE DEF ids
<1>4. /\ Paired(ctx', wire') /\ (steps' \in ctx'.openSteps <=> steps' \in wire'.openSteps)
      /\ \/ Voices(ctx') = Voices(ctx) /\ ctx'.deferredMessages = ctx.deferredMessages
         \/ Voices(ctx') = Voices(ctx) \o ctx.deferredMessages /\ ctx'.deferredMessages = <<>>
  BY <1>1, <1>2, <1>3, ResultsPaired, SMTT(30)
<1>5. Delivers
  BY <1>1, <1>4 DEF Delivers
<1>. QED  BY <1>1, <1>4, <1>5, NextConversation

\* Seal delivers what was held back.
LEMMA SealConversation ==
    ASSUME ConversationInv, Waiting, Seal
    PROVE  ConversationGoesOn
<1>1. /\ turn.called \in Nat /\ turn.answered \in Nat /\ steps \in Nat /\ inputs \in Nat
      /\ Paired(ctx, wire)
      /\ UNCHANGED <<steps, inputs, kept>>
      /\ turn'.called = turn.called /\ turn'.answered = turn.answered
      /\ turn'.pc \notin {"llm", "tools"}
  BY DEF ConversationInv, Seal, Waiting, IsTurn, Goto
<1>2. CASE turn.aborted
  <2>1. UNCHANGED <<ctx, wire>>
    BY <1>2 DEF Seal, memory
  <2>. QED  BY <1>1, <2>1, SameConversation
<1>3. CASE ~ turn.aborted
  <2>1. ctx' = stepEnd(ctx) /\ wire' = stepEnd(wire)
    BY <1>3, Recorded DEF Seal
  <2>2. /\ Paired(ctx', wire')
        /\ \/ Voices(ctx') = Voices(ctx) /\ ctx'.deferredMessages = ctx.deferredMessages
           \/ Voices(ctx') = Voices(ctx) \o ctx.deferredMessages /\ ctx'.deferredMessages = <<>>
    BY <1>1, <2>1, FlushPaired
  <2>3. Delivers
    BY <1>1, <2>2 DEF Delivers
  <2>. QED  BY <1>1, <2>2, <2>3, NextConversation
<1>. QED  BY <1>2, <1>3

\* End delivers what was held back: every call has its result.
LEMMA EndConversation ==
    ASSUME ConversationInv, End
    PROVE  ConversationGoesOn
<1>1. /\ inputs \in Nat /\ steps \in Nat /\ Paired(ctx, wire)
      /\ UNCHANGED <<steps, inputs, kept>> /\ turn' = Idle
  BY DEF ConversationInv, End
<1>2. PICK ids \in recorded(ctx.pendingToolResultIds) :
         /\ wire' = closeAbandonedToolExchange(wire, ids)
         /\ ctx' = dropVacuousOpenMessages(closeAbandonedToolExchange(ctx, ids))
  BY DEF End
<1>3. ids \in Seq(Ids)
  <2>1. ctx.pendingToolResultIds \in SUBSET Ids /\ IsFiniteSet(ctx.pendingToolResultIds)
    BY <1>1 DEF Paired, CtxT
  <2>2. ids \in SetToSeqs(ctx.pendingToolResultIds)
    BY DEF recorded
  <2>3. ids \in Seq(ctx.pendingToolResultIds)
    BY <2>1, <2>2, SequenceOfSet
  <2>. QED  BY <2>1, <2>3, SeqMonotonic
<1>. DEFINE c == closeAbandonedToolExchange(ctx, ids)
            d == closeAbandonedToolExchange(wire, ids)
<1>4. /\ Paired(c, d)
      /\ \/ Voices(c) = Voices(ctx) /\ c.deferredMessages = ctx.deferredMessages
         \/ Voices(c) = Voices(ctx) \o ctx.deferredMessages /\ c.deferredMessages = <<>>
  <2>1. CASE ids = <<>>
    BY <1>1, <2>1 DEF closeAbandonedToolExchange
  <2>2. CASE ids # <<>>
    BY <1>1, <1>3, <2>2, ResultsPaired DEF closeAbandonedToolExchange
  <2>. QED  BY <2>1, <2>2
<1>. HIDE DEF c, d
<1>5. ctx' = dropVacuousOpenMessages(c) /\ wire' = d
  BY <1>2 DEF c, d
<1>6. Paired(ctx', wire') /\ Voices(ctx') = Voices(c) /\ ctx'.deferredMessages = c.deferredMessages
  BY <1>4, <1>5, DropPaired
<1>7. Delivers
  BY <1>1, <1>4, <1>6 DEF Delivers
<1>8. turn'.called \in Nat /\ turn'.answered \in Nat /\ turn'.pc = "idle"
  BY <1>1 DEF Idle
<1>. QED  BY <1>1, <1>6, <1>7, <1>8, NextConversation

\* Undo takes back.
LEMMA UndoConversation ==
    ASSUME ConversationInv, Undo
    PROVE  ConversationGoesOn
<1>1. /\ turn.called \in Nat /\ turn.answered \in Nat /\ steps \in Nat /\ inputs \in Nat
      /\ Paired(ctx, wire) /\ UNCHANGED <<turn, steps, inputs>> /\ turn.pc = "idle"
      /\ kept' = Select(kept, Range(Covered(ctx'.history) \o Inputs(ctx'.deferredMessages)))
  BY DEF ConversationInv, Undo
<1>2. ctx' = undo(ctx) /\ wire' = undo(wire)
  BY Recorded DEF Undo
<1>3. /\ Paired(ctx', wire')
      /\ Voices(ctx') = Curtail(Voices(ctx)) /\ ctx'.deferredMessages = ctx.deferredMessages
  BY <1>1, <1>2, UndoPaired
<1>4. TakesBack
  BY <1>1, <1>3 DEF TakesBack
<1>. QED  BY <1>1, <1>3, <1>4, NextConversation

\* Clear forgets.
LEMMA ClearConversation ==
    ASSUME ConversationInv, Clear
    PROVE  ConversationGoesOn
<1>1. /\ turn.called \in Nat /\ turn.answered \in Nat /\ steps \in Nat /\ inputs \in Nat
      /\ UNCHANGED <<turn, steps, inputs>> /\ turn.pc = "idle" /\ kept' = <<>>
  BY DEF ConversationInv, Clear
<1>2. ctx' = EmptyContext /\ wire' = EmptyContext
  BY Recorded DEF Clear, clear
<1>3. Becomes(EmptyContext, <<>>, {}, <<>>, {})
  BY EmptyBecomes
<1>4. Paired(ctx', wire')
  BY <1>2, <1>3, BecomePaired
<1>5. Forgets
  BY <1>1, <1>2, <1>3 DEF Forgets, Becomes
<1>. QED  BY <1>1, <1>4, <1>5, NextConversation

\* A resume brings the conversation back from the log.
LEMMA CrashConversation ==
    ASSUME ConversationInv, CrashAndResume
    PROVE  ConversationGoesOn
<1>1. /\ steps \in Nat /\ inputs \in Nat /\ Paired(ctx, wire)
      /\ UNCHANGED <<wire, steps, inputs, kept>> /\ turn' = Idle
      /\ ctx' = dropVacuousOpenMessages(wire)
  BY DEF ConversationInv, CrashAndResume, Replay
<1>2. Paired(ctx', wire') /\ Voices(ctx') = Voices(ctx) /\ ctx'.deferredMessages = ctx.deferredMessages
  BY <1>1, DropPaired
<1>3. Delivers
  BY <1>1, <1>2 DEF Delivers
<1>4. turn'.called \in Nat /\ turn'.answered \in Nat /\ turn'.pc = "idle"
  BY <1>1 DEF Idle
<1>. QED  BY <1>1, <1>2, <1>3, <1>4, NextConversation

\* The summary of a worker bears its number.
LEMMA SummaryType ==
    ASSUME NEW w \in Workers, NEW s \in Seq(Msg)
    PROVE  Summary(w, s) \in SumM /\ Summary(w, s).covers = Covered(s) /\ Summary(w, s).step = 0 - w
<1>1. w \in Nat /\ w > 0 /\ 0 - w \in Int /\ 0 - w < 0
  BY CompactionAssumption DEF Workers
<1>2. Covered(s) \in Seq(Nat)
  BY CoveredGather
<1>. QED  BY <1>1, <1>2 DEF Summary, SumM

\* A worker sums up messages it started from.
LEMMA ReducedWithin ==
    ASSUME WorkInv, NEW w \in Workers, work[w].pc = "busy", NEW n \in reduced(w)
    PROVE  n \in 1 .. Len(work[w].history) /\ SubSeq(work[w].history, 1, n) \in Seq(Msg)
<1>1. work[w].history \in Seq(Msg) /\ work[w].cut \in 1 .. Len(work[w].history)
      /\ Len(work[w].history) \in Nat
  BY LenProperties DEF WorkInv
<1>. DEFINE h == SubSeq(work[w].history, 1, work[w].cut)
<1>2. h \in Seq(Msg) /\ Len(h) = work[w].cut /\ DOMAIN h = 1 .. work[w].cut
  BY <1>1, SubSeqProperties, LenProperties
<1>3. n \in 1 .. work[w].cut
  <2>1. n \in {Len(h)} \cup (splits(h) \ {1, Len(h)})
    BY DEF reduced
  <2>. HIDE DEF h
  <2>. QED  BY <1>1, <1>2, <2>1 DEF splits
<1>4. n \in 1 .. Len(work[w].history)
  BY <1>1, <1>3
<1>5. SubSeq(work[w].history, 1, n) \in Seq(Msg)
  BY <1>1, <1>4, SubSeqProperties
<1>. QED  BY <1>4, <1>5

\* A worker that comes to its end cuts the conversation short, or leaves it alone.
LEMMA SummarisedConversation ==
    ASSUME ConversationInv, WorkInv, IInv, NEW w \in Workers, Summarised(w)
    PROVE  ConversationGoesOn
<1>1. /\ turn.called \in Nat /\ turn.answered \in Nat /\ steps \in Nat /\ inputs \in Nat
      /\ Paired(ctx, wire) /\ ctx \in CtxT
      /\ UNCHANGED <<turn, steps, inputs, kept>> /\ work[w].pc = "busy"
  BY DEF ConversationInv, Summarised, Paired
<1>2. CASE ~ (compacting = w /\ unchangedSince(w))
  <2>1. UNCHANGED <<ctx, wire>>
    BY <1>2 DEF Summarised, memory
  <2>. QED  BY <1>1, <2>1, SameConversation
<1>3. CASE compacting = w /\ unchangedSince(w)
  <2>1. PICK n \in reduced(w) :
          ctx' = applyCompaction(ctx, Summary(w, SubSeq(work[w].history, 1, n)), n)
    BY <1>3 DEF Summarised
  <2>2. n \in 1 .. Len(work[w].history) /\ SubSeq(work[w].history, 1, n) \in Seq(Msg)
    BY <1>1, <2>1, ReducedWithin
  <2>. DEFINE m == Summary(w, SubSeq(work[w].history, 1, n))
  <2>3. m \in SumM
    BY <2>2, SummaryType
  <2>4. n \in 0 .. Len(ctx.history) /\ n \in Nat
    <3>1. Len(work[w].history) <= Len(ctx.history)
      BY <1>3 DEF unchangedSince
    <3>2. Len(work[w].history) \in Nat /\ Len(ctx.history) \in Nat
      BY <1>1, LenProperties DEF WorkInv, CtxT
    <3>. QED  BY <2>2, <3>1, <3>2
  <2>. DEFINE v == <<m>> \o Select(SubSeq(ctx.history, n + 1, Len(ctx.history)), Speaking)
              P == ctx.pendingToolResultIds
              vv == IF P = {} THEN v \o ctx.deferredMessages ELSE v
              q == IF P = {} THEN <<>> ELSE ctx.deferredMessages
  <2>5. ctx' = applyCompaction(ctx, m, n)
    BY <2>1
  <2>6. wire' = ctx'
    <3>1. wire' = toJSONSnapshot(ctx')
      BY <1>3 DEF Summarised
    <3>. HIDE DEF m
    <3>. QED  BY <1>1, <2>3, <2>4, <2>5, <3>1, SnapshotWhole
  <2>7. \E O \in SUBSET ctx.openSteps : Becomes(ctx', vv, P, q, O)
    <3>. HIDE DEF m
    <3>1. \E O \in SUBSET ctx.openSteps : Becomes(applyCompaction(ctx, m, n), vv, P, q, O)
      BY <1>1, <2>3, <2>4, CompactionBecomes
    <3>. QED  BY <2>5, <3>1
  <2>8. q # <<>> => P # {}
    OBVIOUS
  <2>9. Voices(ctx') = vv /\ ctx'.deferredMessages = q
    <3>. HIDE DEF vv, q
    <3>. QED  BY <2>7 DEF Becomes
  <2>10. Paired(ctx', wire')
    <3>. HIDE DEF vv, q, P
    <3>. QED  BY <2>6, <2>7, <2>8, BecomePaired
  <2>11. work'[w].pc = "over"
    <3>1. work' = [work EXCEPT ![w] = [Unborn EXCEPT !.pc = "over", !.outcome = "ok"]]
      BY DEF Summarised
    <3>. QED  BY <3>1 DEF IInv, Shape, Unborn
  <2>12. CutsShort(w, n)
    <3>1. \/ Voices(ctx') = v /\ ctx'.deferredMessages = ctx.deferredMessages
          \/ Voices(ctx') = v \o ctx.deferredMessages /\ ctx'.deferredMessages = <<>>
      <4>1. \/ vv = v /\ q = ctx.deferredMessages
            \/ vv = v \o ctx.deferredMessages /\ q = <<>>
        OBVIOUS
      <4>. HIDE DEF vv, q
      <4>. QED  BY <2>9, <4>1
    <3>. QED  BY <1>1, <1>3, <2>2, <2>11, <3>1 DEF CutsShort
  <2>13. Shortens
    BY <2>4, <2>12 DEF Shortens
  <2>14. steps' \in ctx'.openSteps <=> steps' \in wire'.openSteps
    BY <2>6
  <2>. QED  BY <1>1, <2>10, <2>13, <2>14, NextConversation
<1>. QED  BY <1>2, <1>3

\* So it is with every step.
LEMMA ConversationStep ==
    ASSUME IInv, Waiting, WorkInv, ConversationInv, [Next]_vars
    PROVE  ConversationGoesOn
<1>0. turn.called \in Nat /\ turn.answered \in Nat /\ IsTurn(turn)
  BY DEF ConversationInv, Waiting
<1>1. ASSUME UNCHANGED <<memory, inputs, steps, kept>>, IsTurn(turn'),
             turn'.called \in {turn.called, 0}, turn'.answered \in {turn.answered, 0},
             turn'.pc \in {"llm", "tools"} => turn.pc \in {"llm", "tools"}
      PROVE  ConversationGoesOn
  BY <1>0, <1>1, SameConversation DEF memory
<1>2. CASE Prompt
  BY <1>2, PromptConversation
<1>3. CASE Cancel
  BY <1>0, <1>1, <1>3 DEF Cancel, IsTurn
<1>4. CASE BeforeStep
  <2>1. /\ UNCHANGED <<memory, inputs, steps, kept>>
        /\ (\E pc \in {"ending", "send"} : Goto(pc)) \/ Block(FALSE)
    BY <1>4 DEF BeforeStep
  <2>. QED  BY <1>0, <1>1, <2>1 DEF Goto, Block, IsTurn
<1>5. CASE Released
  BY <1>0, <1>1, <1>5 DEF Released, IsTurn
<1>6. CASE StepBegin
  BY <1>6, StepBeginConversation
<1>7. CASE ContentPart
  BY <1>7, PartConversation
<1>8. CASE LLMAnswers
  BY <1>0, <1>1, <1>8 DEF LLMAnswers, IsTurn
<1>9. CASE Overflow
  <2>1. UNCHANGED <<memory, inputs, steps, kept>> /\ (Goto("ending") \/ Block(TRUE))
    BY <1>9 DEF Overflow
  <2>. QED  BY <1>0, <1>1, <2>1 DEF Goto, Block, IsTurn
<1>10. CASE Fail
  BY <1>0, <1>1, <1>10 DEF Fail, Goto, IsTurn
<1>11. CASE ToolCall
  BY <1>11, CallConversation
<1>12. CASE ToolResult
  BY <1>12, ResultConversation
<1>13. CASE Seal
  BY <1>13, SealConversation
<1>14. CASE AfterStep
  <2>1. UNCHANGED <<memory, inputs, steps, kept>>
    BY <1>14 DEF AfterStep
  <2>2. PICK pc \in {"before", "ending"} :
         turn' = [turn EXCEPT !.pc = pc, !.calls = 0, !.called = 0, !.answered = 0]
    BY <1>14 DEF AfterStep
  <2>. QED  BY <1>0, <1>1, <2>1, <2>2 DEF IsTurn
<1>15. CASE End
  BY <1>15, EndConversation
<1>16. CASE BlockTimeout \/ Compact \/ CancelCompaction \/ UNCHANGED vars
  BY <1>0, <1>1, <1>16 DEF BlockTimeout, Compact, CancelCompaction, vars
<1>17. CASE Undo
  BY <1>17, UndoConversation
<1>18. CASE Clear
  BY <1>18, ClearConversation
<1>19. ASSUME NEW w \in Workers, Summarised(w)
       PROVE  ConversationGoesOn
  BY <1>19, SummarisedConversation
<1>20. ASSUME NEW w \in Workers, Failed(w)
       PROVE  ConversationGoesOn
  BY <1>0, <1>1, <1>20 DEF Failed
<1>21. CASE SnapshotWritten
  BY <1>0, <1>21, SameConversation DEF SnapshotWritten
<1>22. CASE CrashAndResume
  BY <1>22, CrashConversation
<1>. QED
  BY <1>2, <1>3, <1>4, <1>5, <1>6, <1>7, <1>8, <1>9, <1>10, <1>11, <1>12, <1>13, <1>14, <1>15,
     <1>16, <1>17, <1>18, <1>19, <1>20, <1>21, <1>22 DEF Next, TurnStep, AtRest

-----------------------------------------------------------------------------
(* Summaries *)

\* The summaries among messages.
SummariesIn(h) == Range(h) \cap SumM

\* Those of the conversation and of what the workers started from.
AllSummaries == SummariesIn(Voices(ctx)) \cup UNION {SummariesIn(work[w].history) : w \in Workers}

\* A summary is the work of a worker that is through, which made one.
SummaryInv ==
    /\ \A m \in AllSummaries : \E w \in Workers : m.step = 0 - w /\ work[w].pc = "over"
    /\ \A a, b \in AllSummaries : a.step = b.step => a = b

\* What users say is no summary.
LEMMA UserSummaries ==
    ASSUME NEW q \in Seq(UserM)
    PROVE  SummariesIn(q) = {}
<1>1. Range(q) \subseteq UserM
  BY RangeOfSeq
<1>2. UserM \cap SumM = {}
  BY DEF UserM, SumM
<1>. QED  BY <1>1, <1>2 DEF SummariesIn

\* The summaries of a concatenation are those of its parts.
LEMMA ConcatSummaries ==
    ASSUME NEW a \in Seq(Msg), NEW b \in Seq(Msg)
    PROVE  SummariesIn(a \o b) = SummariesIn(a) \cup SummariesIn(b)
BY RangeConcat DEF SummariesIn

\* Messages without a summary add none.
LEMMA NoSummaryAdded ==
    ASSUME NEW a \in Seq(Msg), NEW b \in Seq(Msg), SummariesIn(b) = {}
    PROVE  SummariesIn(a \o b) = SummariesIn(a)
<1>1. SummariesIn(a \o b) = SummariesIn(a) \cup SummariesIn(b)
  BY ConcatSummaries
<1>2. SummariesIn(a) \cup {} = SummariesIn(a)
  OBVIOUS
<1>. QED  BY <1>1, <1>2

\* Summaries hold inputs.
LEMMA VoiceSummaries ==
    ASSUME NEW h \in Seq(Msg)
    PROVE  SummariesIn(Select(h, Speaking)) = SummariesIn(h)
<1>1. Range(Select(h, Speaking)) = Range(h) \cap Speaking
  BY SelectRange
<1>. QED  BY <1>1 DEF SummariesIn, Speaking

\* Those of a part are among those of the whole.
LEMMA PartSummaries ==
    ASSUME NEW h \in Seq(Msg), NEW i \in Nat, NEW j \in Nat, i >= 1, j <= Len(h)
    PROVE  SubSeq(h, i, j) \in Seq(Msg) /\ SummariesIn(SubSeq(h, i, j)) \subseteq SummariesIn(h)
<1>0. Len(h) \in Nat /\ DOMAIN h = 1 .. Len(h)
  BY LenProperties
<1>1. /\ SubSeq(h, i, j) \in Seq(Msg)
      /\ Len(SubSeq(h, i, j)) = IF i <= j THEN j - i + 1 ELSE 0
      /\ \A k \in 1 .. j - i + 1 : SubSeq(h, i, j)[k] = h[i + k - 1]
  BY <1>0, SubSeqProperties
<1>2. DOMAIN SubSeq(h, i, j) = 1 .. Len(SubSeq(h, i, j))
  BY <1>1, LenProperties
<1>3. Range(SubSeq(h, i, j)) \subseteq Range(h)
  <2>1. ASSUME NEW x \in Range(SubSeq(h, i, j)) PROVE x \in Range(h)
    <3>1. PICK k \in 1 .. j - i + 1 : x = h[i + k - 1]
      BY <1>1, <1>2 DEF Range
    <3>2. i + k - 1 \in 1 .. Len(h)
      BY <1>0
    <3>. QED  BY <1>0, <3>1, <3>2 DEF Range
  <2>. QED  BY <2>1
<1>. QED  BY <1>1, <1>3 DEF SummariesIn

\* undo() adds no summary.
LEMMA CurtailType ==
    ASSUME NEW v \in Seq(Msg)
    PROVE  Curtail(v) \in Seq(Msg) /\ SummariesIn(Curtail(v)) \subseteq SummariesIn(v)
<1>1. Len(v) \in Nat /\ (v = <<>> <=> Len(v) = 0)
  BY LenProperties, EmptySeq
<1>2. v # <<>> => Len(v) - 1 \in Nat /\ Len(v) - 1 <= Len(v)
  BY <1>1
<1>3. v # <<>> => /\ SubSeq(v, 1, Len(v) - 1) \in Seq(Msg)
                  /\ SummariesIn(SubSeq(v, 1, Len(v) - 1)) \subseteq SummariesIn(v)
  BY <1>2, PartSummaries
<1>. QED  BY <1>3 DEF Curtail

\* A step adds a summary at most: that of the worker that comes to its end.
LEMMA SummariesGrow ==
    ASSUME ConversationInv, WorkInv, Delivers \/ TakesIn \/ TakesBack \/ Forgets, inputs' \in Nat
    PROVE  SummariesIn(Voices(ctx')) \subseteq SummariesIn(Voices(ctx))
<1>1. Voices(ctx) \in Seq(Msg) /\ ctx.deferredMessages \in Seq(UserM) /\ ctx.deferredMessages \in Seq(Msg)
      /\ SummariesIn(ctx.deferredMessages) = {}
  BY Pairs, UserSummaries, UserVoices DEF ConversationInv
<1>2. CASE Delivers
  <2>. DEFINE q == ctx.deferredMessages
              v == Voices(ctx)
  <2>1. Voices(ctx') = v \/ Voices(ctx') = v \o q
    BY <1>2 DEF Delivers
  <2>2. v \in Seq(Msg) /\ q \in Seq(Msg) /\ SummariesIn(q) = {}
    BY <1>1
  <2>. HIDE DEF v, q
  <2>3. SummariesIn(v \o q) = SummariesIn(v)
    BY <2>2, NoSummaryAdded
  <2>4. SummariesIn(Voices(ctx')) \subseteq SummariesIn(v)
    BY <2>1, <2>3
  <2>. QED  BY <2>4 DEF v
<1>3. CASE TakesIn
  <2>. DEFINE m == <<Input(inputs')>>
  <2>1. m \in Seq(UserM)
    <3>1. Input(inputs') \in UserM
      BY DEF Input, UserM
    <3>. QED  BY <3>1
  <2>2. Voices(ctx') = Voices(ctx) \/ Voices(ctx') = Voices(ctx) \o m
    BY <1>3 DEF TakesIn
  <2>. HIDE DEF m
  <2>3. m \in Seq(Msg) /\ SummariesIn(m) = {}
    BY <2>1, UserSummaries, UserVoices
  <2>4. SummariesIn(Voices(ctx) \o m) = SummariesIn(Voices(ctx))
    BY <1>1, <2>3, NoSummaryAdded
  <2>. QED  BY <2>2, <2>4
<1>4. CASE TakesBack
  BY <1>1, <1>4, CurtailType DEF TakesBack
<1>5. CASE Forgets
  BY <1>5 DEF Forgets, SummariesIn, Range
<1>. QED  BY <1>2, <1>3, <1>4, <1>5

\* A compaction adds its own.
LEMMA ShortenedSummaries ==
    ASSUME ConversationInv, WorkInv, NEW w \in Workers, NEW n \in Nat, CutsShort(w, n)
    PROVE  \E m \in SumM : /\ m.step = 0 - w
                           /\ SummariesIn(Voices(ctx')) \subseteq SummariesIn(Voices(ctx)) \cup {m}
<1>. DEFINE m == Summary(w, SubSeq(work[w].history, 1, n))
            tail == SubSeq(ctx.history, n + 1, Len(ctx.history))
            v == <<m>> \o Select(tail, Speaking)
<1>1. Voices(ctx) \in Seq(Msg) /\ ctx.deferredMessages \in Seq(UserM) /\ ctx.deferredMessages \in Seq(Msg)
      /\ SummariesIn(ctx.deferredMessages) = {} /\ ctx.history \in Seq(Msg)
  BY Pairs, UserSummaries, UserVoices DEF ConversationInv, CtxT
<1>2. m \in SumM /\ m.step = 0 - w
  <2>1. work[w].history \in Seq(Msg) /\ n \in 1 .. Len(work[w].history) /\ Len(work[w].history) \in Nat
    BY LenProperties DEF WorkInv, CutsShort
  <2>2. SubSeq(work[w].history, 1, n) \in Seq(Msg)
    BY <2>1, SubSeqProperties
  <2>. QED  BY <2>2, SummaryType
<1>3. /\ tail \in Seq(Msg) /\ SummariesIn(tail) \subseteq SummariesIn(ctx.history)
  BY <1>1, LenProperties, PartSummaries
<1>4. Voices(ctx') = v \/ Voices(ctx') = v \o ctx.deferredMessages
  BY DEF CutsShort
<1>. HIDE DEF m, tail
<1>5. v \in Seq(Msg) /\ SummariesIn(v) \subseteq SummariesIn(Voices(ctx)) \cup {m}
  <2>. DEFINE a == <<m>>
              b == Select(tail, Speaking)
  <2>1. a \in Seq(Msg) /\ Range(a) = {m}
    <3>1. m \in Msg
      BY <1>2 DEF Msg
    <3>. QED  BY <3>1 DEF Range
  <2>2. b \in Seq(Msg) /\ SummariesIn(b) = SummariesIn(tail)
    BY <1>3, SelectType, VoiceSummaries
  <2>3. SummariesIn(Voices(ctx)) = SummariesIn(ctx.history)
    BY <1>1, VoiceSummaries DEF Voices
  <2>. HIDE DEF a, b
  <2>4. a \o b \in Seq(Msg) /\ SummariesIn(a \o b) = SummariesIn(a) \cup SummariesIn(b)
    BY <2>1, <2>2, ConcatSummaries, ConcatProperties
  <2>5. SummariesIn(a) \subseteq {m}
    BY <2>1 DEF SummariesIn
  <2>. QED  BY <1>3, <2>2, <2>3, <2>4, <2>5 DEF a, b
<1>. HIDE DEF v
<1>6. SummariesIn(Voices(ctx')) \subseteq SummariesIn(Voices(ctx)) \cup {m}
  <2>. DEFINE q == ctx.deferredMessages
  <2>1. q \in Seq(Msg) /\ SummariesIn(q) = {} /\ (Voices(ctx') = v \/ Voices(ctx') = v \o q)
    BY <1>1, <1>4
  <2>. HIDE DEF q
  <2>2. SummariesIn(v \o q) = SummariesIn(v)
    BY <1>5, <2>1, NoSummaryAdded
  <2>. QED  BY <1>5, <2>1, <2>2
<1>. QED  BY <1>2, <1>6

\* A worker that is at work has made no summary yet: the new one is new.
LEMMA SummaryStep ==
    ASSUME ConversationInv, WorkInv, SummaryInv, WorkGoesOn, ConversationGoesOn
    PROVE  SummaryInv'
<1>1. SummariesIn(ctx.history) = SummariesIn(Voices(ctx))
  BY VoiceSummaries DEF ConversationInv, Paired, CtxT, Voices
<1>2. \A w \in Workers : SummariesIn(work'[w].history) \subseteq AllSummaries
  <2>1. SummariesIn(<<>>) = {}
    BY DEF SummariesIn, Range
  <2>2. ASSUME NEW w \in Workers PROVE SummariesIn(work'[w].history) \subseteq AllSummaries
    <3>1. \/ work'[w].history = work[w].history \/ work'[w].history = <<>>
          \/ work'[w].history = ctx.history
      BY DEF WorkGoesOn
    <3>. QED  BY <1>1, <2>1, <3>1 DEF AllSummaries
  <2>. QED  BY <2>2
<1>3. \A w \in Workers : work[w].pc = "over" => work'[w].pc = "over"
  BY DEF WorkGoesOn
<1>4. CASE Delivers \/ TakesIn \/ TakesBack \/ Forgets
  <2>1. SummariesIn(Voices(ctx')) \subseteq SummariesIn(Voices(ctx))
    BY <1>4, SummariesGrow DEF ConversationGoesOn, ConversationInv
  <2>2. AllSummaries' \subseteq AllSummaries
    BY <1>2, <2>1 DEF AllSummaries
  <2>. HIDE DEF AllSummaries
  <2>. QED  BY <1>3, <2>2 DEF SummaryInv
<1>5. ASSUME NEW w \in Workers, NEW n \in Nat, CutsShort(w, n)
      PROVE  SummaryInv'
  <2>1. PICK m \in SumM : /\ m.step = 0 - w
                          /\ SummariesIn(Voices(ctx')) \subseteq SummariesIn(Voices(ctx)) \cup {m}
    BY <1>5, ShortenedSummaries
  <2>2. AllSummaries' \subseteq AllSummaries \cup {m}
    BY <1>2, <2>1 DEF AllSummaries
  <2>3. work[w].pc = "busy" /\ work'[w].pc = "over"
    BY <1>5 DEF CutsShort
  <2>4. \A x \in AllSummaries : x.step # m.step
    <3>1. ASSUME NEW x \in AllSummaries, x.step = m.step PROVE FALSE
      <4>1. PICK u \in Workers : x.step = 0 - u /\ work[u].pc = "over"
        BY DEF SummaryInv
      <4>2. u = w
        BY <2>1, <3>1, <4>1, CompactionAssumption DEF Workers
      <4>. QED  BY <2>3, <4>1, <4>2
    <3>. QED  BY <3>1
  <2>. HIDE DEF AllSummaries
  <2>. QED  BY <1>3, <2>1, <2>2, <2>3, <2>4 DEF SummaryInv
<1>. QED  BY <1>4, <1>5 DEF ConversationGoesOn, Shortens

-----------------------------------------------------------------------------
(* The inputs kept *)

\* Numbers that grow.
Growing(k) == \A i, j \in DOMAIN k : i < j => k[i] < k[j]

\* The inputs kept are inputs given, each once.
KeptInv ==
    /\ kept \in Seq(1 .. inputs) /\ Growing(kept)
    /\ Covered(Voices(ctx)) \o Inputs(ctx.deferredMessages) = kept

\* A selection of numbers that grow grows.
LEMMA SelectGrows ==
    ASSUME NEW S, S \subseteq Nat, NEW k \in Seq(S), Growing(k), NEW T
    PROVE  Select(k, T) \in Seq(S) /\ Growing(Select(k, T))
<1>. DEFINE r == Select(k, T)
<1>1. r \in Seq(S)
  BY SelectType
<1>2. \E e \in [DOMAIN r -> Nat] : Embeds(e, r, k)
  BY SelectEmbeds
<1>. HIDE DEF r
<1>3. PICK e \in [DOMAIN r -> Nat] : Embeds(e, r, k)
  BY <1>2
<1>4. Growing(r)
  BY <1>3 DEF Embeds, Growing
<1>. QED  BY <1>1, <1>4 DEF r

\* What the worker takes for the same message holds the same.
LEMMA SameHolds ==
    ASSUME NEW a \in Msg, NEW b \in Msg, same(a, b),
           a \in SumM /\ b \in SumM /\ a.step = b.step => a = b
    PROVE  Holds[a] = Holds[b]
<1>1. CASE a.role = "user"
  <2>1. b.role = "user" /\ a.input = b.input
    BY <1>1 DEF same
  <2>2. a \in UserM /\ b \in UserM
    BY <1>1, <2>1, MsgForms
  <2>3. Holds[a] = <<a.input>> /\ Holds[b] = <<b.input>>
    BY <2>2, HoldsForms
  <2>. QED  BY <2>1, <2>3
<1>2. CASE a.role = "tool"
  <2>1. b.role = "tool"
    BY <1>2 DEF same
  <2>2. a \notin Speaking /\ b \notin Speaking
    BY <1>2, <2>1, MsgForms
  <2>. QED  BY <2>2, HoldsForms
<1>3. CASE a.role = "assistant"
  <2>1. b.role = "assistant" /\ a.step = b.step
    BY <1>3 DEF same
  <2>2. a \in SumM <=> b \in SumM
    BY <1>3, <2>1, MsgForms
  <2>3. a \notin SumM => a \notin Speaking /\ b \notin Speaking
    BY <1>3, <2>1, <2>2, MsgForms
  <2>. QED  BY <2>1, <2>2, <2>3, HoldsForms
<1>. QED  BY <1>1, <1>2, <1>3, MsgForms DEF Msg

\* What users say has numbers for inputs.
LEMMA UserInputs == Speaks(UserM, Nat)
BY DEF Speaks, UserM

\* What is held back says what it covers.
LEMMA HeldBack ==
    ASSUME NEW q \in Seq(UserM)
    PROVE  Inputs(q) \in Seq(Nat) /\ Covered(q) = Inputs(q) /\ q \in Seq(Msg)
BY CoveredUsers, CoveredGather

\* Nothing held back says nothing.
LEMMA NothingHeld == Inputs(<<>>) = <<>>
BY HeldBack, CoveredUsers, CoveredEmpty, EmptySeq

\* An input says itself.
LEMMA OneInput ==
    ASSUME NEW n \in Nat
    PROVE  <<Input(n)>> \in Seq(UserM) /\ Covered(<<Input(n)>>) = <<n>> /\ Inputs(<<Input(n)>>) = <<n>>
<1>1. Input(n) \in UserM /\ Input(n) \in Msg /\ Input(n).input = n
  BY DEF Input, UserM, Msg
<1>2. Covered(<<Input(n)>>) = <<n>>
  BY <1>1, CoveredOne, HoldsForms
<1>3. <<Input(n)>> \in Seq(UserM)
  BY <1>1
<1>. DEFINE q == <<Input(n)>>
<1>4. Covered(q) = Inputs(q)
  <2>. HIDE DEF q
  <2>. QED  BY <1>3, CoveredUsers DEF q
<1>. QED  BY <1>2, <1>3, <1>4

-----------------------------------------------------------------------------
\* Inputs that are delivered were kept already.
LEMMA DeliversKept ==
    ASSUME ConversationInv, KeptInv, Delivers
    PROVE  KeptInv'
<1>. DEFINE v == Voices(ctx)
            q == ctx.deferredMessages
<1>1. v \in Seq(Msg) /\ q \in Seq(UserM)
  BY Pairs DEF ConversationInv
<1>2. Covered(v) \o Inputs(q) = kept /\ kept' = kept /\ inputs' = inputs
  BY DEF KeptInv, Delivers
<1>3. \/ Voices(ctx') = v /\ ctx'.deferredMessages = q
      \/ Voices(ctx') = v \o q /\ ctx'.deferredMessages = <<>>
  BY DEF Delivers
<1>. HIDE DEF v, q
<1>4. Covered(v \o q) = Covered(v) \o Inputs(q)
  <2>1. q \in Seq(Msg) /\ Covered(q) = Inputs(q)
    BY <1>1, HeldBack
  <2>. QED  BY <1>1, <2>1, CoveredConcat
<1>5. Covered(v \o q) \o <<>> = Covered(v \o q)
  <2>1. v \o q \in Seq(Msg)
    BY <1>1, HeldBack, ConcatProperties
  <2>2. Covered(v \o q) \in Seq(Nat)
    BY <2>1, CoveredGather
  <2>. QED  BY <2>2, ConcatEmptySeq
<1>6. Covered(Voices(ctx')) \o Inputs(ctx'.deferredMessages) = kept'
  BY <1>2, <1>3, <1>4, <1>5, NothingHeld
<1>. QED  BY <1>2, <1>6 DEF KeptInv

\* An input that is taken in is the newest.
LEMMA TakesInKept ==
    ASSUME ConversationInv, KeptInv, TakesIn
    PROVE  KeptInv'
<1>. DEFINE v == Voices(ctx)
            q == ctx.deferredMessages
            n == inputs'
            m == <<Input(n)>>
            one == <<n>>
<1>1. v \in Seq(Msg) /\ q \in Seq(UserM) /\ inputs \in Nat /\ n = inputs + 1 /\ n \in Nat
  BY Pairs DEF ConversationInv, TakesIn
<1>2. Covered(v) \o Inputs(q) = kept /\ kept' = Append(kept, n) /\ kept \in Seq(1 .. inputs) /\ Growing(kept)
  BY DEF KeptInv, TakesIn
<1>3. \/ Voices(ctx') = v /\ ctx'.deferredMessages = q \o m
      \/ Voices(ctx') = v \o m /\ q = <<>> /\ ctx'.deferredMessages = <<>>
  BY DEF TakesIn
<1>4. m \in Seq(UserM) /\ m \in Seq(Msg) /\ Covered(m) = one /\ Inputs(m) = one
  BY <1>1, OneInput, UserVoices
<1>5. one \in Seq(Nat)
  BY <1>1
<1>6. kept' = kept \o one
  BY <1>1, <1>2, AppendIsConcat
<1>7. kept' \in Seq(1 .. n) /\ Growing(kept')
  <2>1. kept \in Seq(1 .. n) /\ n \in 1 .. n
    <3>1. 1 .. inputs \subseteq 1 .. n /\ n \in 1 .. n
      BY <1>1
    <3>. QED  BY <1>2, <3>1, SeqMonotonic
  <2>2. /\ kept' \in Seq(1 .. n) /\ Len(kept) \in Nat /\ DOMAIN kept = 1 .. Len(kept)
        /\ DOMAIN kept' = 1 .. Len(kept) + 1 /\ kept'[Len(kept) + 1] = n
        /\ \A i \in 1 .. Len(kept) : kept'[i] = kept[i] /\ kept[i] \in 1 .. inputs
    <3>1. Append(kept, n) \in Seq(1 .. n) /\ Len(Append(kept, n)) = Len(kept) + 1
          /\ Append(kept, n)[Len(kept) + 1] = n /\ \A i \in 1 .. Len(kept) : Append(kept, n)[i] = kept[i]
      BY <2>1, AppendProperties
    <3>. QED  BY <1>2, <3>1, LenProperties, ElementOfSeq
  <2>3. ASSUME NEW i \in DOMAIN kept', NEW j \in DOMAIN kept', i < j PROVE kept'[i] < kept'[j]
    <3>. HIDE DEF n
    <3>1. i \in 1 .. Len(kept) /\ kept'[i] = kept[i]
      BY <2>2, <2>3
    <3>2. CASE j \in 1 .. Len(kept)
      BY <1>2, <2>2, <2>3, <3>1, <3>2 DEF Growing
    <3>3. CASE j = Len(kept) + 1
      BY <1>1, <2>2, <3>1, <3>3
    <3>. QED  BY <2>2, <3>2, <3>3
  <2>. QED  BY <2>2, <2>3 DEF Growing
<1>. HIDE DEF v, q, n, m, one
<1>8. Covered(v) \in Seq(Nat) /\ Inputs(q) \in Seq(Nat)
  BY <1>1, CoveredGather, HeldBack
<1>9. CASE Voices(ctx') = v /\ ctx'.deferredMessages = q \o m
  <2>1. Inputs(q \o m) = Inputs(q) \o Inputs(m)
    BY <1>1, <1>4, UserInputs, InputsConcat
  <2>2. Covered(v) \o (Inputs(q) \o one) = (Covered(v) \o Inputs(q)) \o one
    <3>. DEFINE x == Covered(v)
                y == Inputs(q)
                N == Nat
    <3>1. x \in Seq(N) /\ y \in Seq(N) /\ one \in Seq(N)
      BY <1>5, <1>8
    <3>. HIDE DEF x, y, N
    <3>2. (x \o y) \o one = x \o (y \o one)
      BY <3>1, ConcatAssociative, SMTT(30)
    <3>. QED  BY <3>2 DEF x, y
  <2>3. Covered(Voices(ctx')) \o Inputs(ctx'.deferredMessages) = kept'
    BY <1>2, <1>4, <1>6, <1>9, <2>1, <2>2
  <2>. QED  BY <1>7, <2>3 DEF KeptInv, n
<1>10. CASE Voices(ctx') = v \o m /\ q = <<>> /\ ctx'.deferredMessages = <<>>
  <2>1. Covered(v \o m) = Covered(v) \o one
    BY <1>1, <1>4, CoveredConcat
  <2>2. Covered(v) \o <<>> = Covered(v)
    BY <1>8, ConcatEmptySeq
  <2>3. (Covered(v) \o one) \o <<>> = Covered(v) \o one
    BY <1>5, <1>8, ConcatProperties, ConcatEmptySeq
  <2>4. Covered(Voices(ctx')) \o Inputs(ctx'.deferredMessages) = kept'
    BY <1>2, <1>6, <1>10, <2>1, <2>2, <2>3, NothingHeld
  <2>. QED  BY <1>7, <2>4 DEF KeptInv, n
<1>. QED  BY <1>3, <1>9, <1>10

\* After clear nothing is kept.
LEMMA ForgetsKept ==
    ASSUME Forgets
    PROVE  KeptInv'
<1>1. kept' = <<>> /\ Voices(ctx') = <<>> /\ ctx'.deferredMessages = <<>>
  BY DEF Forgets
<1>2. <<>> \o <<>> = <<>>
  BY ConcatEmptySeq, EmptySeq
<1>3. \A S : <<>> \in Seq(S)
  BY EmptySeq
<1>4. Growing(<<>>)
  BY DEF Growing
<1>. QED  BY <1>1, <1>2, <1>3, <1>4, CoveredEmpty, NothingHeld DEF KeptInv

\* Numbers that grow do not come twice.
LEMMA GrowingParts ==
    ASSUME NEW a \in Seq(Nat), NEW n \in Nat, NEW c \in Seq(Nat), Growing((a \o <<n>>) \o c)
    PROVE  Select((a \o <<n>>) \o c, Range(a \o c)) = a \o c
<1>. DEFINE b == <<n>>
            ab == a \o b
            k == ab \o c
<1>1. b \in Seq(Nat) /\ Len(b) = 1 /\ b[1] = n /\ Range(b) = {n}
  BY DEF Range
<1>. HIDE DEF b
<1>2. /\ ab \in Seq(Nat) /\ Len(ab) = Len(a) + 1 /\ Len(a) \in Nat /\ Len(c) \in Nat
      /\ ab[Len(a) + 1] = n /\ \A i \in 1 .. Len(a) : ab[i] = a[i]
  <2>1. /\ Len(ab) = Len(a) + Len(b) /\ ab \in Seq(Nat) /\ Len(a) \in Nat /\ Len(c) \in Nat
        /\ \A i \in 1 .. Len(a) + Len(b) : ab[i] = IF i <= Len(a) THEN a[i] ELSE b[i - Len(a)]
    BY <1>1, ConcatProperties, LenProperties
  <2>. HIDE DEF ab
  <2>2. Len(a) + 1 \in 1 .. Len(a) + Len(b) /\ (Len(a) + 1) - Len(a) = 1 /\ ~ (Len(a) + 1 <= Len(a))
    BY <1>1, <2>1
  <2>. QED  BY <1>1, <2>1, <2>2
<1>. HIDE DEF ab
<1>3. /\ Len(k) = Len(a) + 1 + Len(c) /\ DOMAIN k = 1 .. Len(a) + 1 + Len(c)
      /\ k[Len(a) + 1] = n
      /\ \A i \in 1 .. Len(a) : k[i] = a[i]
      /\ \A i \in 1 .. Len(c) : k[Len(a) + 1 + i] = c[i]
  <2>1. /\ Len(k) = Len(ab) + Len(c) /\ k \in Seq(Nat)
        /\ \A i \in 1 .. Len(ab) + Len(c) : k[i] = IF i <= Len(ab) THEN ab[i] ELSE c[i - Len(ab)]
    BY <1>2, ConcatProperties
  <2>2. DOMAIN k = 1 .. Len(k)
    BY <2>1, LenProperties
  <2>. HIDE DEF k
  <2>3. ASSUME NEW i \in 1 .. Len(c) PROVE k[Len(a) + 1 + i] = c[i]
    <3>. DEFINE j == Len(a) + 1 + i
    <3>1. j \in 1 .. Len(ab) + Len(c) /\ ~ (j <= Len(ab)) /\ j - Len(ab) = i
      BY <1>2
    <3>. HIDE DEF j
    <3>2. k[j] = c[i]
      BY <2>1, <3>1
    <3>. QED  BY <3>2 DEF j
  <2>. QED  BY <1>2, <2>1, <2>2, <2>3
<1>4. Growing(k)
  BY DEF k, ab, b
<1>. HIDE DEF k
<1>5. n \notin Range(a)
  <2>1. ASSUME NEW i \in 1 .. Len(a), a[i] = n PROVE FALSE
    <3>1. i \in DOMAIN k /\ Len(a) + 1 \in DOMAIN k /\ i < Len(a) + 1
      BY <1>2, <1>3
    <3>2. k[i] < k[Len(a) + 1]
      BY <1>4, <3>1 DEF Growing
    <3>. QED  BY <1>3, <2>1, <3>2
  <2>2. DOMAIN a = 1 .. Len(a)
    BY LenProperties
  <2>. QED  BY <2>1, <2>2 DEF Range
<1>6. n \notin Range(c)
  <2>1. ASSUME NEW i \in 1 .. Len(c), c[i] = n PROVE FALSE
    <3>. DEFINE j == Len(a) + 1 + i
    <3>1. j \in DOMAIN k /\ Len(a) + 1 \in DOMAIN k /\ Len(a) + 1 < j
      BY <1>2, <1>3
    <3>2. k[j] = n
      BY <1>3, <2>1
    <3>. HIDE DEF j
    <3>3. k[Len(a) + 1] < k[j]
      BY <1>4, <3>1 DEF Growing
    <3>. QED  BY <1>3, <3>2, <3>3
  <2>2. DOMAIN c = 1 .. Len(c)
    BY LenProperties
  <2>. QED  BY <2>1, <2>2 DEF Range
<1>7. Range(b) \cap Range(a) = {} /\ Range(b) \cap Range(c) = {}
  BY <1>1, <1>5, <1>6
<1>8. Select((a \o b) \o c, Range(a \o c)) = a \o c
  <2>1. a \in Seq(Nat) /\ b \in Seq(Nat) /\ c \in Seq(Nat)
    BY <1>1
  <2>. QED  BY ONLY <1>7, <2>1, SelectParts, ZenonT(30)
<1>. QED  BY <1>8 DEF b

\* undo() takes back the newest input of the history: what is held back stays, and what a
\* summary covers does.
LEMMA TakesBackKept ==
    ASSUME ConversationInv, ConversationInv', KeptInv, TakesBack
    PROVE  KeptInv'
<1>. DEFINE v == Voices(ctx)
            q == ctx.deferredMessages
            c == Inputs(q)
            u == Voices(ctx')
<1>1. v \in Seq(Msg) /\ q \in Seq(UserM) /\ inputs \in Nat /\ inputs' = inputs
  BY Pairs DEF ConversationInv, TakesBack
<1>2. Covered(v) \o c = kept /\ kept \in Seq(1 .. inputs) /\ Growing(kept)
  BY DEF KeptInv
<1>3. u = Curtail(v) /\ ctx'.deferredMessages = q
  BY DEF TakesBack
<1>4. kept' = Select(kept, Range(Covered(u) \o c))
  <2>1. ctx'.history \in Seq(Msg)
    BY DEF ConversationInv, Paired, CtxT
  <2>2. Covered(u) = Covered(ctx'.history)
    BY <2>1, CoveredVoices DEF Voices
  <2>3. kept' = Select(kept, Range(Covered(ctx'.history) \o Inputs(ctx'.deferredMessages)))
    BY DEF TakesBack
  <2>. HIDE DEF u, q
  <2>. QED  BY <1>3, <2>2, <2>3
<1>5. c \in Seq(Nat)
  BY <1>1, HeldBack
<1>. HIDE DEF v, q, c, u
<1>6. Covered(u) \o c = kept'
  <2>1. CASE Curtail(v) = v
    <3>1. \A i \in DOMAIN kept : kept[i] \in Range(kept)
      BY DEF Range
    <3>2. Select(kept, Range(kept)) = kept
      BY <1>2, <3>1, SelectAll
    <3>. QED  BY <1>2, <1>3, <1>4, <2>1, <3>2
  <2>2. CASE Curtail(v) # v
    <3>. DEFINE l == Len(v)
                pre == SubSeq(v, 1, l - 1)
                m == v[l]
    <3>1. l \in Nat /\ l >= 1 /\ m \notin SumM /\ Curtail(v) = pre
      <4>1. v # <<>> /\ m \notin SumM /\ Curtail(v) = pre
        BY <2>2 DEF Curtail
      <4>2. l \in Nat /\ l # 0
        BY <1>1, <4>1, LenProperties, EmptySeq
      <4>. QED  BY <4>1, <4>2
    <3>2. m \in Msg /\ m \in Speaking
      <4>1. l \in DOMAIN v /\ m \in Msg
        BY <1>1, <3>1, LenProperties, ElementOfSeq
      <4>2. Range(v) \subseteq Speaking
        <5>1. ctx.history \in Seq(Msg)
          BY DEF ConversationInv, Paired, CtxT
        <5>. QED  BY <5>1, SelectRange DEF v, Voices
      <4>. QED  BY <4>1, <4>2 DEF Range
    <3>3. m \in UserM /\ m.input \in Nat
      BY <3>1, <3>2 DEF Speaking, UserM
    <3>4. pre \in Seq(Msg) /\ v = Append(pre, m)
      <4>1. pre \in Seq(Msg) /\ Len(pre) = l - 1 /\ \A i \in 1 .. l - 1 : pre[i] = v[i]
        <5>. DEFINE k == l - 1
        <5>1. k \in 0 .. Len(v)
          BY <3>1
        <5>. HIDE DEF k
        <5>2. SubSeq(v, 1, k) \in Seq(Msg) /\ Len(SubSeq(v, 1, k)) = k
              /\ \A i \in 1 .. k : SubSeq(v, 1, k)[i] = v[i]
          BY <1>1, <5>1, Divide
        <5>. QED  BY <5>2 DEF k
      <4>. HIDE DEF pre
      <4>2. Append(pre, m) \in Seq(Msg) /\ Len(Append(pre, m)) = l /\ Append(pre, m)[l] = m
            /\ \A i \in 1 .. l - 1 : Append(pre, m)[i] = pre[i]
        BY <3>1, <3>2, <4>1, AppendProperties
      <4>3. \A i \in 1 .. l : Append(pre, m)[i] = v[i]
        BY <3>1, <4>1, <4>2
      <4>4. v = Append(pre, m)
        BY <1>1, <4>2, <4>3, SeqEqual
      <4>. QED  BY <4>1, <4>4
    <3>. DEFINE a == Covered(pre)
                n == m.input
    <3>5. Covered(v) = a \o <<n>> /\ a \in Seq(Nat) /\ n \in Nat
      <4>1. Holds[m] = <<n>>
        BY <3>2, <3>3, HoldsForms
      <4>. HIDE DEF pre, m, n
      <4>2. Covered(Append(pre, m)) = Covered(pre) \o Holds[m]
        BY <3>2, <3>4, CoveredAppend
      <4>3. Covered(pre) \in Seq(Nat)
        BY <3>4, CoveredGather
      <4>. QED  BY <3>3, <3>4, <4>1, <4>2, <4>3 DEF n
    <3>6. u = pre
      BY <1>3, <3>1
    <3>. HIDE DEF a, n, pre, m, l
    <3>7. Growing((a \o <<n>>) \o c) /\ kept = (a \o <<n>>) \o c
      BY <1>2, <3>5
    <3>8. Select((a \o <<n>>) \o c, Range(a \o c)) = a \o c
      BY <1>5, <3>5, <3>7, GrowingParts
    <3>9. Covered(u) = a
      BY <3>6 DEF a
    <3>. QED  BY <1>4, <3>7, <3>8, <3>9
  <2>. QED  BY <2>1, <2>2
<1>7. kept' \in Seq(1 .. inputs') /\ Growing(kept')
  <2>1. 1 .. inputs \subseteq Nat
    BY <1>1
  <2>. DEFINE S == 1 .. inputs
              T == Range(Covered(u) \o c)
  <2>2. S \subseteq Nat /\ kept \in Seq(S) /\ kept' = Select(kept, T) /\ inputs' = inputs
    BY <1>1, <1>2, <1>4, <2>1
  <2>. HIDE DEF T
  <2>3. kept' \in Seq(S) /\ Growing(kept')
    <3>. HIDE DEF S
    <3>. QED  BY <1>2, <2>2, SelectGrows
  <2>. QED  BY <2>2, <2>3
<1>8. Covered(Voices(ctx')) \o Inputs(ctx'.deferredMessages) = kept'
  BY <1>3, <1>6 DEF u, c
<1>. QED  BY <1>7, <1>8 DEF KeptInv

\* A summary covers what the messages it replaces held: those the worker started from, which
\* are still the first ones.
LEMMA ShortensKept ==
    ASSUME ConversationInv, WorkInv, SummaryInv, KeptInv,
           NEW w \in Workers, NEW n \in Nat, CutsShort(w, n)
    PROVE  KeptInv'
<1>. DEFINE then == work[w].history
            h == ctx.history
            head == SubSeq(h, 1, n)
            tail == SubSeq(h, n + 1, Len(h))
            past == SubSeq(then, 1, n)
            m == Summary(w, past)
            v == <<m>> \o Select(tail, Speaking)
            q == ctx.deferredMessages
<1>1. h \in Seq(Msg) /\ q \in Seq(UserM) /\ then \in Seq(Msg) /\ Len(h) \in Nat /\ Len(then) \in Nat
      /\ Covered(Voices(ctx)) = Covered(h) /\ SummariesIn(Voices(ctx)) = SummariesIn(h)
  <2>1. h \in Seq(Msg) /\ q \in Seq(UserM) /\ then \in Seq(Msg)
    BY DEF ConversationInv, Paired, CtxT, WorkInv
  <2>2. Covered(Voices(ctx)) = Covered(h) /\ SummariesIn(Voices(ctx)) = SummariesIn(h)
    BY <2>1, CoveredVoices, VoiceSummaries DEF Voices
  <2>. QED  BY <2>1, <2>2, LenProperties
<1>2. /\ Covered(Voices(ctx)) \o Inputs(q) = kept /\ kept \in Seq(1 .. inputs) /\ Growing(kept)
      /\ kept' = kept /\ inputs' = inputs
  BY DEF KeptInv, CutsShort
<1>3. n \in 1 .. Len(then) /\ Len(then) <= Len(h) /\ \A i \in DOMAIN then : same(then[i], h[i])
  BY DEF CutsShort, unchangedSince
<1>4. \/ Voices(ctx') = v /\ ctx'.deferredMessages = q
      \/ Voices(ctx') = v \o q /\ ctx'.deferredMessages = <<>>
  BY DEF CutsShort
<1>5. \A i \in 1 .. Len(then) : Holds[then[i]] = Holds[h[i]]
  <2>1. ASSUME NEW i \in 1 .. Len(then) PROVE Holds[then[i]] = Holds[h[i]]
    <3>1. i \in DOMAIN then /\ i \in DOMAIN h /\ then[i] \in Msg /\ h[i] \in Msg
      BY <1>1, <1>3, LenProperties, ElementOfSeq
    <3>2. then[i] \in Range(then) /\ h[i] \in Range(h)
      BY <3>1 DEF Range
    <3>3. then[i] \in SumM => then[i] \in AllSummaries
      BY <3>2 DEF AllSummaries, SummariesIn
    <3>4. h[i] \in SumM => h[i] \in AllSummaries
      <4>1. h[i] \in SumM => h[i] \in SummariesIn(Voices(ctx))
        BY <1>1, <3>2 DEF SummariesIn
      <4>. QED  BY <4>1 DEF AllSummaries
    <3>. DEFINE a == then[i]
                b == h[i]
    <3>5. a \in Msg /\ b \in Msg /\ same(a, b)
      BY <1>3, <3>1
    <3>6. a \in SumM /\ b \in SumM /\ a.step = b.step => a = b
      BY <3>3, <3>4 DEF SummaryInv
    <3>. HIDE DEF a, b
    <3>7. Holds[a] = Holds[b]
      BY <3>5, <3>6, SameHolds
    <3>. QED  BY <3>7 DEF a, b
  <2>. QED  BY <2>1
<1>. HIDE DEF h, then
<1>6. /\ head \in Seq(Msg) /\ tail \in Seq(Msg) /\ Len(head) = n /\ h = head \o tail
      /\ \A i \in 1 .. n : head[i] = h[i]
  <2>1. h \in Seq(Msg) /\ n \in 0 .. Len(h)
    <3>1. Len(then) \in Nat /\ Len(h) \in Nat
      BY <1>1, LenProperties
    <3>. QED  BY <1>1, <1>3, <3>1
  <2>. QED  BY <2>1, Divide
<1>7. past \in Seq(Msg) /\ Len(past) = n /\ \A i \in 1 .. n : past[i] = then[i]
  BY <1>1, <1>3, SubSeqProperties
<1>. HIDE DEF head, tail, past
<1>8. Covered(past) = Covered(head)
  <2>1. ASSUME NEW i \in 1 .. n PROVE Holds[past[i]] = Holds[head[i]]
    <3>1. Len(then) \in Nat /\ n \in 1 .. Len(then)
      BY <1>1, <1>3
    <3>2. i \in 1 .. Len(then)
      BY <3>1
    <3>3. past[i] = then[i] /\ head[i] = h[i]
      BY <1>6, <1>7
    <3>. QED  BY <1>5, <3>2, <3>3
  <2>. QED  BY <1>6, <1>7, <2>1, CoveredSame
<1>9. m \in Msg /\ Holds[m] = Covered(past)
  <2>1. m \in SumM /\ m.covers = Covered(past)
    BY <1>7, SummaryType
  <2>. HIDE DEF m
  <2>. QED  BY <2>1, HoldsForms DEF Msg
<1>. HIDE DEF m
<1>10. v \in Seq(Msg) /\ Covered(v) = Covered(h)
  <2>. DEFINE s == <<m>>
              t == Select(tail, Speaking)
  <2>1. s \in Seq(Msg) /\ Covered(s) = Covered(head)
    BY <1>8, <1>9, CoveredOne
  <2>2. t \in Seq(Msg) /\ Covered(t) = Covered(tail)
    BY <1>6, SelectType, CoveredVoices
  <2>. HIDE DEF s, t
  <2>3. s \o t \in Seq(Msg) /\ Covered(s \o t) = Covered(s) \o Covered(t)
    BY <2>1, <2>2, CoveredConcat, ConcatProperties
  <2>4. Covered(h) = Covered(head) \o Covered(tail)
    BY <1>6, CoveredConcat
  <2>5. s \o t \in Seq(Msg) /\ Covered(s \o t) = Covered(h)
    BY <2>1, <2>2, <2>3, <2>4
  <2>. QED  BY <2>5 DEF s, t
<1>. HIDE DEF v, q
<1>11. Covered(v \o q) = Covered(v) \o Inputs(q)
  <2>1. q \in Seq(Msg) /\ Covered(q) = Inputs(q)
    BY <1>1, HeldBack
  <2>. QED  BY <1>10, <2>1, CoveredConcat
<1>12. Covered(v \o q) \o <<>> = Covered(v \o q)
  <2>1. v \o q \in Seq(Msg)
    BY <1>1, <1>10, HeldBack, ConcatProperties
  <2>2. Covered(v \o q) \in Seq(Nat)
    BY <2>1, CoveredGather
  <2>. QED  BY <2>2, ConcatEmptySeq
<1>13. Covered(Voices(ctx')) \o Inputs(ctx'.deferredMessages) = kept'
  BY <1>1, <1>2, <1>4, <1>10, <1>11, <1>12, NothingHeld
<1>. QED  BY <1>2, <1>13 DEF KeptInv

\* So it is with every step.
LEMMA KeptStep ==
    ASSUME ConversationInv, WorkInv, SummaryInv, KeptInv, ConversationGoesOn
    PROVE  KeptInv'
<1>1. ConversationInv'
  BY DEF ConversationGoesOn
<1>2. ASSUME NEW w \in Workers, NEW n \in Nat, CutsShort(w, n)
      PROVE  KeptInv'
  BY <1>2, ShortensKept
<1>. QED  BY <1>1, <1>2, DeliversKept, TakesInKept, TakesBackKept, ForgetsKept
          DEF ConversationGoesOn, Shortens

-----------------------------------------------------------------------------
MemoryInv == IInv /\ Waiting /\ WorkInv /\ ConversationInv /\ SummaryInv /\ KeptInv

\* The initial states.
LEMMA MemoryInit == Init => MemoryInv
<1> SUFFICES ASSUME Init PROVE MemoryInv
  OBVIOUS
<1>1. IInv /\ Waiting
  BY InitInv DEF Init, Waiting, Idle, IsTurn
<1>2. /\ ctx = EmptyContext /\ wire = EmptyContext /\ work = [w \in Workers |-> Unborn]
      /\ kept = <<>> /\ inputs = 0 /\ steps = 0 /\ turn = Idle
  BY DEF Init
<1>3. Becomes(ctx, <<>>, {}, <<>>, {}) /\ Becomes(wire, <<>>, {}, <<>>, {})
  BY <1>2, EmptyBecomes
<1>4. ConversationInv
  <2>1. Paired(ctx, wire)
    BY <1>3, BecomePaired
  <2>. QED  BY <1>2, <2>1 DEF ConversationInv, Idle
<1>5. WorkInv
  BY <1>2, EmptySeq DEF WorkInv, Unborn
<1>6. Voices(ctx) = <<>> /\ ctx.deferredMessages = <<>>
  BY <1>3 DEF Becomes
<1>7. SummaryInv
  <2>1. SummariesIn(<<>>) = {}
    BY DEF SummariesIn, Range
  <2>2. \A w \in Workers : work[w].history = <<>>
    BY <1>2 DEF Unborn
  <2>3. AllSummaries = {}
    BY <1>6, <2>1, <2>2 DEF AllSummaries
  <2>. HIDE DEF AllSummaries
  <2>. QED  BY <2>3 DEF SummaryInv
<1>8. KeptInv
  <2>1. <<>> \o <<>> = <<>>
    BY ConcatEmptySeq, EmptySeq
  <2>2. \A S : <<>> \in Seq(S)
    BY EmptySeq
  <2>3. Growing(<<>>)
    BY DEF Growing
  <2>. QED  BY <1>2, <1>6, <2>1, <2>2, <2>3, CoveredEmpty, NothingHeld DEF KeptInv
<1>. QED  BY <1>1, <1>4, <1>5, <1>7, <1>8 DEF MemoryInv

\* The steps.
LEMMA MemoryStep == MemoryInv /\ [Next]_vars => MemoryInv'
<1> SUFFICES ASSUME MemoryInv, [Next]_vars PROVE MemoryInv'
  OBVIOUS
<1>1. IInv /\ Waiting /\ WorkInv /\ ConversationInv /\ SummaryInv /\ KeptInv /\ ctx \in CtxT
  BY DEF MemoryInv, ConversationInv, Paired
<1>2. IInv' /\ Waiting'
  BY <1>1, Step, WaitingStep
<1>3. WorkGoesOn
  BY <1>1, WorkStep
<1>4. ConversationGoesOn
  BY <1>1, ConversationStep
<1>5. WorkInv' /\ ConversationInv'
  BY <1>3, <1>4 DEF WorkGoesOn, ConversationGoesOn
<1>6. SummaryInv'
  BY <1>1, <1>3, <1>4, SummaryStep
<1>7. KeptInv'
  BY <1>1, <1>4, KeptStep
<1>. QED  BY <1>2, <1>5, <1>6, <1>7 DEF MemoryInv

\* However late or often compactions come: the conversation holds the inputs the user gave and
\* did not take back, each once and in order (applyCompaction, undo, the worker's comparison with
\* the messages it started from), for any number of compactions, edits and crashes.
THEOREM RememberedAlways == Spec => []Remembered
<1>1. MemoryInv => Remembered
  <2> SUFFICES ASSUME MemoryInv PROVE Remembered
    OBVIOUS
  <2>1. ctx.history \in Seq(Msg)
    BY DEF MemoryInv, ConversationInv, Paired, CtxT
  <2>2. Covered(Voices(ctx)) = Covered(ctx.history)
    BY <2>1, CoveredVoices DEF Voices
  <2>. QED  BY <2>2 DEF MemoryInv, KeptInv, Remembered
<1>. QED  BY MemoryInit, MemoryStep, <1>1, PTL DEF Spec

-----------------------------------------------------------------------------
(* What a replay shows *)

\* The messages of steps that said nothing.
Blank(D) == {Opened(s) : s \in D}
Visible(D) == Msg \ Blank(D)

\* A log's conversation shows what the live one holds, but for steps that said nothing and
\* that are open only there.
Mirrors(c, d) ==
    /\ c \in CtxT /\ d \in CtxT
    /\ c.pendingToolResultIds = d.pendingToolResultIds /\ c.deferredMessages = d.deferredMessages
    /\ c.openSteps \subseteq d.openSteps
    /\ c.history = Select(d.history, Visible(d.openSteps \ c.openSteps))

\* The message of a step that begins says nothing.
LEMMA OpenedForm ==
    ASSUME NEW s \in Nat
    PROVE  /\ Opened(s) \in AsstM /\ Opened(s) \in Msg /\ Opened(s) \notin Speaking
           /\ Opened(s).step = s /\ Opened(s).sendable = FALSE /\ Opened(s).toolCalls = <<>>
<1>1. Opened(s) \in AsstM
  BY EmptySeq DEF Opened, AsstM
<1>2. Opened(s) \in Msg
  BY <1>1 DEF Msg
<1>3. Opened(s) \notin Speaking
  BY <1>1, <1>2, MsgForms DEF AsstM
<1>. QED  BY <1>1, <1>2, <1>3 DEF Opened

\* A blank message is that of its step; what holds inputs and results are not.
LEMMA BlankForms ==
    ASSUME NEW D, D \subseteq Nat, NEW m \in Msg
    PROVE  /\ m \in Blank(D) => m \in AsstM /\ m.step \in D /\ m = Opened(m.step)
           /\ m \in Speaking \/ m.role = "tool" \/ m.role = "user" => m \in Visible(D)
<1>1. ASSUME m \in Blank(D)
      PROVE  m \in AsstM /\ m.step \in D /\ m = Opened(m.step) /\ m \notin Speaking /\ m.role = "assistant"
  <2>1. PICK s \in D : m = Opened(s)
    BY <1>1 DEF Blank
  <2>2. s \in Nat
    OBVIOUS
  <2>3. m \in AsstM /\ m.step = s /\ m \notin Speaking
    BY <2>1, <2>2, OpenedForm
  <2>. QED  BY <2>1, <2>3 DEF AsstM
<1>. QED  BY <1>1 DEF Visible

\* What no provider would take is what is blank and open.
LEMMA VacuousBlank ==
    ASSUME NEW c \in CtxT, NEW m \in Msg
    PROVE  isVacuous(c, m) <=> m \in Blank(c.openSteps)
<1>0. c.openSteps \subseteq Nat
  BY DEF CtxT
<1>1. ASSUME isVacuous(c, m) PROVE m \in Blank(c.openSteps)
  <2>1. m.role = "assistant" /\ m.step \in c.openSteps /\ ~ m.sendable /\ m.toolCalls = <<>>
    BY <1>1 DEF isVacuous
  <2>2. m \in AsstM
    BY <1>0, <2>1, MsgForms
  <2>3. m = [role |-> "assistant", step |-> m.step, sendable |-> FALSE, toolCalls |-> <<>>]
    BY <2>1, <2>2 DEF AsstM
  <2>4. m = Opened(m.step)
    BY <2>3 DEF Opened
  <2>. QED  BY <2>1, <2>4 DEF Blank
<1>2. ASSUME m \in Blank(c.openSteps) PROVE isVacuous(c, m)
  <2>1. PICK s \in c.openSteps : m = Opened(s)
    BY <1>2 DEF Blank
  <2>2. s \in Nat
    BY <1>0
  <2>3. m.step = s /\ m.sendable = FALSE /\ m.toolCalls = <<>> /\ m.role = "assistant"
    BY <2>1 DEF Opened
  <2>. QED  BY <2>3 DEF isVacuous
<1>. QED  BY <1>1, <1>2

\* A conversation mirrors another if its parts do.
LEMMA NextMirror ==
    ASSUME NEW c, NEW d, NEW v, NEW u, NEW P, NEW q, NEW O, NEW U,
           Becomes(c, v, P, q, O), Becomes(d, u, P, q, U), O \subseteq U,
           c.history = Select(d.history, Visible(U \ O))
    PROVE  Mirrors(c, d)
BY DEF Becomes, Mirrors

\* What the two share.
LEMMA MirrorParts ==
    ASSUME NEW c, NEW d, Mirrors(c, d)
    PROVE  /\ c \in CtxT /\ d \in CtxT /\ c.history \in Seq(Msg) /\ d.history \in Seq(Msg)
           /\ d.pendingToolResultIds = c.pendingToolResultIds
           /\ d.deferredMessages = c.deferredMessages /\ c.deferredMessages \in Seq(UserM)
           /\ c.openSteps \subseteq d.openSteps /\ d.openSteps \subseteq Nat
           /\ d.openSteps \ c.openSteps \subseteq Nat
           /\ c.history = Select(d.history, Visible(d.openSteps \ c.openSteps))
BY DEF Mirrors, CtxT

\* What is neither a step's message nor hidden shows after what went before it.
LEMMA ShowsMore ==
    ASSUME NEW h \in Seq(Msg), NEW r \in Seq(Msg), NEW D, D \subseteq Nat,
           \A i \in DOMAIN r : r[i].role # "assistant"
    PROVE  Select(h \o r, Visible(D)) = Select(h, Visible(D)) \o r
<1>1. \A i \in DOMAIN r : r[i] \in Visible(D)
  <2>1. ASSUME NEW i \in DOMAIN r PROVE r[i] \in Visible(D)
    <3>1. r[i] \in Msg /\ r[i].role # "assistant"
      BY LenProperties, ElementOfSeq
    <3>. DEFINE m == r[i]
    <3>2. m \in Msg /\ m.role # "assistant"
      BY <3>1
    <3>. HIDE DEF m
    <3>3. m.role = "tool" \/ m.role = "user"
      BY <3>2, MsgForms DEF Msg
    <3>4. m \in Visible(D)
      BY <3>2, <3>3, BlankForms
    <3>. QED  BY <3>4 DEF m
  <2>. QED  BY <2>1
<1>. DEFINE T == Visible(D)
<1>. HIDE DEF T
<1>2. Select(r, T) = r
  BY <1>1, SelectAll DEF T
<1>3. Select(h \o r, T) = Select(h, T) \o Select(r, T)
  BY SelectConcat
<1>. QED  BY <1>2, <1>3 DEF T

\* What users say is not an assistant's.
LEMMA UsersSpeak ==
    ASSUME NEW q \in Seq(UserM)
    PROVE  q \in Seq(Msg) /\ \A i \in DOMAIN q : q[i].role # "assistant"
<1>1. \A i \in DOMAIN q : q[i] \in UserM
  BY LenProperties, ElementOfSeq
<1>. QED  BY <1>1, UserVoices DEF UserM

-----------------------------------------------------------------------------
\* Each operation, applied to both, keeps one the mirror of the other.
LEMMA FlushMirror ==
    ASSUME NEW c, NEW d, Mirrors(c, d)
    PROVE  Mirrors(flushDeferredMessagesIfToolExchangeClosed(c),
                   flushDeferredMessagesIfToolExchangeClosed(d))
<1>. DEFINE cc == flushDeferredMessagesIfToolExchangeClosed(c)
            dd == flushDeferredMessagesIfToolExchangeClosed(d)
            P == c.pendingToolResultIds
            q == c.deferredMessages
            T == Visible(d.openSteps \ c.openSteps)
<1>1. /\ c \in CtxT /\ d \in CtxT /\ c.history \in Seq(Msg) /\ d.history \in Seq(Msg)
      /\ d.pendingToolResultIds = P /\ d.deferredMessages = q /\ q \in Seq(UserM)
      /\ c.openSteps \subseteq d.openSteps /\ d.openSteps \ c.openSteps \subseteq Nat
      /\ c.history = Select(d.history, T)
  BY MirrorParts
<1>2. CASE P # {}
  BY <1>1, <1>2 DEF flushDeferredMessagesIfToolExchangeClosed, hasOpenToolExchange
<1>3. CASE P = {}
  <2>1. /\ Becomes(cc, Voices(c) \o q, P, <<>>, c.openSteps)
        /\ Becomes(dd, Voices(d) \o q, P, <<>>, d.openSteps)
    BY <1>1, <1>3, FlushBecomes
  <2>2. cc.history = c.history \o q /\ dd.history = d.history \o q
    BY <1>1, <1>3 DEF flushDeferredMessagesIfToolExchangeClosed, hasOpenToolExchange, CtxT
  <2>3. q \in Seq(Msg) /\ \A i \in DOMAIN q : q[i].role # "assistant"
    BY <1>1, UsersSpeak
  <2>. HIDE DEF q
  <2>4. Select(d.history \o q, T) = Select(d.history, T) \o q
    BY <1>1, <2>3, ShowsMore
  <2>. HIDE DEF cc, dd
  <2>5. cc.history = Select(dd.history, T)
    BY <1>1, <2>2, <2>4
  <2>6. Mirrors(cc, dd)
    BY <1>1, <2>1, <2>5, NextMirror
  <2>. QED  BY <2>6 DEF cc, dd
<1>. QED  BY <1>2, <1>3

\* So does an input.
LEMMA AppendMirror ==
    ASSUME NEW c, NEW d, Mirrors(c, d), NEW n \in Nat
    PROVE  Mirrors(appendMessage(c, <<Input(n)>>), appendMessage(d, <<Input(n)>>))
<1>. DEFINE m == <<Input(n)>>
            cc == appendMessage(c, m)
            dd == appendMessage(d, m)
            P == c.pendingToolResultIds
            q == c.deferredMessages
            T == Visible(d.openSteps \ c.openSteps)
<1>1. /\ c \in CtxT /\ d \in CtxT /\ c.history \in Seq(Msg) /\ d.history \in Seq(Msg)
      /\ d.pendingToolResultIds = P /\ d.deferredMessages = q
      /\ c.openSteps \subseteq d.openSteps /\ d.openSteps \ c.openSteps \subseteq Nat
      /\ c.history = Select(d.history, T)
  BY MirrorParts
<1>2. CASE P # {}
  <2>1. /\ Becomes(cc, Voices(c), P, q \o m, c.openSteps)
        /\ Becomes(dd, Voices(d), P, q \o m, d.openSteps)
    BY <1>1, <1>2, AppendBecomes
  <2>2. cc.history = c.history /\ dd.history = d.history
    BY <1>1, <1>2 DEF appendMessage, hasOpenToolExchange, CtxT
  <2>. HIDE DEF cc, dd, m
  <2>3. cc.history = Select(dd.history, T)
    BY <1>1, <2>2
  <2>4. Mirrors(cc, dd)
    BY <1>1, <2>1, <2>3, NextMirror
  <2>. QED  BY <2>4 DEF cc, dd, m
<1>3. CASE P = {}
  <2>1. /\ Becomes(cc, Voices(c) \o m, P, q, c.openSteps)
        /\ Becomes(dd, Voices(d) \o m, P, q, d.openSteps)
    BY <1>1, <1>3, AppendBecomes
  <2>2. cc.history = c.history \o m /\ dd.history = d.history \o m
    BY <1>1, <1>3 DEF appendMessage, hasOpenToolExchange, CtxT
  <2>3. m \in Seq(Msg) /\ \A i \in DOMAIN m : m[i].role # "assistant"
    <3>1. m \in Seq(UserM)
      BY OneInput
    <3>. HIDE DEF m
    <3>. QED  BY <3>1, UsersSpeak
  <2>. HIDE DEF m
  <2>4. Select(d.history \o m, T) = Select(d.history, T) \o m
    BY <1>1, <2>3, ShowsMore
  <2>. HIDE DEF cc, dd
  <2>5. cc.history = Select(dd.history, T)
    BY <1>1, <2>2, <2>4
  <2>6. Mirrors(cc, dd)
    BY <1>1, <2>1, <2>5, NextMirror
  <2>. QED  BY <2>6 DEF cc, dd, m
<1>. QED  BY <1>2, <1>3

\* So does a step that begins and was open in neither.
LEMMA BeginMirror ==
    ASSUME NEW c, NEW d, Mirrors(c, d), NEW s \in Nat, s \notin d.openSteps
    PROVE  Mirrors(stepBegin(c, s), stepBegin(d, s)) /\ stepBegin(d, s).openSteps = d.openSteps \cup {s}
<1>. DEFINE cc == stepBegin(c, s)
            dd == stepBegin(d, s)
            m == Opened(s)
            O == c.openSteps \cup {s}
            U == d.openSteps \cup {s}
            T == Visible(d.openSteps \ c.openSteps)
<1>1. /\ c \in CtxT /\ d \in CtxT /\ c.history \in Seq(Msg) /\ d.history \in Seq(Msg)
      /\ d.pendingToolResultIds = c.pendingToolResultIds /\ d.deferredMessages = c.deferredMessages
      /\ c.openSteps \subseteq d.openSteps /\ d.openSteps \ c.openSteps \subseteq Nat
      /\ c.history = Select(d.history, T)
  BY MirrorParts
<1>2. /\ Becomes(cc, Voices(c), c.pendingToolResultIds, c.deferredMessages, O)
      /\ Becomes(dd, Voices(d), c.pendingToolResultIds, c.deferredMessages, U)
  BY <1>1, BeginBecomes
<1>3. cc.history = Append(c.history, m) /\ dd.history = Append(d.history, m)
  BY <1>1 DEF stepBegin, CtxT
<1>4. U \ O = d.openSteps \ c.openSteps /\ O \subseteq U
  BY <1>1
<1>5. m \in Msg /\ m \in T
  <2>1. m \in Msg /\ m.step = s
    BY OpenedForm
  <2>. DEFINE D == d.openSteps \ c.openSteps
  <2>2. D \subseteq Nat /\ s \notin D
    BY <1>1
  <2>. HIDE DEF D, m
  <2>3. m \notin Blank(D)
    BY <2>1, <2>2, BlankForms
  <2>. QED  BY <2>1, <2>3 DEF Visible, D
<1>. HIDE DEF cc, dd, m, T
<1>6. Select(Append(d.history, m), T) = Append(Select(d.history, T), m)
  BY <1>1, <1>5, SelectAppend
<1>7. cc.history = Select(dd.history, T)
  BY <1>1, <1>3, <1>6
<1>8. cc.history = Select(dd.history, Visible(U \ O))
  BY <1>4, <1>7 DEF T
<1>. HIDE DEF O, U
<1>9. Mirrors(cc, dd)
  BY <1>2, <1>4, <1>8, NextMirror
<1>. QED  BY <1>2, <1>9 DEF cc, dd, Becomes, U

\* A change of an open step's message does not touch what is hidden.
LEMMA ChangeMirror ==
    ASSUME NEW h \in Seq(Msg), NEW f, NEW s \in Nat, InPlace(f, s), NEW D, D \subseteq Nat, s \notin D
    PROVE  Select(Mapped(h, f), Visible(D)) = Mapped(Select(h, Visible(D)), f)
<1>1. f \in [Msg -> Msg]
  BY DEF InPlace
<1>2. ASSUME NEW x \in Msg PROVE f[x] \in Visible(D) <=> x \in Visible(D)
  <2>1. CASE x \in AsstM /\ x.step = s
    <3>1. f[x] \in Msg /\ f[x].step = s
      BY <2>1, <1>1 DEF InPlace
    <3>2. x \notin Blank(D)
      BY <2>1, BlankForms
    <3>. DEFINE y == f[x]
    <3>3. y \in Msg /\ y.step = s
      BY <3>1
    <3>. HIDE DEF y
    <3>4. y \notin Blank(D)
      BY <3>3, BlankForms
    <3>. QED  BY <3>2, <3>3, <3>4 DEF Visible, y
  <2>2. CASE ~ (x \in AsstM /\ x.step = s)
    BY <2>2 DEF InPlace
  <2>. QED  BY <2>1, <2>2
<1>. DEFINE T == Visible(D)
<1>. HIDE DEF T
<1>3. Select(Mapped(h, f), T) = Mapped(Select(h, T), f)
  BY <1>1, <1>2, SelectMapped DEF T
<1>. QED  BY <1>3 DEF T

\* So does a content part of a step that is open in both or in neither.
LEMMA PartMirror ==
    ASSUME NEW c, NEW d, Mirrors(c, d), NEW s \in Nat, s \in c.openSteps <=> s \in d.openSteps
    PROVE  Mirrors(contentPart(c, s), contentPart(d, s)) /\ contentPart(d, s).openSteps = d.openSteps
<1>. DEFINE cc == contentPart(c, s)
            dd == contentPart(d, s)
            D == d.openSteps \ c.openSteps
            T == Visible(D)
<1>1. /\ c \in CtxT /\ d \in CtxT /\ c.history \in Seq(Msg) /\ d.history \in Seq(Msg)
      /\ d.pendingToolResultIds = c.pendingToolResultIds /\ d.deferredMessages = c.deferredMessages
      /\ c.openSteps \subseteq d.openSteps /\ D \subseteq Nat
      /\ c.history = Select(d.history, T)
  BY MirrorParts
<1>2. /\ Becomes(cc, Voices(c), c.pendingToolResultIds, c.deferredMessages, c.openSteps)
      /\ Becomes(dd, Voices(d), c.pendingToolResultIds, c.deferredMessages, d.openSteps)
  BY <1>1, EventsBecome
<1>3. CASE s \notin c.openSteps
  BY <1>3 DEF contentPart
<1>4. CASE s \in c.openSteps
  <2>. DEFINE f == Marked(s)
  <2>1. cc.history = Mapped(c.history, f) /\ dd.history = Mapped(d.history, f)
    <3>. DEFINE hc == Mapped(c.history, f)
                hd == Mapped(d.history, f)
    <3>1. cc = [c EXCEPT !.history = hc] /\ dd = [d EXCEPT !.history = hd]
      BY <1>1, <1>4, StepEvents
    <3>. HIDE DEF hc, hd, f, cc, dd
    <3>2. cc.history = hc /\ dd.history = hd
      BY <1>1, <3>1 DEF CtxT
    <3>. QED  BY <3>2 DEF hc, hd
  <2>2. InPlace(f, s)
    BY ChangesInPlace
  <2>. HIDE DEF f, cc, dd
  <2>3. s \notin D
    BY <1>4
  <2>. HIDE DEF D
  <2>4. Select(Mapped(d.history, f), Visible(D)) = Mapped(Select(d.history, Visible(D)), f)
    BY <1>1, <2>2, <2>3, ChangeMirror
  <2>5. cc.history = Select(dd.history, Visible(D))
    BY <1>1, <2>1, <2>4
  <2>6. Mirrors(cc, dd)
    BY <1>1, <1>2, <2>5, NextMirror DEF D
  <2>. QED  BY <1>2, <2>6 DEF cc, dd, Becomes
<1>. QED  BY <1>3, <1>4

\* So does a tool call of such a step.
LEMMA CallMirror ==
    ASSUME NEW c, NEW d, Mirrors(c, d), NEW s \in Nat, s \in c.openSteps <=> s \in d.openSteps,
           NEW id \in Ids
    PROVE  Mirrors(toolCall(c, s, id), toolCall(d, s, id)) /\ toolCall(d, s, id).openSteps = d.openSteps
<1>. DEFINE cc == toolCall(c, s, id)
            dd == toolCall(d, s, id)
            D == d.openSteps \ c.openSteps
            T == Visible(D)
            P == IF s \in c.openSteps THEN c.pendingToolResultIds \cup {id} ELSE c.pendingToolResultIds
<1>1. /\ c \in CtxT /\ d \in CtxT /\ c.history \in Seq(Msg) /\ d.history \in Seq(Msg)
      /\ d.pendingToolResultIds = c.pendingToolResultIds /\ d.deferredMessages = c.deferredMessages
      /\ c.openSteps \subseteq d.openSteps /\ D \subseteq Nat
      /\ c.history = Select(d.history, T)
  BY MirrorParts
<1>2. /\ Becomes(cc, Voices(c), P, c.deferredMessages, c.openSteps)
      /\ Becomes(dd, Voices(d), P, c.deferredMessages, d.openSteps)
  BY <1>1, EventsBecome
<1>. HIDE DEF P
<1>3. CASE s \notin c.openSteps
  BY <1>3 DEF toolCall
<1>4. CASE s \in c.openSteps
  <2>. DEFINE f == Called(s, id)
  <2>1. cc.history = Mapped(c.history, f) /\ dd.history = Mapped(d.history, f)
    <3>. DEFINE hc == Mapped(c.history, f)
                hd == Mapped(d.history, f)
    <3>1. /\ cc = [c EXCEPT !.history = hc, !.pendingToolResultIds = @ \cup {id}]
          /\ dd = [d EXCEPT !.history = hd, !.pendingToolResultIds = @ \cup {id}]
      BY <1>1, <1>4, StepEvents
    <3>. HIDE DEF hc, hd, f, cc, dd
    <3>2. cc.history = hc /\ dd.history = hd
      BY <1>1, <3>1 DEF CtxT
    <3>. QED  BY <3>2 DEF hc, hd
  <2>2. InPlace(f, s)
    BY ChangesInPlace
  <2>. HIDE DEF f, cc, dd
  <2>3. s \notin D
    BY <1>4
  <2>. HIDE DEF D
  <2>4. Select(Mapped(d.history, f), Visible(D)) = Mapped(Select(d.history, Visible(D)), f)
    BY <1>1, <2>2, <2>3, ChangeMirror
  <2>5. cc.history = Select(dd.history, Visible(D))
    BY <1>1, <2>1, <2>4
  <2>6. Mirrors(cc, dd)
    BY <1>1, <1>2, <2>5, NextMirror DEF D
  <2>. QED  BY <1>2, <2>6 DEF cc, dd, Becomes
<1>. QED  BY <1>3, <1>4

\* So do results.
LEMMA ResultsMirror ==
    ASSUME NEW c, NEW d, Mirrors(c, d), NEW ids \in Seq(Ids)
    PROVE  Mirrors(toolResults(c, ids), toolResults(d, ids))
<1>. DEFINE r == ResultsOf(ids)
            P == c.pendingToolResultIds \ Range(ids)
            hc == c.history \o r
            hd == d.history \o r
            cc == [c EXCEPT !.history = hc, !.pendingToolResultIds = P]
            dd == [d EXCEPT !.history = hd, !.pendingToolResultIds = P]
            D == d.openSteps \ c.openSteps
<1>1. /\ c \in CtxT /\ d \in CtxT /\ c.history \in Seq(Msg) /\ d.history \in Seq(Msg)
      /\ d.pendingToolResultIds = c.pendingToolResultIds /\ d.deferredMessages = c.deferredMessages
      /\ c.openSteps \subseteq d.openSteps /\ D \subseteq Nat
      /\ c.history = Select(d.history, Visible(D))
  BY MirrorParts
<1>2. r \in Seq(Msg) /\ \A i \in DOMAIN r : r[i].role # "assistant"
  BY ResultsOfType DEF ResultsOf, Result
<1>3. /\ toolResults(c, ids) = flushDeferredMessagesIfToolExchangeClosed(cc)
      /\ toolResults(d, ids) = flushDeferredMessagesIfToolExchangeClosed(dd)
  BY <1>1 DEF toolResults, ResultsOf, CtxT
<1>4. P \in SUBSET Ids /\ IsFiniteSet(P)
  BY <1>1, FS_Difference DEF CtxT
<1>. HIDE DEF r, P, D
<1>5. Select(d.history \o r, Visible(D)) = Select(d.history, Visible(D)) \o r
  BY <1>1, <1>2, ShowsMore
<1>6. hc \in Seq(Msg) /\ hd \in Seq(Msg) /\ hc = Select(hd, Visible(D))
  BY <1>1, <1>2, <1>5, ConcatProperties
<1>. HIDE DEF hc, hd
<1>7. /\ cc \in CtxT /\ cc.history = hc /\ cc.pendingToolResultIds = P
      /\ cc.deferredMessages = c.deferredMessages /\ cc.openSteps = c.openSteps
  BY <1>1, <1>4, <1>6 DEF CtxT
<1>8. /\ dd \in CtxT /\ dd.history = hd /\ dd.pendingToolResultIds = P
      /\ dd.deferredMessages = c.deferredMessages /\ dd.openSteps = d.openSteps
  BY <1>1, <1>4, <1>6 DEF CtxT
<1>. HIDE DEF cc, dd
<1>9. Mirrors(cc, dd)
  BY <1>1, <1>6, <1>7, <1>8 DEF Mirrors, D
<1>. QED  BY <1>3, <1>9, FlushMirror

\* What dropVacuousOpenMessages leaves is what is not blank.
LEMMA DropShows ==
    ASSUME NEW c \in CtxT
    PROVE  /\ dropVacuousOpenMessages(c).history = Select(c.history, Visible(c.openSteps))
           /\ \E W \in SUBSET c.openSteps :
                /\ dropVacuousOpenMessages(c).openSteps = c.openSteps \ W
                /\ dropVacuousOpenMessages(c).history = Select(c.history, Visible(W))
<1>. DEFINE R == Range(c.history)
            V == {m \in R : isVacuous(c, m)}
            W == {m.step : m \in V}
            h == Select(c.history, R \ V)
<1>1. c.history \in Seq(Msg) /\ R \subseteq Msg /\ c.openSteps \subseteq Nat
  BY RangeOfSeq DEF CtxT
<1>2. dropVacuousOpenMessages(c) = [c EXCEPT !.history = h, !.openSteps = c.openSteps \ W]
  BY DEF dropVacuousOpenMessages, CtxT
<1>3. \A m \in Msg : m \in R => (m \in R \ V <=> m \in Visible(c.openSteps))
  BY VacuousBlank DEF Visible
<1>4. W \subseteq c.openSteps
  BY DEF isVacuous
<1>5. \A m \in Msg : m \in R => (m \in R \ V <=> m \in Visible(W))
  <2>1. ASSUME NEW m \in Msg, m \in R, m \in V PROVE m \in Blank(W)
    <3>1. m \in Blank(c.openSteps)
      BY <1>1, <2>1, VacuousBlank
    <3>2. m = Opened(m.step) /\ m.step \in W
      BY <1>1, <2>1, <3>1, BlankForms
    <3>. QED  BY <3>2 DEF Blank
  <2>2. ASSUME NEW m \in Msg, m \in R, m \in Blank(W) PROVE m \in V
    <3>1. m \in Blank(c.openSteps)
      BY <1>4, <2>2 DEF Blank
    <3>2. isVacuous(c, m)
      BY <3>1, VacuousBlank
    <3>. QED  BY <2>2, <3>2
  <2>. HIDE DEF V, W, R
  <2>. QED  BY <2>1, <2>2 DEF Visible
<1>6. \A i \in DOMAIN c.history : c.history[i] \in R /\ c.history[i] \in Msg
  BY <1>1 DEF Range
<1>. DEFINE K == R \ V
            T1 == Visible(c.openSteps)
            T2 == Visible(W)
<1>7. (\A i \in DOMAIN c.history : c.history[i] \in K <=> c.history[i] \in T1)
      /\ (\A i \in DOMAIN c.history : c.history[i] \in K <=> c.history[i] \in T2)
  BY <1>3, <1>5, <1>6
<1>8. h = Select(c.history, K)
  OBVIOUS
<1>. HIDE DEF K, T1, T2, h, V, R
<1>9. h = Select(c.history, T1) /\ h = Select(c.history, T2)
  BY <1>7, <1>8, SelectSame
<1>. HIDE DEF W
<1>10. dropVacuousOpenMessages(c).history = h /\ dropVacuousOpenMessages(c).openSteps = c.openSteps \ W
  BY <1>2 DEF CtxT
<1>. QED  BY <1>4, <1>9, <1>10 DEF T1, T2

\* What is hidden twice is hidden once.
LEMMA ShowsTwice ==
    ASSUME NEW h \in Seq(Msg), NEW D, NEW W, NEW U, U = D \cup W
    PROVE  Select(Select(h, Visible(D)), Visible(W)) = Select(h, Visible(U))
<1>1. Visible(D) \cap Visible(W) = Visible(U)
  BY DEF Visible, Blank
<1>. DEFINE A == Visible(D)
            B == Visible(W)
<1>. HIDE DEF A, B
<1>2. Select(Select(h, A), B) = Select(h, A \cap B)
  BY SelectSelect
<1>. QED  BY <1>1, <1>2 DEF A, B

\* Dropping what is blank on the live side leaves a mirror; on both sides, the same messages.
LEMMA DropMirror ==
    ASSUME NEW c, NEW d, Mirrors(c, d)
    PROVE  /\ Mirrors(dropVacuousOpenMessages(c), d)
           /\ dropVacuousOpenMessages(c).history = dropVacuousOpenMessages(d).history
<1>. DEFINE D == d.openSteps \ c.openSteps
            cc == dropVacuousOpenMessages(c)
            dd == dropVacuousOpenMessages(d)
<1>1. /\ c \in CtxT /\ d \in CtxT /\ c.history \in Seq(Msg) /\ d.history \in Seq(Msg)
      /\ d.pendingToolResultIds = c.pendingToolResultIds /\ d.deferredMessages = c.deferredMessages
      /\ c.openSteps \subseteq d.openSteps /\ D \subseteq Nat
      /\ c.history = Select(d.history, Visible(D))
  BY MirrorParts
<1>2. cc.history = Select(c.history, Visible(c.openSteps)) /\ dd.history = Select(d.history, Visible(d.openSteps))
  BY <1>1, DropShows
<1>3. cc.history = dd.history
  <2>1. d.openSteps = D \cup c.openSteps
    BY <1>1
  <2>2. Select(Select(d.history, Visible(D)), Visible(c.openSteps)) = Select(d.history, Visible(d.openSteps))
    <3>. HIDE DEF D
    <3>. QED  BY <1>1, <2>1, ShowsTwice
  <2>. QED  BY <1>1, <1>2, <2>2
<1>4. PICK W \in SUBSET c.openSteps : cc.openSteps = c.openSteps \ W /\ cc.history = Select(c.history, Visible(W))
  BY <1>1, DropShows
<1>5. cc.history = Select(d.history, Visible(d.openSteps \ cc.openSteps))
  <2>. DEFINE U == d.openSteps \ cc.openSteps
  <2>1. U = D \cup W
    BY <1>1, <1>4
  <2>. HIDE DEF U, D
  <2>2. Select(Select(d.history, Visible(D)), Visible(W)) = Select(d.history, Visible(U))
    BY <1>1, <2>1, ShowsTwice
  <2>. QED  BY <1>1, <1>4, <2>2 DEF U
<1>6. /\ cc \in CtxT /\ cc.pendingToolResultIds = c.pendingToolResultIds
      /\ cc.deferredMessages = c.deferredMessages /\ cc.openSteps \subseteq c.openSteps
  BY <1>1, <1>4, DropBecomes DEF Becomes
<1>. HIDE DEF cc, dd, D
<1>7. Mirrors(cc, d)
  BY <1>1, <1>5, <1>6 DEF Mirrors
<1>. QED  BY <1>3, <1>7 DEF cc, dd

\* A conversation mirrors itself: after a compaction, a clear and a resume.
LEMMA ItselfMirror ==
    ASSUME NEW c \in CtxT
    PROVE  Mirrors(c, c)
<1>. DEFINE T == Visible(c.openSteps \ c.openSteps)
<1>1. c.history \in Seq(Msg) /\ T = Msg
  BY DEF CtxT, Visible, Blank
<1>2. \A i \in DOMAIN c.history : c.history[i] \in T
  BY <1>1, LenProperties, ElementOfSeq
<1>. HIDE DEF T
<1>3. Select(c.history, T) = c.history
  BY <1>1, <1>2, SelectAll
<1>. QED  BY <1>3 DEF Mirrors, T

\* So does undo, which cuts both at the same message.
LEMMA UndoMirror ==
    ASSUME NEW c, NEW d, Mirrors(c, d)
    PROVE  Mirrors(undo(c), undo(d)) /\ undo(d).openSteps = d.openSteps
<1>. DEFINE D == d.openSteps \ c.openSteps
            T == Visible(D)
            cc == undo(c)
            dd == undo(d)
<1>1. /\ c \in CtxT /\ d \in CtxT /\ c.history \in Seq(Msg) /\ d.history \in Seq(Msg)
      /\ d.pendingToolResultIds = c.pendingToolResultIds /\ d.deferredMessages = c.deferredMessages
      /\ c.openSteps \subseteq d.openSteps /\ D \subseteq Nat
      /\ c.history = Select(d.history, T)
  BY MirrorParts
<1>2. /\ Becomes(cc, Curtail(Voices(c)), c.pendingToolResultIds, c.deferredMessages, c.openSteps)
      /\ Becomes(dd, Curtail(Voices(d)), c.pendingToolResultIds, c.deferredMessages, d.openSteps)
  BY <1>1, UndoBecomes
<1>3. SUFFICES cc.history = Select(dd.history, T)
  <2>. HIDE DEF cc, dd
  <2>1. ASSUME cc.history = Select(dd.history, T) PROVE Mirrors(cc, dd)
    BY <1>1, <1>2, <2>1, NextMirror
  <2>. QED  BY <1>2, <2>1 DEF cc, dd, Becomes
<1>4. \A r \in Seq(Msg) : (\A i \in 1 .. Len(r) : r[i] \notin Speaking)
           => Select(r, T) \in Seq(Msg) /\ \A i \in 1 .. Len(Select(r, T)) : Select(r, T)[i] \notin Speaking
  <2>1. ASSUME NEW r \in Seq(Msg), \A i \in 1 .. Len(r) : r[i] \notin Speaking
        PROVE  Select(r, T) \in Seq(Msg) /\ \A i \in 1 .. Len(Select(r, T)) : Select(r, T)[i] \notin Speaking
    <3>. DEFINE e == Select(r, T)
    <3>1. e \in Seq(Msg) /\ Range(e) \subseteq Range(r)
      BY SelectType, SelectRange
    <3>2. Range(r) \cap Speaking = {}
      BY <2>1, LenProperties DEF Range
    <3>. HIDE DEF e
    <3>3. \A i \in 1 .. Len(e) : e[i] \in Range(e)
      BY <3>1, LenProperties DEF Range
    <3>4. e \in Seq(Msg) /\ \A i \in 1 .. Len(e) : e[i] \notin Speaking
      BY <3>1, <3>2, <3>3
    <3>. QED  BY <3>4 DEF e
  <2>. QED  BY <2>1
<1>5. CASE \A i \in 1 .. Len(d.history) : d.history[i] \notin Speaking
  <2>1. \A i \in 1 .. Len(c.history) : c.history[i] \notin Speaking
    BY <1>1, <1>4, <1>5
  <2>2. cc = [c EXCEPT !.history = <<>>] /\ dd = [d EXCEPT !.history = <<>>]
    BY <1>1, <1>5, <2>1, UndoCuts
  <2>3. cc.history = <<>> /\ dd.history = <<>>
    BY <1>1, <2>2 DEF CtxT
  <2>. QED  BY <2>3, SelectEmpty
<1>6. ASSUME NEW pre, NEW m, NEW post, SaidLast(d.history, pre, m, post)
      PROVE  cc.history = Select(dd.history, T)
  <2>1. /\ pre \in Seq(Msg) /\ post \in Seq(Msg) /\ m \in Speaking /\ m \in Msg
        /\ d.history = Append(pre, m) \o post /\ \A i \in 1 .. Len(post) : post[i] \notin Speaking
    BY <1>6 DEF SaidLast, Speaking, Msg
  <2>2. m \in T
    BY <1>1, <2>1, BlankForms
  <2>. DEFINE a == Append(pre, m)
              p == Select(pre, T)
              e == Select(post, T)
  <2>3. a \in Seq(Msg) /\ p \in Seq(Msg) /\ e \in Seq(Msg) /\ \A i \in 1 .. Len(e) : e[i] \notin Speaking
    <3>1. a \in Seq(Msg) /\ p \in Seq(Msg)
      BY <2>1, SelectType, AppendProperties
    <3>. QED  BY <1>4, <2>1, <3>1
  <2>4. Select(a, T) = Append(p, m)
    <3>. HIDE DEF T
    <3>. QED  BY <2>1, <2>2, SelectAppend
  <2>5. c.history = Append(p, m) \o e
    <3>1. d.history = a \o post
      BY <2>1
    <3>. HIDE DEF a, T
    <3>2. Select(a \o post, T) = Select(a, T) \o Select(post, T)
      <4>1. a \in Seq(Msg) /\ post \in Seq(Msg)
        BY <2>1, <2>3
      <4>. QED  BY ONLY <4>1, SelectConcat
    <3>. QED  BY <1>1, <2>4, <3>1, <3>2
  <2>. HIDE DEF p, e
  <2>6. SaidLast(c.history, p, m, e)
    BY <2>1, <2>3, <2>5 DEF SaidLast
  <2>7. /\ cc = [c EXCEPT !.history = IF m \in SumM THEN Append(p, m) ELSE p]
        /\ dd = [d EXCEPT !.history = IF m \in SumM THEN a ELSE pre]
    BY <1>1, <1>6, <2>6, UndoCuts
  <2>. HIDE DEF a, cc, dd, T
  <2>8. cc.history = (IF m \in SumM THEN Append(p, m) ELSE p) /\ dd.history = IF m \in SumM THEN a ELSE pre
    BY <1>1, <2>7 DEF CtxT
  <2>. QED  BY <2>4, <2>8 DEF p
<1>. HIDE DEF cc, dd, T
<1>7. \/ \A i \in 1 .. Len(d.history) : d.history[i] \notin Speaking
      \/ \E pre, m, post : SaidLast(d.history, pre, m, post)
  BY <1>1, LastVoice
<1>. QED  BY <1>5, <1>6, <1>7

-----------------------------------------------------------------------------
\* Until a step writes to a snapshot that waits, the log mirrors the conversation.
ReplayInv ==
    ~ doubled => Mirrors(ctx, wire) /\ wire.openSteps \subseteq 1 .. steps

\* A step keeps the invariant if the log goes on mirroring the conversation.
LEMMA NextReplay ==
    ASSUME ConversationInv, steps' = steps, Mirrors(ctx', wire'), wire'.openSteps \subseteq wire.openSteps,
           wire.openSteps \subseteq 1 .. steps
    PROVE  ReplayInv'
BY DEF ReplayInv

\* A step that leaves the memory alone does.
LEMMA SameReplay ==
    ASSUME ReplayInv, UNCHANGED <<memory, steps>>
    PROVE  ReplayInv'
BY DEF ReplayInv, memory

\* Every step does.
LEMMA ReplayStep ==
    ASSUME IInv, Waiting, WorkInv, ConversationInv, ConversationInv', ReplayInv, [Next]_vars
    PROVE  ReplayInv'
<1>. SUFFICES ASSUME ~ doubled' PROVE ReplayInv'
  BY DEF ReplayInv
<1>0. /\ ctx \in CtxT /\ wire \in CtxT /\ ctx' \in CtxT /\ wire' \in CtxT
      /\ steps \in Nat /\ inputs \in Nat /\ turn.called \in Nat /\ turn.answered \in Nat /\ IsTurn(turn)
      /\ wire.pendingToolResultIds = ctx.pendingToolResultIds
      /\ turn.pc \in {"llm", "tools"} => (steps \in ctx.openSteps <=> steps \in wire.openSteps)
  BY DEF ConversationInv, Paired, Alike, Waiting
<1>1. CASE Prompt
  <2>1. /\ inputs' = inputs + 1 /\ steps' = steps
        /\ Record([type |-> "message", input |-> inputs'])
    BY <1>1 DEF Prompt
  <2>2. ctx' = appendMessage(ctx, <<Input(inputs')>>) /\ wire' = appendMessage(wire, <<Input(inputs')>>)
        /\ ~ doubled
    BY <2>1, Recorded
  <2>3. Mirrors(ctx, wire) /\ wire.openSteps \subseteq 1 .. steps
    BY <2>2 DEF ReplayInv
  <2>4. Mirrors(ctx', wire')
    BY <1>0, <2>1, <2>2, <2>3, AppendMirror
  <2>5. wire'.openSteps = wire.openSteps
    BY <1>0, <2>2 DEF appendMessage, CtxT
  <2>. QED  BY <2>1, <2>3, <2>4, <2>5, NextReplay
<1>2. CASE StepBegin
  <2>1. CASE turn.aborted
    BY <1>2, <2>1, SameReplay DEF StepBegin
  <2>2. CASE ~ turn.aborted
    <3>1. steps' = steps + 1 /\ Record([type |-> "step.begin", step |-> steps'])
      BY <1>2, <2>2 DEF StepBegin
    <3>2. ctx' = stepBegin(ctx, steps') /\ wire' = stepBegin(wire, steps') /\ ~ doubled
      BY <3>1, Recorded
    <3>3. Mirrors(ctx, wire) /\ wire.openSteps \subseteq 1 .. steps
      BY <3>2 DEF ReplayInv
    <3>4. steps' \in Nat /\ steps' \notin wire.openSteps
      BY <1>0, <3>1, <3>3
    <3>5. Mirrors(ctx', wire') /\ wire'.openSteps = wire.openSteps \cup {steps'}
      BY <3>2, <3>3, <3>4, BeginMirror
    <3>6. wire'.openSteps \subseteq 1 .. steps'
      BY <1>0, <3>1, <3>3, <3>5
    <3>. QED  BY <3>5, <3>6 DEF ReplayInv
  <2>. QED  BY <2>1, <2>2
<1>3. CASE ContentPart
  <2>1. steps' = steps /\ Record([type |-> "content.part", step |-> steps]) /\ turn.pc = "llm"
    BY <1>3 DEF ContentPart
  <2>2. ctx' = contentPart(ctx, steps) /\ wire' = contentPart(wire, steps) /\ ~ doubled
    BY <2>1, Recorded
  <2>3. Mirrors(ctx, wire) /\ wire.openSteps \subseteq 1 .. steps
    BY <2>2 DEF ReplayInv
  <2>4. Mirrors(ctx', wire') /\ wire'.openSteps = wire.openSteps
    BY <1>0, <2>1, <2>2, <2>3, PartMirror
  <2>. QED  BY <2>1, <2>3, <2>4, NextReplay
<1>4. CASE ToolCall
  <2>. DEFINE id == <<steps, turn'.called>>
  <2>1. steps' = steps /\ Record([type |-> "tool.call", step |-> steps, id |-> id]) /\ turn.pc = "tools"
        /\ turn'.called = turn.called + 1
    BY <1>0, <1>4 DEF ToolCall, IsTurn
  <2>2. id \in Ids
    BY <1>0, <2>1 DEF Ids
  <2>. HIDE DEF id
  <2>3. ctx' = toolCall(ctx, steps, id) /\ wire' = toolCall(wire, steps, id) /\ ~ doubled
    BY <2>1, Recorded
  <2>4. Mirrors(ctx, wire) /\ wire.openSteps \subseteq 1 .. steps
    BY <2>3 DEF ReplayInv
  <2>5. Mirrors(ctx', wire') /\ wire'.openSteps = wire.openSteps
    BY <1>0, <2>1, <2>2, <2>3, <2>4, CallMirror
  <2>. QED  BY <2>1, <2>4, <2>5, NextReplay
<1>5. CASE ToolResult
  <2>. DEFINE id == <<steps, turn'.answered>>
              ids == <<id>>
  <2>1. steps' = steps /\ Record([type |-> "tool.result", id |-> id])
        /\ turn'.answered = turn.answered + 1
    BY <1>0, <1>5 DEF ToolResult, IsTurn
  <2>2. id \in Ids
    BY <1>0, <2>1 DEF Ids
  <2>. HIDE DEF id
  <2>3. ctx' = toolResults(ctx, ids) /\ wire' = toolResults(wire, ids) /\ ~ doubled
    BY <2>1, Recorded DEF toolResult
  <2>4. ids \in Seq(Ids)
    BY <2>2
  <2>. HIDE DEF ids
  <2>5. Mirrors(ctx, wire) /\ wire.openSteps \subseteq 1 .. steps
    BY <2>3 DEF ReplayInv
  <2>6. Mirrors(ctx', wire')
    BY <2>3, <2>4, <2>5, ResultsMirror
  <2>7. wire'.openSteps = wire.openSteps
    BY <1>0, <2>3, <2>4, ResultsBecome DEF Becomes
  <2>. QED  BY <2>1, <2>5, <2>6, <2>7, NextReplay
<1>6. CASE Seal
  <2>1. CASE turn.aborted
    BY <1>6, <2>1, SameReplay DEF Seal
  <2>2. CASE ~ turn.aborted
    <3>1. ctx' = stepEnd(ctx) /\ wire' = stepEnd(wire) /\ ~ doubled /\ steps' = steps
      BY <1>6, <2>2, Recorded DEF Seal
    <3>2. Mirrors(ctx, wire) /\ wire.openSteps \subseteq 1 .. steps
      BY <3>1 DEF ReplayInv
    <3>3. Mirrors(ctx', wire')
      BY <3>1, <3>2, FlushMirror DEF stepEnd
    <3>4. wire'.openSteps = wire.openSteps
      BY <1>0, <3>1, FlushBecomes DEF stepEnd, Becomes
    <3>. QED  BY <3>1, <3>2, <3>3, <3>4, NextReplay
  <2>. QED  BY <2>1, <2>2
<1>7. CASE End
  <2>1. ~ doubled /\ steps' = steps
    BY <1>7 DEF End
  <2>2. Mirrors(ctx, wire) /\ wire.openSteps \subseteq 1 .. steps
    BY <2>1 DEF ReplayInv
  <2>3. PICK ids \in recorded(ctx.pendingToolResultIds) :
           /\ wire' = closeAbandonedToolExchange(wire, ids)
           /\ ctx' = dropVacuousOpenMessages(closeAbandonedToolExchange(ctx, ids))
    BY <1>7 DEF End
  <2>4. ids \in Seq(Ids)
    <3>1. ctx.pendingToolResultIds \in SUBSET Ids /\ IsFiniteSet(ctx.pendingToolResultIds)
      BY <1>0 DEF CtxT
    <3>2. ids \in SetToSeqs(ctx.pendingToolResultIds)
      BY DEF recorded
    <3>3. ids \in Seq(ctx.pendingToolResultIds)
      BY <3>1, <3>2, SequenceOfSet
    <3>. QED  BY <3>1, <3>3, SeqMonotonic
  <2>. DEFINE c == closeAbandonedToolExchange(ctx, ids)
  <2>5. Mirrors(c, wire') /\ wire'.openSteps = wire.openSteps
    <3>1. CASE ids = <<>>
      BY <2>2, <2>3, <3>1 DEF closeAbandonedToolExchange
    <3>2. CASE ids # <<>>
      <4>1. c = toolResults(ctx, ids) /\ wire' = toolResults(wire, ids)
        BY <2>3, <3>2 DEF closeAbandonedToolExchange
      <4>2. wire'.openSteps = wire.openSteps
        BY <1>0, <2>4, <4>1, ResultsBecome DEF Becomes
      <4>. QED  BY <2>2, <2>4, <4>1, <4>2, ResultsMirror
    <3>. QED  BY <3>1, <3>2
  <2>. HIDE DEF c
  <2>6. Mirrors(ctx', wire')
    BY <2>3, <2>5, DropMirror DEF c
  <2>. QED  BY <2>1, <2>2, <2>5, <2>6, NextReplay
<1>8. CASE Undo
  <2>1. ctx' = undo(ctx) /\ wire' = undo(wire) /\ ~ doubled /\ steps' = steps
    BY <1>8, Recorded DEF Undo
  <2>2. Mirrors(ctx, wire) /\ wire.openSteps \subseteq 1 .. steps
    BY <2>1 DEF ReplayInv
  <2>3. Mirrors(ctx', wire') /\ wire'.openSteps = wire.openSteps
    BY <2>1, <2>2, UndoMirror
  <2>. QED  BY <2>1, <2>2, <2>3, NextReplay
<1>9. CASE Clear
  <2>1. ctx' = EmptyContext /\ wire' = EmptyContext /\ steps' = steps
    BY <1>9, Recorded DEF Clear, clear
  <2>2. Mirrors(ctx', wire')
    BY <1>0, <2>1, ItselfMirror
  <2>3. wire'.openSteps = {}
    BY <2>1 DEF EmptyContext
  <2>. QED  BY <2>2, <2>3 DEF ReplayInv
<1>10. ASSUME NEW w \in Workers, Summarised(w)
       PROVE  ReplayInv'
  <2>1. CASE ~ (compacting = w /\ unchangedSince(w))
    BY <1>10, <2>1, SameReplay DEF Summarised
  <2>2. CASE compacting = w /\ unchangedSince(w)
    <3>1. ~ doubled /\ steps' = steps
      BY <1>10, <2>2 DEF Summarised
    <3>2. Mirrors(ctx, wire) /\ wire.openSteps \subseteq 1 .. steps
      BY <3>1 DEF ReplayInv
    <3>3. PICK n \in reduced(w) :
            ctx' = applyCompaction(ctx, Summary(w, SubSeq(work[w].history, 1, n)), n)
      BY <1>10, <2>2 DEF Summarised
    <3>. DEFINE m == Summary(w, SubSeq(work[w].history, 1, n))
    <3>4. m \in SumM /\ n \in 0 .. Len(ctx.history)
      <4>1. n \in 1 .. Len(work[w].history) /\ SubSeq(work[w].history, 1, n) \in Seq(Msg)
        BY <1>10, ReducedWithin DEF Summarised
      <4>2. Len(work[w].history) <= Len(ctx.history)
        BY <2>2 DEF unchangedSince
      <4>3. Len(work[w].history) \in Nat /\ Len(ctx.history) \in Nat
        BY <1>0, LenProperties DEF WorkInv, CtxT
      <4>4. n \in 0 .. Len(ctx.history)
        BY <4>1, <4>2, <4>3
      <4>. QED  BY <4>1, <4>4, SummaryType
    <3>5. ctx' = applyCompaction(ctx, m, n) /\ wire' = toJSONSnapshot(ctx')
      BY <1>10, <2>2, <3>3 DEF Summarised
    <3>. HIDE DEF m
    <3>6. wire' = ctx'
      BY <1>0, <3>4, <3>5, SnapshotWhole
    <3>7. ctx'.openSteps \subseteq ctx.openSteps
      <4>. DEFINE v == <<m>> \o Select(SubSeq(ctx.history, n + 1, Len(ctx.history)), Speaking)
                  vv == IF ctx.pendingToolResultIds = {} THEN v \o ctx.deferredMessages ELSE v
                  q == IF ctx.pendingToolResultIds = {} THEN <<>> ELSE ctx.deferredMessages
      <4>1. \E O \in SUBSET ctx.openSteps :
              Becomes(applyCompaction(ctx, m, n), vv, ctx.pendingToolResultIds, q, O)
        BY <1>0, <3>4, CompactionBecomes
      <4>. HIDE DEF vv, q
      <4>. QED  BY <3>5, <4>1 DEF Becomes
    <3>8. Mirrors(ctx', wire')
      BY <1>0, <3>6, ItselfMirror
    <3>9. wire'.openSteps \subseteq wire.openSteps
      BY <3>2, <3>6, <3>7 DEF Mirrors
    <3>. QED  BY <3>1, <3>2, <3>8, <3>9, NextReplay
  <2>. QED  BY <2>1, <2>2
<1>11. CASE CrashAndResume
  <2>1. ctx' = dropVacuousOpenMessages(wire) /\ wire' = wire /\ ~ doubled /\ steps' = steps
    BY <1>11 DEF CrashAndResume, Replay
  <2>2. wire.openSteps \subseteq 1 .. steps
    BY <2>1 DEF ReplayInv
  <2>3. Mirrors(ctx', wire')
    BY <1>0, <2>1, ItselfMirror, DropMirror
  <2>. QED  BY <2>1, <2>2, <2>3, NextReplay
<1>12. CASE Cancel \/ BlockTimeout \/ Compact \/ CancelCompaction \/ BeforeStep \/ Released
             \/ LLMAnswers \/ Overflow \/ Fail \/ AfterStep \/ UNCHANGED vars
  BY <1>12, SameReplay, Zenon DEF Cancel, BlockTimeout, Compact, CancelCompaction, BeforeStep, Released,
         LLMAnswers, Overflow, Fail, AfterStep, vars
<1>13. ASSUME NEW w \in Workers, Failed(w)
       PROVE  ReplayInv'
  BY <1>13, SameReplay DEF Failed
<1>14. CASE SnapshotWritten
  BY <1>14 DEF SnapshotWritten, ReplayInv
<1>. QED
  BY <1>1, <1>2, <1>3, <1>4, <1>5, <1>6, <1>7, <1>8, <1>9, <1>10, <1>11, <1>12, <1>13, <1>14
     DEF Next, TurnStep, AtRest

\* Unless a step wrote to a snapshot that still waited to be serialised, a resume finds the
\* conversation as it is (Persist a point-in-time snapshot, applyCompaction), for any number of
\* compactions, edits and crashes.
THEOREM ReplayMatchesAlways == Spec => []ReplayMatches
<1>1. Init => ReplayInv
  <2> SUFFICES ASSUME Init PROVE ReplayInv
    OBVIOUS
  <2>1. ctx = EmptyContext /\ wire = EmptyContext /\ steps = 0
    BY DEF Init
  <2>2. EmptyContext \in CtxT
    BY EmptyBecomes DEF Becomes
  <2>3. Mirrors(ctx, wire)
    BY <2>1, <2>2, ItselfMirror
  <2>. QED  BY <2>1, <2>3 DEF ReplayInv, EmptyContext
<1>2. MemoryInv /\ MemoryInv' /\ ReplayInv /\ [Next]_vars => ReplayInv'
  BY ReplayStep DEF MemoryInv
<1>3. ReplayInv => ReplayMatches
  <2> SUFFICES ASSUME ReplayInv, ~ doubled PROVE PointInTime
    BY DEF ReplayMatches
  <2>1. Mirrors(ctx, wire)
    BY DEF ReplayInv
  <2>2. ctx \in CtxT /\ wire \in CtxT /\ wire.pendingToolResultIds = ctx.pendingToolResultIds
        /\ wire.deferredMessages = ctx.deferredMessages
    BY <2>1 DEF Mirrors
  <2>3. dropVacuousOpenMessages(ctx).history = dropVacuousOpenMessages(wire).history
    BY <2>1, DropMirror
  <2>4. /\ dropVacuousOpenMessages(ctx).pendingToolResultIds = ctx.pendingToolResultIds
        /\ dropVacuousOpenMessages(ctx).deferredMessages = ctx.deferredMessages
        /\ dropVacuousOpenMessages(wire).pendingToolResultIds = wire.pendingToolResultIds
        /\ dropVacuousOpenMessages(wire).deferredMessages = wire.deferredMessages
    BY <2>2, DropBecomes DEF Becomes
  <2>. QED  BY <2>2, <2>3, <2>4 DEF PointInTime, Replay
<1>. QED  BY MemoryInit, MemoryStep, <1>1, <1>2, <1>3, PTL DEF Spec

-----------------------------------------------------------------------------
(* Tool exchanges *)

\* m is the answer of a step, and has this call.
Makes(m, id) == m \in AsstM /\ id \in Range(m.toolCalls)

\* Between the messages at i and j, and behind the last one if j is, stand results only.
Behind(h, i, j) == i < j /\ \A k \in DOMAIN h : i < k /\ k < j => h[k] \in ToolM

\* A step has one message.
OwnSteps(h) ==
    \A i, j \in DOMAIN h : h[i] \in AsstM /\ h[j] \in AsstM /\ h[i].step = h[j].step => i = j

\* Calls bear the number of the step that makes them.
OwnCalls(h) == \A i \in DOMAIN h : \A id \in Ids : Makes(h[i], id) => id[1] = h[i].step

\* A result stands behind the message that calls for it, and is the one result of the call.
ResultsBehind(h) ==
    \A j \in DOMAIN h : \A id \in Ids : h[j] = Result(id) =>
        /\ \E i \in DOMAIN h : Makes(h[i], id) /\ Behind(h, i, j)
        /\ \A k \in DOMAIN h : h[k] = Result(id) => k = j

\* Calls have a result, or wait for it.
CallsHeard(h, P) ==
    \A i \in DOMAIN h : \A id \in Ids : Makes(h[i], id) =>
        id \in P \/ \E j \in DOMAIN h : h[j] = Result(id)

\* Those that wait have none, and only results stand behind the message that makes them.
CallsWait(h, P) ==
    \A id \in P :
        /\ \A j \in DOMAIN h : h[j] # Result(id)
        /\ \E i \in DOMAIN h : Makes(h[i], id) /\ Behind(h, i, Len(h) + 1)

\* Messages with the calls that wait for their results.
Orderly(h, P) ==
    OwnSteps(h) /\ OwnCalls(h) /\ ResultsBehind(h) /\ CallsHeard(h, P) /\ CallsWait(h, P)

\* A call is made by one message.
LEMMA MadeOnce ==
    ASSUME NEW h, OwnSteps(h), OwnCalls(h), NEW i \in DOMAIN h, NEW j \in DOMAIN h,
           NEW id \in Ids, Makes(h[i], id), Makes(h[j], id)
    PROVE  i = j
BY DEF OwnSteps, OwnCalls, Makes

\* A history has messages at its places.
LEMMA Positions ==
    ASSUME NEW h \in Seq(Msg)
    PROVE  /\ Len(h) \in Nat /\ DOMAIN h = 1 .. Len(h)
           /\ \A i \in DOMAIN h : h[i] \in Msg /\ i \in Nat /\ i >= 1 /\ i <= Len(h)
BY LenProperties, ElementOfSeq

\* Results tell themselves apart by their calls.
LEMMA ResultForms ==
    /\ \A id \in Ids : Result(id) \in ToolM /\ Result(id) \in Msg /\ Result(id) \notin AsstM
                         /\ Result(id) \notin SumM /\ Result(id) \notin UserM
    /\ \A id1, id2 \in Ids : Result(id1) = Result(id2) => id1 = id2
    /\ \A m \in ToolM : m.toolCallId \in Ids /\ m = Result(m.toolCallId)
<1>1. \A id \in Ids : Result(id) \in ToolM
  BY DEF Result, ToolM
<1>2. \A id \in Ids : Result(id) \in Msg
  BY <1>1 DEF Msg
<1>3. ASSUME NEW id \in Ids
      PROVE  Result(id) \notin AsstM /\ Result(id) \notin SumM /\ Result(id) \notin UserM
  <2>1. Result(id).role = "tool" /\ Result(id) \in Msg
    BY <1>2 DEF Result
  <2>. QED  BY <2>1, MsgForms
<1>4. \A id1, id2 \in Ids : Result(id1) = Result(id2) => id1 = id2
  <2>1. \A id \in Ids : Result(id).toolCallId = id
    BY DEF Result
  <2>. QED  BY <2>1
<1>5. \A m \in ToolM : m.toolCallId \in Ids /\ m = Result(m.toolCallId)
  BY DEF Result, ToolM
<1>. QED  BY <1>1, <1>2, <1>3, <1>4, <1>5

\* Place i is among those that e picks for g.
Hit(e, g, i) == \E k \in DOMAIN g : e[k] = i

\* A part of an orderly history that has a call and its result both or neither is orderly.
LEMMA PartOrderly ==
    ASSUME NEW h \in Seq(Msg), NEW g \in Seq(Msg), NEW P \in SUBSET Ids, NEW e, Embeds(e, g, h), Orderly(h, P),
           \A i, j \in DOMAIN h : \A id \in Ids : Makes(h[i], id) /\ h[j] = Result(id)
                => (Hit(e, g, i) <=> Hit(e, g, j)),
           \A id \in P : \A i \in DOMAIN h : Makes(h[i], id) => Hit(e, g, i)
    PROVE  Orderly(g, P)
<1>0. /\ Len(h) \in Nat /\ DOMAIN h = 1 .. Len(h) /\ Len(g) \in Nat /\ DOMAIN g = 1 .. Len(g)
      /\ \A k \in DOMAIN g : e[k] \in DOMAIN h /\ g[k] = h[e[k]] /\ e[k] \in Nat /\ e[k] < Len(h) + 1
      /\ \A k, l \in DOMAIN g : k < l => e[k] < e[l]
  <2>1. Len(h) \in Nat /\ DOMAIN h = 1 .. Len(h) /\ Len(g) \in Nat /\ DOMAIN g = 1 .. Len(g)
    BY Positions
  <2>2. \A k \in DOMAIN g : e[k] \in DOMAIN h /\ g[k] = h[e[k]]
    BY DEF Embeds
  <2>3. \A k, l \in DOMAIN g : k < l => e[k] < e[l]
    BY DEF Embeds
  <2>. QED  BY <2>1, <2>2, <2>3
<1>1. \A k, l \in DOMAIN g : e[k] < e[l] => k < l
  <2>. SUFFICES ASSUME NEW k \in DOMAIN g, NEW l \in DOMAIN g, e[k] < e[l], ~ (k < l)
                PROVE  FALSE
    OBVIOUS
  <2>1. k = l \/ l < k
    BY <1>0
  <2>2. e[k] \in Nat /\ e[l] \in Nat /\ (l < k => e[l] < e[k])
    BY <1>0
  <2>. QED  BY <2>1, <2>2
<1>2. \A k, l \in DOMAIN g : e[k] = e[l] => k = l
  BY <1>0
<1>4. OwnSteps(g)
  BY <1>0, <1>2 DEF Orderly, OwnSteps
<1>5. OwnCalls(g)
  BY <1>0 DEF Orderly, OwnCalls
<1>6. \A k, l \in DOMAIN g : Behind(h, e[k], e[l]) => Behind(g, k, l)
  BY <1>0, <1>1 DEF Behind
<1>7. \A k \in DOMAIN g : Behind(h, e[k], Len(h) + 1) => Behind(g, k, Len(g) + 1)
  <2>. SUFFICES ASSUME NEW k \in DOMAIN g, Behind(h, e[k], Len(h) + 1)
                PROVE  Behind(g, k, Len(g) + 1)
    OBVIOUS
  <2>1. k < Len(g) + 1
    BY <1>0
  <2>2. ASSUME NEW l \in DOMAIN g, k < l PROVE g[l] \in ToolM
    BY <1>0, <2>2 DEF Behind
  <2>. QED  BY <2>1, <2>2 DEF Behind
<1>8. ResultsBehind(g)
  <2>. SUFFICES ASSUME NEW j \in DOMAIN g, NEW id \in Ids, g[j] = Result(id)
                PROVE  /\ \E i \in DOMAIN g : Makes(g[i], id) /\ Behind(g, i, j)
                       /\ \A k \in DOMAIN g : g[k] = Result(id) => k = j
    BY DEF ResultsBehind
  <2>1. e[j] \in DOMAIN h /\ h[e[j]] = Result(id)
    BY <1>0
  <2>2. PICK i \in DOMAIN h : Makes(h[i], id) /\ Behind(h, i, e[j])
    BY <2>1 DEF Orderly, ResultsBehind
  <2>3. Hit(e, g, i)
    <3>1. Hit(e, g, e[j])
      BY DEF Hit
    <3>. QED  BY <2>1, <2>2, <3>1
  <2>4. PICK k \in DOMAIN g : e[k] = i
    BY <2>3 DEF Hit
  <2>5. Makes(g[k], id) /\ Behind(g, k, j)
    BY <1>0, <1>6, <2>2, <2>4
  <2>6. \A l \in DOMAIN g : g[l] = Result(id) => l = j
    <3>1. \A l \in DOMAIN h : h[l] = Result(id) => l = e[j]
      BY <2>1 DEF Orderly, ResultsBehind
    <3>. QED  BY <1>0, <1>2, <3>1
  <2>. QED  BY <2>5, <2>6
<1>9. CallsHeard(g, P)
  <2>. SUFFICES ASSUME NEW k \in DOMAIN g, NEW id \in Ids, Makes(g[k], id), id \notin P
                PROVE  \E j \in DOMAIN g : g[j] = Result(id)
    BY DEF CallsHeard
  <2>1. e[k] \in DOMAIN h /\ Makes(h[e[k]], id)
    BY <1>0
  <2>2. PICK j \in DOMAIN h : h[j] = Result(id)
    BY <2>1 DEF Orderly, CallsHeard
  <2>3. Hit(e, g, j)
    <3>1. Hit(e, g, e[k])
      BY DEF Hit
    <3>. QED  BY <2>1, <2>2, <3>1
  <2>. QED  BY <1>0, <2>2, <2>3 DEF Hit
<1>10. CallsWait(g, P)
  <2>. SUFFICES ASSUME NEW id \in P
                PROVE  /\ \A j \in DOMAIN g : g[j] # Result(id)
                       /\ \E i \in DOMAIN g : Makes(g[i], id) /\ Behind(g, i, Len(g) + 1)
    BY DEF CallsWait
  <2>1. \A j \in DOMAIN h : h[j] # Result(id)
    BY DEF Orderly, CallsWait
  <2>2. PICK i \in DOMAIN h : Makes(h[i], id) /\ Behind(h, i, Len(h) + 1)
    BY DEF Orderly, CallsWait
  <2>3. PICK k \in DOMAIN g : e[k] = i
    BY <2>2 DEF Hit
  <2>4. Makes(g[k], id) /\ Behind(g, k, Len(g) + 1)
    BY <1>0, <1>7, <2>2, <2>3
  <2>. QED  BY <1>0, <2>1, <2>4
<1>. QED  BY <1>4, <1>5, <1>8, <1>9, <1>10 DEF Orderly

\* What no provider would take makes no calls and answers none.
LEMMA SelectOrderly ==
    ASSUME NEW h \in Seq(Msg), NEW P \in SUBSET Ids, NEW T, Orderly(h, P),
           \A m \in Msg : m \in ToolM \/ (\E id \in Ids : Makes(m, id)) => m \in T
    PROVE  Orderly(Select(h, T), P)
<1>. DEFINE g == Select(h, T)
<1>1. g \in Seq(Msg) /\ Range(g) = Range(h) \cap T
  BY SelectType, SelectRange
<1>2. PICK e : Embeds(e, g, h)
  BY SelectEmbeds
<1>. HIDE DEF g
<1>3. \A i \in DOMAIN h : h[i] \in Msg
  BY Positions
<1>4. ASSUME NEW i \in DOMAIN h, h[i] \in T
      PROVE  \E k \in DOMAIN g : e[k] \in DOMAIN h /\ h[e[k]] = h[i]
  <2>1. h[i] \in Range(g)
    BY <1>1, <1>4 DEF Range
  <2>2. PICK k \in DOMAIN g : g[k] = h[i]
    BY <2>1 DEF Range
  <2>. QED  BY <1>2, <2>2 DEF Embeds
<1>5. ASSUME NEW i \in DOMAIN h, NEW id \in Ids, Makes(h[i], id)
      PROVE  Hit(e, g, i)
  <2>1. PICK k \in DOMAIN g : e[k] \in DOMAIN h /\ h[e[k]] = h[i]
    BY <1>3, <1>4, <1>5
  <2>2. e[k] = i
    BY <1>5, <2>1 DEF Orderly, OwnSteps, Makes
  <2>. QED  BY <2>2 DEF Hit
<1>6. ASSUME NEW j \in DOMAIN h, NEW id \in Ids, h[j] = Result(id)
      PROVE  Hit(e, g, j)
  <2>1. h[j] \in T
    BY <1>3, <1>6, ResultForms
  <2>2. PICK k \in DOMAIN g : e[k] \in DOMAIN h /\ h[e[k]] = h[j]
    BY <1>4, <2>1
  <2>3. e[k] = j
    BY <1>6, <2>2 DEF Orderly, ResultsBehind
  <2>. QED  BY <2>3 DEF Hit
<1>7. \A id \in P : id \in Ids
  OBVIOUS
<1>8. \A i, j \in DOMAIN h : \A id \in Ids : Makes(h[i], id) /\ h[j] = Result(id)
                => (Hit(e, g, i) <=> Hit(e, g, j))
  BY <1>5, <1>6
<1>9. \A id \in P : \A i \in DOMAIN h : Makes(h[i], id) => Hit(e, g, i)
  BY <1>5, <1>7
<1>10. Orderly(g, P)
  BY <1>1, <1>2, <1>8, <1>9, PartOrderly
<1>. QED  BY <1>10 DEF g

\* Where the messages of two parts come to stand.
LEMMA JoinedParts ==
    ASSUME NEW S, NEW a \in Seq(S), NEW b \in Seq(S)
    PROVE  /\ a \o b \in Seq(S) /\ Len(a \o b) = Len(a) + Len(b) /\ Len(a) \in Nat /\ Len(b) \in Nat
           /\ DOMAIN a = 1 .. Len(a) /\ DOMAIN b = 1 .. Len(b) /\ DOMAIN (a \o b) = 1 .. Len(a) + Len(b)
           /\ \A i \in DOMAIN a : i \in DOMAIN (a \o b) /\ (a \o b)[i] = a[i]
           /\ \A j \in DOMAIN b : Len(a) + j \in DOMAIN (a \o b) /\ (a \o b)[Len(a) + j] = b[j]
           /\ \A k \in DOMAIN (a \o b) : k \in DOMAIN a \/ \E j \in DOMAIN b : k = Len(a) + j
<1>1. /\ a \o b \in Seq(S) /\ Len(a \o b) = Len(a) + Len(b)
      /\ \A i \in 1 .. Len(a) + Len(b) : (a \o b)[i] = IF i <= Len(a) THEN a[i] ELSE b[i - Len(a)]
  BY ConcatProperties
<1>2. /\ Len(a) \in Nat /\ Len(b) \in Nat /\ DOMAIN a = 1 .. Len(a) /\ DOMAIN b = 1 .. Len(b)
  BY LenProperties
<1>3. DOMAIN (a \o b) = 1 .. Len(a) + Len(b)
  BY <1>1, LenProperties
<1>4. \A i \in DOMAIN a : i \in DOMAIN (a \o b) /\ (a \o b)[i] = a[i]
  BY <1>1, <1>2, <1>3
<1>5. ASSUME NEW j \in DOMAIN b
      PROVE  Len(a) + j \in DOMAIN (a \o b) /\ (a \o b)[Len(a) + j] = b[j]
  <2>. DEFINE k == Len(a) + j
  <2>1. k \in 1 .. Len(a) + Len(b) /\ ~ (k <= Len(a)) /\ k - Len(a) = j
    BY <1>2
  <2>. HIDE DEF k
  <2>2. (a \o b)[k] = b[j]
    BY <1>1, <2>1
  <2>. QED  BY <1>3, <2>1, <2>2 DEF k
<1>6. ASSUME NEW k \in DOMAIN (a \o b), k \notin DOMAIN a
      PROVE  \E j \in DOMAIN b : k = Len(a) + j
  <2>1. k - Len(a) \in DOMAIN b /\ k = Len(a) + (k - Len(a))
    BY <1>2, <1>3, <1>6
  <2>. QED  BY <2>1
<1>. QED  BY <1>1, <1>2, <1>3, <1>4, <1>5, <1>6

\* What stands in front of a message that is no result is orderly if no call waits.
LEMMA FrontOrderly ==
    ASSUME NEW a \in Seq(Msg), NEW b \in Seq(Msg), Orderly(a \o b, {}),
           \A j \in DOMAIN b : j = 1 => b[j] \notin ToolM
    PROVE  Orderly(a, {})
<1>. DEFINE h == a \o b
            e == [i \in 1 .. Len(a) |-> i]
<1>1. /\ h \in Seq(Msg) /\ Len(h) = Len(a) + Len(b) /\ Len(a) \in Nat /\ Len(b) \in Nat
      /\ DOMAIN a = 1 .. Len(a) /\ DOMAIN b = 1 .. Len(b) /\ DOMAIN h = 1 .. Len(a) + Len(b)
      /\ \A i \in DOMAIN a : i \in DOMAIN h /\ h[i] = a[i]
      /\ \A j \in DOMAIN b : Len(a) + j \in DOMAIN h /\ h[Len(a) + j] = b[j]
      /\ Orderly(h, {})
  BY JoinedParts
<1>. HIDE DEF h
<1>2. \A i \in 1 .. Len(a) : e[i] = i
  OBVIOUS
<1>. HIDE DEF e
<1>3. Embeds(e, a, h)
  BY <1>1, <1>2 DEF Embeds
<1>4. \A i \in Nat : Hit(e, a, i) <=> i \in 1 .. Len(a)
  BY <1>1, <1>2 DEF Hit
<1>5. ASSUME NEW i \in DOMAIN h, NEW j \in DOMAIN h, NEW id \in Ids, Makes(h[i], id), h[j] = Result(id)
      PROVE  Hit(e, a, i) <=> Hit(e, a, j)
  <2>1. PICK k \in DOMAIN h : Makes(h[k], id) /\ Behind(h, k, j)
    BY <1>1, <1>5 DEF Orderly, ResultsBehind
  <2>2. k = i
    BY <1>1, <1>5, <2>1, MadeOnce DEF Orderly
  <2>3. i < j /\ \A l \in DOMAIN h : i < l /\ l < j => h[l] \in ToolM
    BY <2>1, <2>2 DEF Behind
  <2>4. ASSUME i \in 1 .. Len(a), j \notin 1 .. Len(a) PROVE FALSE
    <3>. DEFINE l == Len(a) + 1
    <3>1. j \in 1 .. Len(a) + Len(b) /\ j > Len(a)
      BY <1>1, <2>4
    <3>2. 1 \in DOMAIN b
      BY <1>1, <3>1
    <3>3. l \in DOMAIN h /\ h[l] = b[1] /\ b[1] \notin ToolM
      BY <1>1, <3>2
    <3>4. i < l /\ (l < j \/ l = j)
      BY <1>1, <2>4, <3>1
    <3>. HIDE DEF l
    <3>5. h[j] \in ToolM
      BY <1>5, ResultForms
    <3>. QED  BY <2>3, <3>3, <3>4, <3>5
  <2>5. i \in Nat /\ j \in Nat /\ i >= 1
    BY <1>1
  <2>. QED  BY <1>1, <1>4, <2>3, <2>4, <2>5
<1>. DEFINE none == {}
<1>6. none \in SUBSET Ids /\ Orderly(h, none) /\ \A x : x \notin none
  BY <1>1
<1>. HIDE DEF none
<1>7. a \in Seq(Msg) /\ h \in Seq(Msg)
  BY <1>1
<1>8. ASSUME NEW id \in none, NEW i \in DOMAIN h, Makes(h[i], id)
      PROVE  Hit(e, a, i)
  BY <1>6
<1>9. \A i, j \in DOMAIN h : \A id \in Ids : Makes(h[i], id) /\ h[j] = Result(id)
                => (Hit(e, a, i) <=> Hit(e, a, j))
  BY <1>5
<1>10. Orderly(a, none)
  BY <1>3, <1>6, <1>7, <1>8, <1>9, PartOrderly
<1>. QED  BY <1>10 DEF none

\* What follows on messages with calls that are all answered among them is orderly.
LEMMA BackOrderly ==
    ASSUME NEW a \in Seq(Msg), NEW b \in Seq(Msg), NEW P \in SUBSET Ids, Orderly(a \o b, P),
           \A i \in DOMAIN a : \A id \in Ids : Makes(a[i], id) =>
                id \notin P /\ \A j \in DOMAIN b : b[j] # Result(id)
    PROVE  Orderly(b, P)
<1>. DEFINE h == a \o b
            e == [i \in 1 .. Len(b) |-> Len(a) + i]
<1>1. /\ h \in Seq(Msg) /\ Len(h) = Len(a) + Len(b) /\ Len(a) \in Nat /\ Len(b) \in Nat
      /\ DOMAIN a = 1 .. Len(a) /\ DOMAIN b = 1 .. Len(b) /\ DOMAIN h = 1 .. Len(a) + Len(b)
      /\ \A i \in DOMAIN a : i \in DOMAIN h /\ h[i] = a[i]
      /\ \A j \in DOMAIN b : Len(a) + j \in DOMAIN h /\ h[Len(a) + j] = b[j]
      /\ \A k \in DOMAIN h : k \in DOMAIN a \/ \E j \in DOMAIN b : k = Len(a) + j
      /\ Orderly(h, P)
  BY JoinedParts
<1>. HIDE DEF h
<1>2. \A i \in 1 .. Len(b) : e[i] = Len(a) + i
  OBVIOUS
<1>. HIDE DEF e
<1>3. Embeds(e, b, h)
  BY <1>1, <1>2, SMTT(30) DEF Embeds
<1>4. \A k \in DOMAIN h : Hit(e, b, k) \/ (k \in DOMAIN a /\ h[k] = a[k])
  BY <1>1, <1>2 DEF Hit
<1>5. \A k \in DOMAIN h : Hit(e, b, k) => k > Len(a) /\ \E j \in DOMAIN b : h[k] = b[j]
  BY <1>1, <1>2 DEF Hit
<1>6. ASSUME NEW i \in DOMAIN h, NEW j \in DOMAIN h, NEW id \in Ids, Makes(h[i], id), h[j] = Result(id)
      PROVE  Hit(e, b, i) <=> Hit(e, b, j)
  <2>1. PICK k \in DOMAIN h : Makes(h[k], id) /\ Behind(h, k, j)
    BY <1>1, <1>6 DEF Orderly, ResultsBehind
  <2>2. k = i
    BY <1>1, <1>6, <2>1, MadeOnce DEF Orderly
  <2>3. i < j
    BY <2>1, <2>2 DEF Behind
  <2>4. ASSUME Hit(e, b, i), ~ Hit(e, b, j) PROVE FALSE
    <3>1. i > Len(a) /\ j <= Len(a) /\ i \in Nat /\ j \in Nat
      BY <1>1, <1>4, <1>5, <2>4
    <3>. QED  BY <1>1, <2>3, <3>1
  <2>5. ASSUME ~ Hit(e, b, i), Hit(e, b, j) PROVE FALSE
    <3>1. i \in DOMAIN a /\ Makes(a[i], id)
      BY <1>4, <1>6, <2>5
    <3>2. \E l \in DOMAIN b : b[l] = Result(id)
      BY <1>5, <1>6, <2>5
    <3>. QED  BY <3>1, <3>2
  <2>. QED  BY <2>4, <2>5
<1>7. ASSUME NEW id \in P, NEW i \in DOMAIN h, Makes(h[i], id)
      PROVE  Hit(e, b, i)
  <2>1. id \in Ids
    OBVIOUS
  <2>. QED  BY <1>4, <1>7, <2>1
<1>. QED  BY <1>1, <1>3, <1>6, <1>7, PartOrderly

\* A summary in front changes nothing.
LEMMA HeadedOrderly ==
    ASSUME NEW m \in SumM, NEW b \in Seq(Msg), NEW P \in SUBSET Ids, Orderly(b, P)
    PROVE  Orderly(<<m>> \o b, P)
<1>. DEFINE a == <<m>>
            h == a \o b
<1>0. m \in Msg /\ m \notin AsstM /\ \A id \in Ids : m # Result(id)
  BY MsgForms, ResultForms DEF Msg
<1>01. a \in Seq(Msg)
  BY <1>0
<1>00. Len(a) = 1 /\ a[1] = m
  OBVIOUS
<1>. HIDE DEF a
<1>1. /\ h \in Seq(Msg) /\ Len(h) = 1 + Len(b) /\ Len(b) \in Nat
      /\ DOMAIN b = 1 .. Len(b) /\ DOMAIN h = 1 .. 1 + Len(b) /\ h[1] = m
      /\ \A j \in DOMAIN b : 1 + j \in DOMAIN h /\ h[1 + j] = b[j]
      /\ \A k \in DOMAIN h : k = 1 \/ \E j \in DOMAIN b : k = 1 + j
  <2>1. /\ h \in Seq(Msg) /\ Len(h) = Len(a) + Len(b) /\ Len(b) \in Nat
        /\ DOMAIN a = 1 .. Len(a) /\ DOMAIN b = 1 .. Len(b) /\ DOMAIN h = 1 .. Len(a) + Len(b)
        /\ \A i \in DOMAIN a : i \in DOMAIN h /\ h[i] = a[i]
        /\ \A j \in DOMAIN b : Len(a) + j \in DOMAIN h /\ h[Len(a) + j] = b[j]
        /\ \A k \in DOMAIN h : k \in DOMAIN a \/ \E j \in DOMAIN b : k = Len(a) + j
    BY <1>01, JoinedParts
  <2>. HIDE DEF h
  <2>2. h[1] = m /\ \A k \in DOMAIN a : k = 1
    BY <1>00, <2>1
  <2>. QED  BY <1>00, <2>1, <2>2
<1>. HIDE DEF h
<1>2. \A k \in DOMAIN h : h[k] \in AsstM \/ (\E id \in Ids : h[k] = Result(id)) =>
        \E j \in DOMAIN b : k = 1 + j /\ h[k] = b[j]
  BY <1>0, <1>1
<1>3. OwnSteps(h)
  BY <1>1, <1>2 DEF Orderly, OwnSteps
<1>4. OwnCalls(h)
  BY <1>1, <1>2 DEF Orderly, OwnCalls, Makes
<1>5. ASSUME NEW i \in DOMAIN b, NEW j \in 1 .. Len(b) + 1, Behind(b, i, j)
      PROVE  Behind(h, 1 + i, 1 + j)
  <2>1. 1 + i < 1 + j
    BY <1>1, <1>5 DEF Behind
  <2>2. ASSUME NEW k \in DOMAIN h, 1 + i < k, k < 1 + j PROVE h[k] \in ToolM
    <3>1. k # 1
      BY <1>1, <2>2
    <3>2. PICK l \in DOMAIN b : k = 1 + l
      BY <1>1, <3>1
    <3>3. i < l /\ l < j
      BY <1>1, <2>2, <3>2
    <3>. QED  BY <1>1, <1>5, <3>2, <3>3 DEF Behind
  <2>. QED  BY <2>1, <2>2 DEF Behind
<1>6. ResultsBehind(h)
  <2>. SUFFICES ASSUME NEW j \in DOMAIN h, NEW id \in Ids, h[j] = Result(id)
                PROVE  /\ \E i \in DOMAIN h : Makes(h[i], id) /\ Behind(h, i, j)
                       /\ \A k \in DOMAIN h : h[k] = Result(id) => k = j
    BY DEF ResultsBehind
  <2>1. PICK l \in DOMAIN b : j = 1 + l /\ b[l] = Result(id)
    BY <1>2
  <2>2. PICK i \in DOMAIN b : Makes(b[i], id) /\ Behind(b, i, l)
    BY <2>1 DEF Orderly, ResultsBehind
  <2>3. l \in 1 .. Len(b) + 1
    BY <1>1
  <2>4. 1 + i \in DOMAIN h /\ Makes(h[1 + i], id) /\ Behind(h, 1 + i, j)
    BY <1>1, <1>5, <2>1, <2>2, <2>3
  <2>5. \A k \in DOMAIN h : h[k] = Result(id) => k = j
    <3>1. \A k \in DOMAIN b : b[k] = Result(id) => k = l
      BY <2>1 DEF Orderly, ResultsBehind
    <3>. QED  BY <1>2, <2>1, <3>1
  <2>. QED  BY <2>4, <2>5
<1>7. CallsHeard(h, P)
  <2>. SUFFICES ASSUME NEW k \in DOMAIN h, NEW id \in Ids, Makes(h[k], id), id \notin P
                PROVE  \E j \in DOMAIN h : h[j] = Result(id)
    BY DEF CallsHeard
  <2>1. PICK l \in DOMAIN b : Makes(b[l], id)
    BY <1>2 DEF Makes
  <2>2. PICK j \in DOMAIN b : b[j] = Result(id)
    BY <2>1 DEF Orderly, CallsHeard
  <2>. QED  BY <1>1, <2>2
<1>8. CallsWait(h, P)
  <2>. SUFFICES ASSUME NEW id \in P
                PROVE  /\ \A j \in DOMAIN h : h[j] # Result(id)
                       /\ \E i \in DOMAIN h : Makes(h[i], id) /\ Behind(h, i, Len(h) + 1)
    BY DEF CallsWait
  <2>0. id \in Ids
    OBVIOUS
  <2>1. \A j \in DOMAIN b : b[j] # Result(id)
    BY DEF Orderly, CallsWait
  <2>2. PICK i \in DOMAIN b : Makes(b[i], id) /\ Behind(b, i, Len(b) + 1)
    BY DEF Orderly, CallsWait
  <2>3. Len(b) + 1 \in 1 .. Len(b) + 1 /\ 1 + (Len(b) + 1) = Len(h) + 1
    BY <1>1
  <2>4. Behind(h, 1 + i, Len(h) + 1)
    BY <1>5, <2>2, <2>3
  <2>. QED  BY <1>1, <1>2, <2>0, <2>1, <2>2, <2>4
<1>9. Orderly(h, P)
  BY <1>3, <1>4, <1>6, <1>7, <1>8 DEF Orderly
<1>. QED  BY <1>9 DEF h, a

\* Messages that are no answers and no results may be said when no call waits.
LEMMA SaidOrderly ==
    ASSUME NEW h \in Seq(Msg), NEW q \in Seq(Msg), Orderly(h, {}),
           \A i \in DOMAIN q : q[i] \notin ToolM,
           \A i \in DOMAIN q : q[i] \in AsstM =>
                q[i].toolCalls = <<>> /\ \A k \in DOMAIN h : h[k] \in AsstM => h[k].step # q[i].step,
           \A i, j \in DOMAIN q : q[i] \in AsstM /\ q[j] \in AsstM => i = j
    PROVE  Orderly(h \o q, {})
<1>. DEFINE g == h \o q
<1>1. /\ g \in Seq(Msg) /\ Len(h) \in Nat /\ DOMAIN h = 1 .. Len(h)
      /\ \A i \in DOMAIN h : i \in DOMAIN g /\ g[i] = h[i]
      /\ \A j \in DOMAIN q : Len(h) + j \in DOMAIN g /\ g[Len(h) + j] = q[j]
      /\ \A k \in DOMAIN g : k \in DOMAIN h \/ \E j \in DOMAIN q : k = Len(h) + j
      /\ DOMAIN q = 1 .. Len(q) /\ Len(q) \in Nat
  BY JoinedParts
<1>. HIDE DEF g
<1>2. \A j \in DOMAIN q : \A id \in Ids : q[j] # Result(id)
  BY ResultForms
<1>3. \A j \in DOMAIN q : \A id \in Ids : ~ Makes(q[j], id)
  <2>1. Range(<<>>) = {}
    BY DEF Range
  <2>. QED  BY <2>1 DEF Makes
<1>4. \A k \in DOMAIN g : \A id \in Ids : Makes(g[k], id) => k \in DOMAIN h /\ Makes(h[k], id)
  BY <1>1, <1>3
<1>5. \A k \in DOMAIN g : \A id \in Ids : g[k] = Result(id) => k \in DOMAIN h /\ h[k] = Result(id)
  BY <1>1, <1>2
<1>6. OwnSteps(g)
  <2>. SUFFICES ASSUME NEW i \in DOMAIN g, NEW j \in DOMAIN g, g[i] \in AsstM, g[j] \in AsstM,
                       g[i].step = g[j].step
                PROVE  i = j
    BY DEF OwnSteps
  <2>1. CASE i \in DOMAIN h /\ j \in DOMAIN h
    BY <1>1, <2>1 DEF Orderly, OwnSteps
  <2>2. CASE i \in DOMAIN h /\ j \notin DOMAIN h
    BY <1>1, <2>2
  <2>3. CASE i \notin DOMAIN h /\ j \in DOMAIN h
    BY <1>1, <2>3
  <2>4. CASE i \notin DOMAIN h /\ j \notin DOMAIN h
    <3>1. PICK x \in DOMAIN q : i = Len(h) + x /\ g[i] = q[x]
      BY <1>1, <2>4
    <3>2. PICK y \in DOMAIN q : j = Len(h) + y /\ g[j] = q[y]
      BY <1>1, <2>4
    <3>. QED  BY <3>1, <3>2
  <2>. QED  BY <2>1, <2>2, <2>3, <2>4
<1>7. OwnCalls(g)
  BY <1>1, <1>4 DEF Orderly, OwnCalls
<1>8. ASSUME NEW i \in DOMAIN h, NEW j \in DOMAIN h, Behind(h, i, j)
      PROVE  Behind(g, i, j)
  <2>1. ASSUME NEW k \in DOMAIN g, i < k, k < j PROVE g[k] \in ToolM
    <3>1. k \in DOMAIN h
      BY <1>1, <2>1
    <3>. QED  BY <1>1, <1>8, <2>1, <3>1 DEF Behind
  <2>. QED  BY <1>8, <2>1 DEF Behind
<1>9. ResultsBehind(g)
  <2>. SUFFICES ASSUME NEW j \in DOMAIN g, NEW id \in Ids, g[j] = Result(id)
                PROVE  /\ \E i \in DOMAIN g : Makes(g[i], id) /\ Behind(g, i, j)
                       /\ \A k \in DOMAIN g : g[k] = Result(id) => k = j
    BY DEF ResultsBehind
  <2>1. j \in DOMAIN h /\ h[j] = Result(id)
    BY <1>5
  <2>2. PICK i \in DOMAIN h : Makes(h[i], id) /\ Behind(h, i, j)
    BY <2>1 DEF Orderly, ResultsBehind
  <2>3. i \in DOMAIN g /\ Makes(g[i], id) /\ Behind(g, i, j)
    BY <1>1, <1>8, <2>1, <2>2
  <2>4. \A k \in DOMAIN g : g[k] = Result(id) => k = j
    <3>1. \A k \in DOMAIN h : h[k] = Result(id) => k = j
      BY <2>1 DEF Orderly, ResultsBehind
    <3>. QED  BY <1>5, <3>1
  <2>. QED  BY <2>3, <2>4
<1>10. CallsHeard(g, {})
  <2>. SUFFICES ASSUME NEW k \in DOMAIN g, NEW id \in Ids, Makes(g[k], id)
                PROVE  \E j \in DOMAIN g : g[j] = Result(id)
    BY DEF CallsHeard
  <2>1. k \in DOMAIN h /\ Makes(h[k], id)
    BY <1>4
  <2>2. PICK j \in DOMAIN h : h[j] = Result(id)
    BY <2>1 DEF Orderly, CallsHeard
  <2>. QED  BY <1>1, <2>2
<1>11. CallsWait(g, {})
  BY DEF CallsWait
<1>12. Orderly(g, {})
  BY <1>6, <1>7, <1>9, <1>10, <1>11 DEF Orderly
<1>. QED  BY <1>12 DEF g

\* No call twice.
OneEach(ids) == \A i, j \in DOMAIN ids : ids[i] = ids[j] => i = j

\* Results of calls that wait may follow, and leave the last answer the last.
LEMMA ResultsOrderly ==
    ASSUME NEW h \in Seq(Msg), NEW P \in SUBSET Ids, Orderly(h, P),
           NEW ids \in Seq(Ids), OneEach(ids), Range(ids) \subseteq P
    PROVE  /\ Orderly(h \o ResultsOf(ids), P \ Range(ids))
           /\ \A p \in DOMAIN h : Behind(h, p, Len(h) + 1) =>
                Behind(h \o ResultsOf(ids), p, Len(h \o ResultsOf(ids)) + 1)
<1>. DEFINE q == ResultsOf(ids)
            g == h \o q
            R == P \ Range(ids)
<1>0. q \in Seq(Msg) /\ DOMAIN q = DOMAIN ids /\ \A i \in DOMAIN q : q[i] = Result(ids[i]) /\ ids[i] \in Ids
                     /\ ids[i] \in P /\ ids[i] \notin R /\ ids[i] \in Range(ids)
  <2>1. q \in Seq(Msg)
    BY ResultsOfType
  <2>2. DOMAIN q = DOMAIN ids /\ \A i \in DOMAIN q : q[i] = Result(ids[i])
    BY DEF ResultsOf
  <2>3. \A i \in DOMAIN ids : ids[i] \in Ids /\ ids[i] \in Range(ids)
    BY ElementOfSeq, LenProperties DEF Range
  <2>. QED  BY <2>1, <2>2, <2>3
<1>. HIDE DEF q
<1>1. /\ g \in Seq(Msg) /\ Len(h) \in Nat /\ DOMAIN h = 1 .. Len(h) /\ Len(g) = Len(h) + Len(q)
      /\ \A i \in DOMAIN h : i \in DOMAIN g /\ g[i] = h[i]
      /\ \A j \in DOMAIN q : Len(h) + j \in DOMAIN g /\ g[Len(h) + j] = q[j]
      /\ \A k \in DOMAIN g : k \in DOMAIN h \/ \E j \in DOMAIN q : k = Len(h) + j
      /\ DOMAIN q = 1 .. Len(q) /\ Len(q) \in Nat /\ DOMAIN g = 1 .. Len(h) + Len(q)
  BY <1>0, JoinedParts
<1>. HIDE DEF g
<1>2. \A j \in DOMAIN q : q[j] \in ToolM /\ q[j] \notin AsstM
  BY <1>0, ResultForms
<1>3. \A k \in DOMAIN g : g[k] \in AsstM => k \in DOMAIN h /\ h[k] = g[k]
  BY <1>1, <1>2
<1>4. ASSUME NEW j \in DOMAIN q, NEW id \in Ids, q[j] = Result(id)
      PROVE  ids[j] = id
  BY <1>0, <1>4, ResultForms
<1>5. OwnSteps(g)
  BY <1>3 DEF Orderly, OwnSteps
<1>6. OwnCalls(g)
  BY <1>3 DEF Orderly, OwnCalls, Makes
<1>7. ASSUME NEW i \in DOMAIN h, NEW j \in DOMAIN h, Behind(h, i, j)
      PROVE  Behind(g, i, j)
  <2>1. ASSUME NEW k \in DOMAIN g, i < k, k < j PROVE g[k] \in ToolM
    <3>1. k \in DOMAIN h
      BY <1>1, <2>1
    <3>. QED  BY <1>1, <1>7, <2>1, <3>1 DEF Behind
  <2>. QED  BY <1>7, <2>1 DEF Behind
<1>8. ASSUME NEW i \in DOMAIN h, Behind(h, i, Len(h) + 1), NEW j \in Nat, j > Len(h)
      PROVE  Behind(g, i, j)
  <2>1. ASSUME NEW k \in DOMAIN g, i < k, k < j PROVE g[k] \in ToolM
    <3>1. CASE k \in DOMAIN h
      <4>1. k < Len(h) + 1
        BY <1>1, <3>1
      <4>. QED  BY <1>1, <1>8, <2>1, <3>1, <4>1 DEF Behind
    <3>2. CASE k \notin DOMAIN h
      BY <1>1, <1>2, <3>2
    <3>. QED  BY <3>1, <3>2
  <2>2. i < j
    BY <1>1, <1>8
  <2>. QED  BY <2>1, <2>2 DEF Behind
<1>9. ResultsBehind(g)
  <2>. SUFFICES ASSUME NEW j \in DOMAIN g, NEW id \in Ids, g[j] = Result(id)
                PROVE  /\ \E i \in DOMAIN g : Makes(g[i], id) /\ Behind(g, i, j)
                       /\ \A k \in DOMAIN g : g[k] = Result(id) => k = j
    BY DEF ResultsBehind
  <2>1. CASE j \in DOMAIN h
    <3>1. h[j] = Result(id)
      BY <1>1, <2>1
    <3>2. PICK i \in DOMAIN h : Makes(h[i], id) /\ Behind(h, i, j)
      BY <2>1, <3>1 DEF Orderly, ResultsBehind
    <3>3. i \in DOMAIN g /\ Makes(g[i], id) /\ Behind(g, i, j)
      BY <1>1, <1>7, <2>1, <3>2
    <3>4. ASSUME NEW k \in DOMAIN g, g[k] = Result(id) PROVE k = j
      <4>1. CASE k \in DOMAIN h
        BY <1>1, <2>1, <3>1, <3>4, <4>1 DEF Orderly, ResultsBehind
      <4>2. CASE k \notin DOMAIN h
        <5>1. PICK y \in DOMAIN q : q[y] = Result(id)
          BY <1>1, <3>4, <4>2
        <5>2. id \in P
          BY <1>0, <1>4, <5>1
        <5>. QED  BY <2>1, <3>1, <5>2 DEF Orderly, CallsWait
      <4>. QED  BY <4>1, <4>2
    <3>. QED  BY <3>3, <3>4
  <2>2. CASE j \notin DOMAIN h
    <3>1. PICK x \in DOMAIN q : j = Len(h) + x /\ q[x] = Result(id)
      BY <1>1, <2>2
    <3>2. ids[x] = id /\ id \in P
      BY <1>0, <1>4, <3>1
    <3>3. PICK i \in DOMAIN h : Makes(h[i], id) /\ Behind(h, i, Len(h) + 1)
      BY <3>2 DEF Orderly, CallsWait
    <3>4. j \in Nat /\ j > Len(h)
      BY <1>1, <3>1
    <3>5. i \in DOMAIN g /\ Makes(g[i], id) /\ Behind(g, i, j)
      BY <1>1, <1>8, <3>3, <3>4
    <3>6. ASSUME NEW k \in DOMAIN g, g[k] = Result(id) PROVE k = j
      <4>1. CASE k \in DOMAIN h
        BY <1>1, <3>2, <3>6, <4>1 DEF Orderly, CallsWait
      <4>2. CASE k \notin DOMAIN h
        <5>1. PICK y \in DOMAIN q : k = Len(h) + y /\ q[y] = Result(id)
          BY <1>1, <3>6, <4>2
        <5>2. ids[y] = id
          BY <1>4, <5>1
        <5>3. x = y
          BY <1>0, <3>2, <5>2 DEF OneEach
        <5>. QED  BY <3>1, <5>1, <5>3
      <4>. QED  BY <4>1, <4>2
    <3>. QED  BY <3>5, <3>6
  <2>. QED  BY <2>1, <2>2
<1>10. CallsHeard(g, R)
  <2>. SUFFICES ASSUME NEW k \in DOMAIN g, NEW id \in Ids, Makes(g[k], id), id \notin R
                PROVE  \E j \in DOMAIN g : g[j] = Result(id)
    BY DEF CallsHeard
  <2>1. k \in DOMAIN h /\ Makes(h[k], id)
    BY <1>3 DEF Makes
  <2>2. CASE id \in Range(ids)
    <3>1. PICK x \in DOMAIN ids : ids[x] = id
      BY <2>2 DEF Range
    <3>. QED  BY <1>0, <1>1, <3>1
  <2>3. CASE id \notin P
    <3>1. PICK j \in DOMAIN h : h[j] = Result(id)
      BY <2>1, <2>3 DEF Orderly, CallsHeard
    <3>. QED  BY <1>1, <3>1
  <2>. QED  BY <2>2, <2>3
<1>11. CallsWait(g, R)
  <2>. SUFFICES ASSUME NEW id \in R
                PROVE  /\ \A j \in DOMAIN g : g[j] # Result(id)
                       /\ \E i \in DOMAIN g : Makes(g[i], id) /\ Behind(g, i, Len(g) + 1)
    BY DEF CallsWait
  <2>0. id \in Ids /\ id \in P
    OBVIOUS
  <2>1. \A j \in DOMAIN h : h[j] # Result(id)
    BY <2>0 DEF Orderly, CallsWait
  <2>2. PICK i \in DOMAIN h : Makes(h[i], id) /\ Behind(h, i, Len(h) + 1)
    BY <2>0 DEF Orderly, CallsWait
  <2>3. Len(g) + 1 \in Nat /\ Len(g) + 1 > Len(h)
    BY <1>1
  <2>4. i \in DOMAIN g /\ Makes(g[i], id) /\ Behind(g, i, Len(g) + 1)
    BY <1>1, <1>8, <2>2, <2>3
  <2>5. \A j \in DOMAIN q : q[j] # Result(id)
    BY <1>0, <1>4, <2>0
  <2>. QED  BY <1>1, <2>1, <2>4, <2>5
<1>12. Orderly(g, R)
  BY <1>5, <1>6, <1>9, <1>10, <1>11 DEF Orderly
<1>13. \A p \in DOMAIN h : Behind(h, p, Len(h) + 1) => Behind(g, p, Len(g) + 1)
  <2>1. Len(g) + 1 \in Nat /\ Len(g) + 1 > Len(h)
    BY <1>1
  <2>. QED  BY <1>8, <2>1
<1>. QED  BY <1>12, <1>13 DEF g, q

\* So may a content part change its message.
LEMMA MarkedOrderly ==
    ASSUME NEW h \in Seq(Msg), NEW P \in SUBSET Ids, Orderly(h, P), NEW s \in Nat
    PROVE  Orderly(Mapped(h, Marked(s)), P)
<1>. DEFINE f == Marked(s)
            g == Mapped(h, f)
<1>1. DOMAIN g = DOMAIN h /\ \A i \in DOMAIN h : g[i] = f[h[i]] /\ h[i] \in Msg
  BY Positions DEF Mapped
<1>2. Len(g) = Len(h)
  <2>1. f \in [Msg -> Msg]
    BY ChangesInPlace DEF InPlace
  <2>2. g \in Seq(Msg)
    BY <2>1, MappedType
  <2>. HIDE DEF g
  <2>. QED  BY <1>1, <2>2, LenProperties
<1>3. \A m \in Msg : /\ f[m] \in AsstM <=> m \in AsstM
                     /\ m \in AsstM => f[m].step = m.step /\ f[m].toolCalls = m.toolCalls
                     /\ m \in ToolM => f[m] = m
                     /\ \A id \in Ids : f[m] = Result(id) <=> m = Result(id)
  <2>0. InPlace(f, s)
    BY ChangesInPlace
  <2>1. \A m \in Msg : m \in AsstM => f[m] \in AsstM /\ f[m].step = m.step
    BY <2>0 DEF InPlace
  <2>2. \A m \in Msg : m \notin AsstM => f[m] = m
    BY <2>0 DEF InPlace
  <2>3. \A m \in Msg : m \in AsstM => f[m].toolCalls = m.toolCalls
    BY DEF Marked, AsstM
  <2>4. \A m \in ToolM : m \in Msg /\ m \notin AsstM
    <3>1. \A m \in ToolM : m \in Msg
      BY DEF Msg
    <3>. QED  BY <3>1, MsgForms
  <2>. HIDE DEF f
  <2>. QED  BY <2>1, <2>2, <2>3, <2>4, ResultForms
<1>. HIDE DEF f, g
<1>4. \A i \in DOMAIN h : /\ g[i] \in AsstM <=> h[i] \in AsstM
                          /\ h[i] \in AsstM => g[i].step = h[i].step
                          /\ h[i] \in ToolM => g[i] \in ToolM
                          /\ \A id \in Ids : g[i] = Result(id) <=> h[i] = Result(id)
                          /\ \A id \in Ids : Makes(g[i], id) <=> Makes(h[i], id)
  BY <1>1, <1>3 DEF Makes
<1>5. \A i, j : Behind(h, i, j) => Behind(g, i, j)
  BY <1>1, <1>4 DEF Behind
<1>6. OwnSteps(g)
  BY <1>1, <1>4 DEF Orderly, OwnSteps
<1>7. OwnCalls(g)
  BY <1>1, <1>4 DEF Orderly, OwnCalls, Makes
<1>8. ResultsBehind(g)
  BY <1>1, <1>4, <1>5 DEF Orderly, ResultsBehind
<1>9. CallsHeard(g, P)
  BY <1>1, <1>4 DEF Orderly, CallsHeard
<1>10. CallsWait(g, P)
  <2>1. \A id \in P : id \in Ids
    OBVIOUS
  <2>. QED  BY <1>1, <1>2, <1>4, <1>5, <2>1 DEF Orderly, CallsWait
<1>. QED  BY <1>6, <1>7, <1>8, <1>9, <1>10 DEF Orderly, f, g

\* And a tool call the last answer, which it is new to.
LEMMA CalledOrderly ==
    ASSUME NEW h \in Seq(Msg), NEW P \in SUBSET Ids, Orderly(h, P), NEW s \in Nat, NEW id \in Ids, id[1] = s,
           NEW p \in DOMAIN h, h[p] \in AsstM, h[p].step = s, Behind(h, p, Len(h) + 1),
           id \notin Range(h[p].toolCalls)
    PROVE  Orderly(Mapped(h, Called(s, id)), P \cup {id})
<1>. DEFINE f == Called(s, id)
            g == Mapped(h, f)
            Q == P \cup {id}
<1>1. DOMAIN g = DOMAIN h /\ \A i \in DOMAIN h : g[i] = f[h[i]] /\ h[i] \in Msg
  BY Positions DEF Mapped
<1>2. Len(g) = Len(h)
  <2>1. f \in [Msg -> Msg]
    BY ChangesInPlace DEF InPlace
  <2>2. g \in Seq(Msg)
    BY <2>1, MappedType
  <2>. HIDE DEF g
  <2>. QED  BY <1>1, <2>2, LenProperties
<1>3. \A m \in Msg : /\ f[m] \in AsstM <=> m \in AsstM
                     /\ m \in AsstM => f[m].step = m.step
                     /\ m \in AsstM /\ m.step # s => f[m] = m
                     /\ m \in ToolM => f[m] = m
                     /\ \A i \in Ids : f[m] = Result(i) <=> m = Result(i)
  <2>0. InPlace(f, s)
    BY ChangesInPlace
  <2>1. \A m \in Msg : m \in AsstM => f[m] \in AsstM /\ f[m].step = m.step
    BY <2>0 DEF InPlace
  <2>2. \A m \in Msg : ~ (m \in AsstM /\ m.step = s) => f[m] = m
    BY <2>0 DEF InPlace
  <2>4. \A m \in ToolM : m \in Msg /\ m \notin AsstM
    <3>1. \A m \in ToolM : m \in Msg
      BY DEF Msg
    <3>. QED  BY <3>1, MsgForms
  <2>. HIDE DEF f
  <2>. QED  BY <2>1, <2>2, <2>4, ResultForms
<1>4. ASSUME NEW m \in AsstM, m.step = s
      PROVE  Range(f[m].toolCalls) = Range(m.toolCalls) \cup {id}
  <2>1. m \in Msg
    BY <1>4 DEF Msg
  <2>2. f[m] = [m EXCEPT !.toolCalls = Append(@, id)]
    BY <1>4, <2>1 DEF Called, AsstM
  <2>3. f[m].toolCalls = Append(m.toolCalls, id) /\ m.toolCalls \in Seq(Ids)
    BY <2>2 DEF AsstM
  <2>. DEFINE t == m.toolCalls
  <2>4. Range(Append(t, id)) = Range(t) \cup {id}
    <3>1. t \in Seq(Ids)
      BY <2>3
    <3>. HIDE DEF t
    <3>2. /\ DOMAIN t = 1 .. Len(t) /\ Len(t) \in Nat /\ DOMAIN Append(t, id) = 1 .. Len(t) + 1
          /\ Append(t, id)[Len(t) + 1] = id
          /\ \A i \in 1 .. Len(t) : Append(t, id)[i] = t[i]
      BY <3>1, AppendProperties, LenProperties
    <3>3. Len(t) + 1 \in 1 .. Len(t) + 1 /\ \A i \in 1 .. Len(t) + 1 : i \in 1 .. Len(t) \/ i = Len(t) + 1
      BY <3>2
    <3>4. 1 .. Len(t) \subseteq 1 .. Len(t) + 1
      BY <3>2
    <3>. QED  BY <3>2, <3>3, <3>4 DEF Range
  <2>. QED  BY <2>3, <2>4
<1>. HIDE DEF f, g
<1>5. \A i \in DOMAIN h : h[i] \in AsstM /\ h[i].step = s => i = p
  BY DEF Orderly, OwnSteps
<1>6. \A i \in DOMAIN h : /\ g[i] \in AsstM <=> h[i] \in AsstM
                          /\ h[i] \in AsstM => g[i].step = h[i].step
                          /\ h[i] \in ToolM => g[i] \in ToolM
                          /\ \A x \in Ids : g[i] = Result(x) <=> h[i] = Result(x)
  BY <1>1, <1>3
<1>7. \A i \in DOMAIN h : \A x \in Ids : Makes(g[i], x) <=> Makes(h[i], x) \/ (i = p /\ x = id)
  <2>. SUFFICES ASSUME NEW i \in DOMAIN h, NEW x \in Ids
                PROVE  Makes(g[i], x) <=> Makes(h[i], x) \/ (i = p /\ x = id)
    OBVIOUS
  <2>1. CASE i = p
    <3>1. Range(g[i].toolCalls) = Range(h[i].toolCalls) \cup {id}
      BY <1>1, <1>4, <2>1
    <3>. QED  BY <1>6, <2>1, <3>1 DEF Makes
  <2>2. CASE i # p /\ h[i] \in AsstM
    BY <1>1, <1>3, <1>5, <2>2
  <2>3. CASE h[i] \notin AsstM
    BY <1>6, <2>3 DEF Makes
  <2>. QED  BY <2>1, <2>2, <2>3
<1>8. \A i, j : Behind(h, i, j) => Behind(g, i, j)
  BY <1>1, <1>6 DEF Behind
<1>9. \A j \in DOMAIN h : h[j] # Result(id)
  <2>. SUFFICES ASSUME NEW j \in DOMAIN h, h[j] = Result(id) PROVE FALSE
    OBVIOUS
  <2>1. PICK i \in DOMAIN h : Makes(h[i], id)
    BY DEF Orderly, ResultsBehind
  <2>2. h[i] \in AsstM /\ h[i].step = s
    BY <2>1 DEF Orderly, OwnCalls, Makes
  <2>. QED  BY <1>5, <2>1, <2>2 DEF Makes
<1>10. OwnSteps(g)
  BY <1>1, <1>6 DEF Orderly, OwnSteps
<1>11. OwnCalls(g)
  BY <1>1, <1>6, <1>7 DEF Orderly, OwnCalls, Makes
<1>12. ResultsBehind(g)
  BY <1>1, <1>6, <1>7, <1>8 DEF Orderly, ResultsBehind
<1>13. CallsHeard(g, Q)
  BY <1>1, <1>6, <1>7 DEF Orderly, CallsHeard
<1>14. CallsWait(g, Q)
  <2>. SUFFICES ASSUME NEW x \in Q
                PROVE  /\ \A j \in DOMAIN g : g[j] # Result(x)
                       /\ \E i \in DOMAIN g : Makes(g[i], x) /\ Behind(g, i, Len(g) + 1)
    BY DEF CallsWait
  <2>0. x \in Ids
    OBVIOUS
  <2>1. CASE x = id
    BY <1>1, <1>2, <1>6, <1>7, <1>8, <1>9, <2>1
  <2>2. CASE x \in P
    <3>1. \A j \in DOMAIN h : h[j] # Result(x)
      BY <2>2 DEF Orderly, CallsWait
    <3>2. PICK i \in DOMAIN h : Makes(h[i], x) /\ Behind(h, i, Len(h) + 1)
      BY <2>2 DEF Orderly, CallsWait
    <3>. QED  BY <1>1, <1>2, <1>6, <1>7, <1>8, <2>0, <3>1, <3>2
  <2>. QED  BY <2>1, <2>2
<1>15. Orderly(g, Q)
  BY <1>10, <1>11, <1>12, <1>13, <1>14 DEF Orderly
<1>. QED  BY <1>15 DEF f, g

-----------------------------------------------------------------------------
(* What the operations do to them *)

\* The steps that spoke, with the calls they made.
Spoken(h) == {<<m.step, m.toolCalls>> : m \in Range(h) \cap AsstM}

\* The conversation is orderly.
Sound(c) == Orderly(c.history, c.pendingToolResultIds)

\* The message at the end that step s writes to, with calls numbered up to n.
WritesAt(h, p, s, n) ==
    /\ h[p] \in AsstM /\ h[p].step = s /\ Behind(h, p, Len(h) + 1)
    /\ \A id \in Range(h[p].toolCalls) : id[2] <= n

\* Step s is open and writes to the last answer; nothing is held back.
Writing(c, s, n) ==
    /\ s \in c.openSteps /\ c.deferredMessages = <<>>
    /\ \E p \in DOMAIN c.history : WritesAt(c.history, p, s, n)

\* The steps that spoke, by their places and by their messages.
LEMMA SpokenForms ==
    /\ \A h \in Seq(Msg) : \A x : x \in Spoken(h) <=>
            \E i \in DOMAIN h : h[i] \in AsstM /\ x = <<h[i].step, h[i].toolCalls>>
    /\ \A g, h : Range(g) \cap AsstM \subseteq Range(h) => Spoken(g) \subseteq Spoken(h)
BY DEF Spoken, Range

\* Messages that are no answers add none.
LEMMA SpokenJoined ==
    ASSUME NEW a \in Seq(Msg), NEW b \in Seq(Msg), \A i \in DOMAIN b : b[i] \notin AsstM
    PROVE  Spoken(a \o b) = Spoken(a) /\ Spoken(b \o a) = Spoken(a)
<1>1. Range(a \o b) = Range(a) \cup Range(b) /\ Range(b \o a) = Range(b) \cup Range(a)
  BY RangeConcat
<1>2. Range(b) \cap AsstM = {}
  BY DEF Range
<1>. QED  BY <1>1, <1>2 DEF Spoken

\* What users say is neither answer nor result.
LEMMA UsersNoCalls ==
    ASSUME NEW q \in Seq(UserM)
    PROVE  q \in Seq(Msg) /\ \A i \in DOMAIN q : q[i] \notin AsstM /\ q[i] \notin ToolM
<1>1. q \in Seq(Msg) /\ \A i \in DOMAIN q : q[i] \in UserM
  BY UserMessages, ElementOfSeq, LenProperties
<1>2. \A m \in UserM : m \in Msg /\ m.role = "user"
  BY UserMessages DEF UserM
<1>3. \A m \in UserM : m \notin AsstM /\ m \notin ToolM
  BY <1>2, MsgForms
<1>. QED  BY <1>1, <1>3

\* So it may follow.
LEMMA UsersOrderly ==
    ASSUME NEW h \in Seq(Msg), NEW q \in Seq(UserM), Orderly(h, {})
    PROVE  Orderly(h \o q, {}) /\ Spoken(h \o q) = Spoken(h)
<1>1. q \in Seq(Msg) /\ \A i \in DOMAIN q : q[i] \notin AsstM /\ q[i] \notin ToolM
  BY UsersNoCalls
<1>. QED  BY <1>1, SaidOrderly, SpokenJoined

\* flushDeferredMessagesIfToolExchangeClosed keeps what was said, and the step in flight.
LEMMA FlushSound ==
    ASSUME NEW c \in CtxT, Sound(c)
    PROVE  LET d == flushDeferredMessagesIfToolExchangeClosed(c)
           IN  /\ Sound(d) /\ Spoken(d.history) = Spoken(c.history)
               /\ \A s, n : Writing(c, s, n) => Writing(d, s, n)
<1>. DEFINE h == c.history \o c.deferredMessages
            d == flushDeferredMessagesIfToolExchangeClosed(c)
<1>1. c.history \in Seq(Msg) /\ c.deferredMessages \in Seq(UserM) /\ c.pendingToolResultIds \in SUBSET Ids
  BY DEF CtxT
<1>2. CASE c.pendingToolResultIds # {}
  BY <1>2 DEF flushDeferredMessagesIfToolExchangeClosed, hasOpenToolExchange
<1>3. CASE c.pendingToolResultIds = {}
  <2>1. d.history = h /\ d.pendingToolResultIds = {} /\ d.deferredMessages = <<>> /\ d.openSteps = c.openSteps
    BY <1>3 DEF flushDeferredMessagesIfToolExchangeClosed, hasOpenToolExchange, CtxT
  <2>2. Orderly(h, {}) /\ Spoken(h) = Spoken(c.history)
    BY <1>1, <1>3, UsersOrderly DEF Sound
  <2>3. c.deferredMessages = <<>> => h = c.history
    BY <1>1, ConcatEmptySeq
  <2>. HIDE DEF d, h
  <2>4. \A s, n : Writing(c, s, n) => Writing(d, s, n)
    BY <2>1, <2>3 DEF Writing
  <2>. QED  BY <2>1, <2>2, <2>4 DEF Sound, d
<1>. QED  BY <1>2, <1>3

\* appendMessage: an input is said between tool exchanges only.
LEMMA AppendSound ==
    ASSUME NEW c \in CtxT, Sound(c), NEW n \in Nat
    PROVE  LET d == appendMessage(c, <<Input(n)>>)
           IN  Sound(d) /\ Spoken(d.history) = Spoken(c.history)
<1>. DEFINE q == <<Input(n)>>
            h == c.history \o q
            d == appendMessage(c, q)
<1>1. c.history \in Seq(Msg) /\ q \in Seq(UserM)
  <2>1. Input(n) \in UserM
    BY DEF Input, UserM
  <2>. QED  BY <2>1 DEF CtxT
<1>. HIDE DEF q
<1>2. CASE c.pendingToolResultIds # {}
  <2>1. d.history = c.history /\ d.pendingToolResultIds = c.pendingToolResultIds
    BY <1>2 DEF appendMessage, hasOpenToolExchange, CtxT
  <2>. QED  BY <2>1 DEF Sound, q
<1>3. CASE c.pendingToolResultIds = {}
  <2>1. d.history = h /\ d.pendingToolResultIds = {}
    BY <1>3 DEF appendMessage, hasOpenToolExchange, CtxT
  <2>2. Orderly(h, {}) /\ Spoken(h) = Spoken(c.history)
    BY <1>1, <1>3, UsersOrderly DEF Sound
  <2>. HIDE DEF d, h
  <2>. QED  BY <2>1, <2>2 DEF Sound, d, q
<1>. QED  BY <1>2, <1>3

\* stepBegin, when no call waits: a step that has no message yet writes to the last one.
LEMMA BeginSound ==
    ASSUME NEW c \in CtxT, Sound(c), NothingStranded(c), c.pendingToolResultIds = {}, NEW s \in Nat,
           \A x \in Spoken(c.history) : x[1] < s
    PROVE  LET d == stepBegin(c, s)
           IN  /\ Sound(d) /\ Writing(d, s, 0)
               /\ \A x \in Spoken(d.history) : x \in Spoken(c.history) \/ x[1] = s
<1>. DEFINE m == Opened(s)
            q == <<m>>
            h == c.history \o q
            d == stepBegin(c, s)
<1>1. m \in AsstM /\ m \in Msg /\ m.step = s /\ m.toolCalls = <<>>
  BY OpenedForm
<1>. HIDE DEF m
<1>2. c.history \in Seq(Msg) /\ q \in Seq(Msg) /\ Append(c.history, m) = h
  BY <1>1, AppendIsConcat DEF CtxT
<1>3. DOMAIN q = {1} /\ q[1] = m /\ Len(q) = 1
  OBVIOUS
<1>. HIDE DEF q
<1>4. d.history = h /\ d.openSteps = c.openSteps \cup {s} /\ d.deferredMessages = c.deferredMessages
      /\ d.pendingToolResultIds = {}
  BY <1>2 DEF stepBegin, CtxT, m
<1>5. c.deferredMessages = <<>>
  BY DEF NothingStranded, hasOpenToolExchange
<1>6. \A k \in DOMAIN c.history : c.history[k] \in AsstM => c.history[k].step # s /\ c.history[k].step \in Nat
  <2>. SUFFICES ASSUME NEW k \in DOMAIN c.history, c.history[k] \in AsstM
                PROVE  c.history[k].step # s /\ c.history[k].step \in Nat
    OBVIOUS
  <2>1. <<c.history[k].step, c.history[k].toolCalls>> \in Spoken(c.history)
    BY <1>2, SpokenForms
  <2>2. c.history[k].step < s
    BY <2>1
  <2>3. c.history[k].step \in Nat
    BY DEF AsstM
  <2>. QED  BY <2>2, <2>3
<1>7. Orderly(c.history, {})
  BY DEF Sound
<1>8. m \notin ToolM
  BY <1>1, MsgForms
<1>9. Orderly(h, {})
  <2>1. \A i \in DOMAIN q : q[i] \notin ToolM
    BY <1>3, <1>8
  <2>2. \A i \in DOMAIN q : q[i] \in AsstM =>
            q[i].toolCalls = <<>> /\ \A k \in DOMAIN c.history : c.history[k] \in AsstM => c.history[k].step # q[i].step
    BY <1>1, <1>3, <1>6
  <2>3. \A i, j \in DOMAIN q : q[i] \in AsstM /\ q[j] \in AsstM => i = j
    BY <1>3
  <2>. QED  BY <1>2, <1>7, <2>1, <2>2, <2>3, SaidOrderly
<1>10. \A x \in Spoken(h) : x \in Spoken(c.history) \/ x[1] = s
  <2>1. Range(h) = Range(c.history) \cup {m}
    <3>1. Range(h) = Range(c.history) \cup Range(q)
      BY <1>2, RangeConcat
    <3>. QED  BY <1>3, <3>1 DEF Range
  <2>. QED  BY <1>1, <2>1 DEF Spoken
<1>11. \E p \in DOMAIN h : WritesAt(h, p, s, 0)
  <2>1. /\ Len(h) = Len(c.history) + 1 /\ Len(c.history) \in Nat
        /\ Len(c.history) + 1 \in DOMAIN h /\ h[Len(c.history) + 1] = m
        /\ DOMAIN h = 1 .. Len(c.history) + 1
    <3>1. /\ Len(h) = Len(c.history) + Len(q) /\ Len(c.history) \in Nat
          /\ DOMAIN h = 1 .. Len(c.history) + Len(q)
          /\ \A j \in DOMAIN q : Len(c.history) + j \in DOMAIN h /\ h[Len(c.history) + j] = q[j]
      BY <1>2, JoinedParts
    <3>. QED  BY <1>3, <3>1
  <2>. HIDE DEF h
  <2>2. Behind(h, Len(c.history) + 1, Len(h) + 1)
    BY <2>1 DEF Behind
  <2>3. Range(<<>>) = {}
    BY DEF Range
  <2>4. WritesAt(h, Len(c.history) + 1, s, 0)
    BY <1>1, <2>1, <2>2, <2>3 DEF WritesAt
  <2>. QED  BY <2>1, <2>4
<1>. HIDE DEF h, d
<1>12. Sound(d) /\ Writing(d, s, 0)
  BY <1>4, <1>5, <1>9, <1>11 DEF Sound, Writing
<1>. QED  BY <1>4, <1>10, <1>12 DEF d

\* contentPart changes none of the calls.
LEMMA PartSound ==
    ASSUME NEW c \in CtxT, Sound(c), NEW s \in Nat
    PROVE  LET d == contentPart(c, s)
           IN  /\ Sound(d) /\ Spoken(d.history) = Spoken(c.history)
               /\ \A n : Writing(c, s, n) => Writing(d, s, n)
<1>. DEFINE f == Marked(s)
            h == Mapped(c.history, f)
            d == contentPart(c, s)
<1>1. c.history \in Seq(Msg) /\ c.pendingToolResultIds \in SUBSET Ids
  BY DEF CtxT
<1>2. CASE s \notin c.openSteps
  BY <1>2 DEF contentPart
<1>3. CASE s \in c.openSteps
  <2>1. d.history = h /\ d.openSteps = c.openSteps /\ d.deferredMessages = c.deferredMessages
        /\ d.pendingToolResultIds = c.pendingToolResultIds
    <3>1. d = [c EXCEPT !.history = h]
      BY <1>3, StepEvents
    <3>. HIDE DEF h, d
    <3>. QED  BY <3>1 DEF CtxT
  <2>2. Orderly(h, c.pendingToolResultIds)
    BY <1>1, MarkedOrderly DEF Sound
  <2>3. InPlace(f, s) /\ \A m \in AsstM : f[m].toolCalls = m.toolCalls
    <3>1. \A m \in AsstM : m \in Msg
      BY DEF Msg
    <3>. QED  BY <3>1, ChangesInPlace DEF Marked, AsstM
  <2>4. /\ h \in Seq(Msg) /\ Len(h) = Len(c.history) /\ DOMAIN h = DOMAIN c.history
        /\ \A i \in DOMAIN c.history : h[i] = f[c.history[i]] /\ c.history[i] \in Msg
    BY <1>1, <2>3, MappedType, Positions DEF InPlace
  <2>. HIDE DEF f, h
  <2>5. \A m \in Msg : /\ f[m] \in AsstM <=> m \in AsstM
                       /\ m \in AsstM => f[m].step = m.step /\ f[m].toolCalls = m.toolCalls
                       /\ m \in ToolM => f[m] = m
    BY <2>3, MsgForms DEF InPlace
  <2>6. Spoken(h) = Spoken(c.history)
    <3>1. \A x : x \in Spoken(h) <=> \E i \in DOMAIN h : h[i] \in AsstM /\ x = <<h[i].step, h[i].toolCalls>>
      BY <2>4, SpokenForms
    <3>2. \A x : x \in Spoken(c.history) <=> \E i \in DOMAIN c.history :
              c.history[i] \in AsstM /\ x = <<c.history[i].step, c.history[i].toolCalls>>
      BY <1>1, SpokenForms
    <3>3. ASSUME NEW i \in DOMAIN c.history
          PROVE  /\ i \in DOMAIN h /\ (h[i] \in AsstM <=> c.history[i] \in AsstM)
                 /\ h[i] \in AsstM => h[i].step = c.history[i].step /\ h[i].toolCalls = c.history[i].toolCalls
      BY <2>4, <2>5
    <3>4. \A x : x \in Spoken(h) <=> x \in Spoken(c.history)
      BY <2>4, <3>1, <3>2, <3>3
    <3>. QED  BY <3>4
  <2>7. ASSUME NEW p \in DOMAIN c.history, NEW n, WritesAt(c.history, p, s, n)
        PROVE  WritesAt(h, p, s, n)
    <3>1. Behind(h, p, Len(h) + 1)
      BY <2>4, <2>5, <2>7 DEF WritesAt, Behind
    <3>. QED  BY <2>4, <2>5, <2>7, <3>1 DEF WritesAt
  <2>8. \A n : Writing(c, s, n) => Writing(d, s, n)
    BY <2>1, <2>4, <2>7 DEF Writing
  <2>. QED  BY <2>1, <2>2, <2>6, <2>8 DEF Sound
<1>. QED  BY <1>2, <1>3

\* What toolCall changes.
LEMMA CallChanges ==
    ASSUME NEW c \in CtxT, NEW s, s \in c.openSteps, NEW id \in Ids
    PROVE  toolCall(c, s, id) = [c EXCEPT !.history = Mapped(c.history, Called(s, id)),
                                          !.pendingToolResultIds = c.pendingToolResultIds \cup {id}]
<1>1. toolCall(c, s, id) = [c EXCEPT !.history = Mapped(c.history, Called(s, id)),
                                     !.pendingToolResultIds = @ \cup {id}]
  BY StepEvents
<1>. QED  BY <1>1

\* toolCall: the next call of the step in flight.
LEMMA CallSound ==
    ASSUME NEW c \in CtxT, Sound(c), NEW s \in Nat, NEW n \in Nat, Writing(c, s, n), NEW id \in Ids,
           id[1] = s, id[2] = n + 1
    PROVE  LET d == toolCall(c, s, id)
           IN  /\ Sound(d) /\ Writing(d, s, n + 1)
               /\ d.pendingToolResultIds = c.pendingToolResultIds \cup {id}
               /\ \A x \in Spoken(d.history) : x \in Spoken(c.history) \/ x[1] = s
<1>. DEFINE f == Called(s, id)
            h == Mapped(c.history, f)
            P == c.pendingToolResultIds \cup {id}
            d == toolCall(c, s, id)
<1>1. c.history \in Seq(Msg) /\ c.pendingToolResultIds \in SUBSET Ids /\ s \in c.openSteps
      /\ c.deferredMessages = <<>>
  BY DEF CtxT, Writing
<1>2. id \in Ids /\ id[1] = s /\ id[2] = n + 1
  OBVIOUS
<1>3. d.history = h /\ d.openSteps = c.openSteps /\ d.deferredMessages = c.deferredMessages
      /\ d.pendingToolResultIds = P
  <2>1. d = [c EXCEPT !.history = h, !.pendingToolResultIds = P]
    BY <1>1, <1>2, CallChanges
  <2>. HIDE DEF h, d, P
  <2>. QED  BY <2>1 DEF CtxT
<1>4. PICK p \in DOMAIN c.history : WritesAt(c.history, p, s, n)
  BY DEF Writing
<1>5. /\ c.history[p] \in AsstM /\ c.history[p].step = s /\ Behind(c.history, p, Len(c.history) + 1)
      /\ id \notin Range(c.history[p].toolCalls)
  BY <1>2, <1>4 DEF WritesAt
<1>6. Orderly(h, P)
  BY <1>1, <1>2, <1>5, CalledOrderly DEF Sound
<1>7. InPlace(f, s)
  BY <1>2, ChangesInPlace
<1>8. /\ h \in Seq(Msg) /\ Len(h) = Len(c.history) /\ DOMAIN h = DOMAIN c.history
      /\ \A i \in DOMAIN c.history : h[i] = f[c.history[i]] /\ c.history[i] \in Msg
  <2>1. f \in [Msg -> Msg]
    BY <1>7 DEF InPlace
  <2>2. \A i \in DOMAIN c.history : c.history[i] \in Msg
    BY <1>1, Positions
  <2>. HIDE DEF f
  <2>. QED  BY <1>1, <2>1, <2>2, MappedType
<1>9. f[c.history[p]].toolCalls = Append(c.history[p].toolCalls, id)
  <2>. DEFINE m == c.history[p]
  <2>1. m \in Msg /\ m \in AsstM /\ m.step = s /\ m.role = "assistant"
    BY <1>5, <1>8 DEF AsstM
  <2>. HIDE DEF m
  <2>2. f[m] = [m EXCEPT !.toolCalls = Append(@, id)]
    BY <2>1 DEF Called
  <2>3. f[m].toolCalls = Append(m.toolCalls, id)
    BY <2>1, <2>2 DEF AsstM
  <2>. QED  BY <2>3 DEF m
<1>. HIDE DEF f, h, P
<1>10. \A m \in Msg : /\ f[m] \in AsstM <=> m \in AsstM
                      /\ m \in AsstM => f[m].step = m.step
                      /\ m \in AsstM /\ m.step # s => f[m] = m
                      /\ m \in ToolM => f[m] = m
  BY <1>7, MsgForms DEF InPlace
<1>11. \A x \in Spoken(h) : x \in Spoken(c.history) \/ x[1] = s
  <2>. SUFFICES ASSUME NEW x \in Spoken(h), x[1] # s
                PROVE  x \in Spoken(c.history)
    OBVIOUS
  <2>1. PICK i \in DOMAIN h : h[i] \in AsstM /\ x = <<h[i].step, h[i].toolCalls>>
    BY <1>8, SpokenForms
  <2>2. h[i] = c.history[i]
    BY <1>8, <1>10, <2>1
  <2>. QED  BY <1>1, <1>8, <2>1, <2>2, SpokenForms
<1>12. WritesAt(h, p, s, n + 1)
  <2>1. h[p] \in AsstM /\ h[p].step = s
    BY <1>5, <1>8, <1>10
  <2>2. Behind(h, p, Len(h) + 1)
    BY <1>5, <1>8, <1>10 DEF Behind
  <2>3. \A y \in Range(h[p].toolCalls) : y[2] <= n + 1
    <3>. DEFINE t == c.history[p].toolCalls
    <3>1. t \in Seq(Ids) /\ \A y \in Range(t) : y[2] <= n
      BY <1>4, <1>5 DEF WritesAt, AsstM
    <3>2. h[p].toolCalls = Append(t, id)
      BY <1>8, <1>9
    <3>. HIDE DEF t
    <3>3. \A y \in Range(t) : y \in Ids
      BY <3>1, RangeOfSeq
    <3>4. \A y \in Range(t) : y[2] <= n + 1
      BY <3>1, <3>3 DEF Ids
    <3>5. Range(Append(t, id)) \subseteq Range(t) \cup {id}
      <4>1. /\ DOMAIN t = 1 .. Len(t) /\ Len(t) \in Nat /\ DOMAIN Append(t, id) = 1 .. Len(t) + 1
            /\ Append(t, id)[Len(t) + 1] = id
            /\ \A i \in 1 .. Len(t) : Append(t, id)[i] = t[i]
        BY <1>2, <3>1, AppendProperties, LenProperties
      <4>2. \A i \in 1 .. Len(t) + 1 : i \in 1 .. Len(t) \/ i = Len(t) + 1
        BY <4>1
      <4>. QED  BY <4>1, <4>2 DEF Range
    <3>. QED  BY <1>2, <3>2, <3>4, <3>5
  <2>. QED  BY <2>1, <2>2, <2>3 DEF WritesAt
<1>. HIDE DEF d
<1>13. Sound(d) /\ Writing(d, s, n + 1)
  BY <1>1, <1>3, <1>6, <1>8, <1>12 DEF Sound, Writing
<1>. QED  BY <1>3, <1>11, <1>13 DEF d, P

\* toolResults: the results of calls that wait.
LEMMA ResultsSound ==
    ASSUME NEW c \in CtxT, Sound(c), NEW ids \in Seq(Ids), OneEach(ids), Range(ids) \subseteq c.pendingToolResultIds
    PROVE  LET d == toolResults(c, ids)
           IN  /\ Sound(d) /\ Spoken(d.history) = Spoken(c.history)
               /\ \A s, n : Writing(c, s, n) => Writing(d, s, n)
<1>. DEFINE r == ResultsOf(ids)
            h == c.history \o r
            P == c.pendingToolResultIds \ Range(ids)
            e == [c EXCEPT !.history = h, !.pendingToolResultIds = P]
<1>1. c.history \in Seq(Msg) /\ c.pendingToolResultIds \in SUBSET Ids /\ Orderly(c.history, c.pendingToolResultIds)
  BY DEF CtxT, Sound
<1>2. /\ Orderly(h, P)
      /\ \A p \in DOMAIN c.history : Behind(c.history, p, Len(c.history) + 1) => Behind(h, p, Len(h) + 1)
  BY <1>1, ResultsOrderly
<1>3. r \in Seq(Msg) /\ \A i \in DOMAIN r : r[i] \notin AsstM
  <2>1. r \in Seq(Msg)
    BY ResultsOfType
  <2>2. \A i \in DOMAIN r : r[i] = Result(ids[i]) /\ ids[i] \in Ids
    BY ElementOfSeq, LenProperties DEF ResultsOf
  <2>. QED  BY <2>1, <2>2, ResultForms
<1>4. toolResults(c, ids) = flushDeferredMessagesIfToolExchangeClosed(e)
  BY DEF toolResults, ResultsOf, CtxT
<1>. HIDE DEF r
<1>5. Spoken(h) = Spoken(c.history)
  BY <1>1, <1>3, SpokenJoined
<1>6. /\ h \in Seq(Msg)
      /\ \A i \in DOMAIN c.history : i \in DOMAIN h /\ h[i] = c.history[i]
  BY <1>1, <1>3, JoinedParts
<1>7. P \in SUBSET Ids /\ IsFiniteSet(P)
  BY FS_Difference DEF CtxT
<1>. HIDE DEF h, P
<1>8. /\ e \in CtxT /\ e.history = h /\ e.pendingToolResultIds = P
      /\ e.deferredMessages = c.deferredMessages /\ e.openSteps = c.openSteps
  BY <1>6, <1>7 DEF CtxT
<1>. HIDE DEF e
<1>9. Sound(e)
  BY <1>2, <1>8 DEF Sound
<1>10. \A s, n : Writing(c, s, n) => Writing(e, s, n)
  BY <1>2, <1>6, <1>8 DEF Writing, WritesAt
<1>11. LET d == flushDeferredMessagesIfToolExchangeClosed(e)
       IN  /\ Sound(d) /\ Spoken(d.history) = Spoken(e.history)
           /\ \A s, n : Writing(e, s, n) => Writing(d, s, n)
  BY <1>8, <1>9, FlushSound
<1>. QED  BY <1>4, <1>5, <1>8, <1>10, <1>11

\* A set's elements in any order are no element twice.
LEMMA OneOfEach ==
    ASSUME NEW S, IsFiniteSet(S), NEW ids \in SetToSeqs(S)
    PROVE  OneEach(ids)
<1>. DEFINE n == Cardinality(S)
<1>1. n \in Nat /\ ids \in [1 .. n -> S] /\ \A i, j \in 1 .. n : i # j => ids[i] # ids[j]
  BY FS_CardinalityType DEF SetToSeqs
<1>. HIDE DEF n
<1>. QED  BY <1>1 DEF OneEach

\* closeAbandonedToolExchange
LEMMA CloseSound ==
    ASSUME NEW c \in CtxT, Sound(c), NEW ids \in recorded(c.pendingToolResultIds)
    PROVE  LET d == closeAbandonedToolExchange(c, ids)
           IN  d \in CtxT /\ Sound(d) /\ Spoken(d.history) = Spoken(c.history)
<1>1. c.pendingToolResultIds \in SUBSET Ids /\ IsFiniteSet(c.pendingToolResultIds)
  BY DEF CtxT
<1>2. ids \in SetToSeqs(c.pendingToolResultIds)
  BY DEF recorded
<1>3. ids \in Seq(c.pendingToolResultIds) /\ Range(ids) = c.pendingToolResultIds /\ OneEach(ids)
  BY <1>1, <1>2, SequenceOfSet, OneOfEach
<1>4. ids \in Seq(Ids) /\ Range(ids) \subseteq c.pendingToolResultIds
  BY <1>1, <1>3, SeqMonotonic
<1>5. CASE ids = <<>>
  BY <1>5 DEF closeAbandonedToolExchange
<1>6. CASE ids # <<>>
  <2>1. closeAbandonedToolExchange(c, ids) = toolResults(c, ids)
    BY <1>6 DEF closeAbandonedToolExchange
  <2>2. toolResults(c, ids) \in CtxT
    BY <1>4, ResultsBecome DEF Becomes
  <2>. QED  BY <1>3, <1>4, <2>1, <2>2, ResultsSound
<1>. QED  BY <1>5, <1>6

\* dropVacuousOpenMessages: what goes has no calls.
LEMMA DropSound ==
    ASSUME NEW c \in CtxT, Sound(c)
    PROVE  LET d == dropVacuousOpenMessages(c)
           IN  Sound(d) /\ Spoken(d.history) \subseteq Spoken(c.history)
<1>. DEFINE d == dropVacuousOpenMessages(c)
            T == Visible(c.openSteps)
            h == Select(c.history, T)
<1>1. c.history \in Seq(Msg) /\ c.pendingToolResultIds \in SUBSET Ids /\ c.openSteps \subseteq Nat
      /\ Orderly(c.history, c.pendingToolResultIds)
  BY DEF CtxT, Sound
<1>2. d.history = h
  BY DropShows
<1>3. d.pendingToolResultIds = c.pendingToolResultIds
  BY DropBecomes DEF Becomes
<1>4. \A m \in Msg : m \in ToolM \/ (\E id \in Ids : Makes(m, id)) => m \in T
  <2>1. \A m \in Msg : m \in ToolM => m \in T
    BY <1>1, BlankForms, MsgForms
  <2>2. ASSUME NEW m \in Msg, NEW id \in Ids, Makes(m, id), m \in Blank(c.openSteps) PROVE FALSE
    <3>1. m.toolCalls = <<>>
      BY <1>1, <2>2, BlankForms DEF Opened
    <3>. QED  BY <2>2, <3>1 DEF Makes, Range
  <2>. QED  BY <2>1, <2>2 DEF Visible
<1>. HIDE DEF T
<1>5. Orderly(h, c.pendingToolResultIds)
  BY <1>1, <1>4, SelectOrderly
<1>6. Range(h) \subseteq Range(c.history)
  BY <1>1, SelectRange
<1>. HIDE DEF h, d
<1>7. Range(h) \cap AsstM \subseteq Range(c.history)
  BY <1>6
<1>8. Spoken(h) \subseteq Spoken(c.history)
  BY <1>7, SpokenForms
<1>. QED  BY <1>2, <1>3, <1>5, <1>8 DEF Sound, d

\* undo(), when no call waits: what stays ends in front of a message that is no result.
LEMMA UndoSound ==
    ASSUME NEW c \in CtxT, Sound(c), c.pendingToolResultIds = {}
    PROVE  LET d == undo(c)
           IN  Sound(d) /\ Spoken(d.history) \subseteq Spoken(c.history)
<1>. DEFINE h == c.history
            d == undo(c)
<1>1. h \in Seq(Msg) /\ Orderly(h, {})
  BY DEF CtxT, Sound
<1>2. ASSUME NEW k \in Seq(Msg), d = [c EXCEPT !.history = k], Orderly(k, {}), Spoken(k) \subseteq Spoken(h)
      PROVE  Sound(d) /\ Spoken(d.history) \subseteq Spoken(c.history)
  <2>1. d.history = k /\ d.pendingToolResultIds = {}
    BY <1>2 DEF CtxT
  <2>. QED  BY <1>2, <2>1 DEF Sound
<1>3. ASSUME \A i \in 1 .. Len(h) : h[i] \notin Speaking
      PROVE  Sound(d) /\ Spoken(d.history) \subseteq Spoken(c.history)
  <2>1. d = [c EXCEPT !.history = <<>>]
    BY <1>3, UndoCuts
  <2>2. Orderly(<<>>, {}) /\ Spoken(<<>>) = {} /\ <<>> \in Seq(Msg)
    BY EmptySeq DEF Orderly, OwnSteps, OwnCalls, ResultsBehind, CallsHeard, CallsWait, Spoken, Range
  <2>. QED  BY <1>2, <2>1, <2>2
<1>4. ASSUME NEW pre, NEW m, NEW post, SaidLast(h, pre, m, post)
      PROVE  Sound(d) /\ Spoken(d.history) \subseteq Spoken(c.history)
  <2>1. /\ pre \in Seq(Msg) /\ post \in Seq(Msg) /\ m \in Msg /\ m \in Speaking
        /\ h = Append(pre, m) \o post
    BY <1>4 DEF SaidLast, Speaking, Msg
  <2>. DEFINE one == <<m>>
              b == one \o post
  <2>2. one \in Seq(Msg) /\ Append(pre, m) = pre \o one /\ one[1] = m /\ DOMAIN one = {1}
    BY <2>1, AppendIsConcat
  <2>. HIDE DEF one
  <2>3. b \in Seq(Msg) /\ pre \o one \in Seq(Msg) /\ b[1] = m
    <3>1. b \in Seq(Msg) /\ \A i \in DOMAIN one : b[i] = one[i]
      BY <2>1, <2>2, JoinedParts
    <3>2. pre \o one \in Seq(Msg)
      BY <2>1, <2>2, ConcatProperties
    <3>. HIDE DEF b
    <3>. QED  BY <2>2, <3>1, <3>2
  <2>4. h = pre \o b
    <3>. HIDE DEF h, d
    <3>1. (pre \o one) \o post = pre \o (one \o post)
      BY <2>1, <2>2, ConcatAssociative, SMTT(30)
    <3>. QED  BY <2>1, <2>2, <3>1
  <2>5. m \notin ToolM /\ m \notin AsstM
    BY <2>1, MsgForms DEF Speaking
  <2>. HIDE DEF b
  <2>6. Orderly(pre, {})
    <3>1. Orderly(pre \o b, {})
      BY <1>1, <2>4
    <3>2. \A j \in DOMAIN b : j = 1 => b[j] \notin ToolM
      BY <2>3, <2>5
    <3>. QED  BY <2>1, <2>3, <3>1, <3>2, FrontOrderly
  <2>7. Spoken(pre) \subseteq Spoken(h)
    <3>1. Range(pre \o b) = Range(pre) \cup Range(b)
      BY <2>1, <2>3, RangeConcat
    <3>2. Range(pre) \subseteq Range(h)
      BY <2>4, <3>1
    <3>. HIDE DEF h
    <3>3. Range(pre) \cap AsstM \subseteq Range(h)
      BY <3>2
    <3>. QED  BY <3>3, SpokenForms
  <2>8. Orderly(pre \o one, {}) /\ Spoken(pre \o one) = Spoken(pre)
    <3>1. \A i \in DOMAIN one : one[i] \notin ToolM /\ one[i] \notin AsstM
      BY <2>2, <2>5
    <3>2. Orderly(pre \o one, {})
      BY <2>1, <2>2, <2>6, <3>1, SaidOrderly
    <3>3. Spoken(pre \o one) = Spoken(pre)
      BY <2>1, <2>2, <3>1, SpokenJoined
    <3>. QED  BY <3>2, <3>3
  <2>9. d = [c EXCEPT !.history = IF m \in SumM THEN Append(pre, m) ELSE pre]
    BY <1>4, UndoCuts
  <2>. HIDE DEF h, d
  <2>10. CASE m \in SumM
    <3>1. d = [c EXCEPT !.history = pre \o one]
      BY <2>2, <2>9, <2>10
    <3>2. Spoken(pre \o one) \subseteq Spoken(h)
      BY <2>7, <2>8
    <3>. QED  BY <1>2, <2>3, <2>8, <3>1, <3>2
  <2>11. CASE m \notin SumM
    BY <1>2, <2>1, <2>6, <2>7, <2>9, <2>11
  <2>. QED  BY <2>10, <2>11
<1>5. \/ \A i \in 1 .. Len(h) : h[i] \notin Speaking
      \/ \E pre, m, post : SaidLast(h, pre, m, post)
  BY <1>1, LastVoice
<1>. QED  BY <1>3, <1>4, <1>5

\* Messages all of whose calls are answered among them.
Closed(h) ==
    \A i \in DOMAIN h : \A id \in Ids : Makes(h[i], id) => \E j \in DOMAIN h : h[j] = Result(id)

\* What a worker started from, cut after n messages, stands in front of history h.
Fits(then, n, h) ==
    /\ then \in Seq(Msg) /\ n \in 1 .. Len(then) /\ Len(then) <= Len(h)
    /\ \A i \in DOMAIN then : same(then[i], h[i])
    /\ Closed(then)
    /\ n < Len(then) => then[n + 1] \notin ToolM
    /\ \A x \in Spoken(then) : \A y \in Spoken(h) : x[1] = y[1] => x = y

\* What same() compares.
LEMMA SameForms ==
    ASSUME NEW a \in Msg, NEW b \in Msg, same(a, b)
    PROVE  /\ a \in AsstM <=> b \in AsstM
           /\ a \in AsstM => a.step = b.step
           /\ a \in ToolM <=> b \in ToolM
           /\ \A id \in Ids : a = Result(id) => b = Result(id)
<1>1. a.role = b.role
  BY DEF same
<1>2. a.role = "assistant" => a.step = b.step
  BY DEF same
<1>3. a.role = "tool" => a.toolCallId = b.toolCallId
  BY DEF same
<1>4. a \in AsstM <=> b \in AsstM
  BY <1>1, <1>2, MsgForms
<1>5. a \in ToolM <=> b \in ToolM
  BY <1>1, MsgForms
<1>6. a \in ToolM => a.toolCallId = b.toolCallId
  BY <1>3, MsgForms
<1>7. ASSUME NEW id \in Ids, a = Result(id) PROVE b = Result(id)
  <2>1. a \in ToolM /\ b \in ToolM
    BY <1>5, <1>7, ResultForms
  <2>2. a = Result(a.toolCallId) /\ b = Result(b.toolCallId)
    BY <2>1, ResultForms
  <2>. QED  BY <1>6, <1>7, <2>1, <2>2
<1>8. a \in AsstM => a.step = b.step
  BY <1>2, MsgForms
<1>. QED  BY <1>4, <1>5, <1>7, <1>8

\* Up to the cut every call has its result, and has it there.
LEMMA FitsCut ==
    ASSUME NEW h \in Seq(Msg), NEW P \in SUBSET Ids, Orderly(h, P), NEW then, NEW n, Fits(then, n, h)
    PROVE  /\ n \in 0 .. Len(h)
           /\ \A i \in 1 .. n : \A id \in Ids : Makes(h[i], id) =>
                id \notin P /\ \A j \in DOMAIN h : j > n => h[j] # Result(id)
<1>1. /\ Len(h) \in Nat /\ DOMAIN h = 1 .. Len(h) /\ \A i \in DOMAIN h : h[i] \in Msg
      /\ then \in Seq(Msg) /\ Len(then) \in Nat /\ DOMAIN then = 1 .. Len(then)
      /\ \A i \in DOMAIN then : then[i] \in Msg
      /\ n \in Nat /\ n >= 1 /\ n <= Len(then) /\ Len(then) <= Len(h)
      /\ \A i \in DOMAIN then : same(then[i], h[i])
  BY Positions DEF Fits
<1>2. n \in 0 .. Len(h)
  BY <1>1
<1>3. ASSUME NEW i \in 1 .. n, NEW id \in Ids, Makes(h[i], id)
      PROVE  id \notin P /\ \A j \in DOMAIN h : j > n => h[j] # Result(id)
  <2>1. i \in DOMAIN then /\ i \in DOMAIN h
    BY <1>1
  <2>2. then[i] \in AsstM /\ h[i] \in AsstM /\ then[i].step = h[i].step
    BY <1>1, <1>3, <2>1, SameForms DEF Makes
  <2>3. then[i].toolCalls = h[i].toolCalls
    <3>1. <<then[i].step, then[i].toolCalls>> \in Spoken(then)
      BY <1>1, <2>1, <2>2, SpokenForms
    <3>2. <<h[i].step, h[i].toolCalls>> \in Spoken(h)
      BY <1>1, <2>1, <2>2, SpokenForms
    <3>. QED  BY <2>2, <3>1, <3>2 DEF Fits
  <2>4. Makes(then[i], id)
    BY <1>3, <2>2, <2>3 DEF Makes
  <2>5. PICK k \in DOMAIN then : then[k] = Result(id)
    BY <2>1, <2>4 DEF Fits, Closed
  <2>6. k \in DOMAIN h /\ h[k] = Result(id)
    BY <1>1, <2>5, SameForms
  <2>7. id \notin P
    BY <2>6 DEF Orderly, CallsWait
  <2>8. ASSUME NEW j \in DOMAIN h, j > n, h[j] = Result(id) PROVE FALSE
    <3>1. j = k
      BY <2>6, <2>8 DEF Orderly, ResultsBehind
    <3>2. n < Len(then) /\ n + 1 \in DOMAIN then /\ n + 1 \in DOMAIN h
      BY <1>1, <2>5, <2>8, <3>1
    <3>3. then[n + 1] \notin ToolM
      BY <3>2 DEF Fits
    <3>4. h[n + 1] \notin ToolM
      BY <1>1, <3>2, <3>3, SameForms
    <3>5. PICK l \in DOMAIN h : Makes(h[l], id) /\ Behind(h, l, j)
      BY <2>8 DEF Orderly, ResultsBehind
    <3>6. l = i
      BY <1>3, <2>1, <3>5, MadeOnce DEF Orderly
    <3>7. CASE j = n + 1
      BY <2>8, <3>4, <3>7, ResultForms
    <3>8. CASE j # n + 1
      <4>1. i < n + 1 /\ n + 1 < j
        BY <1>1, <2>8, <3>8
      <4>. QED  BY <3>2, <3>4, <3>5, <3>6, <4>1 DEF Behind
    <3>. QED  BY <3>7, <3>8
  <2>. QED  BY <2>7, <2>8
<1>. QED  BY <1>2, <1>3

\* applyCompaction
LEMMA CompactSound ==
    ASSUME NEW c \in CtxT, Sound(c), NEW m \in SumM, NEW then, NEW n, Fits(then, n, c.history)
    PROVE  LET d == applyCompaction(c, m, n)
           IN  /\ Sound(d) /\ Spoken(d.history) \subseteq Spoken(c.history)
               /\ \A s, k : Writing(c, s, k) /\ (\A x \in Spoken(then) : x[1] # s) => Writing(d, s, k)
<1>. DEFINE h == c.history
            P == c.pendingToolResultIds
            a == SubSeq(h, 1, n)
            b == SubSeq(h, n + 1, Len(h))
            one == <<m>>
            g == one \o b
            O == c.openSteps \cap {x.step : x \in {y \in Range(g) : y.role = "assistant"}}
            e == [c EXCEPT !.history = g, !.openSteps = O]
<1>1. h \in Seq(Msg) /\ P \in SUBSET Ids /\ Orderly(h, P)
  BY DEF CtxT, Sound
<1>2. /\ n \in 0 .. Len(h)
      /\ \A i \in 1 .. n : \A id \in Ids : Makes(h[i], id) =>
            id \notin P /\ \A j \in DOMAIN h : j > n => h[j] # Result(id)
  BY <1>1, FitsCut
<1>3. /\ a \in Seq(Msg) /\ b \in Seq(Msg) /\ Len(a) = n /\ h = a \o b
      /\ \A i \in 1 .. n : a[i] = h[i]
  <2>. HIDE DEF h
  <2>. QED  BY <1>1, <1>2, Divide
<1>4. applyCompaction(c, m, n) = flushDeferredMessagesIfToolExchangeClosed(e)
  BY DEF applyCompaction, CtxT
<1>. HIDE DEF a, b, h, P
<1>5. /\ Len(h) = n + Len(b) /\ n \in Nat /\ Len(b) \in Nat /\ DOMAIN a = 1 .. n
      /\ DOMAIN b = 1 .. Len(b) /\ DOMAIN h = 1 .. n + Len(b)
      /\ \A j \in DOMAIN b : n + j \in DOMAIN h /\ h[n + j] = b[j]
  <2>0. a \in Seq(Msg) /\ b \in Seq(Msg)
    BY <1>3
  <2>1. /\ Len(a \o b) = Len(a) + Len(b) /\ Len(a) \in Nat /\ Len(b) \in Nat /\ DOMAIN a = 1 .. Len(a)
        /\ DOMAIN b = 1 .. Len(b) /\ DOMAIN (a \o b) = 1 .. Len(a) + Len(b)
        /\ \A j \in DOMAIN b : Len(a) + j \in DOMAIN (a \o b) /\ (a \o b)[Len(a) + j] = b[j]
    BY <2>0, JoinedParts
  <2>. QED  BY <1>3, <2>1
<1>6. Orderly(b, P)
  <2>1. ASSUME NEW i \in DOMAIN a, NEW id \in Ids, Makes(a[i], id)
        PROVE  id \notin P /\ \A j \in DOMAIN b : b[j] # Result(id)
    <3>1. Makes(h[i], id) /\ i \in 1 .. n
      BY <1>3, <1>5, <2>1
    <3>2. \A j \in DOMAIN b : n + j > n
      BY <1>5
    <3>. QED  BY <1>2, <1>5, <3>1, <3>2
  <2>2. Orderly(a \o b, P)
    BY <1>1, <1>3
  <2>3. a \in Seq(Msg) /\ b \in Seq(Msg) /\ P \in SUBSET Ids
    BY <1>1, <1>3
  <2>. QED  BY <2>1, <2>2, <2>3, BackOrderly
<1>7. Orderly(g, P)
  BY <1>1, <1>3, <1>6, HeadedOrderly
<1>8. m \in Msg /\ m \notin AsstM
  BY MsgForms DEF Msg
<1>9. one \in Seq(Msg) /\ DOMAIN one = {1} /\ one[1] = m /\ Len(one) = 1
  BY <1>8
<1>. HIDE DEF one
<1>10. Spoken(g) \subseteq Spoken(h)
  <2>1. \A i \in DOMAIN one : one[i] \notin AsstM
    BY <1>8, <1>9
  <2>2. Spoken(g) = Spoken(b)
    BY <1>3, <1>9, <2>1, SpokenJoined
  <2>3. Range(h) = Range(a) \cup Range(b)
    BY <1>3, RangeConcat
  <2>4. Range(b) \cap AsstM \subseteq Range(h)
    BY <2>3
  <2>5. Spoken(b) \subseteq Spoken(h)
    BY <2>4, SpokenForms
  <2>. QED  BY <2>2, <2>5
<1>11. /\ g \in Seq(Msg) /\ Len(g) = 1 + Len(b) /\ DOMAIN g = 1 .. 1 + Len(b)
       /\ \A j \in DOMAIN b : 1 + j \in DOMAIN g /\ g[1 + j] = b[j]
       /\ \A k \in DOMAIN g : k = 1 \/ \E j \in DOMAIN b : k = 1 + j
  <2>0. one \in Seq(Msg) /\ b \in Seq(Msg)
    BY <1>3, <1>9
  <2>1. /\ g \in Seq(Msg) /\ Len(g) = Len(one) + Len(b) /\ DOMAIN g = 1 .. Len(one) + Len(b)
        /\ \A j \in DOMAIN b : Len(one) + j \in DOMAIN g /\ g[Len(one) + j] = b[j]
        /\ \A k \in DOMAIN g : k \in DOMAIN one \/ \E j \in DOMAIN b : k = Len(one) + j
    BY <2>0, JoinedParts
  <2>. HIDE DEF g
  <2>. QED  BY <1>9, <2>1
<1>. HIDE DEF g
<1>12. O \in SUBSET Nat /\ c.history = h /\ c.pendingToolResultIds = P
  BY DEF CtxT, h, P
<1>13. ASSUME NEW s, NEW k, Writing(c, s, k), \A x \in Spoken(then) : x[1] # s
       PROVE  s \in O /\ c.deferredMessages = <<>> /\ \E p \in DOMAIN g : WritesAt(g, p, s, k)
  <2>1. PICK p \in DOMAIN h : WritesAt(h, p, s, k)
    BY <1>12, <1>13 DEF Writing
  <2>2. h[p] \in AsstM /\ h[p].step = s /\ Behind(h, p, Len(h) + 1)
    BY <2>1 DEF WritesAt
  <2>3. p > n
    <3>. SUFFICES ASSUME ~ (p > n) PROVE FALSE
      OBVIOUS
    <3>1. then \in Seq(Msg) /\ n <= Len(then) /\ \A i \in DOMAIN then : same(then[i], h[i])
      BY <1>12 DEF Fits
    <3>2. p \in DOMAIN then /\ then[p] \in Msg /\ h[p] \in Msg
      BY <1>1, <1>5, <3>1, Positions
    <3>3. then[p] \in AsstM /\ then[p].step = s
      BY <2>2, <3>1, <3>2, SameForms
    <3>4. <<then[p].step, then[p].toolCalls>> \in Spoken(then)
      BY <3>1, <3>2, <3>3, SpokenForms
    <3>. QED  BY <1>13, <3>3, <3>4
  <2>4. PICK j \in DOMAIN b : p = n + j
    <3>1. p - n \in 1 .. Len(b) /\ p = n + (p - n)
      BY <1>5, <2>3
    <3>. QED  BY <1>5, <3>1
  <2>5. 1 + j \in DOMAIN g /\ g[1 + j] = h[p]
    BY <1>5, <1>11, <2>4
  <2>6. Behind(g, 1 + j, Len(g) + 1)
    <3>1. 1 + j < Len(g) + 1
      BY <1>5, <1>11
    <3>2. ASSUME NEW l \in DOMAIN g, 1 + j < l PROVE g[l] \in ToolM
      <4>1. l # 1
        BY <1>5, <3>2
      <4>2. PICK i \in DOMAIN b : l = 1 + i
        BY <1>11, <4>1
      <4>3. n + i \in DOMAIN h /\ h[n + i] = g[l] /\ p < n + i /\ n + i < Len(h) + 1
        BY <1>5, <1>11, <2>4, <3>2, <4>2
      <4>. QED  BY <2>2, <4>3 DEF Behind
    <3>. QED  BY <3>1, <3>2 DEF Behind
  <2>7. WritesAt(g, 1 + j, s, k)
    BY <2>1, <2>5, <2>6 DEF WritesAt
  <2>8. s \in O
    <3>1. g[1 + j] \in Range(g) /\ g[1 + j].role = "assistant" /\ g[1 + j].step = s
      BY <2>2, <2>5 DEF Range, AsstM
    <3>. QED  BY <1>13, <3>1 DEF Writing
  <2>. QED  BY <1>13, <2>5, <2>7, <2>8 DEF Writing
<1>. HIDE DEF O
<1>14. /\ e \in CtxT /\ e.history = g /\ e.pendingToolResultIds = P
       /\ e.deferredMessages = c.deferredMessages /\ e.openSteps = O
  BY <1>11, <1>12 DEF CtxT
<1>. HIDE DEF e
<1>15. Sound(e)
  BY <1>7, <1>14 DEF Sound
<1>16. \A s, k : Writing(c, s, k) /\ (\A x \in Spoken(then) : x[1] # s) => Writing(e, s, k)
  BY <1>13, <1>14 DEF Writing
<1>17. LET d == flushDeferredMessagesIfToolExchangeClosed(e)
       IN  /\ Sound(d) /\ Spoken(d.history) = Spoken(e.history)
           /\ \A s, k : Writing(e, s, k) => Writing(d, s, k)
  BY <1>14, <1>15, FlushSound
<1>. QED  BY <1>4, <1>10, <1>12, <1>14, <1>16, <1>17

-----------------------------------------------------------------------------
(* Turns, workers and their steps *)

\* The turn is in a step that writes.
StepRuns == turn.pc \in {"llm", "tools"}

\* Answers are those of steps that have begun.
Past == \A x \in Spoken(ctx.history) : x[1] <= steps

\* The step in flight writes to the last answer; its calls wait that have no result yet.
InFlightInv ==
    /\ StepRuns => Writing(ctx, steps, turn.called)
    /\ turn.pc = "llm" => ctx.pendingToolResultIds = {}
    /\ turn.pc = "tools" => /\ turn.answered <= turn.called
                            /\ ctx.pendingToolResultIds = {steps} \X (turn.answered + 1 .. turn.called)
    /\ turn.pc \notin {"tools", "after", "ending"} => turn.called = 0 /\ turn.answered = 0

\* What a worker started from is closed, its cut is not in front of a result, and its answers are
\* as they were: none is that of the step in flight.
WorkerSound(w) ==
    LET then == work[w].history
    IN  /\ work[w].cut < Len(then) => then[work[w].cut + 1] \notin ToolM
        /\ Closed(then)
        /\ \A x \in Spoken(then) :
             /\ x[1] <= steps
             /\ StepRuns => x[1] # steps
             /\ \A y \in Spoken(ctx.history) : x[1] = y[1] => x = y

\* So it is with every worker that is busy.
WorkersSound == \A w \in Workers : work[w].pc = "busy" => WorkerSound(w)

\* So it is until a crash leaves a tool exchange open and the conversation goes on.
SaneInv == ~ damaged => Sound(ctx) /\ Past /\ InFlightInv /\ WorkersSound

\* Steps have numbers.
LEMMA SpokenSteps ==
    ASSUME NEW h \in Seq(Msg), NEW x \in Spoken(h)
    PROVE  x[1] \in Nat
<1>1. PICK i \in DOMAIN h : h[i] \in AsstM /\ x = <<h[i].step, h[i].toolCalls>>
  BY SpokenForms
<1>2. h[i].step \in Nat
  BY <1>1, Positions, MsgForms
<1>. QED  BY <1>1, <1>2

\* A step that spoke did so once.
LEMMA SpokenOnce ==
    ASSUME NEW h \in Seq(Msg), OwnSteps(h), NEW x \in Spoken(h), NEW y \in Spoken(h), x[1] = y[1]
    PROVE  x = y
<1>1. PICK i \in DOMAIN h : h[i] \in AsstM /\ x = <<h[i].step, h[i].toolCalls>>
  BY SpokenForms
<1>2. PICK j \in DOMAIN h : h[j] \in AsstM /\ y = <<h[j].step, h[j].toolCalls>>
  BY SpokenForms
<1>3. i = j
  BY <1>1, <1>2 DEF OwnSteps
<1>. QED  BY <1>1, <1>2, <1>3

\* The workers that are still busy were so before and start from the same messages.
KeepWork ==
    \A w \in Workers : work'[w].pc = "busy" =>
        work[w].pc = "busy" /\ work'[w].history = work[w].history /\ work'[w].cut = work[w].cut

\* The steps the conversation holds: those it held, and the one in flight.
Says ==
    /\ steps' \in Nat /\ steps' >= steps
    /\ \A x \in Spoken(ctx'.history) : x \in Spoken(ctx.history) \/ (StepRuns' /\ x[1] = steps')
    /\ StepRuns' /\ steps' = steps => StepRuns

\* Later steps do not touch what a worker started from.
LEMMA WorkerStaysSound ==
    ASSUME WorkInv, steps \in Nat, Says, NEW w \in Workers, work'[w].pc = "busy",
           work[w].history = work'[w].history, work[w].cut = work'[w].cut, WorkerSound(w)
    PROVE  WorkerSound(w)'
<1>. DEFINE then == work[w].history
<1>1. then \in Seq(Msg) /\ work'[w].history = then /\ work'[w].cut = work[w].cut
  BY DEF WorkInv
<1>2. /\ work[w].cut < Len(then) => then[work[w].cut + 1] \notin ToolM
      /\ Closed(then)
  BY DEF WorkerSound
<1>3. ASSUME NEW x \in Spoken(then)
      PROVE  /\ x[1] <= steps'
             /\ StepRuns' => x[1] # steps'
             /\ \A y \in Spoken(ctx'.history) : x[1] = y[1] => x = y
  <2>1. /\ x[1] <= steps /\ (StepRuns => x[1] # steps)
        /\ \A y \in Spoken(ctx.history) : x[1] = y[1] => x = y
    BY <1>3 DEF WorkerSound
  <2>2. x[1] \in Nat
    BY <1>1, <1>3, SpokenSteps
  <2>3. x[1] <= steps'
    BY <2>1, <2>2 DEF Says
  <2>4. StepRuns' => x[1] # steps'
    BY <2>1, <2>2 DEF Says
  <2>5. ASSUME NEW y \in Spoken(ctx'.history), x[1] = y[1] PROVE x = y
    BY <2>1, <2>4, <2>5 DEF Says
  <2>. QED  BY <2>3, <2>4, <2>5
<1>. HIDE DEF then
<1>. QED  BY <1>1, <1>2, <1>3 DEF WorkerSound

\* So it is with all workers.
LEMMA WorkersStaySound ==
    ASSUME WorkInv, steps \in Nat, WorkersSound, Says, KeepWork
    PROVE  WorkersSound'
BY WorkerStaysSound DEF WorkersSound, KeepWork

\* A cut is not in front of a result.
LEMMA SplitFront ==
    ASSUME NEW h \in Seq(Msg), NEW n \in splits(h), n < Len(h)
    PROVE  h[n + 1] \notin ToolM
<1>1. n \in DOMAIN h /\ h[n + 1].role # "tool"
  BY DEF splits, canSplitAfter
<1>2. n + 1 \in DOMAIN h
  BY <1>1, Positions
<1>3. h[n + 1] \in Msg
  BY <1>2, Positions
<1>. QED  BY <1>1, <1>3, MsgForms

\* A worker's cut is a place to split.
LEMMA CutSplits ==
    ASSUME ctx \in CtxT, NEW source, NEW n \in cuts(source)
    PROVE  n \in splits(ctx.history)
<1>1. ctx.history \in Seq(Msg) /\ Len(ctx.history) \in Nat /\ DOMAIN ctx.history = 1 .. Len(ctx.history)
  BY LenProperties DEF CtxT
<1>2. CASE source = "auto"
  BY <1>2 DEF cuts
<1>3. CASE source # "auto"
  <2>. DEFINE found == splits(ctx.history) \ {1}
  <2>1. found \subseteq 1 .. Len(ctx.history) /\ found # {} /\ n = Max(found)
    BY <1>1, <1>3 DEF cuts, splits
  <2>2. found \subseteq splits(ctx.history)
    OBVIOUS
  <2>. HIDE DEF found
  <2>. QED  BY <1>1, <2>1, <2>2, GreatestOf
<1>. QED  BY <1>2, <1>3

\* A worker that begins, while no step writes and no call waits, starts from closed messages.
LEMMA BeginSane ==
    ASSUME IInv, WorkInv, ctx \in CtxT, steps \in Nat, SaneInv, NEW source, NEW blocked, Begin(source, blocked),
           ~ damaged',
           UNCHANGED <<ctx, steps>>, ~ StepRuns'
    PROVE  ~ damaged /\ WorkersSound'
<1>1. ~ damaged
  BY Zenon DEF Begin
<1>2. Sound(ctx) /\ Past /\ WorkersSound
  BY <1>1 DEF SaneInv
<1>3. Says
  BY DEF Says
<1>4. CASE UNCHANGED <<compacting, work, begun, damaged>>
  <2>1. KeepWork
    BY <1>4 DEF KeepWork
  <2>. QED  BY <1>1, <1>2, <1>3, <2>1, WorkersStaySound
<1>5. ASSUME begun < MaxCompactions, begun' = begun + 1, damaged' = (damaged \/ hasOpenToolExchange(ctx)),
             NEW n \in cuts(source), work' = [work EXCEPT ![begun'] = [Unborn EXCEPT !.pc = "busy",
                                                     !.history = ctx.history, !.cut = n,
                                                     !.blocked = blocked]]
      PROVE  WorkersSound'
  <2>0. begun' \in Workers /\ DOMAIN work = Workers
    BY <1>5, CompactionAssumption DEF IInv, Shape, Workers
  <2>1. PICK b \in Workers : b = begun'
    BY <2>0
  <2>2. /\ work'[b].history = ctx.history /\ work'[b].cut = n
        /\ \A w \in Workers : w # b => work'[w] = work[w]
    BY <1>5, <2>0, <2>1 DEF Unborn
  <2>3. ctx.history \in Seq(Msg)
    BY DEF CtxT
  <2>4. ctx.pendingToolResultIds = {}
    BY <1>5 DEF hasOpenToolExchange
  <2>5. Orderly(ctx.history, {})
    BY <1>2, <2>4 DEF Sound
  <2>6. Closed(ctx.history)
    BY <2>5 DEF Orderly, CallsHeard, Closed
  <2>7. n < Len(ctx.history) => ctx.history[n + 1] \notin ToolM
    BY <1>5, <2>3, CutSplits, SplitFront
  <2>8. ASSUME NEW x \in Spoken(ctx.history)
        PROVE  x[1] <= steps /\ \A y \in Spoken(ctx.history) : x[1] = y[1] => x = y
    BY <1>2, <2>3, <2>5, <2>8, SpokenOnce DEF Past, Orderly
  <2>9. WorkerSound(b)'
    BY <2>2, <2>6, <2>7, <2>8 DEF WorkerSound
  <2>10. ASSUME NEW w \in Workers, work'[w].pc = "busy", w # b PROVE WorkerSound(w)'
    <3>1. work'[w] = work[w]
      BY <2>2, <2>10
    <3>2. WorkerSound(w)
      BY <1>2, <2>10, <3>1 DEF WorkersSound
    <3>. QED  BY <1>3, <2>10, <3>1, <3>2, WorkerStaysSound
  <2>. QED  BY <2>9, <2>10 DEF WorkersSound
<1>6. \/ UNCHANGED <<compacting, work, begun, damaged>>
      \/ /\ begun < MaxCompactions /\ begun' = begun + 1
         /\ \E n \in cuts(source) :
               work' = [work EXCEPT ![begun'] = [Unborn EXCEPT !.pc = "busy",
                                                     !.history = ctx.history, !.cut = n,
                                                     !.blocked = blocked]]
         /\ damaged' = (damaged \/ hasOpenToolExchange(ctx))
  BY Zenon DEF Begin
<1>. QED  BY <1>1, <1>4, <1>5, <1>6

\* An orderly history is what the property asks for.
LEMMA SoundSane ==
    ASSUME ctx \in CtxT, Sound(ctx)
    PROVE  Sane
<1>. DEFINE h == ctx.history
<1>1. h \in Seq(Msg) /\ Orderly(h, ctx.pendingToolResultIds)
  BY DEF CtxT, Sound
<1>. HIDE DEF h
<1>2. Len(h) \in Nat /\ DOMAIN h = 1 .. Len(h) /\ \A i \in DOMAIN h : h[i] \in Msg /\ i \in Nat /\ i >= 1
  BY <1>1, Positions
<1>3. \A i \in DOMAIN h : i \in Results(h) <=> h[i] \in ToolM
  BY <1>2, MsgForms DEF Results
<1>4. \A i \in DOMAIN h : i \in Calls(h) => h[i] \in AsstM
  <2>1. ASSUME NEW i \in DOMAIN h, i \in Calls(h) PROVE h[i] \in AsstM
    <3>1. h[i].role = "assistant" /\ h[i].toolCalls # <<>> /\ h[i] \in Msg
      BY <1>2, <2>1 DEF Calls
    <3>2. h[i] \notin SumM
      BY <3>1 DEF SumM
    <3>. QED  BY <3>1, <3>2, MsgForms
  <2>. QED  BY <2>1
<1>5. ASSUME NEW i \in DOMAIN h, NEW id
      PROVE  /\ Makes(h[i], id) => i \in Calls(h) /\ Contains(h[i].toolCalls, id)
             /\ i \in Calls(h) /\ Contains(h[i].toolCalls, id) => Makes(h[i], id)
  <2>1. h[i] \in AsstM => h[i].role = "assistant" /\ h[i].toolCalls \in Seq(Ids)
    BY DEF AsstM
  <2>2. h[i] \in AsstM => DOMAIN h[i].toolCalls = 1 .. Len(h[i].toolCalls)
    BY <2>1, LenProperties
  <2>3. h[i] \in AsstM => (Contains(h[i].toolCalls, id) <=> id \in Range(h[i].toolCalls))
    BY <2>2 DEF Contains, Range
  <2>4. h[i] \in AsstM /\ id \in Range(h[i].toolCalls) => h[i].toolCalls # <<>>
    BY DEF Range
  <2>. QED  BY <1>4, <2>1, <2>3, <2>4 DEF Makes, Calls
<1>6. ASSUME NEW j \in Results(h)
      PROVE  /\ \E i \in 1 .. j - 1 : Answers(h, i, j)
             /\ \A k \in Results(h) \ {j} : h[k].toolCallId # h[j].toolCallId
             /\ Cardinality({i \in Calls(h) : Contains(h[i].toolCalls, h[j].toolCallId)}) = 1
  <2>. DEFINE id == h[j].toolCallId
              M == {i \in Calls(h) : Contains(h[i].toolCalls, id)}
  <2>1. j \in DOMAIN h /\ h[j] \in ToolM
    BY <1>3 DEF Results
  <2>2. id \in Ids /\ h[j] = Result(id)
    BY <2>1, ResultForms
  <2>. HIDE DEF id
  <2>3. PICK i \in DOMAIN h : Makes(h[i], id) /\ Behind(h, i, j)
    BY <1>1, <2>1, <2>2 DEF Orderly, ResultsBehind
  <2>4. i \in 1 .. j - 1 /\ Answers(h, i, j)
    <3>1. i < j /\ i \in Nat /\ j \in Nat /\ i >= 1
      BY <1>2, <2>1, <2>3 DEF Behind
    <3>2. i \in 1 .. j - 1
      BY <3>1
    <3>. QED  BY <1>5, <1>6, <2>3, <3>2 DEF Answers, id
  <2>5. ASSUME NEW k \in Results(h), k # j PROVE h[k].toolCallId # id
    <3>1. k \in DOMAIN h /\ h[k] \in ToolM
      BY <1>3, <2>5 DEF Results
    <3>2. h[k] = Result(h[k].toolCallId)
      BY <3>1, ResultForms
    <3>3. h[k] # Result(id)
      BY <1>1, <2>1, <2>2, <2>5, <3>1 DEF Orderly, ResultsBehind
    <3>. QED  BY <3>2, <3>3
  <2>6. M = {i}
    <3>1. i \in M
      BY <1>5, <2>3
    <3>2. ASSUME NEW k \in M PROVE k = i
      <4>1. k \in DOMAIN h /\ Makes(h[k], id)
        BY <1>5, <3>2 DEF Calls
      <4>. QED  BY <1>1, <2>2, <2>3, <4>1, MadeOnce DEF Orderly
    <3>. QED  BY <3>1, <3>2
  <2>7. Cardinality(M) = 1
    BY <2>6, FS_Singleton
  <2>. QED  BY <2>4, <2>5, <2>7 DEF id
<1>. QED  BY <1>6 DEF Sane, h

\* A worker that finds its messages unchanged, cut where it may be, fits the conversation.
LEMMA SummarisedFits ==
    ASSUME WorkInv, ctx \in CtxT, NEW w \in Workers, work[w].pc = "busy", unchangedSince(w), WorkerSound(w),
           NEW n \in reduced(w)
    PROVE  Fits(work[w].history, n, ctx.history)
<1>. DEFINE then == work[w].history
            cut == work[w].cut
            front == SubSeq(then, 1, cut)
<1>1. then \in Seq(Msg) /\ cut \in 1 .. Len(then) /\ Len(then) \in Nat /\ n \in 1 .. Len(then)
  BY LenProperties, ReducedWithin DEF WorkInv
<1>2. Len(then) <= Len(ctx.history) /\ \A i \in DOMAIN then : same(then[i], ctx.history[i])
  BY DEF unchangedSince
<1>3. /\ cut < Len(then) => then[cut + 1] \notin ToolM
      /\ Closed(then)
  BY DEF WorkerSound
<1>4. \A x \in Spoken(then) : \A y \in Spoken(ctx.history) : x[1] = y[1] => x = y
  BY DEF WorkerSound
<1>5. front \in Seq(Msg) /\ Len(front) = cut /\ \A i \in 1 .. cut : front[i] = then[i]
  <2>. DEFINE rest == SubSeq(then, cut + 1, Len(then))
  <2>. HIDE DEF then, cut
  <2>1. cut \in 0 .. Len(then)
    BY <1>1
  <2>. QED  BY <1>1, <2>1, Divide
<1>6. n = Len(front) \/ n \in splits(front)
  BY DEF reduced
<1>. HIDE DEF front
<1>7. n < Len(then) => then[n + 1] \notin ToolM
  <2>1. CASE n = Len(front)
    BY <1>3, <1>5, <2>1
  <2>2. CASE n # Len(front) /\ n \in splits(front)
    <3>1. n \in 1 .. cut /\ n < cut /\ n + 1 \in 1 .. cut
      <4>1. n \in DOMAIN front /\ DOMAIN front = 1 .. Len(front)
        BY <1>5, <2>2, Positions DEF splits
      <4>. HIDE DEF cut
      <4>. QED  BY <1>1, <1>5, <2>2, <4>1
    <3>2. front[n + 1] \notin ToolM
      BY <1>5, <2>2, <3>1, SplitFront
    <3>. QED  BY <1>5, <3>1, <3>2
  <2>. QED  BY <1>6, <2>1, <2>2
<1>. HIDE DEF then
<1>8. Fits(then, n, ctx.history)
  BY <1>1, <1>2, <1>3, <1>4, <1>7 DEF Fits
<1>. QED  BY <1>8 DEF then

\* A step keeps the invariant if it keeps its parts.
LEMMA NextSane ==
    ASSUME WorkInv, steps \in Nat, WorkersSound, KeepWork, Says, Sound(ctx'), Past', InFlightInv'
    PROVE  SaneInv'
<1>1. Sound(ctx)'
  BY DEF Sound
<1>2. WorkersSound'
  BY WorkersStaySound
<1>. QED  BY <1>1, <1>2 DEF SaneInv

\* A turn that leaves its step.
LEMMA Aside ==
    ASSUME ~ StepRuns', turn'.pc \in {"after", "ending"} \/ (turn'.called = 0 /\ turn'.answered = 0)
    PROVE  InFlightInv'
BY DEF StepRuns, InFlightInv

\* A step that leaves the conversation alone keeps the invariant.
LEMMA SameSane ==
    ASSUME WorkInv, steps \in Nat, SaneInv, ~ damaged, UNCHANGED <<ctx, steps>>, KeepWork,
           StepRuns' => StepRuns, InFlightInv'
    PROVE  SaneInv'
<1>1. Sound(ctx) /\ Past /\ WorkersSound
  BY DEF SaneInv
<1>2. Sound(ctx') /\ Past'
  BY <1>1 DEF Past
<1>3. Says
  BY DEF Says
<1>. QED  BY <1>1, <1>2, <1>3, NextSane

\* So does one that begins a compaction.
LEMMA BegunSane ==
    ASSUME IInv, WorkInv, ctx \in CtxT, steps \in Nat, SaneInv, NEW source, NEW blocked,
           Begin(source, blocked) \/ BeginNone(blocked) \/ UNCHANGED <<work, damaged>>,
           ~ damaged', UNCHANGED <<ctx, steps>>, ~ StepRuns', InFlightInv'
    PROVE  SaneInv'
<1>1. CASE Begin(source, blocked)
  <2>1. ~ damaged /\ WorkersSound'
    BY <1>1, BeginSane
  <2>2. Sound(ctx) /\ Past
    BY <2>1 DEF SaneInv
  <2>3. Sound(ctx)' /\ Past'
    BY <2>2 DEF Past, Sound
  <2>. QED  BY <2>1, <2>3 DEF SaneInv
<1>2. CASE BeginNone(blocked) \/ UNCHANGED <<work, damaged>>
  <2>1. UNCHANGED damaged /\ KeepWork
    BY <1>2, NoneBegins, NoneBeginsWork DEF KeepWork
  <2>. QED  BY <1>2, <2>1, SameSane
<1>. QED  BY <1>1, <1>2

\* Steps that begin none keep the workers.
LEMMA KeptWork ==
    /\ UNCHANGED work => KeepWork
    /\ IInv /\ work' = markCanceled(work) => KeepWork
    /\ IInv => \A w \in Workers : \A o :
          work' = [work EXCEPT ![w] = [Unborn EXCEPT !.pc = "over", !.outcome = o]] => KeepWork
<1>1. UNCHANGED work => KeepWork
  BY DEF KeepWork
<1>2. ASSUME IInv, work' = markCanceled(work) PROVE KeepWork
  <2>1. \A w \in Workers : work'[w].pc = work[w].pc /\ work'[w].history = work[w].history
                            /\ work'[w].cut = work[w].cut
    BY <1>2 DEF markCanceled, IInv, Shape, IsWork
  <2>. QED  BY <2>1 DEF KeepWork
<1>3. ASSUME IInv, NEW w \in Workers, NEW o,
             work' = [work EXCEPT ![w] = [Unborn EXCEPT !.pc = "over", !.outcome = o]]
      PROVE  KeepWork
  <2>1. /\ work'[w].pc = "over" /\ \A v \in Workers : v # w => work'[v] = work[v]
    BY <1>3 DEF IInv, Shape, Unborn
  <2>. QED  BY <2>1 DEF KeepWork
<1>. QED  BY <1>1, <1>2, <1>3

\* Each action keeps the invariant: an input,
LEMMA PromptSane ==
    ASSUME Waiting, WorkInv, ConversationInv, SaneInv, ~ damaged', Prompt
    PROVE  SaneInv'
<1>1. /\ steps \in Nat /\ inputs \in Nat /\ ctx \in CtxT /\ IsTurn(turn)
  BY DEF ConversationInv, Paired, Waiting
<1>2. /\ inputs' = inputs + 1 /\ steps' = steps /\ damaged' = damaged /\ work' = work
      /\ turn.pc = "idle" /\ Goto("before") /\ Record([type |-> "message", input |-> inputs'])
  BY DEF Prompt
<1>3. Sound(ctx) /\ Past /\ InFlightInv /\ WorkersSound
  BY <1>2 DEF SaneInv
<1>4. turn'.pc = "before" /\ turn'.called = 0 /\ turn'.answered = 0
  BY <1>1, <1>2, <1>3 DEF Goto, IsTurn, InFlightInv
<1>5. ctx' = appendMessage(ctx, <<Input(inputs')>>)
  BY <1>2, Recorded
<1>6. Sound(ctx') /\ Spoken(ctx'.history) = Spoken(ctx.history)
  BY <1>1, <1>2, <1>3, <1>5, AppendSound
<1>7. Says /\ Past' /\ KeepWork
  BY <1>1, <1>2, <1>3, <1>4, <1>6, KeptWork DEF Says, Past, StepRuns
<1>8. InFlightInv'
  BY <1>4, Aside DEF StepRuns
<1>. QED  BY <1>1, <1>3, <1>6, <1>7, <1>8, NextSane

\* a step,
LEMMA StepBeginSane ==
    ASSUME Waiting, WorkInv, ConversationInv, SaneInv, ~ damaged', StepBegin
    PROVE  SaneInv'
<1>1. /\ steps \in Nat /\ ctx \in CtxT /\ IsTurn(turn) /\ NothingStranded(ctx)
  BY DEF ConversationInv, Paired, Waiting
<1>2. turn.pc = "send" /\ work' = work /\ KeepWork
  BY KeptWork DEF StepBegin
<1>3. CASE turn.aborted
  <2>1. Goto("ending") /\ UNCHANGED <<memory, steps, damaged>>
    BY <1>3 DEF StepBegin
  <2>2. turn'.pc = "ending"
    BY <1>1, <2>1 DEF Goto, IsTurn
  <2>3. InFlightInv' /\ ~ StepRuns'
    BY <2>2, Aside DEF StepRuns
  <2>. QED  BY <1>1, <1>2, <2>1, <2>3, SameSane DEF memory
<1>4. CASE ~ turn.aborted
  <2>1. /\ steps' = steps + 1 /\ Record([type |-> "step.begin", step |-> steps']) /\ Goto("llm")
        /\ ~ damaged /\ ~ hasOpenToolExchange(ctx)
    <3>1. damaged' = (damaged \/ hasOpenToolExchange(ctx))
      BY <1>4 DEF StepBegin
    <3>2. ~ damaged /\ ~ hasOpenToolExchange(ctx)
      BY <3>1, Zenon
    <3>. QED  BY <1>4, <3>2 DEF StepBegin
  <2>2. Sound(ctx) /\ Past /\ InFlightInv /\ WorkersSound /\ ctx.pendingToolResultIds = {}
    BY <2>1 DEF SaneInv, hasOpenToolExchange
  <2>3. turn'.pc = "llm" /\ turn'.called = 0 /\ turn'.answered = 0
    BY <1>1, <1>2, <2>1, <2>2 DEF Goto, IsTurn, InFlightInv
  <2>4. ctx' = stepBegin(ctx, steps') /\ steps' \in Nat
    BY <1>1, <2>1, Recorded
  <2>5. \A x \in Spoken(ctx.history) : x[1] \in Nat /\ x[1] <= steps /\ x[1] < steps'
    <3>1. ctx.history \in Seq(Msg)
      BY <1>1 DEF CtxT
    <3>. QED  BY <1>1, <2>1, <2>2, <3>1, SpokenSteps DEF Past
  <2>6. /\ Sound(ctx') /\ Writing(ctx', steps', 0)
        /\ \A x \in Spoken(ctx'.history) : x \in Spoken(ctx.history) \/ x[1] = steps'
    BY <1>1, <2>2, <2>4, <2>5, BeginSound
  <2>7. ctx'.pendingToolResultIds = {}
    BY <1>1, <2>2, <2>4, BeginBecomes DEF Becomes
  <2>8. Says /\ Past'
    BY <1>1, <2>1, <2>3, <2>4, <2>5, <2>6 DEF Says, Past, StepRuns
  <2>9. InFlightInv'
    BY <2>3, <2>6, <2>7 DEF InFlightInv, StepRuns
  <2>. QED  BY <1>1, <1>2, <2>2, <2>6, <2>8, <2>9, NextSane
<1>. QED  BY <1>3, <1>4

\* what it says,
LEMMA PartSane ==
    ASSUME WorkInv, ConversationInv, SaneInv, ~ damaged', ContentPart
    PROVE  SaneInv'
<1>1. /\ steps \in Nat /\ ctx \in CtxT
  BY DEF ConversationInv, Paired
<1>2. /\ turn.pc = "llm" /\ UNCHANGED <<turn, work, steps, damaged>>
      /\ Record([type |-> "content.part", step |-> steps])
  BY DEF ContentPart
<1>3. Sound(ctx) /\ Past /\ InFlightInv /\ WorkersSound
  BY <1>2 DEF SaneInv
<1>4. Writing(ctx, steps, turn.called) /\ ctx.pendingToolResultIds = {} /\ turn.called = 0 /\ turn.answered = 0
  BY <1>2, <1>3 DEF InFlightInv, StepRuns
<1>5. ctx' = contentPart(ctx, steps)
  BY <1>2, Recorded
<1>6. Sound(ctx') /\ Spoken(ctx'.history) = Spoken(ctx.history) /\ Writing(ctx', steps, turn.called)
  BY <1>1, <1>3, <1>4, <1>5, PartSound
<1>7. ctx'.pendingToolResultIds = {}
  BY <1>1, <1>4, <1>5, EventsBecome DEF Becomes
<1>8. Says /\ Past' /\ KeepWork
  BY <1>1, <1>2, <1>3, <1>6, KeptWork DEF Says, Past, StepRuns
<1>9. InFlightInv'
  BY <1>2, <1>4, <1>6, <1>7 DEF InFlightInv, StepRuns
<1>. QED  BY <1>1, <1>3, <1>6, <1>8, <1>9, NextSane

\* the calls it makes,
LEMMA CallSane ==
    ASSUME Waiting, WorkInv, ConversationInv, SaneInv, ~ damaged', ToolCall
    PROVE  SaneInv'
<1>. DEFINE id == <<steps, turn'.called>>
<1>1. /\ steps \in Nat /\ ctx \in CtxT /\ IsTurn(turn) /\ turn.called \in Nat /\ turn.answered \in Nat
  BY DEF ConversationInv, Paired, Waiting
<1>2. /\ turn.pc = "tools" /\ UNCHANGED <<work, steps, damaged>>
      /\ Record([type |-> "tool.call", step |-> steps, id |-> id])
      /\ turn'.called = turn.called + 1 /\ turn'.answered = turn.answered /\ turn'.pc = "tools"
  BY <1>1 DEF ToolCall, IsTurn
<1>3. Sound(ctx) /\ Past /\ InFlightInv /\ WorkersSound
  BY <1>2 DEF SaneInv
<1>4. /\ Writing(ctx, steps, turn.called) /\ turn.answered <= turn.called
      /\ ctx.pendingToolResultIds = {steps} \X (turn.answered + 1 .. turn.called)
  BY <1>2, <1>3 DEF InFlightInv, StepRuns
<1>5. id \in Ids /\ id[1] = steps /\ id[2] = turn.called + 1 /\ id[2] = turn'.called
  BY <1>1, <1>2 DEF Ids
<1>6. {steps} \X (turn.answered + 1 .. turn.called) \cup {id} = {steps} \X (turn'.answered + 1 .. turn'.called)
  <2>1. (turn.answered + 1 .. turn.called) \cup {turn'.called} = turn'.answered + 1 .. turn'.called
    BY <1>1, <1>2, <1>4
  <2>. QED  BY <2>1
<1>. HIDE DEF id
<1>7. ctx' = toolCall(ctx, steps, id)
  BY <1>2, Recorded
<1>8. /\ Sound(ctx') /\ Writing(ctx', steps, turn.called + 1)
      /\ ctx'.pendingToolResultIds = ctx.pendingToolResultIds \cup {id}
      /\ \A x \in Spoken(ctx'.history) : x \in Spoken(ctx.history) \/ x[1] = steps
  BY <1>1, <1>3, <1>4, <1>5, <1>7, CallSound
<1>9. Says /\ Past' /\ KeepWork
  BY <1>1, <1>2, <1>3, <1>8, KeptWork DEF Says, Past, StepRuns
<1>10. InFlightInv'
  <2>1. turn'.answered <= turn'.called
    BY <1>1, <1>2, <1>4
  <2>. QED  BY <1>2, <1>4, <1>6, <1>8, <2>1 DEF InFlightInv, StepRuns
<1>. QED  BY <1>1, <1>3, <1>8, <1>9, <1>10, NextSane

\* their results,
LEMMA ResultSane ==
    ASSUME Waiting, WorkInv, ConversationInv, SaneInv, ~ damaged', ToolResult
    PROVE  SaneInv'
<1>. DEFINE id == <<steps, turn'.answered>>
            ids == <<id>>
<1>1. /\ steps \in Nat /\ ctx \in CtxT /\ IsTurn(turn) /\ turn.called \in Nat /\ turn.answered \in Nat
  BY DEF ConversationInv, Paired, Waiting
<1>2. /\ turn.pc = "tools" /\ UNCHANGED <<work, steps, damaged>>
      /\ Record([type |-> "tool.result", id |-> id])
      /\ turn'.called = turn.called /\ turn'.answered = turn.answered + 1 /\ turn'.pc = "tools"
      /\ turn.called = turn.calls /\ turn.answered < turn.calls
  BY <1>1 DEF ToolResult, IsTurn
<1>3. Sound(ctx) /\ Past /\ InFlightInv /\ WorkersSound
  BY <1>2 DEF SaneInv
<1>4. /\ Writing(ctx, steps, turn.called)
      /\ ctx.pendingToolResultIds = {steps} \X (turn.answered + 1 .. turn.called)
  BY <1>2, <1>3 DEF InFlightInv, StepRuns
<1>5. turn'.answered <= turn'.called /\ turn'.answered \in turn.answered + 1 .. turn.called
  BY <1>1, <1>2
<1>6. id \in ctx.pendingToolResultIds /\ id \in Ids
  BY <1>1, <1>2, <1>4, <1>5 DEF Ids
<1>7. ctx.pendingToolResultIds \ {id} = {steps} \X (turn'.answered + 1 .. turn'.called)
  <2>1. (turn.answered + 1 .. turn.called) \ {turn'.answered} = turn'.answered + 1 .. turn'.called
    BY <1>1, <1>2, <1>5
  <2>. QED  BY <1>4, <2>1
<1>. HIDE DEF id
<1>8. ids \in Seq(Ids) /\ OneEach(ids) /\ Range(ids) = {id}
  BY <1>6 DEF OneEach, Range
<1>. HIDE DEF ids
<1>9. ctx' = toolResults(ctx, ids)
  BY <1>2, Recorded DEF toolResult, ids
<1>10. Sound(ctx') /\ Spoken(ctx'.history) = Spoken(ctx.history) /\ Writing(ctx', steps, turn.called)
  BY <1>1, <1>3, <1>4, <1>6, <1>8, <1>9, ResultsSound
<1>11. ctx'.pendingToolResultIds = ctx.pendingToolResultIds \ {id}
  BY <1>1, <1>8, <1>9, ResultsBecome, ZenonT(30) DEF Becomes
<1>12. Says /\ Past' /\ KeepWork
  BY <1>1, <1>2, <1>3, <1>10, KeptWork DEF Says, Past, StepRuns
<1>13. InFlightInv'
  BY <1>2, <1>5, <1>7, <1>10, <1>11 DEF InFlightInv, StepRuns
<1>. QED  BY <1>1, <1>3, <1>10, <1>12, <1>13, NextSane

\* its end,
LEMMA SealSane ==
    ASSUME Waiting, WorkInv, ConversationInv, SaneInv, ~ damaged', Seal
    PROVE  SaneInv'
<1>1. steps \in Nat /\ ctx \in CtxT /\ IsTurn(turn)
  BY DEF ConversationInv, Paired, Waiting
<1>2. UNCHANGED <<work, steps, damaged>> /\ KeepWork
  BY KeptWork DEF Seal
<1>3. turn'.pc \in {"after", "ending"}
  BY <1>1 DEF Seal, Goto, IsTurn
<1>4. InFlightInv' /\ ~ StepRuns'
  BY <1>3, Aside DEF StepRuns
<1>5. CASE turn.aborted
  <2>1. UNCHANGED memory
    BY <1>5 DEF Seal
  <2>. QED  BY <1>1, <1>2, <1>4, <2>1, SameSane DEF memory
<1>6. CASE ~ turn.aborted
  <2>1. ctx' = flushDeferredMessagesIfToolExchangeClosed(ctx)
    BY <1>6, Recorded DEF Seal, stepEnd
  <2>2. Sound(ctx) /\ Past /\ WorkersSound
    BY <1>2 DEF SaneInv
  <2>3. Sound(ctx') /\ Spoken(ctx'.history) = Spoken(ctx.history)
    BY <1>1, <2>1, <2>2, FlushSound
  <2>4. Says /\ Past'
    BY <1>1, <1>2, <1>4, <2>2, <2>3 DEF Says, Past
  <2>. QED  BY <1>1, <1>2, <1>4, <2>2, <2>3, <2>4, NextSane
<1>. QED  BY <1>5, <1>6

\* the end of the turn;
LEMMA EndSane ==
    ASSUME WorkInv, ConversationInv, SaneInv, ~ damaged', End
    PROVE  SaneInv'
<1>1. steps \in Nat /\ ctx \in CtxT
  BY DEF ConversationInv, Paired
<1>2. UNCHANGED <<work, steps, damaged>> /\ KeepWork /\ turn' = Idle
  BY KeptWork DEF End
<1>3. PICK ids \in recorded(ctx.pendingToolResultIds) :
         ctx' = dropVacuousOpenMessages(closeAbandonedToolExchange(ctx, ids))
  BY DEF End
<1>4. Sound(ctx) /\ Past /\ WorkersSound
  BY <1>2 DEF SaneInv
<1>. DEFINE c == closeAbandonedToolExchange(ctx, ids)
<1>5. c \in CtxT /\ Sound(c) /\ Spoken(c.history) = Spoken(ctx.history)
  BY <1>1, <1>4, CloseSound
<1>. HIDE DEF c
<1>6. Sound(ctx') /\ Spoken(ctx'.history) \subseteq Spoken(ctx.history)
  <2>1. ctx' = dropVacuousOpenMessages(c)
    BY <1>3 DEF c
  <2>. QED  BY <1>5, <2>1, DropSound
<1>7. InFlightInv' /\ ~ StepRuns'
  BY <1>2, Aside DEF StepRuns, Idle
<1>8. Says /\ Past'
  BY <1>1, <1>2, <1>4, <1>6, <1>7 DEF Says, Past
<1>. QED  BY <1>1, <1>2, <1>4, <1>6, <1>7, <1>8, NextSane

\* an undo,
LEMMA UndoSane ==
    ASSUME WorkInv, ConversationInv, SaneInv, ~ damaged', Undo
    PROVE  SaneInv'
<1>1. steps \in Nat /\ ctx \in CtxT
  BY DEF ConversationInv, Paired
<1>2. UNCHANGED <<work, steps, turn>> /\ KeepWork /\ turn.pc = "idle"
  BY KeptWork DEF Undo
<1>3. ~ damaged /\ ctx.pendingToolResultIds = {}
  <2>1. damaged' = (damaged \/ hasOpenToolExchange(ctx))
    BY DEF Undo
  <2>2. ~ damaged /\ ~ hasOpenToolExchange(ctx)
    BY <2>1, Zenon
  <2>. QED  BY <2>2 DEF hasOpenToolExchange
<1>4. Sound(ctx) /\ Past /\ InFlightInv /\ WorkersSound
  BY <1>3 DEF SaneInv
<1>5. ctx' = undo(ctx)
  BY Recorded DEF Undo
<1>6. Sound(ctx') /\ Spoken(ctx'.history) \subseteq Spoken(ctx.history)
  BY <1>1, <1>3, <1>4, <1>5, UndoSound
<1>7. InFlightInv' /\ ~ StepRuns'
  <2>1. turn.called = 0 /\ turn.answered = 0
    BY <1>2, <1>4 DEF InFlightInv
  <2>. QED  BY <1>2, <2>1, Aside DEF StepRuns
<1>8. Says /\ Past'
  BY <1>1, <1>2, <1>4, <1>6, <1>7 DEF Says, Past
<1>. QED  BY <1>1, <1>2, <1>4, <1>6, <1>7, <1>8, NextSane

\* the empty conversation,
LEMMA EmptySound == Sound(EmptyContext) /\ Spoken(EmptyContext.history) = {}
<1>1. Orderly(<<>>, {}) /\ Spoken(<<>>) = {}
  BY EmptySeq DEF Orderly, OwnSteps, OwnCalls, ResultsBehind, CallsHeard, CallsWait, Spoken, Range
<1>. QED  BY <1>1 DEF EmptyContext, Sound

\* a clear;
LEMMA ClearSane ==
    ASSUME WorkInv, ConversationInv, SaneInv, ~ damaged', Clear
    PROVE  SaneInv'
<1>1. steps \in Nat /\ ctx \in CtxT
  BY DEF ConversationInv, Paired
<1>2. UNCHANGED <<work, steps, turn, damaged>> /\ KeepWork /\ turn.pc = "idle"
  BY KeptWork DEF Clear
<1>3. Past /\ InFlightInv /\ WorkersSound
  BY <1>2 DEF SaneInv
<1>4. ctx' = EmptyContext
  BY Recorded DEF Clear, clear
<1>5. Sound(ctx') /\ Spoken(ctx'.history) = {}
  BY <1>4, EmptySound
<1>6. InFlightInv' /\ ~ StepRuns'
  <2>1. turn.called = 0 /\ turn.answered = 0
    BY <1>2, <1>3 DEF InFlightInv
  <2>. QED  BY <1>2, <2>1, Aside DEF StepRuns
<1>7. Says /\ Past'
  BY <1>1, <1>2, <1>5, <1>6 DEF Says, Past
<1>. QED  BY <1>1, <1>2, <1>3, <1>5, <1>6, <1>7, NextSane

\* a resume, from a log that mirrors the conversation;
LEMMA CrashSane ==
    ASSUME WorkInv, ConversationInv, ReplayInv, SaneInv, ~ damaged', CrashAndResume
    PROVE  SaneInv'
<1>1. steps \in Nat /\ ctx \in CtxT /\ wire \in CtxT
      /\ wire.pendingToolResultIds = ctx.pendingToolResultIds
  BY DEF ConversationInv, Paired, Alike
<1>2. steps' = steps /\ turn' = Idle /\ ctx' = dropVacuousOpenMessages(wire)
  BY DEF CrashAndResume, Replay
<1>3. ~ damaged /\ ~ doubled
  <2>1. damaged' = (damaged \/ doubled)
    BY DEF CrashAndResume
  <2>. QED  BY <2>1, Zenon
<1>4. Sound(ctx) /\ Past /\ WorkersSound /\ Mirrors(ctx, wire)
  BY <1>3 DEF SaneInv, ReplayInv
<1>5. KeepWork
  <2>1. \A w \in Workers : work'[w].pc # "busy"
    BY DEF CrashAndResume, Unborn
  <2>. QED  BY <2>1 DEF KeepWork
<1>6. Sound(ctx') /\ Spoken(ctx'.history) \subseteq Spoken(ctx.history)
  <2>. DEFINE d == dropVacuousOpenMessages(ctx)
  <2>1. Sound(d) /\ Spoken(d.history) \subseteq Spoken(ctx.history)
    BY <1>1, <1>4, DropSound
  <2>2. ctx'.history = d.history
    BY <1>2, <1>4, DropMirror
  <2>3. ctx'.pendingToolResultIds = d.pendingToolResultIds
    BY <1>1, <1>2, DropBecomes DEF Becomes
  <2>. HIDE DEF d
  <2>. QED  BY <2>1, <2>2, <2>3 DEF Sound
<1>7. InFlightInv' /\ ~ StepRuns'
  BY <1>2, Aside DEF StepRuns, Idle
<1>8. Says /\ Past'
  BY <1>1, <1>2, <1>4, <1>6, <1>7 DEF Says, Past
<1>. QED  BY <1>1, <1>4, <1>5, <1>6, <1>7, <1>8, NextSane

\* a compaction that comes to its end;
LEMMA SummarisedSane ==
    ASSUME IInv, WorkInv, ConversationInv, SaneInv, ~ damaged', NEW w \in Workers, Summarised(w)
    PROVE  SaneInv'
<1>1. steps \in Nat /\ ctx \in CtxT
  BY DEF ConversationInv, Paired
<1>2. /\ UNCHANGED <<turn, steps, damaged>> /\ work[w].pc = "busy"
      /\ work' = [work EXCEPT ![w] = [Unborn EXCEPT !.pc = "over", !.outcome = "ok"]]
  BY DEF Summarised
<1>3. KeepWork
  BY <1>2, KeptWork
<1>4. Sound(ctx) /\ Past /\ InFlightInv /\ WorkersSound
  BY <1>2 DEF SaneInv
<1>5. CASE ~ (compacting = w /\ unchangedSince(w))
  <2>1. UNCHANGED ctx
    BY <1>5 DEF Summarised, memory
  <2>2. InFlightInv' /\ (StepRuns' => StepRuns)
    BY <1>2, <1>4, <2>1 DEF InFlightInv, StepRuns
  <2>. QED  BY <1>1, <1>2, <1>3, <2>1, <2>2, SameSane
<1>6. CASE compacting = w /\ unchangedSince(w)
  <2>. DEFINE then == work[w].history
  <2>1. PICK n \in reduced(w) :
          ctx' = applyCompaction(ctx, Summary(w, SubSeq(work[w].history, 1, n)), n)
    BY <1>6 DEF Summarised
  <2>. DEFINE m == Summary(w, SubSeq(work[w].history, 1, n))
  <2>2. n \in 1 .. Len(work[w].history) /\ m \in SumM
    BY <1>2, ReducedWithin, SummaryType
  <2>3. WorkerSound(w)
    BY <1>2, <1>4 DEF WorkersSound
  <2>4. Fits(then, n, ctx.history)
    BY <1>1, <1>2, <1>6, <2>3, SummarisedFits
  <2>5. StepRuns => \A x \in Spoken(then) : x[1] # steps
    BY <2>3 DEF WorkerSound
  <2>6. ctx' = applyCompaction(ctx, m, n)
    BY <2>1
  <2>. HIDE DEF m, then
  <2>7. /\ Sound(ctx') /\ Spoken(ctx'.history) \subseteq Spoken(ctx.history)
        /\ \A s, k : Writing(ctx, s, k) /\ (\A x \in Spoken(then) : x[1] # s) => Writing(ctx', s, k)
    BY <1>1, <1>4, <2>2, <2>4, <2>6, CompactSound
  <2>8. ctx'.pendingToolResultIds = ctx.pendingToolResultIds
    BY <2>6 DEF applyCompaction, flushDeferredMessagesIfToolExchangeClosed, CtxT
  <2>9. StepRuns => Writing(ctx', steps, turn.called)
    BY <1>4, <2>5, <2>7 DEF InFlightInv
  <2>10. InFlightInv'
    BY <1>2, <1>4, <2>8, <2>9 DEF InFlightInv, StepRuns
  <2>11. Says /\ Past'
    BY <1>1, <1>2, <1>4, <2>7 DEF Says, Past, StepRuns
  <2>. QED  BY <1>1, <1>3, <1>4, <2>7, <2>10, <2>11, NextSane
<1>. QED  BY <1>5, <1>6

\* steps of the turn that may begin one;
LEMMA TurnSane ==
    ASSUME IInv, Waiting, WorkInv, ConversationInv, SaneInv, ~ damaged',
           BeforeStep \/ Overflow \/ AfterStep \/ Compact
    PROVE  SaneInv'
<1>1. /\ steps \in Nat /\ ctx \in CtxT /\ IsTurn(turn) /\ turn.called \in Nat /\ turn.answered \in Nat
  BY DEF ConversationInv, Paired, Waiting
<1>2. UNCHANGED <<ctx, steps>>
  BY Zenon DEF BeforeStep, Overflow, AfterStep, Compact, memory
<1>3. \E source, blocked : \/ Begin(source, blocked) \/ BeginNone(blocked)
                            \/ UNCHANGED <<work, damaged>>
  BY Zenon DEF BeforeStep, Overflow, AfterStep, Compact, BeginAuto
<1>4. ~ damaged
  BY <1>3, Zenon DEF Begin, BeginNone
<1>5. InFlightInv
  BY <1>4 DEF SaneInv
<1>6. InFlightInv' /\ ~ StepRuns'
  <2>1. CASE BeforeStep
    <3>1. /\ turn.called = 0 /\ turn.answered = 0
          /\ (\E pc \in {"ending", "send"} : Goto(pc)) \/ Block(FALSE)
      BY <1>5, <2>1 DEF BeforeStep, InFlightInv
    <3>2. turn'.pc \in {"ending", "send", "blocked"} /\ turn'.called = 0 /\ turn'.answered = 0
      BY <1>1, <3>1 DEF Goto, Block, IsTurn
    <3>. QED  BY <3>2, Aside DEF StepRuns
  <2>2. CASE Overflow
    <3>1. /\ turn.called = 0 /\ turn.answered = 0
          /\ Goto("ending") \/ Block(TRUE)
      BY <1>5, <2>2 DEF Overflow, InFlightInv
    <3>2. turn'.pc \in {"ending", "blocked"} /\ turn'.called = 0 /\ turn'.answered = 0
      BY <1>1, <3>1 DEF Goto, Block, IsTurn
    <3>. QED  BY <3>2, Aside DEF StepRuns
  <2>3. CASE AfterStep
    <3>1. PICK pc \in {"before", "ending"} :
            turn' = [turn EXCEPT !.pc = pc, !.calls = 0, !.called = 0, !.answered = 0]
      BY <2>3 DEF AfterStep
    <3>2. turn'.pc \in {"before", "ending"} /\ turn'.called = 0 /\ turn'.answered = 0
      BY <1>1, <3>1 DEF IsTurn
    <3>. QED  BY <3>2, Aside DEF StepRuns
  <2>4. CASE Compact
    <3>1. turn' = turn /\ turn.pc = "idle"
      BY <2>4 DEF Compact
    <3>2. turn'.pc = "idle" /\ turn'.called = 0 /\ turn'.answered = 0
      BY <1>5, <3>1 DEF InFlightInv
    <3>. QED  BY <3>2, Aside DEF StepRuns
  <2>. QED  BY <2>1, <2>2, <2>3, <2>4
<1>. QED  BY <1>1, <1>2, <1>3, <1>6, BegunSane

\* and the others.
LEMMA RestSane ==
    ASSUME IInv, Waiting, WorkInv, ConversationInv, SaneInv, ~ damaged',
           \/ Cancel \/ BlockTimeout \/ CancelCompaction \/ Released \/ LLMAnswers \/ Fail
           \/ (\E w \in Workers : Failed(w)) \/ SnapshotWritten \/ UNCHANGED vars
    PROVE  SaneInv'
<1>1. /\ steps \in Nat /\ ctx \in CtxT /\ IsTurn(turn)
  BY DEF ConversationInv, Paired, Waiting
<1>2. UNCHANGED <<ctx, steps, damaged>>
  BY Zenon DEF Cancel, BlockTimeout, CancelCompaction, Released, LLMAnswers, Fail, Failed, SnapshotWritten,
               memory, vars
<1>3. Sound(ctx) /\ InFlightInv
  BY <1>2 DEF SaneInv
<1>4. KeepWork
  <2>1. CASE \/ Cancel \/ BlockTimeout \/ CancelCompaction \/ Released \/ LLMAnswers \/ Fail
             \/ SnapshotWritten \/ UNCHANGED vars
    <3>1. UNCHANGED work \/ work' = markCanceled(work)
      BY <2>1, Zenon DEF Cancel, BlockTimeout, CancelCompaction, Released, LLMAnswers, Fail,
                         SnapshotWritten, vars
    <3>. QED  BY <3>1, KeptWork
  <2>2. ASSUME NEW w \in Workers, Failed(w) PROVE KeepWork
    <3>1. \E o : work' = [work EXCEPT ![w] = [Unborn EXCEPT !.pc = "over", !.outcome = o]]
      BY <2>2 DEF Failed
    <3>. QED  BY <3>1, KeptWork
  <2>. QED  BY <2>1, <2>2
<1>5. InFlightInv' /\ (StepRuns' => StepRuns)
  <2>1. CASE UNCHANGED turn
    BY <1>2, <1>3, <2>1 DEF InFlightInv, StepRuns
  <2>2. CASE Cancel
    <3>1. turn'.pc = turn.pc /\ turn'.called = turn.called /\ turn'.answered = turn.answered
      BY <1>1, <2>2 DEF Cancel, IsTurn
    <3>. QED  BY <1>2, <1>3, <3>1 DEF InFlightInv, StepRuns
  <2>3. CASE Released
    <3>1. turn'.pc \in {"ending", "before", "send"} /\ turn'.called = turn.called /\ turn'.answered = turn.answered
          /\ turn.pc = "blocked"
      BY <1>1, <2>3 DEF Released, IsTurn
    <3>2. turn'.called = 0 /\ turn'.answered = 0
      BY <1>3, <3>1 DEF InFlightInv
    <3>. QED  BY <3>1, <3>2, Aside DEF StepRuns
  <2>4. CASE LLMAnswers
    <3>1. turn'.pc = "tools" /\ turn'.called = turn.called /\ turn'.answered = turn.answered /\ turn.pc = "llm"
      BY <1>1, <2>4 DEF LLMAnswers, IsTurn
    <3>2. /\ turn.called = 0 /\ turn.answered = 0 /\ ctx.pendingToolResultIds = {}
          /\ Writing(ctx, steps, turn.called)
      BY <1>3, <3>1 DEF InFlightInv, StepRuns
    <3>3. {steps} \X (0 + 1 .. 0) = {}
      OBVIOUS
    <3>4. turn'.answered = 0 /\ turn'.called = 0
      BY <3>1, <3>2
    <3>5. turn'.answered <= turn'.called /\ {steps} \X (turn'.answered + 1 .. turn'.called) = {}
      BY <3>3, <3>4
    <3>. QED  BY <1>2, <3>1, <3>2, <3>5 DEF InFlightInv, StepRuns
  <2>5. CASE Fail
    <3>1. turn'.pc = "ending"
      BY <1>1, <2>5 DEF Fail, Goto, IsTurn
    <3>. QED  BY <3>1, Aside DEF StepRuns
  <2>. QED  BY <2>1, <2>2, <2>3, <2>4, <2>5
            DEF BlockTimeout, CancelCompaction, Failed, SnapshotWritten, vars
<1>. QED  BY <1>1, <1>2, <1>4, <1>5, SameSane

\* So it is with every step.
LEMMA SaneStep ==
    ASSUME IInv, Waiting, WorkInv, ConversationInv, ReplayInv, SaneInv, [Next]_vars
    PROVE  SaneInv'
<1>. SUFFICES ASSUME ~ damaged' PROVE SaneInv'
  BY DEF SaneInv
<1>1. CASE Prompt
  BY <1>1, PromptSane
<1>2. CASE StepBegin
  BY <1>2, StepBeginSane
<1>3. CASE ContentPart
  BY <1>3, PartSane
<1>4. CASE ToolCall
  BY <1>4, CallSane
<1>5. CASE ToolResult
  BY <1>5, ResultSane
<1>6. CASE Seal
  BY <1>6, SealSane
<1>7. CASE End
  BY <1>7, EndSane
<1>8. CASE Undo
  BY <1>8, UndoSane
<1>9. CASE Clear
  BY <1>9, ClearSane
<1>10. CASE CrashAndResume
  BY <1>10, CrashSane
<1>11. ASSUME NEW w \in Workers, Summarised(w) PROVE SaneInv'
  BY <1>11, SummarisedSane
<1>12. CASE BeforeStep \/ Overflow \/ AfterStep \/ Compact
  BY <1>12, TurnSane
<1>13. CASE \/ Cancel \/ BlockTimeout \/ CancelCompaction \/ Released \/ LLMAnswers \/ Fail
            \/ (\E w \in Workers : Failed(w)) \/ SnapshotWritten \/ UNCHANGED vars
  BY <1>13, RestSane
<1>. QED
  BY <1>1, <1>2, <1>3, <1>4, <1>5, <1>6, <1>7, <1>8, <1>9, <1>10, <1>11, <1>12, <1>13
     DEF Next, TurnStep, AtRest

\* The initial states.
LEMMA SaneInit == Init => ReplayInv /\ SaneInv
<1>. SUFFICES ASSUME Init PROVE ReplayInv /\ SaneInv
  OBVIOUS
<1>1. ctx = EmptyContext /\ wire = EmptyContext /\ steps = 0 /\ turn = Idle /\ work = [w \in Workers |-> Unborn]
  BY DEF Init
<1>2. EmptyContext \in CtxT
  BY EmptyBecomes DEF Becomes
<1>3. ReplayInv
  <2>1. Mirrors(ctx, wire)
    BY <1>1, <1>2, ItselfMirror
  <2>. QED  BY <1>1, <2>1 DEF ReplayInv, EmptyContext
<1>4. Sound(ctx) /\ Past
  BY <1>1, EmptySound DEF Past
<1>5. InFlightInv
  BY <1>1 DEF InFlightInv, StepRuns, Idle
<1>6. WorkersSound
  BY <1>1 DEF WorkersSound, Unborn
<1>. QED  BY <1>3, <1>4, <1>5, <1>6 DEF SaneInv

\* Unless a crash had left a tool exchange open, no result of the history loses its call
\* (canSplitAfter; "would orphan tool exchanges", applyCompaction), for any number of compactions,
\* edits and crashes.
THEOREM HistorySaneAlways == Spec => []HistorySane
<1>1. MemoryInv /\ MemoryInv' /\ ReplayInv /\ SaneInv /\ [Next]_vars => ReplayInv' /\ SaneInv'
  BY ReplayStep, SaneStep DEF MemoryInv
<1>2. MemoryInv /\ SaneInv => HistorySane
  BY SoundSane DEF MemoryInv, ConversationInv, Paired, SaneInv, HistorySane
<1>. QED  BY MemoryInit, MemoryStep, SaneInit, <1>1, <1>2, PTL DEF Spec

-----------------------------------------------------------------------------
(* Requests *)

\* Whatever the conversation, its request answers each call and keeps what the history holds.
LEMMA RequestKeeps ==
    ASSUME NEW M, NEW I, Named(M, I), ctx.history \in Seq(M)
    PROVE  EveryCallAnswered /\ Kept
<1>. DEFINE h == ctx.history
            rest(s) == Select(s, {m \in Range(s) : m.role # "tool" /\ usable(m)})
<1>1. request = project(h, TRUE)
  BY DEF request
<1>2. Projected(h, project(h, TRUE))
  BY ProjectKeeps
<1>. HIDE DEF h
<1>3. Projected(h, request)
  BY <1>1, <1>2
<1>4. EachAnswered(request) /\ rest(request) = rest(h)
      /\ \A id : Cardinality(Places(request, id)) = Cardinality(Places(h, id))
  BY <1>3 DEF Projected
<1>5. EveryCallAnswered
  BY <1>4 DEF EveryCallAnswered, EachAnswered
<1>6. Kept
  BY <1>4 DEF Kept, Places, h
<1>. QED  BY <1>5, <1>6

\* From a sane one it holds no stray result.
LEMMA RequestPlaced ==
    ASSUME NEW M, NEW I, Named(M, I), ctx.history \in Seq(M)
    PROVE  NoStrayResult
<1>. SUFFICES ASSUME Sane
              PROVE  EachPlaced(request)
  BY DEF NoStrayResult, EachPlaced
<1>1. Tidy(ctx.history)
  BY DEF Sane, Tidy
<1>. QED  BY <1>1, ProjectPlaces DEF request

\* The messages of a conversation that the agent runs bear the names of its calls.
LEMMA NamedMessages == Named(Msg, Ids)
<1>1. ASSUME NEW m \in Msg, m.role = "assistant"
      PROVE  m.toolCalls \in Seq(Ids)
  <2>1. CASE m \in AsstM
    BY <2>1 DEF AsstM
  <2>2. CASE m \in SumM
    <3>1. m.toolCalls = <<>>
      BY <2>2 DEF SumM
    <3>. QED  BY <3>1, EmptySeq
  <2>. QED  BY <1>1, <2>1, <2>2, MsgForms
<1>2. ASSUME NEW m \in Msg, m.role = "tool"
      PROVE  m = Result(m.toolCallId) /\ m.toolCallId \in Ids
  BY <1>2, MsgForms, ResultForms
<1>. QED  BY <1>1, <1>2 DEF Named

-----------------------------------------------------------------------------
(* Conversations of old sessions *)

\* An old session is only looked at.
Frozen ==
    /\ ctx.history \in Seq(Messages) /\ aliased = {}
    /\ turn = Idle /\ compacting = 0 /\ work = [w \in Workers |-> Unborn]
    /\ inputs = MaxInputs /\ steps = MaxSteps /\ begun = MaxCompactions
    /\ edits = MaxEdits /\ crashes = MaxCrashes

LEMMA FrozenInit == Restored => Frozen
<1>. SUFFICES ASSUME Restored PROVE Frozen
  OBVIOUS
<1>0. PICK n \in 1 .. MaxLength : \E h \in [1 .. n -> Messages] : ctx = [EmptyContext EXCEPT !.history = h]
  BY DEF Restored
<1>1. PICK h \in [1 .. n -> Messages] : ctx = [EmptyContext EXCEPT !.history = h]
  BY <1>0
<1>2. h \in Seq(Messages)
  <2>1. n \in Nat
    BY ConversationAssumption
  <2>. QED  BY <2>1, SeqDef
<1>3. ctx.history = h
  BY <1>1 DEF EmptyContext
<1>. QED  BY <1>2, <1>3 DEF Restored, Frozen

LEMMA FrozenStep == Frozen /\ [Next]_vars => Frozen'
<1>. SUFFICES ASSUME Frozen, [Next]_vars PROVE Frozen'
  OBVIOUS
<1>0. /\ turn.pc = "idle" /\ aliased = {} /\ compacting = 0
      /\ inputs = MaxInputs /\ steps = MaxSteps /\ begun = MaxCompactions
      /\ edits = MaxEdits /\ crashes = MaxCrashes
      /\ MaxInputs \in Nat /\ MaxCompactions \in Nat /\ MaxEdits \in Nat /\ MaxCrashes \in Nat
  BY CompactionAssumption DEF Frozen, Idle
<1>1. UNCHANGED vars => Frozen'
  BY DEF vars, memory, Frozen
<1>2. ~ Prompt /\ ~ Cancel /\ ~ BlockTimeout /\ ~ CancelCompaction
  BY <1>0 DEF Prompt, Cancel, BlockTimeout, CancelCompaction
<1>3. ~ Undo /\ ~ Clear /\ ~ CrashAndResume /\ ~ SnapshotWritten
  BY <1>0 DEF Undo, Clear, CrashAndResume, SnapshotWritten
<1>4. ~ TurnStep
  BY <1>0 DEF TurnStep, BeforeStep, Released, StepBegin, ContentPart, LLMAnswers, Overflow, Fail, ToolCall,
              ToolResult, Seal, AfterStep, End
<1>5. ASSUME NEW w \in Workers, Summarised(w) \/ Failed(w) PROVE FALSE
  <2>1. work[w].pc = "unborn"
    BY DEF Frozen, Unborn
  <2>. QED  BY <1>5, <2>1 DEF Summarised, Failed
<1>6. Compact => Frozen'
  <2>. SUFFICES ASSUME Compact PROVE Frozen'
    OBVIOUS
  <2>1. UNCHANGED <<compacting, work, begun, damaged>>
    <3>1. ~ (begun < MaxCompactions)
      BY <1>0
    <3>. QED  BY <3>1 DEF Compact, Begin
  <2>. QED  BY <2>1 DEF Compact, memory, Frozen
<1>. QED  BY <1>1, <1>2, <1>3, <1>4, <1>5, <1>6 DEF Next, AtRest

LEMMA FrozenRequest == Frozen => EveryCallAnswered /\ Kept /\ NoStrayResult
<1>. SUFFICES ASSUME Frozen PROVE EveryCallAnswered /\ Kept /\ NoStrayResult
  OBVIOUS
<1>1. \A m \in Messages :
         \/ m = Input(0)
         \/ \E id \in Id : m = Result(id)
         \/ m.role = "assistant" /\ m.toolCalls = <<>>
         \/ m.role = "assistant" /\ \E id \in Id : m.toolCalls = <<id>>
         \/ m.role = "assistant" /\ \E p, q \in Id : p # q /\ m.toolCalls = <<p, q>>
  BY DEF Messages, Opened
<1>2. Input(0).role = "user" /\ \A id : Result(id).role = "tool" /\ Result(id).toolCallId = id
  BY DEF Input, Result
<1>3. \A p, q \in Id : <<p>> \in Seq(Id) /\ <<p, q>> \in Seq(Id) /\ <<>> \in Seq(Id)
  BY EmptySeq
<1>4. Named(Messages, Id)
  <2>1. ASSUME NEW m \in Messages, m.role = "assistant" PROVE m.toolCalls \in Seq(Id)
    <3>1. m # Input(0) /\ \A id \in Id : m # Result(id)
      BY <1>2, <2>1
    <3>2. m.toolCalls = <<>> => m.toolCalls \in Seq(Id)
      BY EmptySeq
    <3>. QED  BY <1>1, <1>3, <3>1, <3>2
  <2>2. ASSUME NEW m \in Messages, m.role = "tool"
        PROVE  m = Result(m.toolCallId) /\ m.toolCallId \in Id
    <3>1. PICK id \in Id : m = Result(id)
      BY <1>1, <1>2, <2>2
    <3>. QED  BY <1>2, <3>1
  <2>. QED  BY <2>1, <2>2 DEF Named
<1>. QED  BY <1>4, RequestKeeps, RequestPlaced DEF Frozen

-----------------------------------------------------------------------------
\* A conversation that the agent runs from its start, or one of an old session.
RequestInv == MemoryInv \/ Frozen

LEMMA RequestInit == MCInit => RequestInv
BY MemoryInit, FrozenInit DEF MCInit, RequestInv

LEMMA RequestStep == RequestInv /\ [Next]_vars => RequestInv'
BY MemoryStep, FrozenStep DEF RequestInv

LEMMA RequestSound == RequestInv => EveryCallAnswered /\ Kept /\ NoStrayResult
<1>. SUFFICES ASSUME MemoryInv
              PROVE  EveryCallAnswered /\ Kept /\ NoStrayResult
  BY FrozenRequest DEF RequestInv
<1>1. ctx.history \in Seq(Msg)
  BY DEF MemoryInv, ConversationInv, Paired, CtxT
<1>. QED  BY <1>1, NamedMessages, RequestKeeps, RequestPlaced

\* Whatever compactions, turns, edits and crashes made of a conversation, and whatever an old
\* session holds, each call of a request is answered at once (repairToolExchangeAdjacency,
\* "prevents the provider error ... after an interruption"), for any number of messages.
THEOREM EveryCallAnsweredAlways == MCSpec => []EveryCallAnswered
<1>1. RequestInv => EveryCallAnswered
  BY RequestSound
<1>. QED  BY RequestInit, RequestStep, <1>1, PTL DEF MCSpec

\* The projection loses and doubles nothing (project, repairToolExchangeAdjacency): calls and
\* inputs keep their order, and each result of the history is in the request exactly once.
THEOREM KeptAlways == MCSpec => []Kept
<1>1. RequestInv => Kept
  BY RequestSound
<1>. QED  BY RequestInit, RequestStep, <1>1, PTL DEF MCSpec

\* If no result of the history is stray, none of the request is: it stands right behind its call
\* and the results that follow that call, wherever it was recorded (repairToolExchangeAdjacency).
THEOREM NoStrayResultAlways == MCSpec => []NoStrayResult
<1>1. RequestInv => NoStrayResult
  BY RequestSound
<1>. QED  BY RequestInit, RequestStep, <1>1, PTL DEF MCSpec
=============================================================================
