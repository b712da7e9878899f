-------------------------- MODULE BackgroundProofs --------------------------
(***************************************************************************)
(* Proofs about Background: the limit on running tasks, what a stop        *)
(* promises, the one outcome of a task and its one notification, for any   *)
(* number of tasks and openings.                                           *)
(***************************************************************************)
EXTENDS Background, FiniteSetTheorems, SequenceTheorems, TLAPS

-----------------------------------------------------------------------------
(* The limit *)

\* Owners are openings so far.
Counts ==
  /\ gen \in Nat \ {0} /\ reserved \in Nat
  /\ owner \in [Tasks -> Nat] /\ status \in [Tasks -> Statuses]
  /\ \A t \in Tasks : owner[t] <= gen

CapacityInv == Counts /\ CapacityKept

LEMMA ActiveFinite == IsFiniteSet(Active) /\ Cardinality(Active) \in Nat
<1>1. Active \subseteq Tasks
  BY DEF Active
<1> QED
  BY <1>1, TasksAssumption, FS_Subset, FS_CardinalityType

\* Fewer active tasks and no more reservations keep the limit.
LEMMA FewerKeep ==
  ASSUME CapacityInv, Active' \subseteq Active, reserved' \in Nat, reserved' <= reserved
  PROVE  CapacityKept'
<1>1. IsFiniteSet(Active') /\ Cardinality(Active') <= Cardinality(Active)
  BY ActiveFinite, FS_Subset
<1>2. Cardinality(Active') \in Nat
  BY <1>1, FS_CardinalityType
<1> QED
  BY <1>1, <1>2, ActiveFinite, BoundsAssumption DEF CapacityInv, CapacityKept, Counts

LEMMA CapacityInit == Init => CapacityInv
<1> SUFFICES ASSUME Init PROVE CapacityInv
  OBVIOUS
<1>1. Counts
  BY DEF Init, Counts, Statuses, Terminal
<1>2. Active = {}
  BY DEF Init, Active
<1> QED
  BY <1>1, <1>2, FS_EmptySet, BoundsAssumption DEF CapacityInv, CapacityKept, Init

\* A task that registers gives its reservation back, or finds room.
LEMMA RegisterKeeps ==
  ASSUME CapacityInv, NEW t \in Tasks, Register(t)
  PROVE  CapacityInv'
<1>1. Counts'
  BY DEF CapacityInv, Counts, Register, Statuses, Terminal
<1>2. Active' \subseteq Active \cup {t} /\ t \notin Active
  BY DEF Active, Register, CapacityInv, Counts
<1>3. IsFiniteSet(Active \cup {t}) /\ Cardinality(Active \cup {t}) = Cardinality(Active) + 1
  BY <1>2, ActiveFinite, FS_AddElement
<1>4. IsFiniteSet(Active') /\ Cardinality(Active') <= Cardinality(Active) + 1
  BY <1>2, <1>3, FS_Subset
<1>5. Cardinality(Active') \in Nat
  BY <1>4, FS_CardinalityType
<1>6. Cardinality(Active) + reserved' + 1 <= MaxRunning
  BY ActiveFinite, BoundsAssumption
  DEF CapacityInv, Counts, CapacityKept, Register, assertCanRegister
<1>7. Cardinality(Active') + reserved' <= MaxRunning
  BY <1>1, <1>4, <1>5, <1>6, ActiveFinite, BoundsAssumption DEF Counts
<1> QED
  BY <1>1, <1>7 DEF CapacityInv, CapacityKept

USE DEF taskVars, turnVars, noteVars, settled, files, others, stopOthers

LEMMA CapacityStep == CapacityInv /\ [Next]_vars => CapacityInv'
<1> SUFFICES ASSUME CapacityInv, [Next]_vars PROVE CapacityInv'
  OBVIOUS
<1> USE DEF CapacityInv, Counts, Statuses, Terminal
<1>1. CASE Reserve
  <2>1. Active' = Active /\ Counts'
    BY <1>1 DEF Reserve, Active
  <2> QED
    BY <1>1, <2>1, ActiveFinite, BoundsAssumption
    DEF Reserve, CapacityKept, assertCanRegister
<1>2. ASSUME NEW t \in Tasks, Register(t) PROVE CapacityInv'
  BY <1>2, RegisterKeeps
<1>3. CASE Open
  <2>1. Counts' /\ Active' = {}
    BY <1>3 DEF Open, Active
  <2> QED
    BY <1>3, <2>1, FewerKeep DEF Open
<1>4. CASE Crash
  <2>1. Counts' /\ Active' = {}
    BY <1>4 DEF Crash, Active
  <2> QED
    BY <1>4, <2>1, FewerKeep DEF Crash
<1>5. ASSUME UNCHANGED <<gen, owner>>, reserved' \in Nat, reserved' <= reserved,
             status' \in [Tasks -> Statuses],
             \A t \in Tasks : status'[t] = "running" => status[t] = "running"
      PROVE  CapacityInv'
  <2>1. Active' \subseteq Active
    BY <1>5 DEF Active
  <2>2. CapacityKept'
    BY <1>5, <2>1, FewerKeep
  <2> QED
    BY <1>5, <2>2
<1>6. CASE UserPrompt \/ ToolExchangeOpens \/ ToolExchangeCloses \/ TurnEnds
  BY <1>5, <1>6 DEF UserPrompt, ToolExchangeOpens, ToolExchangeCloses, TurnEnds
<1>7. CASE Release \/ Close \/ Closed \/ Opened
  BY <1>5, <1>7 DEF Release, Close, Closed, Opened
<1>8. ASSUME NEW t \in Tasks, NEW s \in Terminal, UNCHANGED <<gen, owner, reserved>>,
             Finalize(t, s)
      PROVE  CapacityInv'
  BY <1>5, <1>8 DEF Finalize
<1>9. ASSUME NEW t \in Tasks,
             \/ ProcExits(t) \/ PersistWrites(t) \/ Persisted(t) \/ Retire(t)
             \/ NotifyBuilt(t) \/ Stop(t) \/ StopReturns(t) \/ MarkLost(t)
             \/ MarkLostFails(t) \/ RestoreNotification(t)
      PROVE  CapacityInv'
  BY <1>5, <1>9 DEF ProcExits, PersistWrites, Persisted, Retire, NotifyBuilt, Stop,
     StopReturns, MarkLost, MarkLostFails, RestoreNotification
<1>10. ASSUME NEW t \in Tasks, SettleExit(t) PROVE CapacityInv'
  <2>1. UNCHANGED <<gen, owner, reserved>>
    BY <1>10 DEF SettleExit
  <2>2. (\E s \in Terminal : Finalize(t, s)) \/ UNCHANGED status
    BY <1>10 DEF SettleExit
  <2> QED
    BY <2>1, <2>2, <1>5, <1>8
<1>11. ASSUME NEW t \in Tasks, SettleAgent(t) \/ Deadline(t) PROVE CapacityInv'
  <2>1. UNCHANGED <<gen, owner, reserved>>
    BY <1>11 DEF SettleAgent, Deadline, Settled
  <2>2. (\E s \in Terminal : Finalize(t, s)) \/ UNCHANGED status
    BY <1>11 DEF SettleAgent, Deadline, Settled
  <2> QED
    BY <2>1, <2>2, <1>5, <1>8
<1>12. ASSUME NEW t \in Tasks, StopContinues(t) PROVE CapacityInv'
  <2>1. UNCHANGED <<gen, owner, reserved>>
    BY <1>12 DEF StopContinues
  <2>2. (\E s \in Terminal : Finalize(t, s)) \/ UNCHANGED status
    BY <1>12 DEF StopContinues
  <2> QED
    BY <2>1, <2>2, <1>5, <1>8
<1>13. CASE UNCHANGED vars
  BY <1>5, <1>13 DEF vars
<1> QED
  BY <1>1, <1>2, <1>3, <1>4, <1>6, <1>7, <1>9, <1>10, <1>11, <1>12, <1>13
  DEF Next, TaskStep

\* Running tasks and reservations never exceed the limit (assertCanRegister), however
\* tasks are registered, end and are stopped, and whenever the session is reopened.
THEOREM CapacityAlwaysKept == Spec => []CapacityKept
<1>1. CapacityInv => CapacityKept
  BY DEF CapacityInv
<1> QED
  BY CapacityInit, CapacityStep, <1>1, PTL DEF Spec

-----------------------------------------------------------------------------
(* What is on disk *)

Shapes ==
  /\ gen \in Nat \ {0} /\ owner \in [Tasks -> Nat] /\ outlived \in BOOLEAN
  /\ status \in [Tasks -> Statuses] /\ disk \in [Tasks -> Statuses]
  /\ unwritten \in [Tasks -> Statuses]
  /\ ghosts \in [Tasks -> Statuses] /\ queue \in [Tasks -> Seq(Statuses)]
  /\ again \in [Tasks -> BOOLEAN] /\ exitKnown \in [Tasks -> BOOLEAN]
  /\ notifying \in [Tasks -> BOOLEAN]
  /\ fin \in [Tasks -> {"no", "persist", "drain", "retired"}]
  /\ stopping \in [Tasks -> {"no", "term", "grace", "kill", "await", "fin"}]
  /\ wire \in [Keys -> Nat] /\ steerBuffer \subseteq Keys

\* No manager but t's writes t's file: no later one has found it at "running".
Mine(t) == owner[t] = gen \/ (~outlived /\ unwritten[t] = "none")

\* The file still waits for the outcome of t, or has it, or its write has failed.
Fresh(t) == Mine(t) => disk[t] \notin Terminal
Landed(t) ==
  Mine(t) => disk[t] = status[t] \/ (unwritten[t] = status[t] /\ disk[t] \notin Terminal)

\* What waits to be written, by what is on disk.
QueueInv(t) ==
  LET s == status[t]
  IN  /\ s = "none" => queue[t] = <<>>
      /\ s = "running" => Fresh(t) /\ queue[t] \in {<<>>, <<"running">>}
      /\ s \in Terminal /\ ~again[t] =>
           \/ Fresh(t) /\ queue[t] \in {<<"running", s>>, <<s>>}
           \/ Landed(t) /\ queue[t] = <<>>
      /\ s \in Terminal /\ again[t] =>
           \/ Fresh(t) /\ queue[t] \in {<<"running", s, s>>, <<s, s>>}
           \/ Landed(t) /\ queue[t] \in {<<>>, <<s>>}

AgainInv(t) == again[t] => status[t] = "killed" /\ exitKnown[t]

Durable(t) ==
  /\ status[t] \in Terminal /\ Landed(t)
  /\ queue[t] = <<>> \/ (again[t] /\ queue[t] = <<status[t]>>)

\* A task is reported, or its stop done, once its outcome has been written or its write has
\* failed.
DurableInv(t) == notifying[t] \/ fin[t] \in {"drain", "retired"} => Durable(t)

\* Managers of earlier openings have nothing left to do, but to fill in an exit code.
EarlierInv(t) ==
  ~outlived /\ owner[t] < gen =>
    /\ status[t] # "running"
    /\ status[t] \in Terminal /\ unwritten[t] = "none" => disk[t] = status[t]

LoadingInv(t) ==
  session = "loading" =>
    /\ owner[t] < gen
    /\ ~outlived /\ ghosts[t] # "none" /\ unwritten[t] = "none" => ghosts[t] = disk[t]

\* What the file of a task says where the write of its outcome has failed.
Tales(t) == {"none", "running", "lost", unwritten[t]}

UnwrittenInv(t) ==
  unwritten[t] # "none" =>
    /\ unwritten[t] \in Terminal /\ status[t] \in {"none", unwritten[t]}
    /\ ~outlived => disk[t] \in Tales(t) /\ (session = "loading" => ghosts[t] \in Tales(t))

TaskInv(t) ==
  /\ owner[t] <= gen /\ QueueInv(t) /\ AgainInv(t) /\ DurableInv(t)
  /\ EarlierInv(t) /\ LoadingInv(t) /\ UnwrittenInv(t)

\* What is reported of a task, or about to be, is what its file says; where the write of its
\* outcome has failed it is that outcome, or what the next opening makes of it.
Reported == {k \in Keys : wire[k] > 0 \/ k \in steerBuffer}
True(k) ==
  IF unwritten[k[1]] = "none" THEN disk[k[1]] = k[2] ELSE k[2] \in {unwritten[k[1]], "lost"}
ReportInv == ~outlived => \A k \in Reported : True(k)

DiskInv == Shapes /\ (\A t \in Tasks : TaskInv(t)) /\ ReportInv

\* The queues that occur.
LEMMA QueueFacts ==
  ASSUME NEW a, NEW b, NEW c
  PROVE  /\ Head(<<a>>) = a /\ Head(<<a, b>>) = a /\ Head(<<a, b, c>>) = a
         /\ Tail(<<a>>) = <<>> /\ Tail(<<a, b>>) = <<b>> /\ Tail(<<a, b, c>>) = <<b, c>>
         /\ Len(<<>>) = 0 /\ Len(<<a>>) = 1 /\ Len(<<a, b>>) = 2 /\ Len(<<a, b, c>>) = 3
         /\ <<a>> # <<>> /\ <<a, b>> # <<>> /\ <<a, b, c>> # <<>>
  OBVIOUS

LEMMA AppendFacts ==
  ASSUME NEW a \in Statuses, NEW b \in Statuses, NEW c \in Statuses
  PROVE  /\ Append(<<>>, a) = <<a>> /\ Append(<<a>>, b) = <<a, b>>
         /\ Append(<<a, b>>, c) = <<a, b, c>>
<1> DEFINE two == Append(<<a>>, b)
           three == Append(<<a, b>>, c)
<1>1. <<a>> \in Seq(Statuses) /\ <<a, b>> \in Seq(Statuses) /\ <<a, b, c>> \in Seq(Statuses)
  OBVIOUS
<1>2. two \in Seq(Statuses) /\ Len(two) = 2 /\ \A i \in 1..2 : two[i] = <<a, b>>[i]
  BY <1>1
<1>3. three \in Seq(Statuses) /\ Len(three) = 3 /\ \A i \in 1..3 : three[i] = <<a, b, c>>[i]
  BY <1>1
<1>4. two = <<a, b>>
  BY <1>1, <1>2, SeqEqual
<1>5. three = <<a, b, c>>
  BY <1>1, <1>3, SeqEqual
<1> QED
  BY <1>4, <1>5

LEMMA PersistedDurable ==
  ASSUME DiskInv, NEW t \in Tasks, persisted(t)
  PROVE  Durable(t)
<1>1. TaskInv(t) /\ again[t] \in BOOLEAN
  BY DEF DiskInv, Shapes
<1>2. CASE again[t]
  BY <1>1, <1>2, QueueFacts, SMTT(30) DEF TaskInv, QueueInv, Durable, persisted, Terminal
<1>3. CASE ~again[t]
  BY <1>1, <1>3, QueueFacts, SMTT(30) DEF TaskInv, QueueInv, Durable, persisted, Terminal
<1> QED
  BY <1>2, <1>3

LEMMA DiskInit == Init => DiskInv
<1> SUFFICES ASSUME Init PROVE DiskInv
  OBVIOUS
<1>1. Shapes
  <2>1. queue \in [Tasks -> Seq(Statuses)]
    BY DEF Init
  <2>2. wire \in [Keys -> Nat] /\ steerBuffer \subseteq Keys
    BY DEF Init
  <2>3. /\ status \in [Tasks -> Statuses] /\ disk \in [Tasks -> Statuses]
        /\ ghosts \in [Tasks -> Statuses] /\ unwritten \in [Tasks -> Statuses]
    BY DEF Init, Statuses
  <2>4. /\ again \in [Tasks -> BOOLEAN] /\ exitKnown \in [Tasks -> BOOLEAN]
        /\ notifying \in [Tasks -> BOOLEAN]
    BY Zenon DEF Init
  <2>5. /\ fin \in [Tasks -> {"no", "persist", "drain", "retired"}]
        /\ stopping \in [Tasks -> {"no", "term", "grace", "kill", "await", "fin"}]
    BY DEF Init
  <2>6. gen \in Nat \ {0} /\ owner \in [Tasks -> Nat]
    BY DEF Init
  <2>7. outlived \in BOOLEAN
    BY Zenon DEF Init
  <2> QED
    BY ONLY <2>1, <2>2, <2>3, <2>4, <2>5, <2>6, <2>7 DEF Shapes
<1>2. ASSUME NEW t \in Tasks PROVE TaskInv(t)
  BY DEF Init, TaskInv, QueueInv, AgainInv, DurableInv, EarlierInv, UnwrittenInv, Tales, LoadingInv, UnwrittenInv, Tales, Terminal
<1>3. ReportInv
  BY DEF Init, ReportInv, Reported
<1> QED
  BY <1>1, <1>2, <1>3 DEF DiskInv

\* A task an action leaves alone.
LEMMA TaskFrame ==
  ASSUME NEW t \in Tasks, TaskInv(t), UNCHANGED <<gen, outlived>>,
         session' \in {session, "open", "closing", "closed"},
         UNCHANGED <<owner[t], status[t], queue[t], disk[t], unwritten[t], again[t],
                     exitKnown[t], notifying[t], fin[t], ghosts[t]>>
  PROVE  TaskInv(t)'
  BY DEF TaskInv, QueueInv, AgainInv, DurableInv, EarlierInv, UnwrittenInv, Tales, LoadingInv, UnwrittenInv, Tales, Fresh, Landed,
     Durable, Mine

LEMMA ReportFrame ==
  ASSUME DiskInv, Reported' \subseteq Reported, UNCHANGED <<outlived, disk, unwritten>>
  PROVE  ReportInv'
  BY DEF DiskInv, ReportInv, True

\* Steps of the turn only move notifications from the buffer to the log.
LEMMA TurnKeeps ==
  ASSUME DiskInv, UserPrompt \/ ToolExchangeOpens \/ ToolExchangeCloses \/ TurnEnds
  PROVE  DiskInv'
<1> USE DEF UserPrompt, ToolExchangeOpens, ToolExchangeCloses, TurnEnds, AppendNotes
<1>0. wire \in [Keys -> Nat] /\ steerBuffer \subseteq Keys
  BY DEF DiskInv, Shapes
<1>1. wire' \in [Keys -> Nat] /\ steerBuffer' \subseteq Keys /\ Reported' \subseteq Reported
  <2>1. CASE UNCHANGED <<wire, steerBuffer>>
    BY <1>0, <2>1 DEF Reported
  <2>2. CASE /\ steerBuffer' = {}
             /\ wire' = [k \in Keys |-> IF k \in steerBuffer THEN wire[k] + 1 ELSE wire[k]]
    BY <1>0, <2>2 DEF Reported
  <2> QED
    BY <2>1, <2>2
<1>2. Shapes'
  BY <1>1 DEF DiskInv, Shapes
<1>3. \A t \in Tasks : TaskInv(t)'
  BY TaskFrame DEF DiskInv
<1>4. ReportInv'
  BY <1>1, <1>2, ReportFrame
<1> QED
  BY <1>2, <1>3, <1>4 DEF DiskInv

LEMMA RegisterKeepsDisk ==
  ASSUME DiskInv, NEW t \in Tasks, Register(t)
  PROVE  DiskInv'
<1> USE DEF Register
<1>1. queue[t] = <<>> /\ queue'[t] = <<"running">>
  BY AppendFacts DEF DiskInv, Shapes, TaskInv, QueueInv, Statuses
<1>2. Shapes'
  <2>1. queue' \in [Tasks -> Seq(Statuses)] /\ owner' \in [Tasks -> Nat]
    BY DEF DiskInv, Shapes, Statuses
  <2>2. status' \in [Tasks -> Statuses]
    BY DEF DiskInv, Shapes, Statuses
  <2> QED
    BY <2>1, <2>2 DEF DiskInv, Shapes
<1>3. TaskInv(t)'
  BY <1>1 DEF DiskInv, Shapes, TaskInv, QueueInv, AgainInv, DurableInv, EarlierInv, UnwrittenInv, Tales,
     LoadingInv, Fresh, Durable, Mine, Terminal
<1>4. \A u \in Tasks \ {t} : TaskInv(u)'
  BY TaskFrame DEF DiskInv, Shapes
<1>5. ReportInv'
  BY <1>2, ReportFrame DEF Reported
<1> QED
  BY <1>2, <1>3, <1>4, <1>5 DEF DiskInv

\* What the steps that end a task leave as it is.
EndFrame == <<session, gen, outlived, owner, disk, unwritten, ghosts, notifying, wire, steerBuffer>>

\* finalizeTerminal, from whoever calls it.
LEMMA FinalizeKeeps ==
  ASSUME DiskInv, NEW t \in Tasks, status[t] = "running", NEW s \in Terminal, Finalize(t, s),
         UNCHANGED EndFrame, UNCHANGED again,
         exitKnown' \in [Tasks -> BOOLEAN],
         \A u \in Tasks : exitKnown[u] => exitKnown'[u],
         stopping' \in [Tasks -> {"no", "term", "grace", "kill", "await", "fin"}]
  PROVE  DiskInv'
<1> USE DEF Finalize, EndFrame
<1>1. status'[t] = s /\ fin'[t] = "persist" /\ ~again[t] /\ ~notifying[t]
  BY ZenonT(30) DEF DiskInv, Shapes, TaskInv, AgainInv, DurableInv, Durable, Terminal
<1>7. unwritten[t] = "none"
  BY DEF DiskInv, TaskInv, UnwrittenInv, Terminal
<1>2. queue'[t] \in {<<"running", s>>, <<s>>}
  BY AppendFacts DEF DiskInv, Shapes, TaskInv, QueueInv, Statuses
<1>3. Shapes'
  <2>1. s \in Statuses
    BY DEF Statuses
  <2>2. queue' \in [Tasks -> Seq(Statuses)] /\ status' \in [Tasks -> Statuses]
    BY <2>1 DEF DiskInv, Shapes
  <2>3. fin' \in [Tasks -> {"no", "persist", "drain", "retired"}]
    BY DEF DiskInv, Shapes
  <2> QED
    BY <2>2, <2>3 DEF DiskInv, Shapes
<1>4. TaskInv(t)'
  <2>1. Fresh(t)
    BY DEF DiskInv, TaskInv, QueueInv
  <2>2. QueueInv(t)'
    BY <1>1, <1>2, <2>1 DEF QueueInv, Fresh, Mine, Terminal
  <2>3. EarlierInv(t)' /\ UnwrittenInv(t)'
    BY <1>7 DEF DiskInv, Shapes, TaskInv, EarlierInv, UnwrittenInv
  <2> QED
    BY <1>1, <2>2, <2>3 DEF DiskInv, TaskInv, AgainInv, DurableInv, LoadingInv
<1>5. \A u \in Tasks \ {t} : TaskInv(u)'
  <2> SUFFICES ASSUME NEW u \in Tasks \ {t} PROVE TaskInv(u)'
    OBVIOUS
  <2>1. UNCHANGED <<status[u], queue[u], fin[u]>>
    BY DEF DiskInv, Shapes
  <2> QED
    BY <2>1 DEF DiskInv, TaskInv, QueueInv, AgainInv, DurableInv, EarlierInv, UnwrittenInv, Tales, LoadingInv, UnwrittenInv, Tales,
       Fresh, Landed, Durable, Mine
<1>6. ReportInv'
  BY <1>3, ReportFrame DEF Reported
<1> QED
  BY <1>3, <1>4, <1>5, <1>6 DEF DiskInv

\* What a write finds at the head of the queue, and leaves of it.
LEMMA QueueHead ==
  ASSUME DiskInv, NEW t \in Tasks, queue[t] # <<>>
  PROVE  LET s == status[t]
             h == Head(queue[t])
             q == Tail(queue[t])
         IN  /\ s = "running" \/ s \in Terminal
             /\ s = "running" => Fresh(t) /\ h = "running" /\ q = <<>>
             /\ s \in Terminal /\ ~again[t] =>
                  Fresh(t) /\ ((h = "running" /\ q = <<s>>) \/ (h = s /\ q = <<>>))
             /\ s \in Terminal /\ again[t] =>
                  \/ Fresh(t) /\ ((h = "running" /\ q = <<s, s>>) \/ (h = s /\ q = <<s>>))
                  \/ Landed(t) /\ h = s /\ q = <<>>
<1> DEFINE s == status[t]
<1>1. TaskInv(t) /\ s \in Statuses /\ again[t] \in BOOLEAN
  BY DEF DiskInv, Shapes
<1>2. s = "running" \/ s \in Terminal
  BY <1>1 DEF TaskInv, QueueInv, Statuses
<1>3. CASE s = "running"
  <2>1. Fresh(t) /\ queue[t] = <<"running">>
    BY <1>1, <1>3 DEF TaskInv, QueueInv
  <2> QED
    BY <1>3, <2>1, QueueFacts DEF Terminal
<1>4. CASE s \in Terminal /\ ~again[t]
  <2>1. Fresh(t) /\ queue[t] \in {<<"running", s>>, <<s>>}
    BY <1>1, <1>4 DEF TaskInv, QueueInv
  <2>2. CASE queue[t] = <<"running", s>>
    BY <1>4, <2>1, <2>2 DEF Terminal
  <2>3. CASE queue[t] = <<s>>
    BY <1>4, <2>1, <2>3 DEF Terminal
  <2> QED
    BY <2>1, <2>2, <2>3
<1>5. CASE s \in Terminal /\ again[t]
  <2>1. \/ Fresh(t) /\ queue[t] \in {<<"running", s, s>>, <<s, s>>}
        \/ Landed(t) /\ queue[t] = <<s>>
    BY <1>1, <1>5 DEF TaskInv, QueueInv
  <2>2. CASE Fresh(t) /\ queue[t] = <<"running", s, s>>
    BY <1>5, <2>2 DEF Terminal
  <2>3. CASE Fresh(t) /\ queue[t] = <<s, s>>
    BY <1>5, <2>3 DEF Terminal
  <2>4. CASE Landed(t) /\ queue[t] = <<s>>
    BY <1>5, <2>4 DEF Terminal
  <2> QED
    BY <2>1, <2>2, <2>3, <2>4
<1> QED
  BY <1>1, <1>2, <1>3, <1>4, <1>5

\* A write succeeds, or fails.
LEMMA PersistKeeps ==
  ASSUME DiskInv, NEW t \in Tasks, PersistWrites(t)
  PROVE  DiskInv'
<1> DEFINE s == status[t]
           h == Head(queue[t])
           q == Tail(queue[t])
<1>1. TaskInv(t) /\ s \in Statuses /\ again[t] \in BOOLEAN /\ queue[t] # <<>>
      /\ unwritten[t] \in Statuses
  BY DEF DiskInv, Shapes, PersistWrites
<1>2. /\ s = "running" \/ s \in Terminal
      /\ s = "running" => Fresh(t) /\ h = "running" /\ q = <<>>
      /\ s \in Terminal /\ ~again[t] =>
           Fresh(t) /\ ((h = "running" /\ q = <<s>>) \/ (h = s /\ q = <<>>))
      /\ s \in Terminal /\ again[t] =>
           \/ Fresh(t) /\ ((h = "running" /\ q = <<s, s>>) \/ (h = s /\ q = <<s>>))
           \/ Landed(t) /\ h = s /\ q = <<>>
  BY <1>1, QueueHead
<1>3. /\ queue'[t] = q /\ \A u \in Tasks \ {t} : queue'[u] = queue[u]
      /\ UNCHANGED <<session, gen, outlived, owner, status, exitKnown, ghosts, stopping, fin, again,
                     notifying, wire, steerBuffer>>
  BY DEF DiskInv, Shapes, PersistWrites
<1>4. h \in {"running", s} /\ (h \in Terminal <=> h = s /\ s # "running")
  BY <1>1, <1>2 DEF Terminal
<1>5. \/ disk'[t] = h /\ unwritten'[t] = unwritten[t]
      \/ disk'[t] = disk[t] /\ unwritten'[t] = IF h \in Terminal THEN s ELSE unwritten[t]
  BY <1>4 DEF PersistWrites, DiskInv, Shapes
<1>6. \A u \in Tasks \ {t} : disk'[u] = disk[u] /\ unwritten'[u] = unwritten[u]
  BY DEF PersistWrites, DiskInv, Shapes
<1>7. Shapes'
  <2>1. h \in Statuses /\ q \in Seq(Statuses)
    BY <1>1 DEF DiskInv, Shapes
  <2>2. /\ disk' \in [Tasks -> Statuses] /\ queue' \in [Tasks -> Seq(Statuses)]
        /\ unwritten' \in [Tasks -> Statuses]
    BY <2>1, ZenonT(30) DEF DiskInv, Shapes, PersistWrites
  <2> QED
    BY <1>3, <2>2 DEF DiskInv, Shapes
<1>. HIDE DEF s, h, q
<1>8. unwritten[t] # "none" => unwritten[t] = s /\ s \in Terminal
  BY <1>1, <1>2 DEF TaskInv, UnwrittenInv, s, Terminal
<1>9. unwritten'[t] \in {unwritten[t], s} /\ (unwritten'[t] = "none" => unwritten[t] = "none")
  BY <1>4, <1>5 DEF Terminal
<1>10. Mine(t)' => Mine(t)
  BY <1>3, <1>9 DEF Mine
<1>11. Fresh(t) => IF h = s /\ s \in Terminal THEN Landed(t)' ELSE Fresh(t)'
  <2> SUFFICES ASSUME Fresh(t), Mine(t)'
               PROVE  IF h = s /\ s \in Terminal
                      THEN disk'[t] = s \/ (unwritten'[t] = s /\ disk'[t] \notin Terminal)
                      ELSE disk'[t] \notin Terminal
    BY <1>3 DEF Fresh, Landed, s
  <2>1. disk[t] \notin Terminal
    BY <1>10 DEF Fresh
  <2> QED
    BY <1>4, <1>5, <2>1
<1>12. Landed(t) /\ h = s => Landed(t)'
  <2> SUFFICES ASSUME Landed(t), h = s, Mine(t)'
               PROVE  disk'[t] = s \/ (unwritten'[t] = s /\ disk'[t] \notin Terminal)
    BY <1>3 DEF Landed, s
  <2>1. disk[t] = s \/ (unwritten[t] = s /\ disk[t] \notin Terminal)
    BY <1>10 DEF Landed, s
  <2> QED
    BY <1>5, <1>9, <2>1
<1>13. QueueInv(t)'
  <2>1. s = "running" => Fresh(t)' /\ queue'[t] = <<>>
    BY <1>2, <1>3, <1>11 DEF Terminal
  <2>2. s \in Terminal /\ ~again[t] =>
           \/ Fresh(t)' /\ queue'[t] = <<s>>
           \/ Landed(t)' /\ queue'[t] = <<>>
    BY <1>2, <1>3, <1>11 DEF Terminal
  <2>3. s \in Terminal /\ again[t] =>
           \/ Fresh(t)' /\ queue'[t] = <<s, s>>
           \/ Landed(t)' /\ queue'[t] \in {<<>>, <<s>>}
    BY <1>2, <1>3, <1>11, <1>12 DEF Terminal
  <2> QED
    BY <1>2, <1>3, <2>1, <2>2, <2>3 DEF QueueInv, s, Terminal
<1>14. DurableInv(t)'
  <2> SUFFICES ASSUME Durable(t) PROVE Durable(t)'
    BY <1>1, <1>3 DEF TaskInv, DurableInv
  <2>1. s \in Terminal /\ Landed(t) /\ queue[t] = <<s>>
    BY <1>1 DEF Durable, s
  <2>2. h = s /\ q = <<>>
    BY <2>1, QueueFacts DEF h, q
  <2> QED
    BY <1>3, <1>12, <2>1, <2>2 DEF Durable, s
\* An earlier opening's task that has its outcome on disk only gets it again.
<1>15. ASSUME ~outlived, unwritten[t] = "none", disk[t] \in Terminal
       PROVE  h = s /\ s \in Terminal /\ disk[t] = s
  <2>1. Mine(t) /\ ~Fresh(t)
    BY <1>15 DEF Mine, Fresh
  <2> QED
    BY <1>1, <1>2, <1>15, <2>1 DEF Landed, s, Terminal
<1>16. EarlierInv(t)'
  <2>1. ~outlived /\ owner[t] < gen /\ unwritten[t] = "none" /\ s \in Terminal => disk[t] = s
    BY <1>1 DEF TaskInv, EarlierInv, s
  <2>2. ~outlived /\ owner[t] < gen => s # "running"
    BY <1>1 DEF TaskInv, EarlierInv, s
  <2> QED
    BY <1>3, <1>5, <1>9, <1>15, <2>1, <2>2 DEF EarlierInv, s
<1>17. LoadingInv(t)'
  <2> SUFFICES ASSUME session = "loading", ~outlived, ghosts[t] # "none", unwritten'[t] = "none"
               PROVE  ghosts[t] = disk'[t]
    BY <1>1, <1>3 DEF TaskInv, LoadingInv
  <2>1. unwritten[t] = "none" /\ ghosts[t] = disk[t] /\ owner[t] < gen
    BY <1>1, <1>9 DEF TaskInv, LoadingInv
  <2>2. s \in Terminal /\ disk[t] = s
    BY <1>1, <1>2, <2>1 DEF TaskInv, EarlierInv, s
  <2> QED
    BY <1>5, <1>15, <2>1, <2>2
<1>18. UnwrittenInv(t)'
  <2> SUFFICES ASSUME unwritten'[t] # "none" PROVE UnwrittenInv(t)'
    BY DEF UnwrittenInv
  <2>1. unwritten'[t] = s /\ s \in Terminal
    BY <1>4, <1>5, <1>8 DEF Terminal
  <2>2. ASSUME ~outlived
        PROVE  /\ disk[t] \in {"none", "running", "lost", s}
               /\ session = "loading" => ghosts[t] \in {"none", "running", "lost", s}
    <3>1. CASE unwritten[t] # "none"
      BY <1>1, <1>8, <2>2, <3>1 DEF TaskInv, UnwrittenInv, Tales
    <3>2. CASE unwritten[t] = "none"
      <4>1. disk[t] \in {"none", "running", s}
        BY <1>15, <2>2, <3>2 DEF DiskInv, Shapes, Statuses
      <4> QED
        BY <1>1, <2>2, <3>2, <4>1 DEF TaskInv, LoadingInv
    <3> QED
      BY <3>1, <3>2
  <2>3. disk'[t] \in {disk[t], "running", s}
    BY <1>4, <1>5
  <2> QED
    BY <1>3, <2>1, <2>2, <2>3 DEF UnwrittenInv, Tales, s
<1>19. TaskInv(t)'
  BY <1>1, <1>3, <1>13, <1>14, <1>16, <1>17, <1>18 DEF TaskInv, AgainInv
<1>20. \A u \in Tasks \ {t} : TaskInv(u)'
  BY <1>3, <1>6, TaskFrame DEF DiskInv
<1>21. ReportInv'
  <2> SUFFICES ASSUME ~outlived, NEW k \in Reported PROVE True(k)'
    BY <1>3 DEF ReportInv, Reported
  <2>1. True(k) /\ k[1] \in Tasks /\ k[2] \in Terminal
    BY DEF DiskInv, ReportInv, Reported, Keys
  <2>2. CASE k[1] # t
    BY <1>6, <2>1, <2>2 DEF True
  <2>3. CASE k[1] = t /\ unwritten[t] # "none"
    BY <1>8, <1>9, <2>1, <2>3 DEF True
  <2>4. CASE k[1] = t /\ unwritten[t] = "none"
    <3>1. disk[t] = k[2]
      BY <2>1, <2>4 DEF True
    <3>2. h = s /\ disk[t] = s
      BY <1>15, <2>1, <2>4, <3>1
    <3> QED
      BY <1>5, <1>9, <2>4, <3>1, <3>2 DEF True
  <2> QED
    BY <2>2, <2>3, <2>4
<1> QED
  BY <1>7, <1>19, <1>20, <1>21 DEF DiskInv

\* An exit, or a completion, is noticed; the exit that follows a stop is written again.
LEMMA SettleKeeps ==
  ASSUME DiskInv, NEW t \in Tasks, SettleExit(t) \/ SettleAgent(t) \/ Deadline(t)
  PROVE  DiskInv'
<1> USE DEF SettleExit, SettleAgent, Deadline, Settled
<1>1. exitKnown' \in [Tasks -> BOOLEAN] /\ exitKnown'[t]
  BY DEF DiskInv, Shapes
<1>2. \A u \in Tasks : exitKnown[u] => exitKnown'[u]
  BY DEF DiskInv, Shapes
<1>3. UNCHANGED EndFrame /\ UNCHANGED stopping
  BY DEF EndFrame
<1>4. /\ ~exitKnown[t]
      /\ \/ /\ status[t] = "running" /\ UNCHANGED again
            /\ \E s \in Terminal : Finalize(t, s)
         \/ /\ status[t] = "killed" /\ UNCHANGED <<status, fin>>
            /\ queue' = [queue EXCEPT ![t] = Append(@, "killed")]
            /\ again' = [again EXCEPT ![t] = TRUE]
         \/ UNCHANGED <<status, fin, queue, again>>
  BY DEF Terminal
<1>5. stopping' \in [Tasks -> {"no", "term", "grace", "kill", "await", "fin"}]
  BY <1>3 DEF DiskInv, Shapes
<1>6. CASE status[t] = "running" /\ UNCHANGED again /\ \E s \in Terminal : Finalize(t, s)
  BY <1>1, <1>2, <1>3, <1>5, <1>6, FinalizeKeeps
<1>7. CASE /\ status[t] = "killed" /\ UNCHANGED <<status, fin>>
           /\ queue' = [queue EXCEPT ![t] = Append(@, "killed")]
           /\ again' = [again EXCEPT ![t] = TRUE]
  <2>1. ~again[t] /\ TaskInv(t) /\ "killed" \in Terminal
    BY <1>4 DEF DiskInv, Shapes, TaskInv, AgainInv, Terminal
  <2>2. again'[t] /\ queue'[t] = Append(queue[t], "killed")
    BY <1>7 DEF DiskInv, Shapes
  <2>3. \/ Fresh(t) /\ queue'[t] \in {<<"running", "killed", "killed">>,
                                      <<"killed", "killed">>}
        \/ Landed(t) /\ queue'[t] = <<"killed">>
    <3> DEFINE e == "killed"
    <3>1. \/ Fresh(t) /\ queue[t] \in {<<"running", e>>, <<e>>}
          \/ Landed(t) /\ queue[t] = <<>>
      BY <1>7, <2>1 DEF TaskInv, QueueInv
    <3>2. e \in Statuses /\ "running" \in Statuses
      BY DEF Statuses, Terminal
    <3>3. CASE Fresh(t) /\ queue[t] = <<"running", e>>
      <4>1. Append(<<"running", e>>, e) = <<"running", e, e>>
        BY ONLY <3>2, AppendFacts
      <4>2. queue'[t] = <<"running", e, e>>
        BY <2>2, <3>3, <4>1
      <4> QED
        BY <3>3, <4>2
    <3>4. CASE Fresh(t) /\ queue[t] = <<e>>
      BY <2>2, <3>2, <3>4, AppendFacts
    <3>5. CASE queue[t] = <<>> /\ Landed(t)
      BY <2>2, <3>2, <3>5, AppendFacts
    <3> QED
      BY <3>1, <3>3, <3>4, <3>5
  <2>4. QueueInv(t)'
    BY <1>3, <1>7, <2>1, <2>2, <2>3
    DEF QueueInv, EndFrame, Fresh, Landed, Mine, Terminal
  <2>5. Durable(t) => Durable(t)'
    <3> SUFFICES ASSUME Durable(t) PROVE Durable(t)'
      OBVIOUS
    <3>1. queue'[t] = <<"killed">>
      BY <1>7, <2>1, <2>2, AppendFacts DEF Durable, Statuses
    <3> QED
      BY <1>3, <1>7, <2>2, <3>1 DEF Durable, Landed, Mine, EndFrame
  <2>6. TaskInv(t)'
    BY <1>1, <1>3, <1>7, <2>1, <2>4, <2>5
    DEF TaskInv, AgainInv, DurableInv, EarlierInv, UnwrittenInv, Tales, LoadingInv, UnwrittenInv, Tales, EndFrame
  <2>7. \A u \in Tasks \ {t} : TaskInv(u)'
    BY <1>3, <1>7, TaskFrame DEF DiskInv, Shapes, EndFrame
  <2>8. Shapes'
    <3>1. queue' \in [Tasks -> Seq(Statuses)]
      BY <1>7 DEF DiskInv, Shapes, Statuses, Terminal
    <3>2. again' \in [Tasks -> BOOLEAN]
      BY <1>7 DEF DiskInv, Shapes
    <3> QED
      BY <1>1, <1>3, <1>7, <3>1, <3>2 DEF DiskInv, Shapes, EndFrame
  <2>9. ReportInv'
    BY <1>3, <2>8, ReportFrame DEF Reported, EndFrame
  <2> QED
    BY <2>6, <2>7, <2>8, <2>9 DEF DiskInv
<1>8. CASE UNCHANGED <<status, fin, queue, again>>
  <2>1. Shapes'
    BY <1>1, <1>3, <1>8 DEF DiskInv, Shapes, EndFrame
  <2>2. \A u \in Tasks : TaskInv(u)'
    <3> SUFFICES ASSUME NEW u \in Tasks PROVE TaskInv(u)'
      OBVIOUS
    <3> QED
      BY <1>2, <1>3, <1>8 DEF DiskInv, TaskInv, QueueInv, AgainInv, DurableInv, EarlierInv, UnwrittenInv, Tales,
         LoadingInv, Fresh, Landed, Durable, Mine, EndFrame
  <2>3. ReportInv'
    BY <1>3, <2>1, ReportFrame DEF Reported, EndFrame
  <2> QED
    BY <2>1, <2>2, <2>3 DEF DiskInv
<1> QED
  BY <1>4, <1>6, <1>7, <1>8

LEMMA PersistedKeeps ==
  ASSUME DiskInv, NEW t \in Tasks, Persisted(t)
  PROVE  DiskInv'
<1> USE DEF Persisted, fireTerminalCallbacks
<1>1. UNCHANGED <<session, gen, outlived, owner, status, exitKnown, queue, disk, unwritten, ghosts,
                  stopping, wire, steerBuffer>>
  OBVIOUS
<1>2. Shapes'
  <2>1. fin' \in [Tasks -> {"no", "persist", "drain", "retired"}]
    BY DEF DiskInv, Shapes
  <2>2. again' \in [Tasks -> BOOLEAN] /\ notifying' \in [Tasks -> BOOLEAN]
    BY ZenonT(30) DEF DiskInv, Shapes
  <2> QED
    BY <1>1, <2>1, <2>2 DEF DiskInv, Shapes
<1>3. TaskInv(t)'
  <2>1. TaskInv(t)
    BY DEF DiskInv
  <2>2. CASE fin[t] = "persist" /\ persisted(t) /\ UNCHANGED again
    <3>1. Durable(t)'
      BY <1>1, <2>2, PersistedDurable DEF Durable, Landed, Mine
    <3> QED
      BY <1>1, <2>1, <2>2, <3>1 DEF TaskInv, QueueInv, AgainInv, DurableInv, EarlierInv, UnwrittenInv, Tales,
         LoadingInv, Fresh, Landed, Mine
  <2>3. CASE again[t] /\ queue[t] = <<>> /\ again' = [again EXCEPT ![t] = FALSE]
    <3>1. status[t] \in Terminal /\ Landed(t) /\ ~again'[t]
      BY <2>1, <2>3 DEF DiskInv, Shapes, TaskInv, AgainInv, QueueInv, Terminal
    <3>2. Durable(t)' /\ QueueInv(t)'
      BY <1>1, <2>3, <3>1 DEF Durable, QueueInv, Landed, Mine, Terminal
    <3> QED
      BY <1>1, <2>1, <3>1, <3>2 DEF TaskInv, AgainInv, DurableInv, EarlierInv, UnwrittenInv, Tales, LoadingInv, UnwrittenInv, Tales
  <2> QED
    BY <2>2, <2>3
<1>4. \A u \in Tasks \ {t} : TaskInv(u)'
  <2> SUFFICES ASSUME NEW u \in Tasks \ {t} PROVE TaskInv(u)'
    OBVIOUS
  <2>1. UNCHANGED <<fin[u], again[u], notifying[u]>>
    BY DEF DiskInv, Shapes
  <2> QED
    BY <1>1, <2>1, TaskFrame DEF DiskInv
<1>5. ReportInv'
  BY <1>1, <1>2, ReportFrame DEF Reported
<1> QED
  BY <1>2, <1>3, <1>4, <1>5 DEF DiskInv

\* What is reported once its file says so.
LEMMA ReportsKeep ==
  ASSUME DiskInv, UNCHANGED <<outlived, disk, unwritten>>, NEW k \in Keys,
         ~outlived => True(k), Reported' \subseteq Reported \cup {k}
  PROVE  ReportInv'
  BY DEF DiskInv, ReportInv, True

LEMMA NotifyKeeps ==
  ASSUME DiskInv, NEW t \in Tasks, NotifyBuilt(t)
  PROVE  DiskInv'
<1> USE DEF NotifyBuilt, notifyBuilt, Steer, AppendNotes, key
<1>1. Durable(t) /\ key(t) \in Keys
  BY DEF DiskInv, TaskInv, DurableInv, Durable, Keys
<1>2. UNCHANGED <<session, gen, outlived, owner, status, exitKnown, queue, disk, unwritten, ghosts,
                  stopping, fin, again>>
  OBVIOUS
<1>3. /\ wire' \in [Keys -> Nat] /\ steerBuffer' \subseteq Keys
      /\ Reported' \subseteq Reported \cup {key(t)}
  <2>1. wire \in [Keys -> Nat] /\ steerBuffer \subseteq Keys
    BY DEF DiskInv, Shapes
  <2> QED
    BY <1>1, <2>1 DEF Reported
<1>4. notifying' \in [Tasks -> BOOLEAN] /\ \A u \in Tasks : notifying'[u] => notifying[u]
  BY DEF DiskInv, Shapes
<1>5. Shapes'
  BY <1>2, <1>3, <1>4 DEF DiskInv, Shapes
<1>6. \A u \in Tasks : TaskInv(u)'
  BY <1>2, <1>4 DEF DiskInv, TaskInv, QueueInv, AgainInv, DurableInv, EarlierInv, UnwrittenInv, Tales, LoadingInv, UnwrittenInv, Tales,
     Fresh, Landed, Durable, Mine
<1>7. ~outlived => True(key(t))
  BY <1>1 DEF DiskInv, TaskInv, UnwrittenInv, Durable, Landed, Mine, True, Terminal
<1>8. ReportInv'
  BY <1>1, <1>2, <1>3, <1>7, ReportsKeep
<1> QED
  BY <1>5, <1>6, <1>8 DEF DiskInv

LEMMA RestoreKeeps ==
  ASSUME DiskInv, NEW t \in Tasks, RestoreNotification(t)
  PROVE  DiskInv'
<1> USE DEF RestoreNotification, AppendNotes
<1> DEFINE k == <<t, ghosts[t]>>
<1>1. k \in Keys /\ (~outlived => True(k))
  <2>1. ghosts[t] \in Terminal /\ TaskInv(t)
    BY DEF DiskInv, Shapes, Statuses
  <2> QED
    BY <2>1 DEF TaskInv, LoadingInv, UnwrittenInv, Tales, Keys, True, Terminal
<1>2. UNCHANGED <<session, gen, outlived, owner, status, exitKnown, queue, disk, unwritten,
                  stopping, fin, again, notifying, steerBuffer>>
  OBVIOUS
<1>3. ghosts' = [ghosts EXCEPT ![t] = "none"] /\ ghosts' \in [Tasks -> Statuses]
  BY DEF DiskInv, Shapes, Statuses
<1>4. wire' \in [Keys -> Nat] /\ Reported' \subseteq Reported \cup {k}
  <2>1. wire \in [Keys -> Nat]
    BY DEF DiskInv, Shapes
  <2> QED
    BY <1>1, <1>2, <2>1 DEF Reported
<1>5. Shapes'
  BY <1>2, <1>3, <1>4 DEF DiskInv, Shapes
<1>6. \A u \in Tasks : ghosts'[u] \in {ghosts[u], "none"}
  BY <1>3 DEF DiskInv, Shapes
<1>7. \A u \in Tasks : TaskInv(u)'
  BY <1>2, <1>6 DEF DiskInv, TaskInv, QueueInv, AgainInv, DurableInv, EarlierInv, UnwrittenInv, Tales, LoadingInv, UnwrittenInv, Tales,
     Fresh, Landed, Durable, Mine
<1>8. ReportInv'
  BY <1>1, <1>2, <1>4, <1>5, ReportsKeep
<1> QED
  BY <1>5, <1>7, <1>8 DEF DiskInv

\* Reopening marks the tasks that were on disk as running.
LEMMA MarkLostKeeps ==
  ASSUME DiskInv, NEW t \in Tasks, MarkLost(t)
  PROVE  DiskInv'
<1> USE DEF MarkLost
<1>1. UNCHANGED <<session, gen, outlived, owner, status, exitKnown, queue, unwritten, stopping,
                  fin, again, notifying, steerBuffer, wire>>
  OBVIOUS
<1>2. TaskInv(t) /\ session = "loading" /\ owner[t] < gen
  BY DEF DiskInv, TaskInv, LoadingInv
<1>3. disk'[t] = "lost" /\ ghosts'[t] = "lost" /\ Shapes'
  <2>1. disk' \in [Tasks -> Statuses] /\ ghosts' \in [Tasks -> Statuses]
    BY DEF DiskInv, Shapes, Statuses, Terminal
  <2> QED
    BY <1>1, <2>1 DEF DiskInv, Shapes
<1>4. ~outlived /\ unwritten[t] = "none" => disk[t] = "running" /\ status[t] = "none"
  <2>1. ghosts[t] = "running" /\ status[t] \in Statuses
    BY DEF DiskInv, Shapes
  <2> QED
    BY <1>2, <2>1 DEF TaskInv, LoadingInv, EarlierInv, Statuses, Terminal
<1>5. TaskInv(t)'
  <2>1. UnwrittenInv(t)' /\ LoadingInv(t)'
    BY <1>1, <1>2, <1>3 DEF TaskInv, UnwrittenInv, Tales, LoadingInv
  <2>2. CASE outlived \/ unwritten[t] # "none"
    <3>1. ~Mine(t)
      BY <1>2, <2>2 DEF Mine, DiskInv, Shapes
    <3> QED
      BY <1>1, <1>2, <2>1, <2>2, <3>1 DEF TaskInv, QueueInv, AgainInv, DurableInv, EarlierInv,
         Fresh, Landed, Durable, Mine
  <2>3. CASE ~outlived /\ unwritten[t] = "none"
    BY <1>1, <1>2, <1>3, <1>4, <2>1, <2>3 DEF TaskInv, QueueInv, AgainInv, DurableInv, EarlierInv,
       Durable, Terminal
  <2> QED
    BY <2>2, <2>3
<1>6. \A u \in Tasks \ {t} : TaskInv(u)'
  BY TaskFrame DEF DiskInv, Shapes
<1>7. ReportInv'
  <2> SUFFICES ASSUME ~outlived, NEW k \in Reported PROVE True(k)'
    BY <1>1 DEF ReportInv, Reported
  <2>1. True(k) /\ k[1] \in Tasks /\ k[2] \in Terminal
    BY DEF DiskInv, ReportInv, Reported, Keys
  <2>2. CASE unwritten[k[1]] # "none"
    BY <1>1, <2>1, <2>2 DEF True
  <2>3. CASE unwritten[k[1]] = "none"
    <3>1. k[1] # t
      BY <1>4, <2>1, <2>3 DEF True, Terminal
    <3> QED
      BY <1>1, <2>1, <2>3, <3>1 DEF True, DiskInv, Shapes
  <2> QED
    BY <2>2, <2>3
<1> QED
  BY <1>3, <1>5, <1>6, <1>7 DEF DiskInv

\* An opening that fails leaves the files to the next.
LEMMA MarkLostFailsKeeps ==
  ASSUME DiskInv, NEW t \in Tasks, MarkLostFails(t)
  PROVE  DiskInv'
<1> USE DEF MarkLostFails
<1>1. UNCHANGED <<gen, outlived, owner, status, exitKnown, queue, disk, unwritten, stopping,
                  fin, again, notifying, steerBuffer, wire>> /\ session' = "closed"
  OBVIOUS
<1>2. Shapes'
  <2>1. ghosts' \in [Tasks -> Statuses]
    BY DEF Statuses
  <2> QED
    BY <1>1, <2>1 DEF DiskInv, Shapes
<1>3. ASSUME NEW u \in Tasks PROVE TaskInv(u)'
  <2>1. TaskInv(u)
    BY DEF DiskInv
  <2> QED
    BY <1>1, <2>1 DEF TaskInv, QueueInv, AgainInv, DurableInv, EarlierInv, LoadingInv,
       UnwrittenInv, Tales, Fresh, Landed, Durable, Mine
<1>4. ReportInv'
  BY <1>1, ReportFrame DEF Reported
<1> QED
  BY <1>2, <1>3, <1>4 DEF DiskInv

\* A new opening: of the earlier ones nothing waits, or outlived says so.
LEMMA OpenKeeps == ASSUME DiskInv, Open PROVE DiskInv'
<1> USE DEF Open
<1>1. UNCHANGED <<owner, status, exitKnown, queue, disk, unwritten, stopping, fin, again, notifying,
                  wire>>
  OBVIOUS
<1>2. Shapes'
  BY <1>1 DEF DiskInv, Shapes
<1>3. ~outlived' => ~outlived /\ \A t \in Tasks : status[t] # "running" /\ queue[t] = <<>>
  OBVIOUS
<1>4. ASSUME NEW t \in Tasks PROVE TaskInv(t)'
  <2>1. TaskInv(t) /\ owner[t] < gen' /\ gen' = gen + 1
    BY DEF DiskInv, Shapes, TaskInv
  <2>2. Mine(t)' => Mine(t) /\ ~outlived'
    BY <1>1, <2>1 DEF DiskInv, Shapes, Mine
  <2>3. ~outlived' /\ status[t] \in Terminal /\ unwritten[t] = "none" => disk[t] = status[t]
    <3> SUFFICES ASSUME ~outlived', status[t] \in Terminal, unwritten[t] = "none"
                 PROVE  disk[t] = status[t]
      OBVIOUS
    <3>1. queue[t] = <<>> /\ Mine(t)
      BY <1>3 DEF Mine
    <3>2. Landed(t)
      BY <2>1, <3>1, QueueFacts DEF TaskInv, QueueInv
    <3> QED
      BY <3>1, <3>2 DEF Landed, Terminal
  <2>4. QueueInv(t)' /\ DurableInv(t)'
    BY <1>1, <2>1, <2>2 DEF TaskInv, QueueInv, DurableInv, Durable, Fresh, Landed
  <2> QED
    BY <1>1, <1>3, <2>1, <2>3, <2>4
    DEF TaskInv, AgainInv, EarlierInv, UnwrittenInv, Tales, LoadingInv, UnwrittenInv, Tales, DiskInv, Shapes
<1>5. ReportInv'
  BY <1>1, <1>3 DEF DiskInv, ReportInv, Reported, True
<1> QED
  BY <1>2, <1>4, <1>5 DEF DiskInv

LEMMA CrashKeeps == ASSUME DiskInv, Crash PROVE DiskInv'
<1> USE DEF Crash
<1>1. Shapes'
  <2>1. /\ again' \in [Tasks -> BOOLEAN] /\ exitKnown' \in [Tasks -> BOOLEAN]
        /\ notifying' \in [Tasks -> BOOLEAN]
    BY Zenon
  <2>2. queue' \in [Tasks -> Seq(Statuses)] /\ owner' \in [Tasks -> Nat]
    OBVIOUS
  <2>3. status' \in [Tasks -> Statuses] /\ ghosts' \in [Tasks -> Statuses]
    BY DEF Statuses
  <2>4. /\ fin' \in [Tasks -> {"no", "persist", "drain", "retired"}]
        /\ stopping' \in [Tasks -> {"no", "term", "grace", "kill", "await", "fin"}]
    OBVIOUS
  <2>5. steerBuffer' \subseteq Keys
    OBVIOUS
  <2> QED
    BY <2>1, <2>2, <2>3, <2>4, <2>5 DEF DiskInv, Shapes
<1>2. \A t \in Tasks : TaskInv(t)'
  BY DEF DiskInv, Shapes, TaskInv, QueueInv, AgainInv, DurableInv, EarlierInv, UnwrittenInv, Tales, LoadingInv, UnwrittenInv, Tales,
     Terminal
<1>3. ReportInv'
  BY DEF DiskInv, ReportInv, Reported, True
<1> QED
  BY <1>1, <1>2, <1>3 DEF DiskInv

\* Steps that touch nothing the invariant is about, but which stop goes on and that the
\* session closes or is open.
LEMMA SilentKeeps ==
  ASSUME DiskInv, session' \in {session, "open", "closing", "closed"},
         stopping' \in [Tasks -> {"no", "term", "grace", "kill", "await", "fin"}],
         UNCHANGED <<gen, outlived, owner, status, exitKnown, queue, disk, unwritten, ghosts,
                     fin, again, notifying, wire, steerBuffer>>
  PROVE  DiskInv'
<1>1. Shapes'
  BY DEF DiskInv, Shapes
<1>2. \A t \in Tasks : TaskInv(t)'
  BY TaskFrame DEF DiskInv
<1>3. ReportInv'
  BY <1>1, ReportFrame DEF Reported
<1> QED
  BY <1>1, <1>2, <1>3 DEF DiskInv

LEMMA RetireKeeps == ASSUME DiskInv, NEW t \in Tasks, Retire(t) PROVE DiskInv'
<1> USE DEF Retire
<1>1. Shapes' /\ fin[t] = "drain" /\ \A u \in Tasks \ {t} : fin'[u] = fin[u]
  BY DEF DiskInv, Shapes
<1>2. \A u \in Tasks : TaskInv(u)'
  BY <1>1 DEF DiskInv, TaskInv, QueueInv, AgainInv, DurableInv, EarlierInv, UnwrittenInv, Tales, LoadingInv, UnwrittenInv, Tales,
     Fresh, Landed, Durable, Mine
<1>3. ReportInv'
  BY <1>1, ReportFrame DEF Reported
<1> QED
  BY <1>1, <1>2, <1>3 DEF DiskInv

LEMMA StopKeeps ==
  ASSUME DiskInv, NEW t \in Tasks, Stop(t) \/ StopContinues(t) \/ StopReturns(t)
  PROVE  DiskInv'
<1>1. stopping' \in [Tasks -> {"no", "term", "grace", "kill", "await", "fin"}]
  <2>1. CASE Stop(t)
    BY <2>1 DEF DiskInv, Shapes, Stop, BeginStop
  <2>2. CASE StopContinues(t) \/ StopReturns(t)
    BY <2>2 DEF DiskInv, Shapes, StopContinues, StopReturns
  <2> QED
    BY <2>1, <2>2
<1>2. CASE StopContinues(t) /\ Finalize(t, "killed")
  <2>1. status[t] = "running" /\ UNCHANGED EndFrame /\ UNCHANGED <<again, exitKnown>>
    BY <1>2 DEF StopContinues, Finalize, EndFrame, DiskInv, Shapes, Terminal
  <2> QED
    BY <1>1, <1>2, <2>1, FinalizeKeeps DEF DiskInv, Shapes, Terminal
<1>3. CASE UNCHANGED <<status, fin, queue>>
  BY <1>1, <1>3, SilentKeeps DEF Stop, StopContinues, StopReturns
<1> QED
  BY <1>2, <1>3 DEF Stop, StopContinues, StopReturns

LEMMA DiskStep == DiskInv /\ [Next]_vars => DiskInv'
<1> SUFFICES ASSUME DiskInv, [Next]_vars PROVE DiskInv'
  OBVIOUS
<1>1. CASE UserPrompt \/ ToolExchangeOpens \/ ToolExchangeCloses \/ TurnEnds
  BY <1>1, TurnKeeps
<1>2. CASE Reserve \/ Release \/ Closed \/ Opened \/ UNCHANGED vars
  BY <1>2, SilentKeeps DEF DiskInv, Shapes, Reserve, Release, Closed, Opened, vars
<1>3. CASE Close
  <2>1. stopping' \in [Tasks -> {"no", "term", "grace", "kill", "await", "fin"}]
    BY <1>3 DEF DiskInv, Shapes, Close, BeginStop
  <2> QED
    BY <1>3, <2>1, SilentKeeps DEF Close
<1>4. ASSUME NEW t \in Tasks, ProcExits(t) PROVE DiskInv'
  BY <1>4, SilentKeeps DEF DiskInv, Shapes, ProcExits
<1> QED
  BY <1>1, <1>2, <1>3, <1>4, RegisterKeepsDisk, SettleKeeps, PersistKeeps, PersistedKeeps,
     RetireKeeps, NotifyKeeps, StopKeeps, MarkLostKeeps, MarkLostFailsKeeps,
     RestoreKeeps, OpenKeeps, CrashKeeps
  DEF Next, TaskStep

\* A task is reported with one outcome (fireTerminalCallbacks, after its terminal record is
\* written), whatever crashes and reopenings come between; where that write failed, which
\* persistLive keeps to itself, the one other outcome is "lost".
THEOREM OneOutcomeAlways == Spec => []OneOutcomeReported
<1>1. DiskInv => OneOutcomeReported
  <2> SUFFICES ASSUME DiskInv, ~outlived, NEW k1 \in Keys, NEW k2 \in Keys,
                      k1[1] = k2[1], k1 # k2, wire[k1] > 0, wire[k2] > 0
               PROVE  {k1[2], k2[2]} = {unwritten[k1[1]], "lost"}
    BY DEF OneOutcomeReported
  <2>1. True(k1) /\ True(k2)
    BY DEF DiskInv, ReportInv, Reported
  <2>2. k1[2] # k2[2]
    BY DEF Keys
  <2> QED
    BY <2>1, <2>2 DEF True
<1> QED
  BY DiskInit, DiskStep, <1>1, PTL DEF Spec

\* When stop() returns, the task has ended and its file says so, or the write of this end has
\* been tried and failed.
THEOREM StopReturnsDurable == Spec => StopMeansDisk
<1> DEFINE Done == \A t \in {u \in Tasks : owner[u] = gen} :
                     stopping[t] # "no" /\ stopping'[t] = "no" /\ status'[t] # "none"
                     => /\ status[t] \in Terminal
                        /\ disk[t] = status[t] \/
                             (unwritten[t] = status[t] /\ disk[t] \notin Terminal)
<1>1. DiskInv /\ [Next]_vars => [Done]_vars
  <2> SUFFICES ASSUME DiskInv, Next, NEW t \in Tasks, owner[t] = gen, stopping[t] # "no",
                      stopping'[t] = "no", status'[t] # "none"
               PROVE  Durable(t)
    BY DEF Durable, Landed, Mine
  <2>1. StopReturns(t)
    <3>1. CASE UserPrompt \/ ToolExchangeOpens \/ ToolExchangeCloses \/ TurnEnds
      BY <3>1 DEF UserPrompt, ToolExchangeOpens, ToolExchangeCloses, TurnEnds
    <3>2. CASE Reserve \/ Release \/ Closed \/ Opened \/ Open \/ Crash
      BY <3>2 DEF Reserve, Release, Closed, Opened, Open, Crash
    <3>3. CASE Close
      BY <3>3 DEF Close, BeginStop
    <3>4. ASSUME NEW u \in Tasks,
                 \/ Register(u) \/ ProcExits(u) \/ SettleExit(u) \/ SettleAgent(u)
                 \/ Deadline(u) \/ PersistWrites(u) \/ Persisted(u) \/ Retire(u)
                 \/ NotifyBuilt(u) \/ MarkLost(u) \/ MarkLostFails(u)
                 \/ RestoreNotification(u)
          PROVE  FALSE
      BY <3>4 DEF Register, ProcExits, SettleExit, SettleAgent, Deadline, Settled,
         PersistWrites, Persisted, Retire, NotifyBuilt, MarkLost, MarkLostFails,
         RestoreNotification
    <3>5. ASSUME NEW u \in Tasks, Stop(u) PROVE FALSE
      BY <3>5 DEF Stop, BeginStop
    <3>6. ASSUME NEW u \in Tasks, StopContinues(u) \/ StopReturns(u), u # t PROVE FALSE
      BY <3>6 DEF StopContinues, StopReturns, DiskInv, Shapes
    <3>7. ~StopContinues(t)
      BY DEF StopContinues, DiskInv, Shapes
    <3> QED
      BY <3>1, <3>2, <3>3, <3>4, <3>5, <3>6, <3>7 DEF Next, TaskStep
  <2> QED
    BY <2>1, PersistedDurable
    DEF StopReturns, stopDone, DiskInv, TaskInv, DurableInv
<1> QED
  BY DiskInit, DiskStep, <1>1, PTL DEF Spec, StopMeansDisk
-----------------------------------------------------------------------------
(* Who was told *)

\* Nothing was, or is about to be, reported of t.
Untold(t) == \A s \in Terminal : wire[<<t, s>>] = 0 /\ <<t, s>> \notin steerBuffer

\* A manager notifies once of a task of its own, which no earlier opening can know; the buffer
\* holds what the log has not; what the log has is marked, or held back by an exchange.
TaskTold(t) ==
  /\ notifying[t] => fired[t]
  /\ ghosts[t] # "none" => disk[t] # "none"
  /\ disk[t] = "none" /\ unwritten[t] = "none" => Untold(t)
  /\ owner[t] = gen /\ (~fired[t] \/ notifying[t]) => Untold(t)

ToldInv ==
  /\ fired \in [Tasks -> BOOLEAN]
  /\ \A t \in Tasks : TaskTold(t)
  /\ \A k \in steerBuffer : wire[k] = 0
  /\ session = "loading" => steerBuffer = {}
  /\ session # "closed" => \A k \in Keys : wire[k] > 0 => k \in delivered \cup deferred

LEMMA ToldInit == Init => ToldInv
  BY DEF Init, ToldInv, TaskTold, Untold, Keys

\* A task that has a file keeps it; a write that failed is not forgotten.
LEMMA FileStays ==
  ASSUME DiskInv, Next, NEW t \in Tasks
  PROVE  /\ disk[t] # "none" => disk'[t] # "none"
         /\ unwritten[t] # "none" => unwritten'[t] # "none"
<1>1. CASE \E u \in Tasks : PersistWrites(u)
  <2> PICK u \in Tasks : PersistWrites(u)
    BY <1>1
  <2>1. Head(queue[u]) # "none"
    BY QueueHead DEF PersistWrites, Terminal
  <2> QED
    BY <2>1 DEF PersistWrites, DiskInv, Shapes, Terminal
<1>2. CASE \E u \in Tasks : MarkLost(u)
  BY <1>2 DEF MarkLost, DiskInv, Shapes
<1>3. CASE UNCHANGED <<disk, unwritten>>
  BY <1>3
<1>4. (\E u \in Tasks : PersistWrites(u) \/ MarkLost(u)) \/ UNCHANGED <<disk, unwritten>>
  BY ZenonT(30) DEF Next, TaskStep, UserPrompt, ToolExchangeOpens, ToolExchangeCloses, TurnEnds, Reserve,
     Release, Register, ProcExits, SettleExit, SettleAgent, Deadline, Settled, Persisted,
     Retire, NotifyBuilt, Stop, StopContinues, StopReturns, MarkLostFails, RestoreNotification,
     Close, Closed, Open, Opened, Crash, others, stopOthers
<1> QED
  BY <1>1, <1>2, <1>3, <1>4

\* A step that tells nobody, and lets no other task be told again.
LEMMA QuietKeeps ==
  ASSUME DiskInv, ToldInv, fired' \in [Tasks -> BOOLEAN],
         \A t \in Tasks :
           /\ fired[t] => fired'[t]
           /\ notifying'[t] = notifying[t]
           /\ ghosts'[t] # "none" => ghosts[t] # "none"
           /\ disk[t] # "none" => disk'[t] # "none"
           /\ unwritten[t] # "none" => unwritten'[t] # "none"
           /\ owner'[t] = owner[t],
         UNCHANGED <<gen, wire, steerBuffer>>,
         delivered \cup deferred \subseteq delivered' \cup deferred',
         session' # "loading" \/ session = "loading",
         session' # "closed" => session # "closed"
  PROVE  ToldInv'
<1>1. \A t \in Tasks : TaskTold(t)'
  BY DEF ToldInv, TaskTold, Untold
<1> QED
  BY <1>1 DEF ToldInv

\* What waits in the buffer comes to the log.
LEMMA BufferLands ==
  ASSUME DiskInv, ToldInv, UserPrompt \/ ToolExchangeCloses
  PROVE  ToldInv'
<1>1. /\ UNCHANGED <<session, gen, owner, fired, disk, unwritten, ghosts, notifying>>
      /\ steerBuffer' = {} /\ session = "open"
      /\ \A k \in Keys : wire'[k] = IF k \in steerBuffer THEN wire[k] + 1 ELSE wire[k]
      /\ delivered' \cup deferred' = delivered \cup deferred \cup steerBuffer
  BY DEF UserPrompt, ToolExchangeCloses, AppendNotes, others, taskVars
<1>2. \A t \in Tasks : Untold(t) => Untold(t)'
  BY <1>1 DEF Untold, Keys
<1>3. \A t \in Tasks : TaskTold(t)'
  BY <1>1, <1>2 DEF ToldInv, TaskTold
<1>4. \A k \in Keys : wire'[k] > 0 => k \in delivered' \cup deferred'
  BY <1>1 DEF ToldInv, DiskInv, Shapes
<1> QED
  BY <1>1, <1>3, <1>4 DEF ToldInv

LEMMA RegisterTells ==
  ASSUME DiskInv, ToldInv, NEW t \in Tasks, Register(t)
  PROVE  ToldInv'
<1>1. /\ UNCHANGED <<session, gen, fired, disk, unwritten, ghosts, notifying, wire, steerBuffer, delivered,
                     deferred>>
      /\ disk[t] = "none" /\ unwritten[t] = "none" /\ \A u \in Tasks \ {t} : owner'[u] = owner[u]
  BY DEF Register, noteVars, DiskInv, Shapes
<1>2. \A u \in Tasks : TaskTold(u)'
  BY <1>1 DEF ToldInv, TaskTold, Untold
<1> QED
  BY <1>1, <1>2 DEF ToldInv

LEMMA PersistedTells ==
  ASSUME DiskInv, ToldInv, NEW t \in Tasks, Persisted(t)
  PROVE  ToldInv'
<1>1. /\ UNCHANGED <<session, gen, owner, disk, unwritten, ghosts, wire, steerBuffer, delivered, deferred>>
      /\ fired' = [fired EXCEPT ![t] = TRUE]
      /\ \/ UNCHANGED notifying
         \/ ~fired[t] /\ owner[t] = gen /\ notifying' = [notifying EXCEPT ![t] = TRUE]
  BY DEF Persisted, fireTerminalCallbacks, closed, settled
<1>2. \A u \in Tasks : TaskTold(u)'
  BY <1>1 DEF ToldInv, TaskTold, Untold, DiskInv, Shapes
<1> QED
  BY <1>1, <1>2 DEF ToldInv

\* What a notification that reaches the agent finds.
LEMMA NotifyFinds ==
  ASSUME DiskInv, ToldInv, NEW t \in Tasks, NotifyBuilt(t)
  PROVE  /\ key(t) \in Keys
         /\ closed(t) \/ (~(disk[t] = "none" /\ unwritten[t] = "none") /\ wire[key(t)] = 0)
<1>1. Durable(t)
  BY DEF DiskInv, TaskInv, DurableInv, NotifyBuilt
<1>2. key(t) \in Keys
  BY <1>1 DEF key, Keys, Durable
<1>3. CASE ~closed(t)
  <2>1. owner[t] = gen /\ status[t] \in {disk[t], unwritten[t]} /\ Untold(t)
    BY <1>1, <1>3 DEF closed, Durable, Landed, Mine, ToldInv, TaskTold, NotifyBuilt
  <2> QED
    BY <1>1, <1>2, <2>1 DEF Untold, key, Durable, Terminal
<1> QED
  BY <1>2, <1>3

LEMMA NotifyTells ==
  ASSUME DiskInv, ToldInv, NEW t \in Tasks, NotifyBuilt(t)
  PROVE  ToldInv'
<1>1. /\ UNCHANGED <<session, gen, owner, fired, disk, unwritten, ghosts>>
      /\ notifying' = [notifying EXCEPT ![t] = FALSE]
  BY DEF NotifyBuilt, taskVars
<1>2. CASE UNCHANGED <<wire, steerBuffer, delivered, deferred>>
  <2>1. \A u \in Tasks : TaskTold(u)'
    BY <1>1, <1>2 DEF ToldInv, TaskTold, Untold, DiskInv, Shapes, NotifyBuilt
  <2> QED
    BY <1>1, <1>2, <2>1 DEF ToldInv
<1>3. CASE ~closed(t) /\ Steer(key(t))
  <2>1. /\ key(t) \in Keys /\ ~(disk[t] = "none" /\ unwritten[t] = "none")
        /\ wire[key(t)] = 0 /\ key(t)[1] = t
        /\ session = "open" /\ fired[t] /\ notifying[t]
    BY <1>3, NotifyFinds DEF closed, key, ToldInv, TaskTold, NotifyBuilt
  <2>2. /\ steerBuffer' \subseteq steerBuffer \cup {key(t)}
        /\ \A k \in Keys \ (steerBuffer \cup {key(t)}) : wire'[k] = wire[k]
    BY <1>3 DEF Steer, AppendNotes
  <2>3. \A u \in Tasks \ {t} : Untold(u) => Untold(u)'
    BY <2>1, <2>2 DEF Untold, Keys
  <2>4. \A u \in Tasks : TaskTold(u)'
    BY <1>1, <2>1, <2>3 DEF ToldInv, TaskTold, DiskInv, Shapes
  <2>5. CASE turn
    BY <1>1, <1>3, <2>1, <2>4, <2>5 DEF ToldInv, Steer
  <2>6. CASE ~turn
    <3>1. /\ steerBuffer' = {}
          /\ delivered' \cup deferred' = delivered \cup deferred \cup steerBuffer \cup {key(t)}
      BY <1>3, <2>6 DEF Steer, AppendNotes
    <3>2. \A k \in Keys : wire'[k] > 0 => k \in delivered' \cup deferred'
      BY <2>1, <2>2, <3>1 DEF ToldInv
    <3> QED
      BY <1>1, <2>1, <2>4, <3>1, <3>2 DEF ToldInv
  <2> QED
    BY <2>5, <2>6
<1> QED
  BY <1>2, <1>3 DEF NotifyBuilt, notifyBuilt, noteVars

LEMMA RestoreTells ==
  ASSUME DiskInv, ToldInv, NEW t \in Tasks, RestoreNotification(t)
  PROVE  ToldInv'
<1> DEFINE k == <<t, ghosts[t]>>
<1>1. /\ UNCHANGED <<session, gen, owner, fired, disk, unwritten, notifying, steerBuffer>>
      /\ session = "loading" /\ steerBuffer = {} /\ disk[t] # "none"
      /\ \A u \in Tasks : ghosts'[u] # "none" => ghosts[u] # "none"
      /\ \A u \in Tasks : owner[u] # gen
  BY DEF RestoreNotification, taskVars, ToldInv, TaskTold, DiskInv, Shapes, TaskInv, LoadingInv
<1>2. \/ UNCHANGED <<delivered, deferred, wire>>
      \/ /\ \A j \in Keys \ {k} : wire'[j] = wire[j]
         /\ delivered' \cup deferred' = delivered \cup deferred \cup {k}
  BY DEF RestoreNotification, AppendNotes
<1>3. \A u \in Tasks \ {t} : Untold(u) => Untold(u)'
  BY <1>1, <1>2 DEF Untold, Keys
<1>4. \A u \in Tasks : TaskTold(u)'
  BY <1>1, <1>3 DEF ToldInv, TaskTold
<1>5. \A j \in Keys : wire'[j] > 0 => j \in delivered' \cup deferred'
  BY <1>1, <1>2 DEF ToldInv
<1> QED
  BY <1>1, <1>4, <1>5 DEF ToldInv

LEMMA OpenTells == ASSUME DiskInv, ToldInv, Open PROVE ToldInv'
<1> USE DEF Open
<1>1. \A t \in Tasks : owner'[t] # gen'
  BY DEF DiskInv, Shapes, TaskInv
<1>2. \A t \in Tasks : TaskTold(t)'
  BY <1>1 DEF ToldInv, TaskTold, Untold
<1>3. \A k \in Keys : wire'[k] > 0 => k \in delivered' \cup deferred'
  BY DEF replayedMarks
<1> QED
  BY <1>2, <1>3 DEF ToldInv

LEMMA CrashTells == ASSUME DiskInv, ToldInv, Crash PROVE ToldInv'
<1> USE DEF Crash
<1>1. \A t \in Tasks : TaskTold(t)'
  BY DEF ToldInv, TaskTold, Untold, DiskInv, Shapes
<1> QED
  BY <1>1 DEF ToldInv

LEMMA ToldStep == DiskInv /\ ToldInv /\ [Next]_vars => ToldInv'
<1> SUFFICES ASSUME DiskInv, ToldInv, [Next]_vars PROVE ToldInv'
  OBVIOUS
<1>1. CASE UserPrompt \/ ToolExchangeCloses
  BY <1>1, BufferLands
<1>2. CASE \/ ToolExchangeOpens \/ TurnEnds \/ Reserve \/ Release \/ Close \/ Closed \/ Opened
           \/ UNCHANGED vars
  BY <1>2, QuietKeeps DEF ToldInv, ToolExchangeOpens, TurnEnds, Reserve, Release, Close, Closed,
     Opened, others, taskVars, noteVars, settled, vars
<1>3. ASSUME NEW t \in Tasks,
             \/ ProcExits(t) \/ SettleExit(t) \/ SettleAgent(t) \/ Deadline(t) \/ Retire(t)
             \/ Stop(t) \/ StopContinues(t) \/ StopReturns(t)
      PROVE  ToldInv'
  BY <1>3, QuietKeeps DEF ToldInv, ProcExits, SettleExit, SettleAgent, Deadline, Settled, Retire,
     Stop, StopContinues, StopReturns, stopOthers, settled, noteVars
<1>4. ASSUME NEW t \in Tasks, PersistWrites(t) \/ MarkLost(t) \/ MarkLostFails(t) PROVE ToldInv'
  <2>1. \A u \in Tasks : /\ disk[u] # "none" => disk'[u] # "none"
                         /\ unwritten[u] # "none" => unwritten'[u] # "none"
    BY <1>4, FileStays DEF Next, TaskStep
  <2> QED
    BY <1>4, <2>1, QuietKeeps DEF ToldInv, PersistWrites, MarkLost, MarkLostFails, taskVars,
       noteVars, DiskInv, Shapes
<1> QED
  BY <1>1, <1>2, <1>3, <1>4, RegisterTells, PersistedTells, NotifyTells, RestoreTells, OpenTells,
     CrashTells
  DEF Next, TaskStep

\* No notification the history holds is added again (notifyBackgroundTask, and the reconcile of
\* a session that opens), but one that an open exchange holds back.
THEOREM NeverToldTwice == Spec => DeliveredNeverAgain
<1> DEFINE Once == \A k \in Keys : wire'[k] > wire[k] => wire[k] = 0 \/ k \in deferred
<1>1. DiskInv /\ ToldInv /\ [Next]_vars => [Once]_vars
  <2> SUFFICES ASSUME DiskInv, ToldInv, Next, NEW k \in Keys, wire'[k] > wire[k]
               PROVE  wire[k] = 0 \/ k \in deferred
    OBVIOUS
  <2>0. wire[k] \in Nat
    BY DEF DiskInv, Shapes
  <2>1. CASE UserPrompt \/ ToolExchangeCloses
    BY <2>0, <2>1 DEF UserPrompt, ToolExchangeCloses, AppendNotes, ToldInv
  <2>2. ASSUME NEW t \in Tasks, NotifyBuilt(t) PROVE wire[k] = 0
    <3>1. ~closed(t) /\ Steer(key(t))
      BY <2>0, <2>2 DEF NotifyBuilt, notifyBuilt, noteVars
    <3>2. k \in steerBuffer \cup {key(t)}
      BY <2>0, <3>1 DEF Steer, AppendNotes
    <3> QED
      BY <2>2, <3>1, <3>2, NotifyFinds DEF ToldInv
  <2>3. ASSUME NEW t \in Tasks, RestoreNotification(t) PROVE wire[k] = 0 \/ k \in deferred
    <3>1. k \notin delivered /\ session = "loading"
      BY <2>0, <2>3 DEF RestoreNotification, AppendNotes
    <3> QED
      BY <2>0, <3>1 DEF ToldInv
  <2>4. \/ UserPrompt \/ ToolExchangeCloses \/ UNCHANGED wire
        \/ \E t \in Tasks : NotifyBuilt(t) \/ RestoreNotification(t)
    BY ZenonT(30) DEF Next, TaskStep, ToolExchangeOpens, TurnEnds, Reserve, Release, Register, ProcExits,
       SettleExit, SettleAgent, Deadline, Settled, PersistWrites, Persisted, Retire, Stop,
       StopContinues, StopReturns, MarkLost, MarkLostFails, Close, Closed, Open, Opened, Crash,
       stopOthers, noteVars
  <2> QED
    BY <2>0, <2>1, <2>2, <2>3, <2>4
<1> QED
  BY DiskInit, DiskStep, ToldInit, ToldStep, <1>1, PTL DEF Spec, DeliveredNeverAgain

\* From the moment a session begins to close nothing starts a turn in it or joins its buffer: the
\* latch is looked at again after every wait.
THEOREM SilentOnceClosed == Spec => ClosedSilent
<1> DEFINE Silent == Shut /\ session' # "loading" =>
                       ~(turn' /\ ~turn) /\ (steerBuffer' \subseteq steerBuffer)
<1>1. [Next]_vars => [Silent]_vars
  <2> SUFFICES ASSUME Next, Shut PROVE ~(turn' /\ ~turn) /\ steerBuffer' \subseteq steerBuffer
    OBVIOUS
  <2>1. ASSUME NEW t \in Tasks, NotifyBuilt(t) PROVE UNCHANGED <<turn, steerBuffer>>
    BY <2>1 DEF NotifyBuilt, notifyBuilt, closed, Shut, noteVars
  <2>2. CASE Open \/ Crash
    BY <2>2 DEF Open, Crash, turnVars
  <2>3. ASSUME NEW t \in Tasks, TaskStep(t), ~NotifyBuilt(t)
        PROVE  UNCHANGED <<turn, steerBuffer>>
    BY <2>3 DEF TaskStep, Register, ProcExits, SettleExit, SettleAgent, Deadline, Settled,
       PersistWrites, Persisted, Retire, Stop, StopContinues, StopReturns, MarkLost,
       MarkLostFails, RestoreNotification, stopOthers, noteVars, turnVars
  <2>4. CASE Reserve \/ Release \/ Closed \/ Opened
    BY <2>4 DEF Reserve, Release, Closed, Opened, noteVars, turnVars
  <2>5. ~(UserPrompt \/ ToolExchangeOpens \/ ToolExchangeCloses \/ TurnEnds \/ Close)
    BY DEF UserPrompt, ToolExchangeOpens, ToolExchangeCloses, TurnEnds, Close, Shut
  <2> QED
    BY <2>1, <2>2, <2>3, <2>4, <2>5 DEF Next
<1> QED
  BY <1>1, PTL DEF Spec, ClosedSilent
=============================================================================
