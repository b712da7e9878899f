--------------------------- MODULE ToolBatchProofs ---------------------------
(***************************************************************************)
(* A batch drives its scheduler as the scheduler expects, so that what is  *)
(* proved of the scheduler holds of the tools of a batch; and its results  *)
(* are in order, a repeated call runs once, and nothing begins behind an   *)
(* abort or a stop, for every number of calls.                             *)
(***************************************************************************)
EXTENDS ToolBatch, ToolSchedulerProofs

-----------------------------------------------------------------------------
(* The batch implements the scheduler *)

LEMMA SettleAdds ==
  ASSUME NEW what, SettleCall(what)
  PROVE  Add
BY Zenon DEF SettleCall, Hand

LEMMA SchedulerStep == [BatchNext]_batchVars => [Next]_vars
<1> SUFFICES ASSUME [BatchNext]_batchVars
             PROVE  Add \/ (\E c \in Calls : Settle(c) \/ Finish(c)) \/ UNCHANGED vars
  BY Zenon DEF Next
<1>1. CASE Prepare
  BY <1>1, SettleAdds, Zenon DEF Prepare
<1>2. CASE Resolve
  BY <1>2, SettleAdds, Zenon DEF Resolve
<1>3. CASE Authorize
  BY <1>3, SettleAdds, Zenon DEF Authorize, Hand
<1>4. ASSUME NEW c \in Calls, ToolEnds(c) \/ TaskResolves(c) \/ TaskFinishes(c) \/ Finalize(c)
      PROVE  Settle(c) \/ Finish(c) \/ UNCHANGED vars
  BY <1>4, Zenon DEF ToolEnds, TaskResolves, TaskFinishes, Finalize
<1>5. CASE Abort \/ LogBreaks \/ Return \/ Returned \/ UNCHANGED batchVars
  BY <1>5, Zenon DEF Abort, LogBreaks, Return, Returned, batchVars
<1> QED BY <1>1, <1>2, <1>3, <1>4, <1>5, Zenon DEF BatchNext

\* To the scheduler a batch is one of the sequences of add() it is written for, whatever
\* is rejected, repeated, aborted or lost on the way.
THEOREM BatchImplementsScheduler == BatchSpec => Spec
<1>1. BatchInit => Init
  BY DEF BatchInit
<1> QED BY <1>1, SchedulerStep, PTL DEF BatchSpec, Spec

\* So the tools of a batch never race for a file.
THEOREM BatchNeverRaces == BatchSpec => []NoRace
BY BatchImplementsScheduler, NeverRaces, PTL

-----------------------------------------------------------------------------
(* The inductive invariant *)

\* A call beyond the ones handed over is being prepared.
InHand == pc \in {"resolve", "authorize"}

Forms ==
    /\ key \in [Calls -> Keys]
    /\ pc \in {"prepare", "resolve", "authorize", "done"}
    /\ seen \in [Calls -> {"none", "original", "duplicate"}]
    /\ raw = [c \in Calls |-> raw[c]]
    /\ deferred = [k \in Keys |-> deferred[k]]
    /\ \A c \in Calls : raw[c] # Pending =>
         \E what \in Outcomes :
            raw[c] = Out(c, what) /\ (what = "placeholder" => seen[c] = "duplicate")

\* Each key has one original, and calls still to come are in no ledger.
Ledger ==
    /\ InHand => added < N /\ seen[added + 1] = "original" /\ ~ stopped
    /\ \A c \in Calls : c > added => raw[c] = Pending /\ (seen[c] # "none" => InHand /\ c = added + 1)
    /\ \A c, d \in Calls : seen[c] = "original" /\ seen[d] = "original" /\ key[c] = key[d] => c = d

\* What runs or waits to run is an original; what waits has come to nothing yet, and waits
\* behind nothing that stops the turn.
Runs ==
    /\ executed \subseteq {c \in 1 .. added : seen[c] = "original"}
    /\ \A c \in queuedTasks : seen[c] = "original" /\ raw[c] = Pending
    /\ \A c \in Calls : result[c] # "pending" => raw[c] # Pending
    /\ \A d \in Calls : raw[d] # Pending /\ raw[d].what = "stop" =>
         stopped /\ \A c \in queuedTasks : ~ d < c

\* What a call's result may be recorded as.
Fits(i, out) ==
    \E d \in 1 .. i : /\ result[d] # "pending" /\ out = raw[d] /\ raw[d].what # "placeholder"
                      /\ key[d] = key[i]

\* Results are taken in order, from calls that have settled.
Taken ==
    /\ drained \in 0 .. N
    /\ drained # 0 \/ pc = "done" => added = N
    /\ pc = "done" => drained = N
    /\ \A c \in 1 .. drained : result[c] # "pending"
    /\ \A k \in Keys : deferred[k] # Pending =>
         \E d \in 1 .. drained : seen[d] = "original" /\ key[d] = k /\ deferred[k] = raw[d]

Recorded ==
    /\ recorded \subseteq 1 .. added
    /\ ~ broken => recorded = 1 .. added /\ Len(results) = drained
    /\ results \in Seq([call : Calls, out : [by : Calls, what : Outcomes]])
    /\ Len(results) <= drained
    /\ \A i \in 1 .. Len(results) :
         results[i].call = i /\ i \in recorded /\ Fits(i, results[i].out)

BInv == Forms /\ Ledger /\ Runs /\ Taken /\ Recorded

LEMMA InitBInv == BatchInit => BInv
<1> SUFFICES ASSUME BatchInit
             PROVE  BInv
  OBVIOUS
<1> USE NAssumption DEF BatchInit, Init, Calls
<1>1. Forms
  BY AnswersAssumption DEF Forms
<1>2. Ledger
  BY DEF Ledger, InHand
<1>3. Runs
  BY DEF Runs
<1>4. Taken
  BY DEF Taken
<1>5. Recorded
  BY DEF Recorded
<1> QED BY <1>1, <1>2, <1>3, <1>4, <1>5 DEF BInv

-----------------------------------------------------------------------------
(* Handing a call over *)

\* A settled call, without accesses, is never held back.
LEMMA HandEffect ==
  ASSUME IInv, NEW A, Hand(A)
  PROVE  /\ added \in Nat /\ added < N /\ added' = added + 1 /\ added + 1 \in Calls
         /\ result' = result /\ pc' = "prepare"
         /\ UNCHANGED <<key, aborted, broken, deferred, drained, results>>
         /\ \/ queuedTasks' = queuedTasks /\ activeTasks' = activeTasks \cup {added + 1}
            \/ /\ queuedTasks' = queuedTasks \cup {added + 1} /\ activeTasks' = activeTasks
               /\ A # {}
<1>1. Add /\ accesses' = [accesses EXCEPT ![added + 1] = A]
  BY Zenon DEF Hand
<1>2. added \in Nat /\ added < N /\ added + 1 \in Calls /\ result' = result
  BY <1>1, NAssumption DEF Add, IInv, TypeOK, Calls
<1>3. accesses'[added + 1] = A
  BY <1>1, <1>2 DEF IInv, TypeOK
<1>4. \/ queuedTasks' = queuedTasks /\ activeTasks' = activeTasks \cup {added + 1}
      \/ /\ queuedTasks' = queuedTasks \cup {added + 1} /\ activeTasks' = activeTasks
         /\ A # {}
  BY <1>1, <1>3, AddEffect, Zenon DEF conflict
<1>5. added' = added + 1
  BY <1>1, AddEffect, Zenon
<1> QED BY <1>2, <1>4, <1>5, Zenon DEF Hand

\* A result that fits goes on fitting.
LEMMA FitsOn ==
  ASSUME NEW i, NEW out, Fits(i, out), key' = key, i \in Calls,
         \A d \in Calls : result[d] # "pending" => raw'[d] = raw[d] /\ result'[d] # "pending"
  PROVE  Fits(i, out)'
<1>1. PICK d \in 1 .. i : /\ result[d] # "pending" /\ out = raw[d]
                          /\ raw[d].what # "placeholder" /\ key[d] = key[i]
  BY DEF Fits
<1>2. d \in Calls
  BY NAssumption DEF Calls
<1> QED BY <1>1, <1>2 DEF Fits

\* A call is settled: what is said of the others stays true, and the new one is in its place.
LEMMA SettleKeeps ==
  ASSUME IInv, IInv', BInv, NEW what \in Outcomes, SettleCall(what),
         NEW s \in {"none", "original", "duplicate"}, seen' = [seen EXCEPT ![added + 1] = s],
         what = "placeholder" => s = "duplicate",
         s = "original" => \A d \in 1 .. added : key[d] = key[added + 1] => seen[d] # "original",
         pc # "done"
  PROVE  BInv'
<1> DEFINE c == added + 1
<1>1. /\ added \in Nat /\ added < N /\ added' = c /\ c \in Calls
      /\ result' = result /\ pc' = "prepare"
      /\ UNCHANGED <<key, aborted, broken, deferred, drained, results, executed, queuedTasks>>
  <2>1. Hand({}) /\ executed' = executed
    BY Zenon DEF SettleCall
  <2> QED BY <2>1, HandEffect, Zenon
<1>2. PICK w \in Outcomes : /\ raw' = [raw EXCEPT ![c] = Out(c, w)]
                            /\ w = "placeholder" => s = "duplicate"
                            /\ w = "stop" => stopped'
                            /\ stopped => stopped'
                            /\ IF broken THEN recorded' = recorded
                               ELSE recorded' = recorded \cup {c}
  BY DEF SettleCall, Outcomes
<1>3. raw[c] = Pending /\ \A d \in Calls : d # c => raw'[d] = raw[d] /\ seen'[d] = seen[d]
  <2>1. raw[c] = Pending
    BY <1>1 DEF BInv, Ledger
  <2>2. \A d \in Calls : d # c => raw'[d] = raw[d]
    BY <1>2 DEF BInv, Forms
  <2>3. \A d \in Calls : d # c => seen'[d] = seen[d]
    BY DEF BInv, Forms
  <2> QED BY <2>1, <2>2, <2>3
<1>4. raw'[c] = Out(c, w) /\ seen'[c] = s /\ raw'[c] # Pending
  BY <1>1, <1>2, PendingAssumption DEF BInv, Forms
<1>5. Forms'
  BY <1>1, <1>2, <1>3, <1>4 DEF BInv, Forms
<1>6. Ledger'
  <2>1. \A d \in Calls : d > c => raw'[d] = Pending /\ seen'[d] = "none"
    BY <1>1, <1>3 DEF BInv, Ledger, Calls
  <2>2. \A d, e \in Calls : seen'[d] = "original" /\ seen'[e] = "original" /\ key[d] = key[e] => d = e
    <3> SUFFICES ASSUME NEW d \in Calls, NEW e \in Calls, d < e,
                        seen'[d] = "original", seen'[e] = "original", key[d] = key[e]
                 PROVE  FALSE
      BY NAssumption DEF Calls
    <3>1. e \in 1 .. c
      BY <2>1, <1>1 DEF Calls
    <3>2. CASE e = c
      BY <3>2, <1>1, <1>3, <1>4 DEF Calls
    <3>3. CASE e # c
      BY <3>1, <3>3, <1>1, <1>3 DEF Calls, BInv, Ledger
    <3> QED BY <3>2, <3>3
  <2> QED BY <2>1, <2>2, <1>1, Zenon DEF Ledger, InHand
<1>7. Runs'
  <2>1. queuedTasks \subseteq 1 .. added /\ c \notin 1 .. added /\ 1 .. added \subseteq Calls
    <3>1. queuedTasks \subseteq 1 .. added
      BY DEF IInv, TypeOK
    <3>2. c \notin 1 .. added /\ 1 .. added \subseteq Calls
      BY <1>1, NAssumption DEF Calls
    <3> QED BY <3>1, <3>2
  <2>2. executed' \subseteq {d \in 1 .. added' : seen'[d] = "original"}
    BY <1>1, <1>3, <2>1 DEF BInv, Runs
  <2>3. \A d \in queuedTasks' : seen'[d] = "original" /\ raw'[d] = Pending
    BY <1>1, <1>3, <2>1, Zenon DEF BInv, Runs
  <2>4. \A d \in Calls : result'[d] # "pending" => raw'[d] # Pending
    BY <1>1, <1>3, <1>4, Zenon DEF BInv, Runs
  <2>5. \A d \in Calls : raw'[d] # Pending /\ raw'[d].what = "stop" =>
           stopped' /\ \A q \in queuedTasks' : ~ d < q
    <3> SUFFICES ASSUME NEW d \in Calls, raw'[d] # Pending, raw'[d].what = "stop"
                 PROVE  stopped' /\ \A q \in queuedTasks' : ~ d < q
      OBVIOUS
    <3>1. CASE d = c
      BY <3>1, <1>1, <1>2, <1>4, <2>1 DEF Out
    <3>2. CASE d # c
      BY <3>2, <1>1, <1>2, <1>3, Zenon DEF BInv, Runs
    <3> QED BY <3>1, <3>2
  <2> QED BY <2>2, <2>3, <2>4, <2>5 DEF Runs
<1>8. Taken'
  <2>1. drained = 0
    BY <1>1 DEF BInv, Taken
  <2> QED BY <1>1, <2>1, NAssumption DEF BInv, Taken
<1>9. Recorded'
  <2>1. drained = 0 /\ Len(results) = 0
    BY <1>1 DEF BInv, Taken, Recorded
  <2>2. recorded' \subseteq 1 .. added' /\ (~ broken' => recorded' = 1 .. added')
    <3>1. 1 .. added' = (1 .. added) \cup {c}
      BY <1>1
    <3>2. recorded \subseteq 1 .. added /\ (~ broken => recorded = 1 .. added)
      BY DEF BInv, Recorded
    <3> QED BY <1>1, <1>2, <3>1, <3>2, Zenon
  <2> QED BY <1>1, <2>1, <2>2 DEF BInv, Recorded
<1> QED BY <1>5, <1>6, <1>7, <1>8, <1>9 DEF BInv

LEMMA PrepareKeeps ==
  ASSUME IInv, IInv', BInv, Prepare
  PROVE  BInv'
<1> DEFINE c == added + 1
<1>1. c \in Calls /\ added \in Nat /\ added < N /\ pc = "prepare"
  BY NAssumption DEF Prepare, IInv, TypeOK, Calls
<1>2. seen[c] = "none" /\ ~ InHand /\ seen \in [Calls -> {"none", "original", "duplicate"}]
  BY <1>1 DEF BInv, Ledger, InHand, Forms
<1>3. CASE stopped \/ aborted
  <2>1. seen' = [seen EXCEPT ![c] = "none"]
    BY <1>1, <1>2, <1>3 DEF Prepare
  <2>2. SettleCall(IF stopped THEN "error" ELSE "aborted")
    BY <1>3, Zenon DEF Prepare
  <2> QED BY <1>1, <2>1, <2>2, SettleKeeps DEF Outcomes
<1>4. CASE ~ stopped /\ ~ aborted
  <2> DEFINE s == checkSameStep(c)
  <2>1. s \in {"none", "original", "duplicate"} /\ seen' = [seen EXCEPT ![c] = s] /\ seen'[c] = s
    BY <1>1, <1>2, <1>4 DEF Prepare, checkSameStep
  <2>2. s = "original" => \A d \in 1 .. added : key[d] = key[c] => seen[d] # "original"
    BY <1>1 DEF checkSameStep
  <2>3. ASSUME NEW what \in Outcomes, SettleCall(what), what = "placeholder" => s = "duplicate"
        PROVE  BInv'
    BY <1>1, <2>1, <2>2, <2>3, SettleKeeps
  <2>4. CASE /\ seen'[c] = "original" /\ pc' = "resolve"
             /\ UNCHANGED <<vars, key, aborted, broken, stopped, deferred, raw, executed, recorded,
                            drained, results>>
    <3>1. seen'[c] = "original" /\ \A d \in Calls : d # c => seen'[d] = seen[d]
      BY <1>2, <2>1, <2>4
    <3>2. Forms'
      BY <1>2, <2>1, <2>4, <3>1 DEF BInv, Forms, Ledger, vars
    <3>3. Ledger'
      <4>1. \A d \in Calls : d > added' => raw'[d] = Pending /\ (seen'[d] # "none" => d = c)
        BY <1>1, <1>2, <2>4, <3>1 DEF BInv, Ledger, vars
      <4>2. \A d \in Calls : key[d] = key[c] /\ d # c => seen'[d] # "original"
        BY <1>1, <1>2, <2>1, <2>2, <2>4, <3>1 DEF BInv, Ledger, Calls
      <4>3. \A d, e \in Calls : seen'[d] = "original" /\ seen'[e] = "original" /\ key'[d] = key'[e] => d = e
        <5> SUFFICES ASSUME NEW d \in Calls, NEW e \in Calls, seen'[d] = "original",
                            seen'[e] = "original", key[d] = key[e]
                     PROVE  d = e
          BY <2>4
        <5>1. CASE d = c \/ e = c
          BY <4>2, <5>1, Zenon
        <5>2. CASE d # c /\ e # c
          BY <3>1, <5>2, Zenon DEF BInv, Ledger
        <5> QED BY <5>1, <5>2
      <4> QED BY <1>1, <1>4, <2>4, <3>1, <4>1, <4>3 DEF Ledger, InHand, vars
    <3>4. Runs'
      <4>1. /\ executed \subseteq {d \in 1 .. added : seen[d] = "original"}
            /\ \A d \in queuedTasks : seen[d] = "original" /\ raw[d] = Pending
            /\ queuedTasks \subseteq 1 .. added /\ 1 .. added \subseteq Calls /\ c \notin 1 .. added
        BY <1>1, NAssumption DEF BInv, Runs, IInv, TypeOK, Calls
      <4>2. executed' \subseteq {d \in 1 .. added' : seen'[d] = "original"}
        BY <2>4, <3>1, <4>1, Zenon DEF vars
      <4>3. \A d \in queuedTasks' : seen'[d] = "original" /\ raw'[d] = Pending
        BY <2>4, <3>1, <4>1, Zenon DEF vars
      <4> QED BY <2>4, <4>2, <4>3, Zenon DEF BInv, Runs, vars
    <3>5. Taken'
      <4>1. drained = 0 /\ pc' # "done"
        BY <1>1, <2>4 DEF BInv, Taken
      <4> QED BY <2>4, <4>1 DEF BInv, Taken, vars
    <3>6. Recorded'
      <4>1. Len(results) = 0
        BY <1>1 DEF BInv, Taken, Recorded
      <4> QED BY <2>4, <4>1 DEF BInv, Recorded, vars
    <3> QED BY <3>2, <3>3, <3>4, <3>5, <3>6 DEF BInv
  <2>5. \/ \E what \in {"error", "ok"} : SettleCall(what)
        \/ s = "duplicate" /\ SettleCall("placeholder")
        \/ /\ seen'[c] = "original" /\ pc' = "resolve"
           /\ UNCHANGED <<vars, key, aborted, broken, stopped, deferred, raw, executed, recorded,
                          drained, results>>
    BY <1>4, <2>1, Zenon DEF Prepare
  <2> QED BY <2>3, <2>4, <2>5 DEF Outcomes
<1> QED BY <1>3, <1>4, Zenon DEF Prepare

\* A call that is settled while it is in hand: its place in the ledger is the original's.
LEMMA SettleInHand ==
  ASSUME IInv, IInv', BInv, InHand, UNCHANGED seen,
         NEW what \in Outcomes \ {"placeholder"}, SettleCall(what)
  PROVE  BInv'
<1>1. added + 1 \in Calls /\ seen[added + 1] = "original" /\ added \in Nat /\ pc # "done"
  BY NAssumption DEF BInv, Ledger, InHand, IInv, TypeOK, Calls
<1>2. seen' = [seen EXCEPT ![added + 1] = "original"]
  BY <1>1 DEF BInv, Forms
<1>3. \A d \in 1 .. added : key[d] = key[added + 1] => seen[d] # "original"
  <2>1. \A d \in 1 .. added : d \in Calls /\ d # added + 1
    BY <1>1, NAssumption DEF Calls
  <2> QED BY <1>1, <2>1 DEF BInv, Ledger
<1> QED BY <1>1, <1>2, <1>3, SettleKeeps

LEMMA ResolveKeeps ==
  ASSUME IInv, IInv', BInv, Resolve
  PROVE  BInv'
<1>1. CASE \E what \in {"error", "aborted", "stop"} : SettleCall(what)
  <2>1. InHand /\ UNCHANGED seen
    BY DEF Resolve, InHand
  <2> QED BY <1>1, <2>1, SettleInHand DEF Outcomes
<1>2. CASE /\ pc' = "authorize"
           /\ UNCHANGED <<vars, key, aborted, broken, stopped, deferred, raw, executed, recorded,
                          drained, results>>
  <2>1. /\ pc = "resolve" /\ UNCHANGED <<seen, vars>>
        /\ UNCHANGED <<added, accesses, activeTasks, queuedTasks, result>>
    BY <1>2, Zenon DEF Resolve, vars
  <2>2. Forms' /\ Ledger' /\ Runs'
    BY <1>2, <2>1 DEF BInv, Forms, Ledger, Runs, InHand
  <2>3. Taken'
    BY <1>2, <2>1 DEF BInv, Taken
  <2>4. Recorded'
    BY <1>2, <2>1 DEF BInv, Recorded, Fits
  <2> QED BY <2>2, <2>3, <2>4 DEF BInv
<1> QED BY <1>1, <1>2, Zenon DEF Resolve

\* The tool of a call begins, or waits for its turn.
LEMMA RunKeeps ==
  ASSUME IInv, IInv', BInv, pc = "authorize", UNCHANGED <<seen, raw, stopped>>, ~ broken,
         NEW A, Hand(A), recorded' = recorded \cup {added'},
         executed' = executed \cup (activeTasks' \ activeTasks)
  PROVE  BInv'
<1> DEFINE c == added + 1
<1>1. /\ added \in Nat /\ added < N /\ added' = c /\ c \in Calls /\ result' = result
      /\ pc' = "prepare" /\ UNCHANGED <<key, aborted, broken, deferred, drained, results>>
      /\ activeTasks' \ activeTasks \subseteq {c} /\ queuedTasks' \subseteq queuedTasks \cup {c}
  BY HandEffect
<1>2. seen[c] = "original" /\ raw[c] = Pending /\ ~ stopped
  BY <1>1 DEF BInv, Ledger, InHand
<1>3. Forms'
  BY <1>1 DEF BInv, Forms
<1>4. Ledger'
  <2>1. \A d \in Calls : d > c => raw[d] = Pending /\ seen[d] = "none"
    BY <1>1 DEF BInv, Ledger, Calls
  <2> QED BY <1>1, <2>1 DEF BInv, Ledger, InHand
<1>5. Runs'
  <2>1. 1 .. added' = (1 .. added) \cup {c}
    BY <1>1
  <2>2. executed' \subseteq {d \in 1 .. added' : seen'[d] = "original"}
    BY <1>1, <1>2, <2>1 DEF BInv, Runs
  <2>3. \A d \in queuedTasks' : seen'[d] = "original" /\ raw'[d] = Pending
    BY <1>1, <1>2 DEF BInv, Runs
  <2>4. \A d \in Calls : ~ (raw'[d] # Pending /\ raw'[d].what = "stop")
    BY <1>2 DEF BInv, Runs
  <2> QED BY <1>1, <2>2, <2>3, <2>4 DEF BInv, Runs
<1>6. Taken'
  <2>1. drained = 0
    BY <1>1 DEF BInv, Taken
  <2> QED BY <1>1, <2>1, NAssumption DEF BInv, Taken
<1>7. Recorded'
  <2>1. drained = 0 /\ Len(results) = 0
    BY <1>1 DEF BInv, Taken, Recorded
  <2>2. recorded' = 1 .. added'
    <3>1. 1 .. added' = (1 .. added) \cup {c}
      BY <1>1
    <3> QED BY <1>1, <3>1 DEF BInv, Recorded
  <2> QED BY <1>1, <2>1, <2>2 DEF BInv, Recorded
<1> QED BY <1>3, <1>4, <1>5, <1>6, <1>7 DEF BInv

LEMMA AuthorizeKeeps ==
  ASSUME IInv, IInv', BInv, Authorize
  PROVE  BInv'
<1>1. pc = "authorize" /\ InHand /\ UNCHANGED seen
  BY DEF Authorize, InHand
<1>2. CASE \E what \in {"ok", "error", "stop", "aborted"} : SettleCall(what)
  BY <1>1, <1>2, SettleInHand DEF Outcomes
<1>3. CASE /\ ~ broken /\ \E A \in Declared : Hand(A)
           /\ recorded' = recorded \cup {added'}
           /\ executed' = executed \cup (activeTasks' \ activeTasks)
           /\ UNCHANGED <<raw, stopped>>
  BY <1>1, <1>3, RunKeeps, Zenon
<1> QED BY <1>2, <1>3, Zenon DEF Authorize

-----------------------------------------------------------------------------
(* Running, and taking the results *)

\* What a call comes to does not change once it has settled, and the rest of the batch is
\* as it was: what has been recorded stays right.
LEMMA RecordedOn ==
  ASSUME BInv, UNCHANGED <<added, key, pc, broken, recorded, drained, results, deferred, seen>>,
         \A d \in Calls : result[d] # "pending" => raw'[d] = raw[d] /\ result'[d] # "pending"
  PROVE  Taken' /\ Recorded'
<1>1. \A d \in 1 .. drained : d \in Calls /\ result[d] # "pending"
  BY NAssumption DEF BInv, Taken, Calls
<1>2. Taken'
  <2>1. \A k \in Keys : deferred'[k] # Pending =>
           \E d \in 1 .. drained' : seen'[d] = "original" /\ key'[d] = k /\ deferred'[k] = raw'[d]
    BY <1>1 DEF BInv, Taken
  <2> QED BY <1>1, <2>1 DEF BInv, Taken
<1>3. \A i \in 1 .. Len(results) : i \in Calls
  BY NAssumption DEF BInv, Recorded, Taken, Calls
<1>4. \A i \in 1 .. Len(results) : Fits(i, results[i].out)'
  BY <1>3, FitsOn, Zenon DEF BInv, Recorded
<1>5. Recorded'
  BY <1>4 DEF BInv, Recorded
<1> QED BY <1>2, <1>5

LEMMA ToolEndsKeeps ==
  ASSUME IInv, IInv', BInv, NEW c \in Calls, ToolEnds(c)
  PROVE  BInv'
<1>1. PICK what \in {"ok", "error", "aborted"} : raw' = [raw EXCEPT ![c] = Out(c, what)]
  BY DEF ToolEnds
<1>2. /\ c \in executed /\ raw[c] = Pending
      /\ UNCHANGED <<added, accesses, activeTasks, queuedTasks>>
      /\ UNCHANGED <<key, pc, aborted, broken, stopped, seen, deferred, executed, recorded,
                     drained, results>>
      /\ c \in activeTasks /\ result[c] = "pending" /\ result' = [result EXCEPT ![c] = "resolved"]
  <2>1. Settle(c) /\ result'[c] = "resolved"
    BY Zenon DEF ToolEnds
  <2>2. result' = [result EXCEPT ![c] = "resolved"]
    BY <2>1 DEF Settle, IInv, TypeOK
  <2> QED BY <2>1, <2>2, Zenon DEF ToolEnds, Settle
<1>3. /\ raw'[c] = Out(c, what) /\ raw'[c] # Pending /\ raw'[c].what # "stop"
      /\ \A d \in Calls : d # c => raw'[d] = raw[d] /\ result'[d] = result[d]
  BY <1>1, <1>2, PendingAssumption DEF BInv, Forms, Out, IInv, TypeOK, Outcomes
<1>4. result'[c] = "resolved"
  BY <1>2 DEF IInv, TypeOK
<1>5. Forms'
  BY <1>1, <1>2, <1>3 DEF BInv, Forms, Outcomes
<1>6. c \in 1 .. added /\ c \notin queuedTasks
  BY <1>2 DEF BInv, Runs, IInv, Apart
<1>7. Ledger'
  <2>1. \A d \in Calls : d > added => d # c
    BY <1>6, NAssumption DEF Calls, IInv, TypeOK
  <2> QED BY <1>2, <1>3, <2>1, Zenon DEF BInv, Ledger, InHand
<1>8. Runs'
  <2>1. queuedTasks \subseteq Calls
    BY NAssumption DEF IInv, TypeOK, Calls
  <2> QED BY <1>2, <1>3, <1>4, <1>6, <2>1, Zenon DEF BInv, Runs
<1>9. Taken' /\ Recorded'
  BY <1>2, <1>3, <1>4, RecordedOn, Zenon
<1> QED BY <1>5, <1>7, <1>8, <1>9 DEF BInv

LEMMA TaskResolvesKeeps ==
  ASSUME IInv, IInv', BInv, NEW c \in Calls, TaskResolves(c)
  PROVE  BInv'
<1>1. /\ raw[c] # Pending /\ UNCHANGED <<added, accesses, activeTasks, queuedTasks>>
      /\ UNCHANGED <<key, pc, aborted, broken, stopped, seen, deferred, raw, executed, recorded,
                     drained, results>>
      /\ \A d \in Calls : result[d] # "pending" => result'[d] # "pending"
      /\ \A d \in Calls : d # c => result'[d] = result[d]
  <2>1. Settle(c) /\ raw[c] # Pending /\ UNCHANGED <<key, batch>>
    BY Zenon DEF TaskResolves
  <2>2. PICK o \in {"resolved", "rejected"} : result' = [result EXCEPT ![c] = o]
    BY <2>1 DEF Settle
  <2>3. /\ \A d \in Calls : result[d] # "pending" => result'[d] # "pending"
        /\ \A d \in Calls : d # c => result'[d] = result[d]
    BY <2>1, <2>2 DEF IInv, TypeOK
  <2> QED BY <2>1, <2>3 DEF Settle, batch
<1>2. Forms' /\ Ledger'
  BY <1>1 DEF BInv, Forms, Ledger, InHand
<1>3. Runs'
  BY <1>1, Zenon DEF BInv, Runs
<1>4. Taken' /\ Recorded'
  BY <1>1, RecordedOn, Zenon
<1> QED BY <1>2, <1>3, <1>4 DEF BInv

LEMMA TaskFinishesKeeps ==
  ASSUME IInv, IInv', BInv, NEW c \in Calls, TaskFinishes(c)
  PROVE  BInv'
<1> DEFINE started == activeTasks' \ activeTasks
<1>1. /\ UNCHANGED <<added, accesses, result>> /\ started \subseteq queuedTasks
      /\ queuedTasks' \subseteq queuedTasks /\ started \cap queuedTasks' = {}
  <2>1. Finish(c)
    BY Zenon DEF TaskFinishes
  <2> QED BY <2>1, FinishEffect
<1>2. /\ begins(started)
      /\ UNCHANGED <<key, pc, aborted, broken, stopped, seen, deferred, recorded, drained, results>>
  BY Zenon DEF TaskFinishes
<1>3. \A d \in started : seen[d] = "original" /\ raw[d] = Pending /\ result[d] = "pending" /\ d \in Calls
  <2>1. queuedTasks \subseteq Calls
    BY NAssumption DEF IInv, TypeOK, Calls
  <2> QED BY <1>1, <2>1, Zenon DEF BInv, Runs
<1>4. \A d \in Calls : d \notin started => raw'[d] = raw[d]
  BY <1>2 DEF begins, BInv, Forms
<1>5. \A d \in started : raw'[d] = raw[d] \/ (raw'[d] = Out(d, "aborted") /\ raw'[d].what # "stop")
  BY <1>2, <1>3 DEF begins, BInv, Forms, Out
<1>6. raw' = [d \in Calls |-> raw'[d]]
  BY <1>2 DEF begins, BInv, Forms
<1>7. executed' \subseteq executed \cup started
  BY <1>2 DEF begins
<1>8. \A d \in Calls : raw'[d] # Pending =>
         \E what \in Outcomes :
            raw'[d] = Out(d, what) /\ (what = "placeholder" => seen'[d] = "duplicate")
  <2> SUFFICES ASSUME NEW d \in Calls, raw'[d] # Pending
               PROVE  \E what \in Outcomes :
                         raw'[d] = Out(d, what) /\ (what = "placeholder" => seen'[d] = "duplicate")
    OBVIOUS
  <2>1. CASE raw'[d] = raw[d]
    BY <1>2, <2>1, Zenon DEF BInv, Forms
  <2>2. CASE raw'[d] = Out(d, "aborted")
    BY <2>2 DEF Outcomes
  <2> QED BY <1>4, <1>5, <2>1, <2>2, Zenon
<1>9. Forms'
  BY <1>2, <1>6, <1>8, Zenon DEF BInv, Forms
<1>10. started \subseteq 1 .. added
  BY <1>1 DEF IInv, TypeOK
<1>11. Ledger'
  <2>1. \A d \in Calls : d > added => d \notin started
    BY <1>10, NAssumption DEF Calls, IInv, TypeOK
  <2> QED BY <1>1, <1>2, <1>4, <2>1, Zenon DEF BInv, Ledger, InHand
<1>12. Runs'
  <2>1. executed' \subseteq {d \in 1 .. added' : seen'[d] = "original"}
    BY <1>1, <1>2, <1>3, <1>7, <1>10, Zenon DEF BInv, Runs
  <2>2. \A d \in queuedTasks' : seen'[d] = "original" /\ raw'[d] = Pending
    <3>1. queuedTasks \subseteq Calls
      BY NAssumption DEF IInv, TypeOK, Calls
    <3> QED BY <1>1, <1>2, <1>4, <3>1, Zenon DEF BInv, Runs
  <2>3. \A d \in Calls : result'[d] # "pending" => raw'[d] # Pending
    BY <1>1, <1>3, <1>4, Zenon DEF BInv, Runs
  <2>4. \A d \in Calls : raw'[d] # Pending /\ raw'[d].what = "stop" =>
           raw[d] # Pending /\ raw[d].what = "stop"
    BY <1>3, <1>4, <1>5, Zenon
  <2> QED BY <1>1, <1>2, <2>1, <2>2, <2>3, <2>4, Zenon DEF BInv, Runs
<1>13. Taken' /\ Recorded'
  <2>1. \A d \in Calls : result[d] # "pending" => raw'[d] = raw[d] /\ result'[d] # "pending"
    BY <1>1, <1>3, <1>4, Zenon
  <2> QED BY <1>1, <1>2, <2>1, RecordedOn, Zenon
<1> QED BY <1>9, <1>11, <1>12, <1>13 DEF BInv

LEMMA FinalizeKeeps ==
  ASSUME IInv, IInv', BInv, NEW c \in Calls, Finalize(c)
  PROVE  BInv'
<1> DEFINE out == IF seen[c] = "duplicate" THEN deferred[key[c]] ELSE raw[c]
<1>1. /\ pc = "prepare" /\ added = N /\ drained < N /\ c = drained + 1 /\ result[c] # "pending"
      /\ seen[c] = "duplicate" => deferred[key[c]] # Pending
      /\ deferred' = IF seen[c] = "original" THEN [deferred EXCEPT ![key[c]] = raw[c]] ELSE deferred
      /\ drained' = c
      /\ results' = IF broken THEN results ELSE Append(results, [call |-> c, out |-> out])
      /\ UNCHANGED <<key, pc, aborted, broken, stopped, seen, raw, executed, recorded>>
      /\ UNCHANGED <<added, accesses, activeTasks, queuedTasks, result>>
  BY Zenon DEF Finalize, resolves, vars
<1>2. drained \in 0 .. N /\ 1 .. c = (1 .. drained) \cup {c} /\ key[c] \in Keys
  BY <1>1, NAssumption DEF BInv, Taken, Forms, Calls
<1>3. raw[c] # Pending
  BY <1>1, Zenon DEF BInv, Runs
<1>4. Forms' /\ Ledger' /\ Runs'
  <2>1. deferred' = [k \in Keys |-> deferred'[k]]
    <3>1. CASE seen[c] = "original"
      BY <1>1, <3>1 DEF BInv, Forms
    <3>2. CASE seen[c] # "original"
      BY <1>1, <3>2, Zenon DEF BInv, Forms
    <3> QED BY <3>1, <3>2
  <2>2. Forms'
    BY <1>1, <2>1, Zenon DEF BInv, Forms
  <2>3. Ledger' /\ Runs'
    BY <1>1, Zenon DEF BInv, Ledger, Runs, InHand
  <2> QED BY <2>2, <2>3
<1>5. Taken'
  <2>1. \A k \in Keys : deferred'[k] # Pending =>
           \E d \in 1 .. c : seen[d] = "original" /\ key[d] = k /\ deferred'[k] = raw[d]
    <3> SUFFICES ASSUME NEW k \in Keys, deferred'[k] # Pending
                 PROVE  \E d \in 1 .. c : seen[d] = "original" /\ key[d] = k /\ deferred'[k] = raw[d]
      OBVIOUS
    <3>1. CASE seen[c] = "original" /\ key[c] = k
      BY <1>1, <1>2, <3>1 DEF BInv, Forms
    <3>2. CASE deferred'[k] = deferred[k]
      BY <1>2, <3>2 DEF BInv, Taken
    <3> QED BY <1>1, <3>1, <3>2 DEF BInv, Forms
  <2>2. \A d \in 1 .. c : result[d] # "pending"
    BY <1>1, <1>2 DEF BInv, Taken
  <2> QED BY <1>1, <1>2, <2>1, <2>2 DEF Taken, Calls
<1>6. Fits(c, out) /\ out \in [by : Calls, what : Outcomes]
  <2>1. PICK d \in 1 .. c : /\ result[d] # "pending" /\ out = raw[d] /\ key[d] = key[c]
                            /\ seen[d] # "duplicate"
    <3>1. CASE seen[c] = "duplicate"
      <4>1. PICK d \in 1 .. drained : seen[d] = "original" /\ key[d] = key[c] /\ deferred[key[c]] = raw[d]
        BY <1>1, <1>2, <3>1 DEF BInv, Taken
      <4> QED BY <1>1, <1>2, <3>1, <4>1 DEF BInv, Taken
    <3>2. CASE seen[c] # "duplicate"
      BY <1>1, <1>2, <3>2
    <3> QED BY <3>1, <3>2
  <2>2. d \in Calls
    BY <1>2, NAssumption DEF Calls
  <2>3. PICK what \in Outcomes : raw[d] = Out(d, what) /\ what # "placeholder"
    BY <2>1, <2>2, Zenon DEF BInv, Forms, Runs
  <2>4. out.what # "placeholder" /\ out \in [by : Calls, what : Outcomes]
    BY <2>1, <2>2, <2>3 DEF Out
  <2> QED BY <2>1, <2>4 DEF Fits
<1>7. Recorded'
  <2>1. CASE broken
    BY <1>1, <1>2, <2>1 DEF BInv, Recorded, Fits
  <2>2. CASE ~ broken
    <3> DEFINE e == [call |-> c, out |-> out]
               S == [call : Calls, out : [by : Calls, what : Outcomes]]
    <3>1. /\ results' = Append(results, e) /\ Len(results) = drained /\ recorded = 1 .. added
          /\ e \in S /\ results \in Seq(S)
      BY <1>1, <1>6, <2>2, Zenon DEF BInv, Recorded
    <3>2. e.call = c /\ e.out = out
      OBVIOUS
    <3> HIDE DEF e, S, out
    <3>3. /\ Len(results') = c /\ results' \in Seq(S) /\ results'[c] = e
          /\ \A i \in 1 .. drained : results'[i] = results[i]
      BY <1>1, <1>2, <3>1
    <3>4. ASSUME NEW i \in 1 .. c
          PROVE  results'[i].call = i /\ i \in recorded' /\ Fits(i, results[i].out)'
      <4>1. Fits(i, results'[i].out) /\ results'[i].call = i
        <5>1. CASE i = c
          BY <1>6, <3>2, <3>3, <5>1
        <5>2. CASE i \in 1 .. drained
          BY <3>1, <3>3, <5>2, Zenon DEF BInv, Recorded
        <5> QED BY <1>2, <5>1, <5>2
      <4>2. i \in 1 .. N
        BY <1>1, <1>2, NAssumption DEF Calls
      <4>3. i \in recorded' /\ UNCHANGED <<result, raw, key>>
        BY <1>1, <3>1, <4>2, Zenon
      <4> QED BY <4>1, <4>3 DEF Fits
    <3>5. recorded' = 1 .. added' /\ Len(results') = drained'
      BY <1>1, <3>1, <3>3, Zenon
    <3>6. \A i \in 1 .. Len(results') : results'[i].call = i /\ i \in recorded' /\ Fits(i, results[i].out)'
      BY <3>3, <3>4, Zenon
    <3>7. Len(results') <= drained'
      BY <1>1, <1>2, <3>5
    <3> QED BY <3>3, <3>5, <3>6, <3>7 DEF Recorded, S
  <2> QED BY <2>1, <2>2
<1> QED BY <1>4, <1>5, <1>7 DEF BInv

LEMMA BatchStep == IInv /\ IInv' /\ BInv /\ [BatchNext]_batchVars => BInv'
<1> SUFFICES ASSUME IInv, IInv', BInv, [BatchNext]_batchVars
             PROVE  BInv'
  OBVIOUS
<1>1. ASSUME UNCHANGED <<vars, key, pc, stopped, seen, deferred, raw, executed, recorded, drained,
                         results>>,
             ~ broken' => ~ broken
      PROVE  BInv'
  <2>1. UNCHANGED <<added, accesses, activeTasks, queuedTasks, result>>
    BY <1>1 DEF vars
  <2>2. Forms' /\ Ledger' /\ Runs'
    BY <1>1, <2>1 DEF BInv, Forms, Ledger, Runs, InHand
  <2>3. Taken'
    BY <1>1, <2>1 DEF BInv, Taken
  <2>4. Recorded'
    BY <1>1, <2>1 DEF BInv, Recorded, Fits
  <2> QED BY <2>2, <2>3, <2>4 DEF BInv
<1>2. CASE Abort \/ LogBreaks \/ Returned \/ UNCHANGED batchVars
  <2>1. CASE Abort \/ LogBreaks
    BY <1>1, <2>1 DEF Abort, LogBreaks
  <2>2. CASE UNCHANGED batchVars
    <3>1. UNCHANGED <<vars, key, batch>>
      BY <2>2, Zenon DEF batchVars
    <3> QED BY <1>1, <3>1 DEF batch
  <2> QED BY <1>2, <2>1, <2>2, Zenon DEF Returned
<1>3. CASE Return
  <2>1. /\ pc = "prepare" /\ drained = N /\ pc' = "done"
        /\ UNCHANGED <<key, aborted, broken, stopped, seen, deferred, raw, executed, recorded,
                       drained, results>>
        /\ UNCHANGED <<added, accesses, activeTasks, queuedTasks, result>>
    BY <1>3, Zenon DEF Return, vars
  <2>2. Forms' /\ Ledger' /\ Runs'
    BY <2>1 DEF BInv, Forms, Ledger, Runs, InHand
  <2>3. added = N
    BY <2>1, NAssumption DEF BInv, Taken, IInv, TypeOK
  <2>4. Taken'
    BY <2>1, <2>3 DEF BInv, Taken
  <2>5. Recorded'
    BY <2>1 DEF BInv, Recorded, Fits
  <2> QED BY <2>2, <2>4, <2>5 DEF BInv
<1>4. ASSUME NEW c \in Calls, ToolEnds(c) \/ TaskResolves(c) \/ TaskFinishes(c) \/ Finalize(c)
      PROVE  BInv'
  BY <1>4, ToolEndsKeeps, TaskResolvesKeeps, TaskFinishesKeeps, FinalizeKeeps
<1> QED BY <1>2, <1>3, <1>4, PrepareKeeps, ResolveKeeps, AuthorizeKeeps, Zenon DEF BatchNext

THEOREM BatchInductive == BatchSpec => [](IInv /\ BInv)
<1>1. BatchSpec => []IInv
  BY BatchImplementsScheduler, Inductive, PTL
<1> QED BY <1>1, InitBInv, BatchStep, PTL DEF BatchSpec

-----------------------------------------------------------------------------
(* What the batch promises *)

\* Results are recorded in provider order, each once and behind its call, and a batch that
\* returns has recorded one for every call unless the log broke (the drain loop at the end
\* of runToolCallBatch).
THEOREM ResultsAlwaysPaired == BatchSpec => []ResultsPaired
<1>1. BInv => ResultsPaired
  <2> SUFFICES ASSUME BInv
               PROVE  ResultsPaired
    OBVIOUS
  <2>1. /\ Len(results) <= drained
        /\ \A i \in 1 .. Len(results) : results[i].call = i /\ i \in recorded
    BY Zenon DEF BInv, Recorded
  <2>2. ASSUME pc = "done", ~ broken
        PROVE  Len(results) = N /\ recorded = Calls
    BY <2>2 DEF BInv, Taken, Recorded, Calls
  <2> QED BY <2>1, <2>2 DEF ResultsPaired
<1> QED BY BatchInductive, <1>1, PTL

\* Of the calls of a step with one tool and one set of arguments one runs, and its result
\* is what the others are recorded with (checkSameStep and finalizeResult).
THEOREM SameCallRunsOnce == BatchSpec => []SameCallOnce
<1>1. IInv /\ BInv => SameCallOnce
  <2> SUFFICES ASSUME IInv, BInv
               PROVE  SameCallOnce
    OBVIOUS
  <2>1. \A c, d \in executed : key[c] = key[d] => c = d
    <3>1. \A c \in executed : c \in Calls /\ seen[c] = "original"
      <4>1. ASSUME NEW c \in executed
            PROVE  seen[c] = "original"
        BY DEF BInv, Runs
      <4>2. ASSUME NEW c \in executed
            PROVE  c \in Calls
        BY NAssumption DEF BInv, Runs, IInv, TypeOK, Calls
      <4> QED BY <4>1, <4>2
    <3> QED BY <3>1, Zenon DEF BInv, Ledger
  <2>2. ASSUME NEW i \in 1 .. Len(results)
        PROVE  LET out == results[i].out
               IN  /\ out.what # "placeholder"
                   /\ out.by # i => out.by < i /\ key[out.by] = key[i] /\ out = raw[out.by]
    <3> DEFINE out == results[i].out
    <3>1. PICK d \in 1 .. i : /\ result[d] # "pending" /\ out = raw[d]
                              /\ raw[d].what # "placeholder" /\ key[d] = key[i]
      BY DEF BInv, Recorded, Fits
    <3>2. d \in Calls
      BY NAssumption DEF BInv, Recorded, Taken, Calls
    <3>3. out.by = d
      <4>1. PICK what \in Outcomes : raw[d] = Out(d, what)
        BY <3>1, <3>2, Zenon DEF BInv, Forms, Runs
      <4> QED BY <3>1, <4>1 DEF Out
    <3> QED BY <3>1, <3>3
  <2> QED BY <2>1, <2>2 DEF SameCallOnce
<1> QED BY BatchInductive, <1>1, PTL

\* No tool begins once the batch is interrupted, nor behind a call whose settled result
\* stops the turn (runRunnableToolCall's test of the signal, stopBatchAfterThis).
THEOREM NothingBeginsBehindAStop == BatchSpec => NothingBehindAStop
<1> DEFINE Quiet == \A c \in executed' \ executed :
                      /\ ~ aborted
                      /\ \A d \in 1 .. c - 1 :
                           d \in executed \/ raw[d] = Pending \/ raw[d].what # "stop"
<1>1. IInv /\ BInv /\ [BatchNext]_batchVars => [Quiet]_batchVars
  <2> SUFFICES ASSUME IInv, BInv, BatchNext
               PROVE  Quiet
    BY Zenon
  <2>1. ASSUME executed' = executed
        PROVE  Quiet
    BY <2>1
  <2>2. CASE Authorize
    <3>1. CASE executed' # executed
      <4>1. ~ aborted /\ pc = "authorize"
        BY <2>2, <3>1, Zenon DEF Authorize, SettleCall
      <4>2. \A d \in Calls : raw[d] = Pending \/ raw[d].what # "stop"
        BY <4>1 DEF BInv, Ledger, InHand, Runs
      <4>3. executed' \subseteq 1 .. N
        <5>1. PICK A \in Declared : Hand(A) /\ executed' = executed \cup (activeTasks' \ activeTasks)
          BY <2>2, <3>1, Zenon DEF Authorize, SettleCall
        <5>2. activeTasks' \ activeTasks \subseteq {added + 1} /\ added + 1 \in Calls /\ added < N
              /\ added \in Nat
          BY <5>1, HandEffect
        <5>3. executed \subseteq 1 .. added
          BY DEF BInv, Runs
        <5>4. \A c \in 1 .. added : c \in 1 .. N
          BY <5>2, NAssumption
        <5> QED BY <5>1, <5>2, <5>3, <5>4, Zenon DEF Calls
      <4> QED BY <4>1, <4>2, <4>3, NAssumption DEF Calls
    <3> QED BY <2>1, <3>1
  <2>3. ASSUME NEW c \in Calls, TaskFinishes(c)
        PROVE  Quiet
    <3>1. activeTasks' \ activeTasks \subseteq queuedTasks
      <4>1. Finish(c)
        BY <2>3, Zenon DEF TaskFinishes
      <4> QED BY <4>1, FinishEffect
    <3>2. executed' \ executed \subseteq queuedTasks /\ (executed' # executed => ~ aborted)
      BY <2>3, <3>1, Zenon DEF TaskFinishes, begins
    <3>3. \A q \in queuedTasks : q \in 1 .. N
      BY NAssumption DEF IInv, TypeOK
    <3>4. ASSUME NEW q \in executed' \ executed, NEW d \in 1 .. q - 1
          PROVE  raw[d] = Pending \/ raw[d].what # "stop"
      <4>1. q \in queuedTasks /\ d \in Calls /\ d < q
        BY <3>2, <3>3, NAssumption DEF Calls
      <4> QED BY <4>1 DEF BInv, Runs
    <3> QED BY <3>2, <3>4
  <2>4. CASE \/ Abort \/ LogBreaks \/ Prepare \/ Resolve \/ Return \/ Returned
             \/ \E c \in Calls : ToolEnds(c) \/ TaskResolves(c) \/ Finalize(c)
    <3>1. executed' = executed
      BY <2>4, Zenon DEF Abort, LogBreaks, Prepare, Resolve, SettleCall, Return, Returned, ToolEnds,
                         TaskResolves, Finalize, batchVars, batch
    <3> QED BY <2>1, <3>1
  <2> QED BY <2>2, <2>3, <2>4, Zenon DEF BatchNext
<1> QED BY BatchInductive, <1>1, PTL DEF BatchSpec, NothingBehindAStop
=============================================================================
