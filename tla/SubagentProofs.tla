--------------------------- MODULE SubagentProofs ---------------------------
(***************************************************************************)
(* What the messages to a child and the call that waits for it promise,    *)
(* for any number of runs, messages and retries.                           *)
(***************************************************************************)
EXTENDS Subagent, TLAPS

\* Messages are numbered as they come, and belong to a run that began.
Numbered ==
    /\ sent \in Nat /\ past \in Nat /\ runs \in Nat /\ length \in Nat
    /\ ledger \in [Keys -> [kind : {"none", "mailbox", "steer"}, n : Nat]]
    /\ \A m \in mailbox \cup buffer : m.id \in 1 .. sent /\ m.run \in 0 .. runs /\ m.key \in Keys
    /\ \A a, b \in mailbox \cup buffer : a.id = b.id => a = b

\* The ledger knows what the run sent and the child has not read.
Known ==
    /\ pc # "none" =>
         \A m \in live : m.run = runs => ledger[m.key] = [kind |-> "mailbox", n |-> m.id]
    /\ hasActiveTurn =>
         \A m \in buffer :
             /\ m.run = runs
             /\ ledger[m.key].kind = "steer" /\ ledger[m.key].n <= length

\* Behind the stop gate only what comes late is left in the buffer.
Gated ==
    /\ pc = "turn" => ~ gated
    /\ buffer # {} => length > 0
    /\ gated => \A m \in buffer : m.late

\* A task is out of the parent's reach.
Owned == call = "task" => ~ linked /\ background

IInv == Numbered /\ Known /\ Gated /\ Owned /\ OneCopyUnderway /\ HandedOverSurvives

LEMMA InitInv == Init => IInv
<1> SUFFICES ASSUME Init
             PROVE  IInv
  OBVIOUS
<1> USE DEF Init
<1>1. Numbered
  BY DEF Numbered, Nothing, None
<1>2. Known /\ Gated /\ Owned /\ HandedOverSurvives
  BY DEF Known, Gated, Owned, HandedOverSurvives, live, hasActiveTurn
<1>3. OneCopyUnderway
  BY DEF OneCopyUnderway, Underway, live, hasActiveTurn
<1> QED BY <1>1, <1>2, <1>3 DEF IInv

-----------------------------------------------------------------------------
(* The messages *)

Messages == Numbered /\ Known /\ OneCopyUnderway

\* What is not in flight has no copy underway that was sent in this run.
LEMMA NoCopyOf ==
  ASSUME Messages, pc # "none", NEW key \in Keys, ~ inFlight(key)
  PROVE  \A m \in Underway : m.key = key => m.run # runs
<1> SUFFICES ASSUME NEW m \in Underway, m.key = key, m.run = runs
             PROVE  FALSE
  OBVIOUS
<1>1. CASE m \in live
  <2>1. ledger[key] = [kind |-> "mailbox", n |-> m.id]
    BY <1>1 DEF Messages, Known
  <2>2. ledger[key].n \in ids(live)
    BY <1>1, <2>1 DEF ids
  <2> QED BY <2>1, <2>2 DEF inFlight
<1>2. CASE hasActiveTurn /\ m \in buffer
  <2>1. ledger[key].kind = "steer" /\ ledger[key].n <= length
    BY <1>2 DEF Messages, Known
  <2>2. length \in Nat /\ ledger[key].n \in Nat
    BY DEF Messages, Numbered
  <2> QED BY <1>2, <2>1, <2>2 DEF inFlight
<1> QED BY <1>1, <1>2 DEF Underway

\* Messages that leave, runs that end and retries that are forgotten disturb nothing.
LEMMA FewerMessages ==
  ASSUME Messages, sent' = sent,
         mailbox' \subseteq mailbox, buffer' \subseteq buffer,
         length' \in Nat, past' \in Nat, past' >= past, runs' \in Nat, runs' >= runs,
         ledger' \in [Keys -> [kind : {"none", "mailbox", "steer"}, n : Nat]],
         pc' # "none" =>
           \/ runs' = runs + 1
           \/ live' = {}
           \/ pc # "none" /\ runs' = runs
              /\ \A m \in live' : m.run = runs => ledger'[m.key] = ledger[m.key],
         hasActiveTurn' =>
           \/ buffer' = {}
           \/ hasActiveTurn /\ runs' = runs /\ ledger' = ledger /\ length' >= length
  PROVE  Messages'
<1>1. Numbered'
  BY DEF Messages, Numbered
<1>2. live' \subseteq live
  BY <1>1 DEF live, Messages, Numbered
<1>3. Known'
  <2>1. ASSUME pc' # "none", NEW m \in live', m.run = runs'
        PROVE  ledger'[m.key] = [kind |-> "mailbox", n |-> m.id]
    <3>1. m \in mailbox /\ m.run \in 0 .. runs /\ runs \in Nat /\ m \in live
      BY <1>2 DEF Messages, Numbered, live
    <3>2. pc # "none" /\ runs' = runs /\ ledger'[m.key] = ledger[m.key]
      BY <2>1, <3>1
    <3> QED BY <3>1, <3>2, <2>1 DEF Messages, Known
  <2>2. ASSUME hasActiveTurn', NEW m \in buffer'
        PROVE  m.run = runs' /\ ledger'[m.key].kind = "steer" /\ ledger'[m.key].n <= length'
    <3>1. hasActiveTurn /\ runs' = runs /\ ledger' = ledger /\ length' >= length /\ m \in buffer
      BY <2>2
    <3>2. m.run = runs /\ ledger[m.key].kind = "steer" /\ ledger[m.key].n <= length
      BY <3>1 DEF Messages, Known
    <3>3. ledger[m.key].n \in Nat /\ length \in Nat
      BY <3>1 DEF Messages, Numbered
    <3> QED BY <3>1, <3>2, <3>3
  <2> QED BY <2>1, <2>2 DEF Known
<1>4. OneCopyUnderway'
  <2>1. Underway' \subseteq Underway
    BY <1>2 DEF Underway
  <2> QED BY <2>1 DEF Messages, OneCopyUnderway
<1> QED BY <1>1, <1>3, <1>4 DEF Messages

LEMMA SteerKeeps ==
  ASSUME Messages, NEW key \in Keys, Steer(key)
  PROVE  Messages'
<1> DEFINE new == Message(key)
<1>1. /\ pc # "none" /\ ~ inFlight(key) /\ hasActiveTurn
      /\ sent' = sent + 1 /\ buffer' = buffer \cup {new} /\ length' = length + 1
      /\ ledger' = [ledger EXCEPT ![key] = [kind |-> "steer", n |-> length']]
      /\ live' = live /\ mailbox' \subseteq mailbox
      /\ pc' = pc /\ hasActiveTurn' = hasActiveTurn /\ past' = past /\ runs' = runs
  BY DEF Steer, joinsTurn, live, hasActiveTurn
<1>2. /\ new.id = sent + 1 /\ new.key = key /\ new.run = runs
  BY DEF Message
<1>3. \A m \in mailbox \cup buffer : m.id <= sent
  BY DEF Messages, Numbered
<1>4. Numbered'
  BY <1>1, <1>2, <1>3 DEF Messages, Numbered
<1>5. \A m \in Underway : m.key = key => m.run # runs
  BY <1>1, NoCopyOf
<1>6. Known'
  <2>1. ASSUME NEW m \in live, m.run = runs
        PROVE  ledger'[m.key] = [kind |-> "mailbox", n |-> m.id]
    <3>1. m.key # key /\ m.key \in Keys
      BY <1>5, <2>1 DEF Underway, Messages, Numbered, live
    <3>2. ledger[m.key] = [kind |-> "mailbox", n |-> m.id]
      BY <2>1, <1>1 DEF Messages, Known
    <3> QED BY <3>1, <3>2, <1>1 DEF Messages, Numbered
  <2>2. ASSUME NEW m \in buffer
        PROVE  m.run = runs /\ ledger'[m.key].kind = "steer" /\ ledger'[m.key].n <= length'
    <3>1. m.run = runs /\ ledger[m.key].kind = "steer" /\ ledger[m.key].n <= length
      BY <2>2, <1>1 DEF Messages, Known
    <3>2. m.key # key /\ m.key \in Keys
      BY <1>5, <3>1, <2>2, <1>1 DEF Underway, Messages, Numbered
    <3>3. length \in Nat /\ ledger[m.key].n \in Nat /\ ledger'[m.key] = ledger[m.key]
      BY <3>2, <1>1 DEF Messages, Numbered
    <3> QED BY <3>1, <3>3, <1>1
  <2>3. ledger'[new.key].kind = "steer" /\ ledger'[new.key].n <= length'
    <3>1. ledger'[key] = [kind |-> "steer", n |-> length'] /\ length' \in Nat
      BY <1>1 DEF Messages, Numbered
    <3> QED BY <3>1, <1>2
  <2> QED BY <2>1, <2>2, <2>3, <1>1, <1>2 DEF Known
<1>7. OneCopyUnderway'
  <2>1. Underway' \subseteq Underway \cup {new}
    BY <1>1 DEF Underway
  <2> QED BY <2>1, <1>2, <1>5 DEF OneCopyUnderway, Messages
<1> QED BY <1>4, <1>6, <1>7 DEF Messages

LEMMA PostKeeps ==
  ASSUME Messages, NEW key \in Keys, Post(key)
  PROVE  Messages'
<1>1. /\ pc # "none" /\ ~ inFlight(key)
      /\ buffer' = buffer /\ length' = length
      /\ pc' = pc /\ hasActiveTurn' = hasActiveTurn /\ past' = past /\ runs' = runs
  BY DEF Post, hasActiveTurn
<1>2. \A m \in Underway : m.key = key => m.run # runs
  BY <1>1, NoCopyOf
<1>3. \A m \in mailbox \cup buffer : m.id <= sent /\ m.key \in Keys
  BY DEF Messages, Numbered
<1>4. \A m \in live : m \in mailbox
  BY DEF live
<1>5. CASE /\ sent' = sent + 1 /\ mailbox' = live \cup {Message(key)}
           /\ ledger' = [ledger EXCEPT ![key] = [kind |-> "mailbox", n |-> sent']]
  <2> DEFINE new == Message(key)
  <2>1. new.id = sent + 1 /\ new.key = key /\ new.run = runs
    BY DEF Message
  <2>2. Numbered'
    BY <1>1, <1>3, <1>4, <1>5, <2>1 DEF Messages, Numbered
  <2>3. live' \subseteq live \cup {new}
    BY <1>1, <1>5 DEF live
  <2>4. Known'
    <3>1. ASSUME NEW m \in live', m.run = runs
          PROVE  ledger'[m.key] = [kind |-> "mailbox", n |-> m.id]
      <4>1. CASE m = new
        BY <4>1, <2>1, <1>5 DEF Messages, Numbered
      <4>2. CASE m \in live
        <5>1. ledger[m.key] = [kind |-> "mailbox", n |-> m.id]
          BY <4>2, <3>1, <1>1 DEF Messages, Known
        <5>2. m.key # key /\ m.key \in Keys
          BY <4>2, <1>2, <1>3, <1>4, <3>1 DEF Underway
        <5> QED BY <5>1, <5>2, <1>5 DEF Messages, Numbered
      <4> QED BY <4>1, <4>2, <2>3
    <3>2. ASSUME hasActiveTurn, NEW m \in buffer
          PROVE  m.run = runs /\ ledger'[m.key].kind = "steer" /\ ledger'[m.key].n <= length
      <4>1. m.run = runs /\ ledger[m.key].kind = "steer" /\ ledger[m.key].n <= length
        BY <3>2 DEF Messages, Known
      <4>2. m.key # key /\ m.key \in Keys
        BY <3>2, <4>1, <1>2, <1>3 DEF Underway
      <4> QED BY <4>1, <4>2, <1>5 DEF Messages, Numbered
    <3> QED BY <3>1, <3>2, <1>1 DEF Known
  <2>5. OneCopyUnderway'
    <3>1. Underway' \subseteq Underway \cup {new}
      BY <1>1, <2>3 DEF Underway
    <3> QED BY <3>1, <2>1, <1>2 DEF OneCopyUnderway, Messages
  <2> QED BY <2>2, <2>4, <2>5 DEF Messages
<1>6. CASE sent' = sent /\ mailbox' = live /\ ledger' = [ledger EXCEPT ![key] = None]
  <2>1. Numbered'
    BY <1>1, <1>3, <1>4, <1>6 DEF Messages, Numbered, None
  <2>2. live' \subseteq live
    BY <1>1, <1>6 DEF live
  <2>3. Known'
    <3>1. ASSUME NEW m \in live', m.run = runs
          PROVE  ledger'[m.key] = [kind |-> "mailbox", n |-> m.id]
      <4>1. ledger[m.key] = [kind |-> "mailbox", n |-> m.id]
        BY <2>2, <3>1, <1>1 DEF Messages, Known
      <4>2. m.key # key /\ m.key \in Keys
        BY <2>2, <1>2, <1>3, <1>4, <3>1 DEF Underway
      <4> QED BY <4>1, <4>2, <1>6 DEF Messages, Numbered
    <3>2. ASSUME hasActiveTurn, NEW m \in buffer
          PROVE  m.run = runs /\ ledger'[m.key].kind = "steer" /\ ledger'[m.key].n <= length
      <4>1. m.run = runs /\ ledger[m.key].kind = "steer" /\ ledger[m.key].n <= length
        BY <3>2 DEF Messages, Known
      <4>2. m.key # key /\ m.key \in Keys
        BY <3>2, <4>1, <1>2, <1>3 DEF Underway
      <4> QED BY <4>1, <4>2, <1>6 DEF Messages, Numbered
    <3> QED BY <3>1, <3>2, <1>1 DEF Known
  <2>4. OneCopyUnderway'
    <3>1. Underway' \subseteq Underway
      BY <1>1, <2>2 DEF Underway
    <3> QED BY <3>1 DEF OneCopyUnderway, Messages
  <2> QED BY <2>1, <2>3, <2>4 DEF Messages
<1> QED BY <1>5, <1>6 DEF Post
-----------------------------------------------------------------------------
(* Steps *)

\* A turn begins with an empty mailbox, an empty buffer and an empty ledger.
LEMMA BeginTurnKeeps ==
  ASSUME Messages, BeginTurn, past' = past, runs' = runs
  PROVE  Messages'
<1>1. /\ sent' = sent /\ mailbox' = {} /\ buffer' = {} /\ length' = 0 /\ live' = {}
      /\ ledger' = Nothing
  BY DEF BeginTurn, live
<1>2. past \in Nat /\ runs \in Nat
  BY DEF Messages, Numbered
<1>3. ledger' \in [Keys -> [kind : {"none", "mailbox", "steer"}, n : Nat]]
  BY <1>1 DEF Nothing, None
<1> QED BY <1>1, <1>2, <1>3, FewerMessages

LEMMA MessagesStep == Messages /\ [Next]_vars => Messages'
<1> SUFFICES ASSUME Messages, [Next]_vars
             PROVE  Messages'
  OBVIOUS
<1>0. /\ sent \in Nat /\ past \in Nat /\ runs \in Nat /\ length \in Nat
      /\ ledger \in [Keys -> [kind : {"none", "mailbox", "steer"}, n : Nat]]
  BY DEF Messages, Numbered
<1>1. ASSUME NEW key \in Keys, Retry(key)
      PROVE  Messages'
  <2>1. /\ mailbox' \subseteq mailbox /\ live' = live /\ hasActiveTurn' = hasActiveTurn
        /\ UNCHANGED <<pc, sent, buffer, length, ledger, past, runs>>
    BY <1>1 DEF Retry, live, hasActiveTurn
  <2> QED BY <1>0, <1>1, <2>1, FewerMessages DEF Retry
<1>2. ASSUME NEW key \in Keys, Steer(key) \/ Post(key)
      PROVE  Messages'
  BY <1>2, SteerKeeps, PostKeeps
<1>3. CASE Expire
  <2>1. /\ past' = past + 1 /\ hasActiveTurn' = hasActiveTurn
        /\ UNCHANGED <<pc, sent, mailbox, buffer, length, ledger, runs>>
    BY <1>3 DEF Expire, mail, hasActiveTurn
  <2>2. live' \subseteq live
    BY <1>0, <2>1 DEF live, Messages, Numbered
  <2>3. pc' # "none" => pc # "none" /\ \A m \in live' : m.run = runs => ledger'[m.key] = ledger[m.key]
    BY <2>1
  <2> QED BY <1>0, <2>1, <2>3, FewerMessages
<1>4. CASE Launch
  <2>1. /\ runs' = runs + 1 /\ ~ hasActiveTurn'
        /\ UNCHANGED <<sent, mailbox, buffer, length, ledger, past>>
    BY <1>4 DEF Launch, mail, hasActiveTurn
  <2> QED BY <1>0, <2>1, FewerMessages
<1>5. CASE Prepared
  <2>1. CASE BeginTurn
    BY <1>5, <2>1, BeginTurnKeeps DEF Prepared
  <2>2. CASE pc' = "releasing" /\ UNCHANGED mail
    <3>1. /\ ~ hasActiveTurn' /\ pc # "none" /\ live' = live
          /\ UNCHANGED <<sent, mailbox, buffer, length, ledger, past, runs>>
      BY <1>5, <2>2 DEF Prepared, mail, hasActiveTurn, live
    <3> QED BY <1>0, <3>1, FewerMessages
  <2> QED BY <1>5, <2>1, <2>2 DEF Prepared
<1>6. CASE StepBoundary \/ StopGate
  <2>1. CASE flushSteerBuffer /\ UNCHANGED pc
    <3>1. /\ buffer' = {} /\ length' = 0 /\ live' = live /\ pc # "none"
          /\ UNCHANGED <<pc, sent, mailbox, ledger, past, runs>>
      BY <1>6, <2>1 DEF StepBoundary, StopGate, flushSteerBuffer, live
    <3> QED BY <1>0, <3>1, FewerMessages
  <2>2. CASE StopGate /\ UNCHANGED mail
    <3>1. /\ live' = live /\ pc # "none" /\ hasActiveTurn
          /\ UNCHANGED <<sent, mailbox, buffer, length, ledger, past, runs>>
      BY <2>2 DEF StopGate, mail, live, hasActiveTurn
    <3> QED BY <1>0, <3>1, FewerMessages
  <2> QED BY <1>6, <2>1, <2>2 DEF StepBoundary, StopGate
<1>7. CASE StopShort \/ TurnEnds \/ TurnFails
  <2>1. /\ live' = live /\ pc # "none" /\ (hasActiveTurn' => hasActiveTurn)
        /\ UNCHANGED <<sent, mailbox, buffer, length, ledger, past, runs>>
    BY <1>7 DEF StopShort, TurnEnds, TurnFails, mail, live, hasActiveTurn
  <2> QED BY <1>0, <2>1, FewerMessages
<1>8. CASE Notice
  <2>1. /\ live' = live /\ hasActiveTurn /\ length' = length + 1
        /\ UNCHANGED <<pc, sent, mailbox, buffer, ledger, past, runs>>
    BY <1>8 DEF Notice, live
  <2>2. pc # "none"
    BY <2>1 DEF hasActiveTurn
  <2> QED BY <1>0, <2>1, <2>2, FewerMessages
<1>9. CASE Continue
  <2>1. CASE BeginTurn
    BY <1>9, <2>1, BeginTurnKeeps DEF Continue
  <2>2. CASE /\ pc' = "releasing" /\ mailbox' = live
             /\ UNCHANGED <<buffer, length, ledger, sent>>
    <3>1. /\ ~ hasActiveTurn' /\ pc # "none" /\ live' = live /\ mailbox' \subseteq mailbox
          /\ UNCHANGED <<sent, buffer, length, ledger, past, runs>>
      BY <1>9, <2>2 DEF Continue, hasActiveTurn, live
    <3> QED BY <1>0, <3>1, FewerMessages
  <2> QED BY <1>9, <2>1, <2>2 DEF Continue
<1>10. CASE Evict
  <2>1. /\ pc' = "none" /\ ~ hasActiveTurn' /\ buffer' = {} /\ length' = 0 /\ ledger' = Nothing
        /\ UNCHANGED <<sent, mailbox, past, runs>>
    BY <1>10 DEF Evict, hasActiveTurn
  <2>2. ledger' \in [Keys -> [kind : {"none", "mailbox", "steer"}, n : Nat]]
    BY <2>1 DEF Nothing, None
  <2> QED BY <1>0, <2>1, <2>2, FewerMessages
<1>11. CASE OtherLeg \/ HandOver \/ CancelParent \/ TaskStop \/ AtRest \/ UNCHANGED vars
  <2>1. /\ live' = live /\ (hasActiveTurn' => hasActiveTurn)
        /\ UNCHANGED <<pc, sent, mailbox, buffer, length, ledger, past, runs>>
    BY <1>11 DEF OtherLeg, HandOver, CancelParent, TaskStop, AtRest, vars, mail, live,
                 hasActiveTurn
  <2> QED BY <1>0, <2>1, FewerMessages
<1> QED BY <1>1, <1>2, <1>3, <1>4, <1>5, <1>6, <1>7, <1>8, <1>9, <1>10, <1>11 DEF Next

LEMMA GatedStep == Numbered /\ Gated /\ [Next]_vars => Gated'
<1> SUFFICES ASSUME Numbered, Gated, [Next]_vars
             PROVE  Gated'
  OBVIOUS
<1>0. length \in Nat
  BY DEF Numbered
<1>1. ASSUME NEW key \in Keys, Steer(key)
      PROVE  Gated'
  <2>1. /\ pc \in {"turn", "ending"} /\ buffer' = buffer \cup {Message(key)} /\ length' = length + 1
        /\ UNCHANGED <<pc, gated>>
    BY <1>1 DEF Steer, joinsTurn, hasActiveTurn, turnState
  <2>2. gated => Message(key).late
    BY <2>1 DEF Gated, Message
  <2> QED BY <1>0, <2>1, <2>2 DEF Gated
<1>2. ASSUME NEW key \in Keys, Retry(key) \/ Post(key)
      PROVE  Gated'
  BY <1>2 DEF Gated, Retry, Post, turnState
<1>3. CASE \/ Expire \/ Launch \/ Prepared \/ StepBoundary \/ StopShort \/ TurnEnds \/ TurnFails
           \/ Continue \/ Evict
  BY <1>3 DEF Gated, Expire, Launch, Prepared, StepBoundary, StopShort, TurnEnds, TurnFails,
              Continue, Evict, BeginTurn, flushSteerBuffer, mail, turnState
<1>4. CASE StopGate
  BY <1>0, <1>4 DEF Gated, StopGate, flushSteerBuffer, mail
<1>5. CASE Notice
  BY <1>0, <1>5 DEF Gated, Notice, turnState
<1>6. CASE OtherLeg \/ HandOver \/ CancelParent \/ TaskStop \/ AtRest \/ UNCHANGED vars
  BY <1>6 DEF Gated, OtherLeg, HandOver, CancelParent, TaskStop, AtRest, vars, mail, turnState
<1> QED BY <1>1, <1>2, <1>3, <1>4, <1>5, <1>6 DEF Next

LEMMA OwnedStep == Owned /\ HandedOverSurvives /\ [Next]_vars => Owned' /\ HandedOverSurvives'
<1> SUFFICES ASSUME Owned, HandedOverSurvives, [Next]_vars
             PROVE  Owned' /\ HandedOverSurvives'
  OBVIOUS
<1> USE DEF Owned, HandedOverSurvives
<1>1. ASSUME NEW key \in Keys, Retry(key) \/ Steer(key) \/ Post(key)
      PROVE  Owned' /\ HandedOverSurvives'
  BY <1>1 DEF Retry, Steer, Post, callState
<1>2. CASE \/ Expire \/ Prepared \/ StepBoundary \/ StopGate \/ StopShort \/ TurnEnds \/ TurnFails
           \/ Notice \/ Continue
  BY <1>2 DEF Expire, Prepared, StepBoundary, StopGate, StopShort, TurnEnds, TurnFails, Notice,
              Continue, callState
<1>3. CASE Launch
  BY <1>3 DEF Launch
<1>4. CASE Evict \/ OtherLeg \/ HandOver
  BY <1>4 DEF Evict, OtherLeg, HandOver
<1>5. CASE CancelParent \/ TaskStop \/ AtRest \/ UNCHANGED vars
  BY <1>5 DEF CancelParent, TaskStop, AtRest, vars, callState
<1> QED BY <1>1, <1>2, <1>3, <1>4, <1>5 DEF Next

THEOREM Inductive == Spec => []IInv
<1>1. IInv /\ [Next]_vars => IInv'
  BY MessagesStep, GatedStep, OwnedStep DEF IInv, Messages
<1> QED BY InitInv, <1>1, PTL DEF Spec

\* OneCopyUnderway for any number of runs, messages, retries and flushes.
THEOREM NeverTwice == Spec => []OneCopyUnderway
<1>1. IInv => OneCopyUnderway
  BY DEF IInv
<1> QED BY Inductive, <1>1, PTL

\* A run handed to the background is ended by its own stop alone.
THEOREM HandedOverAlwaysSurvives == Spec => []HandedOverSurvives
<1>1. IInv => HandedOverSurvives
  BY DEF IInv
<1> QED BY Inductive, <1>1, PTL

\* What was accepted leaves by being read, by its deadline, or late with the buffer.
THEOREM NeverDiscarded == Spec => NothingDiscarded
<1> DEFINE Leaves(m) ==
             \/ m \in mailbox' \cup buffer'
             \/ m.id \in heard'
             \/ m \in mailbox /\ m.id <= past
             \/ m \in buffer /\ (~ ok \/ ~ gated \/ m.late)
<1>1. ASSUME IInv, [Next]_vars, NEW m \in mailbox \cup buffer
      PROVE  Leaves(m)
  <2>0. past \in Nat /\ m.id \in Nat
    BY <1>1 DEF IInv, Numbered
  <2>1. m \in live => m.id \in ids(live)
    BY DEF ids
  <2>2. m \in buffer => m.id \in ids(buffer)
    BY DEF ids
  <2>3. m \in mailbox => m \in live \/ m.id <= past
    BY <2>0 DEF live
  <2>4. ASSUME NEW key \in Keys, Retry(key) \/ Steer(key) \/ Post(key)
        PROVE  Leaves(m)
    BY <1>1, <2>3, <2>4 DEF Retry, Steer, Post
  <2>5. CASE Prepared \/ Continue
    BY <1>1, <2>1, <2>2, <2>3, <2>5 DEF Prepared, Continue, BeginTurn, mail
  <2>6. CASE StepBoundary \/ StopGate
    BY <1>1, <2>2, <2>6 DEF StepBoundary, StopGate, flushSteerBuffer, mail
  <2>7. CASE Evict
    BY <1>1, <2>7 DEF Evict, IInv, Gated
  <2>8. CASE \/ Expire \/ Launch \/ StopShort \/ TurnEnds \/ TurnFails \/ Notice
             \/ OtherLeg \/ HandOver \/ CancelParent \/ TaskStop \/ AtRest \/ UNCHANGED vars
    BY <1>1, <2>8 DEF Expire, Launch, StopShort, TurnEnds, TurnFails, Notice, OtherLeg, HandOver,
                     CancelParent, TaskStop, AtRest, vars, mail
  <2> QED BY <1>1, <2>4, <2>5, <2>6, <2>7, <2>8 DEF Next
<1>2. IInv /\ [Next]_vars => [\A m \in mailbox \cup buffer : Leaves(m)]_vars
  BY <1>1
<1> QED BY Inductive, <1>2, PTL DEF Spec, NothingDiscarded
=============================================================================
