---- MODULE OrdersWorker_proof ----
(***************************************************************************)
(* Proofs about OrdersWorker, for any orders, any prefetch limit, any      *)
(* number of attempts and outages.                                         *)
(***************************************************************************)
EXTENDS OrdersWorker, FiniteSetTheorems, TLAPS

USE DEF queueVars, dbVars

LEMMA PutType ==
    ASSUME NEW queue \in [Messages -> Nat], NEW m \in Messages
    PROVE  Put(queue, m) \in [Messages -> Nat]
BY DEF Put

LEMMA TakeType ==
    ASSUME NEW queue \in [Messages -> Nat], NEW m \in Messages, queue[m] > 0
    PROVE  Take(queue, m) \in [Messages -> Nat]
BY DEF Take

\* Attempts never leave their range, so a republished message is a message.
LEMMA NextIsMessage ==
    ASSUME NEW m \in Messages, AttemptOf(m) < MaxAttempts
    PROVE  /\ NextAttempt(m) \in Messages
           /\ OrderOf(NextAttempt(m)) = OrderOf(m)
           /\ AttemptOf(NextAttempt(m)) = AttemptOf(m) + 1
BY AttemptsAssumption DEF Messages, OrderOf, AttemptOf, NextAttempt

\* A slot that is not idle holds a message.
HoldsInv == \A s \in Slots : pc[s] = "idle" <=> holds[s] = NoMessage

LEMMA TypeInit == Init => TypeOK /\ HoldsInv
BY OutagesAssumption DEF Init, TypeOK, HoldsInv, Empty, Places, Inserted

LEMMA TypeStep == TypeOK /\ HoldsInv /\ [Next]_vars => TypeOK' /\ HoldsInv'
<1> SUFFICES ASSUME TypeOK, HoldsInv, [Next]_vars PROVE TypeOK' /\ HoldsInv'
  OBVIOUS
<1> USE NoMessageAssumption DEF TypeOK, HoldsInv, Go, Places, Inserted
<1>m. \A s \in Slots : pc[s] # "idle" => holds[s] \in Messages
  OBVIOUS
<1>o. \A m \in Messages : OrderOf(m) \in Orders
  BY DEF Messages, OrderOf
<1>1. ASSUME NEW o \in Orders, ApiPublishes(o) PROVE TypeOK' /\ HoldsInv'
  <2>1. <<o, 0>> \in Messages
    BY AttemptsAssumption DEF Messages
  <2>2. process' \in [Messages -> Nat]
    BY <1>1, <2>1, PutType DEF ApiPublishes
  <2> QED BY <1>1, <2>2 DEF ApiPublishes
<1>2. ASSUME NEW m \in Messages, Expire(m) PROVE TypeOK' /\ HoldsInv'
  <2>1. process' \in [Messages -> Nat] /\ retry' \in [Messages -> Nat]
    BY <1>2, PutType, TakeType DEF Expire
  <2> QED BY <1>2, <2>1 DEF Expire
<1>3. ASSUME NEW m \in Messages, NEW s \in Slots, Deliver(s, m)
      PROVE  TypeOK' /\ HoldsInv'
  <2>1. process' \in [Messages -> Nat]
    BY <1>3, TakeType DEF Deliver
  <2> QED BY <1>3, <2>1 DEF Deliver
<1>4. ASSUME NEW s \in Slots, InsertProcessed(s) PROVE TypeOK' /\ HoldsInv'
  BY <1>4 DEF InsertProcessed
<1>5. ASSUME NEW s \in Slots, RollbackDuplicate(s) PROVE TypeOK' /\ HoldsInv'
  BY <1>5 DEF RollbackDuplicate
<1>6. ASSUME NEW s \in Slots, Commit(s) PROVE TypeOK' /\ HoldsInv'
  BY <1>6, <1>m, <1>o DEF Commit, Record
<1>7. ASSUME NEW s \in Slots, WorkFails(s) PROVE TypeOK' /\ HoldsInv'
  BY <1>7 DEF WorkFails
<1>8. ASSUME NEW s \in Slots, Rollback(s) PROVE TypeOK' /\ HoldsInv'
  BY <1>8, <1>m, <1>o DEF Rollback
<1>9. ASSUME NEW s \in Slots, Republish(s) PROVE TypeOK' /\ HoldsInv'
  <2>1. holds[s] \in Messages
    BY <1>9, <1>m DEF Republish
  <2>2. retry' \in [Messages -> Nat] /\ dlq' \in [Messages -> Nat]
    BY <1>9, <2>1, PutType, NextIsMessage DEF Republish, HasAttemptsLeft, DeadLetter
  <2> QED BY <1>9, <2>2 DEF Republish
<1>10. ASSUME NEW s \in Slots, Ack(s) PROVE TypeOK' /\ HoldsInv'
  BY <1>10 DEF Ack
<1>11. ASSUME NEW s \in Slots, NackRequeue(s) PROVE TypeOK' /\ HoldsInv'
  <2>1. process' \in [Messages -> Nat]
    BY <1>11, <1>m, PutType DEF NackRequeue
  <2>2. status' \in [Orders -> {"pending", "processed", "failed"}]
        /\ processedMessages' \subseteq Orders
    BY <1>11, <1>m, <1>o DEF NackRequeue, Record
  <2>3. outages' \in 0 .. MaxOutages
    BY <1>11, OutagesAssumption DEF NackRequeue, Outage
  <2> QED BY <1>11, <2>1, <2>2, <2>3 DEF NackRequeue
<1>b. PutBack => process' \in [Messages -> Nat]
  <2>1. \A m \in Messages : Requeued(m) \in Nat
    BY SlotsAssumption, FS_Subset, FS_CardinalityType DEF Requeued
  <2> QED BY <2>1 DEF PutBack
<1>12. CASE Crash \/ Exit
  <2>1. Restart /\ outages' \in 0 .. MaxOutages
    BY <1>12, OutagesAssumption DEF Crash, Exit, Outage
  <2> QED BY <1>b, <2>1 DEF Restart
<1>14. CASE Disconnect
  <2>1. outages' \in 0 .. MaxOutages
    BY <1>14, OutagesAssumption DEF Disconnect, Outage
  <2> QED BY <1>b, <1>14, <2>1 DEF Disconnect
<1>13. CASE UNCHANGED vars
  BY <1>13 DEF vars
<1> QED BY <1>1, <1>2, <1>3, <1>4, <1>5, <1>6, <1>7, <1>8, <1>9, <1>10, <1>11,
           <1>12, <1>13, <1>14 DEF Next, Handle, Drained

\* Every variable of OrdersWorker keeps its type.
THEOREM WorkerTypeCorrect == Spec => []TypeOK
<1>1. TypeOK /\ HoldsInv /\ [Next]_vars => (TypeOK /\ HoldsInv)'
  BY TypeStep
<1> QED BY TypeInit, <1>1, PTL DEF Spec

-----------------------------------------------------------------------------
(* One transaction per message at a time, and what it leaves behind.       *)

\* An uncommitted row of processed_messages has no rival: the insert waits.
Serialised ==
    \A s, t \in Slots :
        /\ pc[s] \in Inserted /\ pc[t] \in Inserted
        /\ OrderOf(holds[s]) = OrderOf(holds[t])
        => s = t

\* A duplicate was found because its order is done.
WorkInv ==
    /\ Serialised
    /\ RecordedIffProcessed
    /\ \A s \in Slots : pc[s] \in Inserted => OrderOf(holds[s]) \notin processedMessages
    /\ \A s \in Slots : pc[s] = "duplicate" => OrderOf(holds[s]) \in processedMessages

LEMMA WorkInit == Init => WorkInv
BY DEF Init, WorkInv, Serialised, RecordedIffProcessed, Inserted

LEMMA WorkStep == TypeOK /\ HoldsInv /\ WorkInv /\ [Next]_vars => WorkInv'
<1> SUFFICES ASSUME TypeOK, HoldsInv, WorkInv, [Next]_vars PROVE WorkInv'
  OBVIOUS
<1> USE DEF TypeOK, WorkInv, Serialised, RecordedIffProcessed, Inserted, Go
<1>1. ASSUME NEW o \in Orders, ApiPublishes(o) PROVE WorkInv'
  BY <1>1 DEF ApiPublishes
<1>2. ASSUME NEW m \in Messages, Expire(m) PROVE WorkInv'
  BY <1>2 DEF Expire
<1>3. ASSUME NEW m \in Messages, NEW s \in Slots, Deliver(s, m) PROVE WorkInv'
  BY <1>3 DEF Deliver
<1>4. ASSUME NEW s \in Slots, InsertProcessed(s) PROVE WorkInv'
  BY <1>4 DEF InsertProcessed, MessageContended, Recorded
<1>5. ASSUME NEW s \in Slots, RollbackDuplicate(s) PROVE WorkInv'
  BY <1>5 DEF RollbackDuplicate
<1>6. ASSUME NEW s \in Slots, Commit(s) PROVE WorkInv'
  <2>1. OrderOf(holds[s]) \in Orders
    BY <1>6 DEF Commit, HoldsInv, Messages, OrderOf
  <2> QED BY <1>6, <2>1 DEF Commit, Record
<1>7. ASSUME NEW s \in Slots, WorkFails(s) PROVE WorkInv'
  BY <1>7 DEF WorkFails
<1>8. ASSUME NEW s \in Slots, Rollback(s) PROVE WorkInv'
  BY <1>8 DEF Rollback
<1>9. ASSUME NEW s \in Slots, Republish(s) PROVE WorkInv'
  BY <1>9 DEF Republish
<1>10. ASSUME NEW s \in Slots, Ack(s) PROVE WorkInv'
  BY <1>10 DEF Ack
<1>11. ASSUME NEW s \in Slots, NackRequeue(s) PROVE WorkInv'
  <2>1. CASE UNCHANGED dbVars
    BY <1>11, <2>1 DEF NackRequeue
  <2>2. CASE pc[s] = "working" /\ Record(OrderOf(holds[s]))
    <3>1. OrderOf(holds[s]) \in Orders
      BY <2>2 DEF HoldsInv, Messages, OrderOf
    <3> QED BY <1>11, <2>2, <3>1 DEF NackRequeue, Record
  <2> QED BY <1>11, <2>1, <2>2 DEF NackRequeue
<1>12. CASE Crash \/ Exit
  BY <1>12 DEF Crash, Exit, Restart
<1>14. CASE Disconnect
  BY <1>14 DEF Disconnect
<1>13. CASE UNCHANGED vars
  BY <1>13 DEF vars
<1> QED BY <1>1, <1>2, <1>3, <1>4, <1>5, <1>6, <1>7, <1>8, <1>9, <1>10, <1>11,
           <1>12, <1>13, <1>14 DEF Next, Handle, Drained

\* The commit of a message is the last thing that happens to its order.
LEMMA ProcessedStep ==
    TypeOK /\ WorkInv /\ [Next]_vars =>
        \A o \in Orders : status[o] = "processed" =>
            status'[o] = "processed" /\ failures'[o] = failures[o]
<1> SUFFICES ASSUME TypeOK, WorkInv, [Next]_vars,
                    NEW o \in Orders, status[o] = "processed"
             PROVE  status'[o] = "processed" /\ failures'[o] = failures[o]
  OBVIOUS
<1>1. CASE \E s \in Slots : Commit(s) \/ NackRequeue(s)
  BY <1>1 DEF Commit, NackRequeue, Record, TypeOK
<1>2. CASE \E s \in Slots : Rollback(s)
  <2>1. PICK s \in Slots : Rollback(s)
    BY <1>2
  <2>2. OrderOf(holds[s]) # o
    BY <2>1 DEF Rollback, WorkInv, RecordedIffProcessed, Inserted
  <2> QED BY <2>1, <2>2 DEF Rollback, TypeOK
<1>3. CASE UNCHANGED <<status, failures>>
  BY <1>3
<1> QED BY <1>1, <1>2, <1>3 DEF Next, Handle, Drained, vars, ApiPublishes, Expire,
           Deliver, InsertProcessed, RollbackDuplicate, WorkFails, Republish, Ack,
           Crash, Disconnect, Exit, Restart

-----------------------------------------------------------------------------
(* No message is lost.                                                     *)

\* A copy of m that will not just be acknowledged.
Pending(m) == \/ process[m] > 0 \/ retry[m] > 0 \/ dlq[m] > 0
              \/ \E s \in Slots : /\ connected
                                /\ holds[s] = m
                                /\ pc[s] \notin {"duplicate", "acking"}

CopyInv == \A o \in sent : o \notin processedMessages =>
               \E m \in Messages : OrderOf(m) = o /\ Pending(m)

LEMMA CopyInit == Init => CopyInv
BY DEF Init, CopyInv

\* A step that leaves every pending copy pending keeps CopyInv.
LEMMA CopyFrame ==
    ASSUME CopyInv, sent' = sent, processedMessages \subseteq processedMessages',
           \A m \in Messages : Pending(m) =>
               \/ Pending(m)'
               \/ OrderOf(m) \in processedMessages'
               \/ \E n \in Messages : OrderOf(n) = OrderOf(m) /\ Pending(n)'
    PROVE  CopyInv'
<1> SUFFICES ASSUME NEW o \in sent, o \notin processedMessages'
             PROVE  \E m \in Messages : OrderOf(m) = o /\ Pending(m)'
  BY DEF CopyInv
<1>1. PICK m \in Messages : OrderOf(m) = o /\ Pending(m)
  BY DEF CopyInv
<1> QED BY <1>1

LEMMA CopyStep == TypeOK /\ HoldsInv /\ WorkInv /\ CopyInv /\ [Next]_vars => CopyInv'
<1> SUFFICES ASSUME TypeOK, HoldsInv, WorkInv, CopyInv, [Next]_vars PROVE CopyInv'
  OBVIOUS
<1> USE DEF TypeOK, Go, Pending, Put, Take
<1>1. ASSUME NEW o \in Orders, ApiPublishes(o) PROVE CopyInv'
  <2>1. <<o, 0>> \in Messages /\ OrderOf(<<o, 0>>) = o
    BY AttemptsAssumption DEF Messages, OrderOf
  <2>2. \A m \in Messages : process'[m] >= process[m]
    BY <1>1, <2>1 DEF ApiPublishes
  <2>3. process'[<<o, 0>>] > 0
    BY <1>1, <2>1 DEF ApiPublishes
  <2>4. \A m \in Messages : Pending(m) => Pending(m)'
    BY <1>1, <2>2 DEF ApiPublishes
  <2>5. Pending(<<o, 0>>)'
    BY <2>3
  <2> HIDE DEF Pending
  <2> QED BY <1>1, <2>1, <2>4, <2>5 DEF ApiPublishes, CopyInv
<1>2. ASSUME NEW m \in Messages, Expire(m) PROVE CopyInv'
  <2>1. \A n \in Messages : Pending(n) => Pending(n)'
    BY <1>2 DEF Expire
  <2> HIDE DEF Pending
  <2> QED BY <1>2, <2>1, CopyFrame DEF Expire
<1>3. ASSUME NEW m \in Messages, NEW s \in Slots, Deliver(s, m) PROVE CopyInv'
  <2>1. \A n \in Messages : Pending(n) => Pending(n)'
    BY <1>3, NoMessageAssumption DEF Deliver, HoldsInv
  <2> HIDE DEF Pending
  <2> QED BY <1>3, <2>1, CopyFrame DEF Deliver
<1>4. ASSUME NEW s \in Slots, InsertProcessed(s) PROVE CopyInv'
  <2>1. \A n \in Messages : Pending(n) => Pending(n)' \/ OrderOf(n) \in processedMessages'
    BY <1>4 DEF InsertProcessed, Recorded
  <2> HIDE DEF Pending
  <2> QED BY <1>4, <2>1, CopyFrame DEF InsertProcessed
<1>5. ASSUME NEW s \in Slots, RollbackDuplicate(s) PROVE CopyInv'
  <2>1. \A n \in Messages : Pending(n) => Pending(n)'
    BY <1>5 DEF RollbackDuplicate
  <2> HIDE DEF Pending
  <2> QED BY <1>5, <2>1, CopyFrame DEF RollbackDuplicate
<1>6. ASSUME NEW s \in Slots, Commit(s) PROVE CopyInv'
  <2>1. \A n \in Messages : Pending(n) => Pending(n)' \/ OrderOf(n) \in processedMessages'
    BY <1>6 DEF Commit, Record
  <2> HIDE DEF Pending
  <2> QED BY <1>6, <2>1, CopyFrame DEF Commit, Record
<1>7. ASSUME NEW s \in Slots, WorkFails(s) PROVE CopyInv'
  <2>1. \A n \in Messages : Pending(n) => Pending(n)'
    BY <1>7 DEF WorkFails
  <2> HIDE DEF Pending
  <2> QED BY <1>7, <2>1, CopyFrame DEF WorkFails
<1>8. ASSUME NEW s \in Slots, Rollback(s) PROVE CopyInv'
  <2>1. \A n \in Messages : Pending(n) => Pending(n)'
    BY <1>8 DEF Rollback
  <2> HIDE DEF Pending
  <2> QED BY <1>8, <2>1, CopyFrame DEF Rollback
<1>9. ASSUME NEW s \in Slots, Republish(s) PROVE CopyInv'
  <2>1. holds[s] \in Messages
    BY <1>9 DEF Republish, HoldsInv
  <2>2. PICK x \in Messages : OrderOf(x) = OrderOf(holds[s]) /\ Pending(x)'
    <3>1. CASE AttemptOf(holds[s]) < MaxAttempts
      <4> DEFINE x == NextAttempt(holds[s])
      <4>1. x \in Messages /\ OrderOf(x) = OrderOf(holds[s])
        BY <2>1, <3>1, NextIsMessage
      <4> HIDE DEF x
      <4>2. retry' = Put(retry, x)
        BY <1>9, <3>1 DEF Republish, HasAttemptsLeft, x
      <4>3. retry'[x] > 0
        BY <4>1, <4>2
      <4> QED BY <4>1, <4>3
    <3>2. CASE ~ AttemptOf(holds[s]) < MaxAttempts
      BY <1>9, <2>1, <3>2 DEF Republish, HasAttemptsLeft, DeadLetter
    <3> QED BY <3>1, <3>2
  <2>3. \A m \in Messages : retry'[m] >= retry[m] /\ dlq'[m] >= dlq[m]
    <3>1. CASE HasAttemptsLeft(holds[s])
      <4>1. NextAttempt(holds[s]) \in Messages
        BY <2>1, <3>1, NextIsMessage DEF HasAttemptsLeft
      <4> QED BY <1>9, <3>1, <4>1 DEF Republish
    <3>2. CASE ~ HasAttemptsLeft(holds[s])
      BY <1>9, <2>1, <3>2 DEF Republish, DeadLetter
    <3> QED BY <3>1, <3>2
  <2>4. \A n \in Messages : Pending(n) => Pending(n)' \/ n = holds[s]
    <3> TAKE n \in Messages
    <3>1. process[n] > 0 \/ retry[n] > 0 \/ dlq[n] > 0 => Pending(n)'
      <4>1. process' = process /\ retry'[n] >= retry[n] /\ dlq'[n] >= dlq[n]
        BY <1>9, <2>3 DEF Republish
      <4>2. retry[n] \in Nat /\ dlq[n] \in Nat /\ retry'[n] \in Int /\ dlq'[n] \in Int
        BY <1>9, TypeStep
      <4> QED BY <4>1, <4>2
    <3>2. ASSUME NEW t \in Slots, t # s, connected, holds[t] = n,
                 pc[t] \notin {"duplicate", "acking"}
          PROVE  Pending(n)'
      BY <1>9, <3>2 DEF Republish
    <3> QED BY <3>1, <3>2
  <2> HIDE DEF Pending
  <2> QED BY <1>9, <2>2, <2>4, CopyFrame DEF Republish
<1>10. ASSUME NEW s \in Slots, Ack(s) PROVE CopyInv'
  <2>1. \A n \in Messages : Pending(n) => Pending(n)'
    BY <1>10 DEF Ack
  <2> HIDE DEF Pending
  <2> QED BY <1>10, <2>1, CopyFrame DEF Ack
<1>11. ASSUME NEW s \in Slots, NackRequeue(s) PROVE CopyInv'
  <2>1. holds[s] \in Messages
    BY <1>11 DEF NackRequeue, HoldsInv
  <2>2. \A n \in Messages : Pending(n) => Pending(n)'
    BY <1>11, <2>1 DEF NackRequeue
  <2>3. processedMessages \subseteq processedMessages'
    BY <1>11 DEF NackRequeue, Record
  <2> HIDE DEF Pending
  <2> QED BY <1>11, <2>2, <2>3, CopyFrame DEF NackRequeue
<1>b. ASSUME PutBack, UNCHANGED <<retry, dlq>>
      PROVE  \A m \in Messages : Pending(m) => Pending(m)'
  <2> SUFFICES ASSUME NEW m \in Messages, Pending(m) PROVE Pending(m)'
    OBVIOUS
  <2> DEFINE S == {s \in Slots : holds[s] = m}
  <2>1. IsFiniteSet(S)
    BY SlotsAssumption, FS_Subset
  <2>2. Cardinality(S) \in Nat /\ (Cardinality(S) = 0 => S = {})
    BY <2>1, FS_CardinalityType, FS_EmptySet
  <2>3. Requeued(m) = IF connected THEN Cardinality(S) ELSE 0
    BY DEF Requeued
  <2>4. process'[m] = process[m] + Requeued(m) /\ process[m] \in Nat
    BY <1>b DEF PutBack
  <2>5. connected /\ S # {} => Requeued(m) > 0
    <3> HIDE DEF S
    <3> QED BY <2>2, <2>3
  <2>6. Requeued(m) \in Nat
    <3> HIDE DEF S
    <3> QED BY <2>2, <2>3
  <2>7. process[m] > 0 \/ (connected /\ S # {}) => process'[m] > 0
    <3> HIDE DEF S
    <3> QED BY <2>4, <2>5, <2>6
  <2> QED BY <1>b, <2>7
<1>12. CASE Crash \/ Exit
  <2>1. Restart
    BY <1>12 DEF Crash, Exit
  <2>2. \A n \in Messages : Pending(n) => Pending(n)'
    BY <1>b, <2>1 DEF Restart
  <2> HIDE DEF Pending
  <2> QED BY <2>1, <2>2, CopyFrame DEF Restart
<1>14. CASE Disconnect
  <2>1. \A n \in Messages : Pending(n) => Pending(n)'
    BY <1>b, <1>14 DEF Disconnect
  <2> HIDE DEF Pending
  <2> QED BY <1>14, <2>1, CopyFrame DEF Disconnect
<1>13. CASE UNCHANGED vars
  <2>1. \A n \in Messages : Pending(n) => Pending(n)'
    BY <1>13 DEF vars
  <2> HIDE DEF Pending
  <2> QED BY <1>13, <2>1, CopyFrame DEF vars
<1> QED BY <1>1, <1>2, <1>3, <1>4, <1>5, <1>6, <1>7, <1>8, <1>9, <1>10, <1>11,
           <1>12, <1>13, <1>14 DEF Next, Handle, Drained

-----------------------------------------------------------------------------
(* Attempts count failures.                                                *)

\* The failures before this attempt were counted, and so was the one that a
\* republish reports.
AttemptsInv ==
    /\ AttemptsAreFailures
    /\ \A s \in Slots : pc[s] # "idle" =>
           failures[OrderOf(holds[s])] >= AttemptOf(holds[s])
    /\ \A s \in Slots : pc[s] = "republish" =>
           failures[OrderOf(holds[s])] > AttemptOf(holds[s])

LEMMA AttemptsInit == Init => AttemptsInv
<1> SUFFICES ASSUME Init PROVE AttemptsInv
  OBVIOUS
<1>1. \A m \in Messages : ~ Alive(m) /\ dlq[m] = 0
  BY NoMessageAssumption DEF Init, Alive, Empty
<1> QED BY <1>1 DEF Init, AttemptsInv, AttemptsAreFailures

\* A step that makes no new copy and counts no failure backwards keeps the
\* bound of every copy.
LEMMA AttemptsFrame ==
    ASSUME TypeOK, TypeOK', AttemptsAreFailures,
           \A m \in Messages : Alive(m)' => Alive(m), dlq' = dlq,
           \A o \in Orders : failures'[o] >= failures[o]
    PROVE  AttemptsAreFailures'
<1> SUFFICES ASSUME NEW m \in Messages
             PROVE  /\ Alive(m)' => failures'[OrderOf(m)] >= AttemptOf(m)
                    /\ dlq'[m] > 0 => failures'[OrderOf(m)] > MaxAttempts
  BY DEF AttemptsAreFailures
<1>1. /\ OrderOf(m) \in Orders
      /\ AttemptOf(m) \in Nat
      /\ failures[OrderOf(m)] \in Nat
      /\ failures'[OrderOf(m)] \in Nat
  BY DEF Messages, OrderOf, AttemptOf, TypeOK
<1>2. failures'[OrderOf(m)] >= failures[OrderOf(m)]
  BY <1>1
<1> QED BY <1>1, <1>2, AttemptsAssumption DEF AttemptsAreFailures

LEMMA AttemptsStep ==
    TypeOK /\ HoldsInv /\ AttemptsInv /\ TypeOK' /\ [Next]_vars => AttemptsInv'
<1> SUFFICES ASSUME TypeOK, HoldsInv, AttemptsInv, TypeOK', [Next]_vars
             PROVE  AttemptsInv'
  OBVIOUS
<1> DEFINE Reported ==
      /\ \A s \in Slots : pc[s] # "idle" =>
             failures[OrderOf(holds[s])] >= AttemptOf(holds[s])
      /\ \A s \in Slots : pc[s] = "republish" =>
             failures[OrderOf(holds[s])] > AttemptOf(holds[s])
<1> USE DEF Go
<1>g. failures' = failures => \A o \in Orders : failures'[o] >= failures[o]
  BY DEF TypeOK
<1>h. \A s \in Slots : pc[s] # "idle" =>
          /\ holds[s] \in Messages
          /\ OrderOf(holds[s]) \in Orders
          /\ AttemptOf(holds[s]) \in 0 .. MaxAttempts
  BY NoMessageAssumption DEF TypeOK, HoldsInv, Messages, OrderOf, AttemptOf
<1>1. ASSUME NEW o \in Orders, ApiPublishes(o) PROVE AttemptsInv'
  <2> DEFINE x == <<o, 0>>
  <2>1. x \in Messages /\ OrderOf(x) = o /\ AttemptOf(x) = 0
    BY AttemptsAssumption DEF Messages, OrderOf, AttemptOf
  <2> HIDE DEF x
  <2>2. \A m \in Messages : Alive(m)' => Alive(m) \/ m = x
    BY <1>1 DEF ApiPublishes, Alive, Put, TypeOK, x
  <2>3. failures' = failures /\ dlq' = dlq /\ failures[o] \in Nat
    BY <1>1 DEF ApiPublishes, TypeOK
  <2>4. AttemptsAreFailures'
    BY <2>1, <2>2, <2>3 DEF AttemptsInv, AttemptsAreFailures
  <2>5. Reported'
    BY <1>1 DEF ApiPublishes, AttemptsInv
  <2> QED BY <2>4, <2>5 DEF AttemptsInv
<1>2. ASSUME NEW m \in Messages, Expire(m) PROVE AttemptsInv'
  <2>1. \A n \in Messages : Alive(n)' => Alive(n)
    BY <1>2 DEF Expire, Alive, Put, Take, TypeOK
  <2>2. AttemptsAreFailures'
    BY <1>2, <1>g, <2>1, AttemptsFrame DEF Expire, AttemptsInv
  <2>3. Reported'
    BY <1>2 DEF Expire, AttemptsInv
  <2> QED BY <2>2, <2>3 DEF AttemptsInv
<1>3. ASSUME NEW m \in Messages, NEW s \in Slots, Deliver(s, m) PROVE AttemptsInv'
  <2>1. \A n \in Messages : Alive(n)' => Alive(n)
    BY <1>3 DEF Deliver, Alive, Take, TypeOK
  <2>2. AttemptsAreFailures'
    BY <1>3, <1>g, <2>1, AttemptsFrame DEF Deliver, AttemptsInv
  <2>3. Reported'
    <3>1. failures[OrderOf(m)] >= AttemptOf(m)
      BY <1>3 DEF Deliver, AttemptsInv, AttemptsAreFailures, Alive
    <3> QED BY <1>3, <3>1 DEF Deliver, AttemptsInv, TypeOK
  <2> QED BY <2>2, <2>3 DEF AttemptsInv
<1>4. ASSUME NEW s \in Slots,
             \/ InsertProcessed(s) \/ RollbackDuplicate(s)
             \/ Commit(s) \/ WorkFails(s)
      PROVE  AttemptsInv'
  <2>1. \A n \in Messages : Alive(n)' => Alive(n)
    BY <1>4 DEF InsertProcessed, RollbackDuplicate, Commit, Record, WorkFails,
                Alive
  <2>2. failures' = failures /\ dlq' = dlq
    BY <1>4 DEF InsertProcessed, RollbackDuplicate, Commit, WorkFails
  <2>3. AttemptsAreFailures'
    BY <1>g, <2>1, <2>2, AttemptsFrame DEF AttemptsInv
  <2>4. Reported'
    BY <1>4 DEF InsertProcessed, RollbackDuplicate, Commit, WorkFails, AttemptsInv,
                TypeOK
  <2> QED BY <2>3, <2>4 DEF AttemptsInv
<1>8. ASSUME NEW s \in Slots, Rollback(s) PROVE AttemptsInv'
  <2>1. \A n \in Messages : Alive(n)' => Alive(n)
    BY <1>8 DEF Rollback, Alive
  <2>2. \A o \in Orders : failures'[o] >= failures[o]
    BY <1>8 DEF Rollback, TypeOK
  <2>3. AttemptsAreFailures'
    BY <1>8, <2>1, <2>2, AttemptsFrame DEF Rollback, AttemptsInv
  <2>5. failures[OrderOf(holds[s])] >= AttemptOf(holds[s])
    BY <1>8 DEF Rollback, AttemptsInv
  <2>6. failures'[OrderOf(holds[s])] > AttemptOf(holds[s])
    BY <1>8, <1>h, <2>5 DEF Rollback, TypeOK
  <2>7. ASSUME NEW t \in Slots, t # s, pc[t] = "republish"
        PROVE  failures'[OrderOf(holds[t])] > AttemptOf(holds[t])
    <3>1. /\ OrderOf(holds[t]) \in Orders
          /\ AttemptOf(holds[t]) \in Nat
          /\ failures[OrderOf(holds[t])] > AttemptOf(holds[t])
      BY <1>h, <2>7, AttemptsAssumption DEF AttemptsInv
    <3>2. failures'[OrderOf(holds[t])] >= failures[OrderOf(holds[t])]
      BY <2>2, <3>1
    <3>3. /\ failures[OrderOf(holds[t])] \in Nat
          /\ failures'[OrderOf(holds[t])] \in Nat
      BY <3>1 DEF TypeOK
    <3> QED BY <3>1, <3>2, <3>3
  <2>8. ASSUME NEW t \in Slots, t # s, pc[t] # "idle"
        PROVE  failures'[OrderOf(holds[t])] >= AttemptOf(holds[t])
    <3>1. /\ OrderOf(holds[t]) \in Orders
          /\ AttemptOf(holds[t]) \in Nat
          /\ failures[OrderOf(holds[t])] >= AttemptOf(holds[t])
      BY <1>h, <2>8, AttemptsAssumption DEF AttemptsInv
    <3>2. /\ failures'[OrderOf(holds[t])] >= failures[OrderOf(holds[t])]
          /\ failures[OrderOf(holds[t])] \in Nat
          /\ failures'[OrderOf(holds[t])] \in Nat
      BY <2>2, <3>1 DEF TypeOK
    <3> QED BY <3>1, <3>2
  <2>9. Reported'
    <3>1. failures'[OrderOf(holds[s])] >= AttemptOf(holds[s])
      <4>1. OrderOf(holds[s]) \in Orders /\ AttemptOf(holds[s]) \in Nat
        BY <1>8, <1>h, AttemptsAssumption DEF Rollback
      <4>2. failures'[OrderOf(holds[s])] \in Nat
        BY <4>1 DEF TypeOK
      <4> QED BY <2>6, <4>1, <4>2
    <3>2. holds' = holds /\ \A t \in Slots : t # s => pc'[t] = pc[t]
      BY <1>8 DEF Rollback, TypeOK
    <3> QED BY <2>6, <2>7, <2>8, <3>1, <3>2
  <2> QED BY <2>3, <2>9 DEF AttemptsInv
<1>9. ASSUME NEW s \in Slots, Republish(s) PROVE AttemptsInv'
  <2>1. /\ holds[s] \in Messages
        /\ OrderOf(holds[s]) \in Orders
        /\ AttemptOf(holds[s]) \in 0 .. MaxAttempts
        /\ failures[OrderOf(holds[s])] > AttemptOf(holds[s])
        /\ failures[OrderOf(holds[s])] \in Nat
    BY <1>9, <1>h DEF Republish, AttemptsInv, TypeOK
  <2>2. Reported'
    BY <1>9 DEF Republish, AttemptsInv, TypeOK
  <2>3. AttemptsAreFailures'
    <3>1. CASE AttemptOf(holds[s]) < MaxAttempts
      <4> DEFINE x == NextAttempt(holds[s])
      <4>1. /\ x \in Messages
            /\ OrderOf(x) = OrderOf(holds[s])
            /\ AttemptOf(x) = AttemptOf(holds[s]) + 1
        BY <2>1, <3>1, NextIsMessage
      <4>2. retry' = Put(retry, x) /\ dlq' = dlq /\ failures' = failures
        BY <1>9, <3>1 DEF Republish, HasAttemptsLeft
      <4> HIDE DEF x
      <4>3. \A m \in Messages : Alive(m)' => Alive(m) \/ m = x
        BY <1>9, <4>1, <4>2 DEF Republish, Alive, Put, TypeOK
      <4>4. failures[OrderOf(x)] >= AttemptOf(x)
        BY <2>1, <4>1, AttemptsAssumption
      <4> QED BY <4>2, <4>3, <4>4 DEF AttemptsInv, AttemptsAreFailures
    <3>2. CASE ~ AttemptOf(holds[s]) < MaxAttempts
      <4>1. dlq' = Put(dlq, holds[s]) /\ failures' = failures
        BY <1>9, <3>2 DEF Republish, HasAttemptsLeft, DeadLetter
      <4>2. \A m \in Messages : Alive(m)' => Alive(m)
        BY <1>9, <2>1, <3>2 DEF Republish, HasAttemptsLeft, DeadLetter, Alive, Put, TypeOK
      <4>3. \A m \in Messages : dlq'[m] > 0 => dlq[m] > 0 \/ m = holds[s]
        BY <2>1, <4>1 DEF Put, TypeOK
      <4>4. failures[OrderOf(holds[s])] > MaxAttempts
        BY <2>1, <3>2, AttemptsAssumption
      <4> QED BY <4>1, <4>2, <4>3, <4>4 DEF AttemptsInv, AttemptsAreFailures
    <3> QED BY <3>1, <3>2
  <2> QED BY <2>2, <2>3 DEF AttemptsInv
<1>10. ASSUME NEW s \in Slots, Ack(s) PROVE AttemptsInv'
  <2>1. \A n \in Messages : Alive(n)' => Alive(n)
    BY <1>10, NoMessageAssumption DEF Ack, Alive, TypeOK
  <2>2. AttemptsAreFailures'
    BY <1>10, <1>g, <2>1, AttemptsFrame DEF Ack, AttemptsInv
  <2>3. Reported'
    BY <1>10 DEF Ack, AttemptsInv, TypeOK
  <2> QED BY <2>2, <2>3 DEF AttemptsInv
<1>11. ASSUME NEW s \in Slots, NackRequeue(s) PROVE AttemptsInv'
  <2>1. holds[s] \in Messages
    BY <1>11, <1>h DEF NackRequeue
  <2>2. \A n \in Messages : Alive(n)' => Alive(n)
    BY <1>11, <2>1, NoMessageAssumption DEF NackRequeue, Alive, Put, TypeOK
  <2>3. AttemptsAreFailures'
    BY <1>11, <1>g, <2>2, AttemptsFrame DEF NackRequeue, AttemptsInv
  <2>4. Reported'
    BY <1>11 DEF NackRequeue, AttemptsInv, TypeOK
  <2> QED BY <2>3, <2>4 DEF AttemptsInv
<1>b. ASSUME PutBack, NEW m \in Messages, process'[m] > 0
      PROVE  process[m] > 0 \/ (connected /\ \E s \in Slots : holds[s] = m)
  <2> SUFFICES ASSUME ~ (connected /\ \E s \in Slots : holds[s] = m)
               PROVE  Requeued(m) = 0
    BY <1>b DEF PutBack, TypeOK
  <2>1. connected => {s \in Slots : holds[s] = m} = {}
    OBVIOUS
  <2> QED BY <2>1, FS_EmptySet DEF Requeued
<1>12. CASE Crash \/ Exit
  <2>1. Restart
    BY <1>12 DEF Crash, Exit
  <2>2. \A n \in Messages : Alive(n)' => Alive(n)
    BY <1>b, <2>1, NoMessageAssumption DEF Restart, Alive, TypeOK
  <2>3. AttemptsAreFailures'
    BY <1>g, <2>1, <2>2, AttemptsFrame DEF Restart, AttemptsInv
  <2>4. Reported'
    BY <2>1 DEF Restart
  <2> QED BY <2>3, <2>4 DEF AttemptsInv
<1>14. CASE Disconnect
  <2>1. \A n \in Messages : Alive(n)' => Alive(n)
    BY <1>b, <1>14 DEF Disconnect, Alive, TypeOK
  <2>2. AttemptsAreFailures'
    BY <1>g, <1>14, <2>1, AttemptsFrame DEF Disconnect, AttemptsInv
  <2>3. Reported'
    BY <1>14 DEF Disconnect, AttemptsInv
  <2> QED BY <2>2, <2>3 DEF AttemptsInv
<1>13. CASE UNCHANGED vars
  <2>1. AttemptsAreFailures'
    BY <1>13 DEF vars, AttemptsInv, AttemptsAreFailures, Alive
  <2>2. Reported'
    BY <1>13 DEF vars, AttemptsInv
  <2> QED BY <2>1, <2>2 DEF AttemptsInv
<1> QED BY <1>1, <1>2, <1>3, <1>4, <1>8, <1>9, <1>10, <1>11, <1>12, <1>13,
           <1>14 DEF Next, Handle, Drained

-----------------------------------------------------------------------------
(* Retries are bounded.  A copy of a message is worth the attempts that are *)
(* left to it; the failures of an order and the worth of its copies never   *)
(* exceed what the publish and the outages brought in.  Worth is counted in *)
(* sets of units, one unit for every failure that may still come.           *)

Worth(m) == MaxAttempts + 1 - AttemptOf(m)

LEMMA WorthType ==
    ASSUME NEW m \in Messages
    PROVE  Worth(m) \in 1 .. MaxAttempts + 1
BY AttemptsAssumption DEF Worth, AttemptOf, Messages

\* The i-th copy of m in a queue has Worth(m) units.
QueueUnits(queue, o) ==
    {u \in Messages \X Nat \X Nat :
        OrderOf(u[1]) = o /\ u[2] < queue[u[1]] /\ u[3] < Worth(u[1])}

LEMMA PutUnits ==
    ASSUME NEW queue \in [Messages -> Nat], NEW m \in Messages, NEW o,
           IsFiniteSet(QueueUnits(queue, o))
    PROVE  /\ IsFiniteSet(QueueUnits(Put(queue, m), o))
           /\ Cardinality(QueueUnits(Put(queue, m), o)) =
                  Cardinality(QueueUnits(queue, o))
                  + IF OrderOf(m) = o THEN Worth(m) ELSE 0
<1>1. Cardinality(QueueUnits(queue, o)) \in Nat
  BY FS_CardinalityType
<1>2. CASE OrderOf(m) # o
  <2>1. QueueUnits(Put(queue, m), o) = QueueUnits(queue, o)
    BY <1>2 DEF QueueUnits, Put
  <2> QED BY <1>1, <1>2, <2>1
<1>3. CASE OrderOf(m) = o
  <2> DEFINE w     == Worth(m)
             block == {<<m, queue[m], j>> : j \in 0 .. w - 1}
             unit  == [j \in 0 .. w - 1 |-> <<m, queue[m], j>>]
  <2>w. w \in Nat /\ w - 1 \in Int
    BY WorthType, AttemptsAssumption
  <2>1. QueueUnits(Put(queue, m), o) = QueueUnits(queue, o) \cup block
    <3>1. ASSUME NEW u \in Messages \X Nat \X Nat
          PROVE  u \in QueueUnits(Put(queue, m), o)
                     <=> u \in QueueUnits(queue, o) \cup block
      <4> DEFINE n == u[1]
                 i == u[2]
                 j == u[3]
      <4>1. u = <<n, i, j>> /\ n \in Messages /\ i \in Nat /\ j \in Nat
        BY <3>1
      <4>2. u \in block <=> n = m /\ i = queue[m] /\ j < Worth(m)
        BY <2>w, <4>1
      <4> HIDE DEF block
      <4>3. CASE n = m
        BY <1>3, <4>1, <4>2, <4>3 DEF QueueUnits, Put
      <4>4. CASE n # m
        BY <4>1, <4>2, <4>4 DEF QueueUnits, Put
      <4> QED BY <4>3, <4>4
    <3>2. block \subseteq Messages \X Nat \X Nat
      BY <2>w
    <3> QED BY <3>1, <3>2 DEF QueueUnits
  <2>2. QueueUnits(queue, o) \cap block = {}
    BY DEF QueueUnits
  <2>3. IsFiniteSet(0 .. w - 1) /\ Cardinality(0 .. w - 1) = w
    BY <2>w, FS_Interval
  <2>4. unit \in Bijection(0 .. w - 1, block)
    BY DEF Bijection, Injection, Surjection, IsInjective
  <2>5. IsFiniteSet(block) /\ Cardinality(block) = w
    <3> HIDE DEF unit, block, w
    <3> QED BY <2>3, <2>4, FS_Bijection DEF ExistsBijection
  <2> HIDE DEF unit, block
  <2>6. /\ IsFiniteSet(QueueUnits(queue, o) \cup block)
        /\ Cardinality(QueueUnits(queue, o) \cup block)
              = Cardinality(QueueUnits(queue, o)) + Cardinality(block) - Cardinality({})
    BY <2>2, <2>5, FS_Union
  <2> QED BY <1>1, <1>3, <2>w, <2>1, <2>5, <2>6, FS_EmptySet
<1> QED BY <1>2, <1>3

LEMMA TakeUnits ==
    ASSUME NEW queue \in [Messages -> Nat], NEW m \in Messages, queue[m] > 0, NEW o,
           IsFiniteSet(QueueUnits(queue, o))
    PROVE  /\ IsFiniteSet(QueueUnits(Take(queue, m), o))
           /\ Cardinality(QueueUnits(Take(queue, m), o)) =
                  Cardinality(QueueUnits(queue, o))
                  - IF OrderOf(m) = o THEN Worth(m) ELSE 0
<1>1. Take(queue, m) \in [Messages -> Nat] /\ Put(Take(queue, m), m) = queue
  <2>1. Take(queue, m) \in [Messages -> Nat]
    BY DEF Take
  <2>2. Put(Take(queue, m), m) \in [Messages -> Nat]
    BY <2>1 DEF Put
  <2>3. \A n \in Messages : Put(Take(queue, m), m)[n] = queue[n]
    BY <2>1 DEF Take, Put
  <2> HIDE DEF Put, Take
  <2> QED BY <2>1, <2>2, <2>3
<1>2. QueueUnits(Take(queue, m), o) \subseteq QueueUnits(queue, o)
  BY DEF QueueUnits, Take
<1>3. IsFiniteSet(QueueUnits(Take(queue, m), o))
  BY <1>2, FS_Subset
<1>4. Cardinality(QueueUnits(Take(queue, m), o)) \in Nat
  BY <1>3, FS_CardinalityType
<1>5. Cardinality(QueueUnits(queue, o)) =
          Cardinality(QueueUnits(Take(queue, m), o))
          + IF OrderOf(m) = o THEN Worth(m) ELSE 0
  BY <1>1, <1>3, PutUnits
<1>6. (IF OrderOf(m) = o THEN Worth(m) ELSE 0) \in Int
  BY WorthType, AttemptsAssumption
<1> QED BY <1>3, <1>4, <1>5, <1>6

\* A slot has as many units as worth says.
Worths == [Slots -> 0 .. MaxAttempts + 1]

SlotUnits(worth) == {u \in Slots \X (0 .. MaxAttempts) : u[2] < worth[u[1]]}

LEMMA AllSlotUnits ==
    /\ IsFiniteSet(Slots \X (0 .. MaxAttempts))
    /\ Cardinality(Slots \X (0 .. MaxAttempts)) = (MaxAttempts + 1) * Cardinality(Slots)
    /\ Cardinality(Slots) \in Nat
<1>1. Cardinality(Slots) \in Nat
  BY SlotsAssumption, FS_CardinalityType
<1>2. IsFiniteSet(0 .. MaxAttempts) /\ Cardinality(0 .. MaxAttempts) = MaxAttempts + 1
  BY AttemptsAssumption, FS_Interval
<1>3. /\ IsFiniteSet(Slots \X (0 .. MaxAttempts))
      /\ Cardinality(Slots \X (0 .. MaxAttempts))
            = Cardinality(Slots) * Cardinality(0 .. MaxAttempts)
  BY <1>2, SlotsAssumption, FS_Product
<1> QED BY <1>1, <1>2, <1>3, AttemptsAssumption

LEMMA SlotUnitsType ==
    ASSUME NEW worth
    PROVE  /\ IsFiniteSet(SlotUnits(worth))
           /\ Cardinality(SlotUnits(worth)) \in Nat
           /\ Cardinality(SlotUnits(worth)) <= (MaxAttempts + 1) * Cardinality(Slots)
<1>1. SlotUnits(worth) \subseteq Slots \X (0 .. MaxAttempts)
  BY DEF SlotUnits
<1> QED BY <1>1, AllSlotUnits, FS_Subset, FS_CardinalityType

LEMMA SlotUnitsAdded ==
    ASSUME NEW worth \in Worths, NEW none \in Worths, NEW s \in Slots, none[s] = 0,
           \A t \in Slots \ {s} : none[t] = worth[t]
    PROVE  Cardinality(SlotUnits(worth)) = Cardinality(SlotUnits(none)) + worth[s]
<1> DEFINE w       == worth[s]
           without == SlotUnits(none)
           block   == {<<s, j>> : j \in 0 .. w - 1}
           unit    == [j \in 0 .. w - 1 |-> <<s, j>>]
<1>w. w \in 0 .. MaxAttempts + 1
  BY DEF Worths
<1>1. SlotUnits(worth) = without \cup block
  <2>1. ASSUME NEW u \in Slots \X (0 .. MaxAttempts)
        PROVE  u \in SlotUnits(worth) <=> u \in without \cup block
    <3>1. u = <<u[1], u[2]>> /\ u[1] \in Slots /\ u[2] \in 0 .. MaxAttempts
      BY <2>1
    <3>2. u \in block <=> u[1] = s /\ u[2] < w
      BY <1>w, <3>1, AttemptsAssumption
    <3> HIDE DEF block
    <3>3. CASE u[1] = s
      BY <1>w, <3>1, <3>2, <3>3, AttemptsAssumption DEF SlotUnits, Worths
    <3>4. CASE u[1] # s
      BY <3>1, <3>2, <3>4 DEF SlotUnits, Worths
    <3> QED BY <3>3, <3>4
  <2>2. block \subseteq Slots \X (0 .. MaxAttempts)
    BY <1>w, AttemptsAssumption
  <2> QED BY <2>1, <2>2 DEF SlotUnits
<1>2. without \cap block = {}
  BY DEF SlotUnits, Worths
<1>3. IsFiniteSet(0 .. w - 1) /\ Cardinality(0 .. w - 1) = w
  <2>1. w \in Nat /\ w - 1 \in Int
    BY <1>w, AttemptsAssumption
  <2> HIDE DEF w
  <2> QED BY <2>1, FS_Interval
<1>4. unit \in Bijection(0 .. w - 1, block)
  BY DEF Bijection, Injection, Surjection, IsInjective
<1>5. IsFiniteSet(block) /\ Cardinality(block) = w
  <2> HIDE DEF unit, block, w
  <2> QED BY <1>3, <1>4, FS_Bijection DEF ExistsBijection
<1>6. IsFiniteSet(without) /\ Cardinality(without) \in Nat
  BY SlotUnitsType
<1> HIDE DEF without, block, unit, w
<1>7. Cardinality(without \cup block)
          = Cardinality(without) + Cardinality(block) - Cardinality({})
  BY <1>2, <1>5, <1>6, FS_Union
<1>8. Cardinality(SlotUnits(worth)) = Cardinality(without) + w
  BY <1>w, <1>1, <1>5, <1>6, <1>7, FS_EmptySet, AttemptsAssumption
<1> QED BY <1>8 DEF without, w

\* Only slot s changes its worth.
LEMMA SlotUnitsChange ==
    ASSUME NEW worth \in Worths, NEW other \in Worths, NEW s \in Slots,
           \A t \in Slots \ {s} : other[t] = worth[t]
    PROVE  Cardinality(SlotUnits(other)) =
               Cardinality(SlotUnits(worth)) - worth[s] + other[s]
<1> DEFINE none == [worth EXCEPT ![s] = 0]
<1>1. none \in Worths /\ none[s] = 0 /\ \A t \in Slots \ {s} : none[t] = worth[t]
  BY AttemptsAssumption DEF Worths
<1>2. worth[s] \in Int /\ other[s] \in Int
  BY AttemptsAssumption DEF Worths
<1> HIDE DEF none
<1>3. Cardinality(SlotUnits(other)) = Cardinality(SlotUnits(none)) + other[s]
  BY <1>1, SlotUnitsAdded
<1>4. Cardinality(SlotUnits(worth)) = Cardinality(SlotUnits(none)) + worth[s]
  BY <1>1, SlotUnitsAdded
<1>5. Cardinality(SlotUnits(none)) \in Nat
  BY SlotUnitsType
<1> QED BY <1>2, <1>3, <1>4, <1>5

\* The failures a delivery of order o may still cause: on a closed channel
\* the one of the transaction that is open, and none of the retries.
SlotWorth(s, o) ==
    IF pc[s] \in {"idle", "acking"} \/ OrderOf(holds[s]) # o THEN 0
    ELSE IF pc[s] = "republish"
         THEN IF connected THEN Worth(holds[s]) - 1 ELSE 0
         ELSE IF connected THEN Worth(holds[s]) ELSE 1

SlotWorths(o) == [s \in Slots |-> SlotWorth(s, o)]

LEMMA SlotWorthsType ==
    ASSUME TypeOK, HoldsInv, NEW o
    PROVE  SlotWorths(o) \in Worths
<1> SUFFICES ASSUME NEW s \in Slots PROVE SlotWorth(s, o) \in 0 .. MaxAttempts + 1
  BY DEF SlotWorths, Worths
<1>1. CASE pc[s] = "idle"
  BY <1>1, AttemptsAssumption DEF SlotWorth
<1>2. CASE pc[s] # "idle"
  <2>1. holds[s] \in Messages
    BY <1>2 DEF TypeOK, HoldsInv
  <2>2. Worth(holds[s]) \in 1 .. MaxAttempts + 1
    BY <2>1, WorthType
  <2> HIDE DEF Worth
  <2> QED BY <2>2, AttemptsAssumption DEF SlotWorth
<1> QED BY <1>1, <1>2

\* What a broker that takes everything back puts into the queue.
HeldWorths(o) ==
    [s \in Slots |-> IF pc[s] = "idle" \/ OrderOf(holds[s]) # o
                     THEN 0 ELSE Worth(holds[s])]

LEMMA PutBackUnits ==
    ASSUME TypeOK, HoldsInv, PutBack, NEW o, IsFiniteSet(QueueUnits(process, o))
    PROVE  /\ IsFiniteSet(QueueUnits(process', o))
           /\ Cardinality(QueueUnits(process', o)) <=
                  Cardinality(QueueUnits(process, o))
                  + IF connected THEN Cardinality(SlotUnits(HeldWorths(o))) ELSE 0
<1>0. Cardinality(QueueUnits(process, o)) \in Nat
  BY FS_CardinalityType
<1>1. CASE ~ connected
  <2>1. QueueUnits(process', o) = QueueUnits(process, o)
    BY <1>1 DEF PutBack, Requeued, QueueUnits, TypeOK
  <2> QED BY <1>0, <1>1, <2>1
<1>2. CASE connected
  <2> DEFINE copies(m) == {s \in Slots : holds[s] = m}
             f == [m \in Messages |->
                     CHOOSE h : h \in Bijection(1 .. Requeued(m), copies(m))]
             new == QueueUnits(process', o) \ QueueUnits(process, o)
             unit == [u \in new |-> <<f[u[1]][u[2] - process[u[1]] + 1], u[3]>>]
  <2>1. ASSUME NEW m \in Messages
        PROVE  /\ Requeued(m) \in Nat
               /\ f[m] \in Bijection(1 .. Requeued(m), copies(m))
    <3>1. IsFiniteSet(copies(m)) /\ Requeued(m) = Cardinality(copies(m))
      BY <1>2, SlotsAssumption, FS_Subset DEF Requeued
    <3> HIDE DEF copies
    <3>2. Requeued(m) \in Nat /\ ExistsBijection(1 .. Requeued(m), copies(m))
      BY <3>1, FS_CardinalityType
    <3>3. PICK h : h \in Bijection(1 .. Requeued(m), copies(m))
      BY <3>2 DEF ExistsBijection
    <3> QED BY <3>2, <3>3
  <2>2. ASSUME NEW m \in Messages,
               NEW i \in 1 .. Requeued(m), NEW k \in 1 .. Requeued(m)
        PROVE  /\ f[m][i] \in Slots /\ holds[f[m][i]] = m
               /\ f[m][i] = f[m][k] => i = k
    <3> HIDE DEF f
    <3> QED BY <2>1 DEF Bijection, Injection, Surjection, IsInjective
  <2> HIDE DEF f, copies
  <2>3. ASSUME NEW u \in new
        PROVE  /\ u = <<u[1], u[2], u[3]>>
               /\ u[1] \in Messages /\ u[2] \in Nat /\ u[3] \in Nat
               /\ OrderOf(u[1]) = o /\ u[3] < Worth(u[1])
               /\ process[u[1]] \in Nat
               /\ u[2] - process[u[1]] + 1 \in 1 .. Requeued(u[1])
    <3>1. /\ u = <<u[1], u[2], u[3]>>
          /\ u[1] \in Messages /\ u[2] \in Nat /\ u[3] \in Nat
          /\ OrderOf(u[1]) = o /\ u[3] < Worth(u[1])
          /\ u[2] < process'[u[1]] /\ ~ (u[2] < process[u[1]])
      BY DEF QueueUnits
    <3>2. process'[u[1]] = process[u[1]] + Requeued(u[1]) /\ process[u[1]] \in Nat
      BY <3>1 DEF PutBack, TypeOK
    <3>3. Requeued(u[1]) \in Nat
      BY <2>1, <3>1
    <3> QED BY <3>1, <3>2, <3>3
  <2>4. \A u \in new : unit[u] \in SlotUnits(HeldWorths(o))
    <3> SUFFICES ASSUME NEW u \in new PROVE unit[u] \in SlotUnits(HeldWorths(o))
      OBVIOUS
    <3> DEFINE s == f[u[1]][u[2] - process[u[1]] + 1]
    <3>1. s \in Slots /\ holds[s] = u[1]
      BY <2>2, <2>3
    <3>2. unit[u] = <<s, u[3]>>
      OBVIOUS
    <3> HIDE DEF s, unit, new
    <3>3. pc[s] # "idle" /\ OrderOf(holds[s]) = o
      BY <2>3, <3>1, NoMessageAssumption DEF HoldsInv
    <3>4. HeldWorths(o)[s] = Worth(u[1]) /\ Worth(u[1]) \in 1 .. MaxAttempts + 1
      BY <2>3, <3>1, <3>3, WorthType DEF HeldWorths
    <3>5. u[3] \in 0 .. MaxAttempts
      BY <2>3, <3>4, AttemptsAssumption
    <3> QED BY <2>3, <3>1, <3>2, <3>4, <3>5 DEF SlotUnits
  <2>5. \A u, v \in new : unit[u] = unit[v] => u = v
    <3> SUFFICES ASSUME NEW u \in new, NEW v \in new, unit[u] = unit[v]
                 PROVE  u = v
      OBVIOUS
    <3> DEFINE i == u[2] - process[u[1]] + 1
               k == v[2] - process[v[1]] + 1
    <3>1. f[u[1]][i] = f[v[1]][k] /\ u[3] = v[3]
      OBVIOUS
    <3>2. i \in 1 .. Requeued(u[1]) /\ k \in 1 .. Requeued(v[1])
      BY <2>3
    <3>3. u[1] = v[1]
      <4> HIDE DEF i, k, new, unit
      <4>1. u[1] \in Messages /\ v[1] \in Messages
        BY <2>3
      <4> QED BY <2>2, <3>1, <3>2, <4>1
    <3>4. i = k
      <4> HIDE DEF i, k, new, unit
      <4>1. u[1] \in Messages
        BY <2>3
      <4> QED BY <2>2, <3>1, <3>2, <3>3, <4>1
    <3> HIDE DEF new, unit
    <3>5. u[2] = v[2]
      BY <2>3, <3>3, <3>4
    <3> QED BY <2>3, <3>1, <3>3, <3>5
  <2>6. unit \in Injection(new, SlotUnits(HeldWorths(o)))
    BY <2>4, <2>5 DEF Injection, IsInjective
  <2>7. IsFiniteSet(new) /\ Cardinality(new) <= Cardinality(SlotUnits(HeldWorths(o)))
    <3> HIDE DEF unit, new
    <3> QED BY <2>6, SlotUnitsType, FS_Injection
  <2>8. QueueUnits(process', o) = QueueUnits(process, o) \cup new
        /\ QueueUnits(process, o) \cap new = {}
    <3>1. \A m \in Messages : /\ process'[m] = process[m] + Requeued(m)
                              /\ process[m] \in Nat /\ Requeued(m) \in Nat
      BY <2>1 DEF PutBack, TypeOK
    <3>2. QueueUnits(process, o) \subseteq QueueUnits(process', o)
      BY <3>1 DEF QueueUnits
    <3> QED BY <3>2
  <2> HIDE DEF new, unit
  <2>9. /\ IsFiniteSet(QueueUnits(process, o) \cup new)
        /\ Cardinality(QueueUnits(process, o) \cup new)
              = Cardinality(QueueUnits(process, o)) + Cardinality(new) - Cardinality({})
    BY <2>7, <2>8, FS_Union
  <2>10. Cardinality(new) \in Nat /\ Cardinality(SlotUnits(HeldWorths(o))) \in Nat
    BY <2>7, FS_CardinalityType, SlotUnitsType
  <2> QED BY <1>0, <1>2, <2>7, <2>8, <2>9, <2>10, FS_EmptySet
<1> QED BY <1>1, <1>2

\* A shutdown of the broker leaves two copies of a delivery, the one that is
\* back in the queue and the one a handler goes on with; together they are
\* worth at most MaxAttempts + 1 more than the delivery was.
LEMMA DisconnectUnits ==
    ASSUME TypeOK, HoldsInv, connected, connected' = FALSE,
           UNCHANGED <<pc, holds>>, NEW o
    PROVE  Cardinality(SlotUnits(HeldWorths(o))) + Cardinality(SlotUnits(SlotWorths(o)'))
               <= Cardinality(SlotUnits(SlotWorths(o)))
                  + (MaxAttempts + 1) * Cardinality(Slots)
<1> DEFINE held  == SlotUnits(HeldWorths(o))
           now   == SlotUnits(SlotWorths(o))
           later == SlotUnits(SlotWorths(o)')
           extra == held \ now
<1>1. /\ IsFiniteSet(held) /\ Cardinality(held) \in Nat
      /\ IsFiniteSet(now) /\ Cardinality(now) \in Nat
      /\ IsFiniteSet(later) /\ Cardinality(later) \in Nat
  BY SlotUnitsType
<1>2. extra \cap later = {}
  <2> SUFFICES ASSUME NEW u \in extra PROVE u \notin later
    OBVIOUS
  <2> DEFINE s == u[1]
  <2>1. /\ s \in Slots /\ u[2] \in 0 .. MaxAttempts /\ u \in Slots \X (0 .. MaxAttempts)
        /\ u[2] < HeldWorths(o)[s] /\ ~ (u[2] < SlotWorths(o)[s])
    BY DEF SlotUnits
  <2> HIDE DEF s
  <2>2. pc[s] \in {"acking", "republish"}
    <3>1. CASE pc[s] = "idle" \/ OrderOf(holds[s]) # o
      BY <2>1, <3>1, AttemptsAssumption DEF HeldWorths
    <3>2. CASE /\ pc[s] \notin {"idle", "acking", "republish"}
               /\ OrderOf(holds[s]) = o
      BY <2>1, <3>2 DEF HeldWorths, SlotWorths, SlotWorth
    <3> QED BY <3>1, <3>2
  <2>3. SlotWorths(o)'[s] = 0
    BY <2>1, <2>2 DEF SlotWorths, SlotWorth
  <2> QED BY <2>1, <2>3, AttemptsAssumption DEF SlotUnits, s
<1>3. IsFiniteSet(extra) /\ Cardinality(extra) = Cardinality(held) - Cardinality(held \cap now)
  BY <1>1, FS_Difference
<1>4. Cardinality(held \cap now) <= Cardinality(now)
  BY <1>1, FS_Intersection
<1>5. Cardinality(held \cap now) \in Nat /\ Cardinality(extra) \in Nat
  BY <1>1, <1>3, FS_Intersection, FS_CardinalityType
<1>6. extra \cup later \subseteq Slots \X (0 .. MaxAttempts)
  BY DEF SlotUnits
<1> HIDE DEF held, now, later, extra
<1>7. Cardinality(extra \cup later) = Cardinality(extra) + Cardinality(later) - Cardinality({})
  BY <1>1, <1>2, <1>3, FS_Union
<1>8. Cardinality(extra \cup later) <= (MaxAttempts + 1) * Cardinality(Slots)
  BY <1>6, AllSlotUnits, FS_Subset
<1>9. (MaxAttempts + 1) * Cardinality(Slots) \in Int
  BY AttemptsAssumption, AllSlotUnits
<1>10. Cardinality(held) + Cardinality(later)
           <= Cardinality(now) + (MaxAttempts + 1) * Cardinality(Slots)
  BY <1>1, <1>3, <1>4, <1>5, <1>7, <1>8, <1>9, FS_EmptySet
<1> QED BY <1>10 DEF held, now, later

\* What order o has failed and may still fail, and what its publish and the
\* outages allow.
Due(o) == failures[o] + Cardinality(QueueUnits(process, o))
          + Cardinality(QueueUnits(retry, o)) + Cardinality(SlotUnits(SlotWorths(o)))

Allowed(o) == (MaxAttempts + 1)
                  * ((IF o \in sent THEN 1 ELSE 0) + outages * Cardinality(Slots))

RetryInv ==
    \A o \in Orders : /\ IsFiniteSet(QueueUnits(process, o))
                      /\ IsFiniteSet(QueueUnits(retry, o))
                      /\ Due(o) <= Allowed(o)

LEMMA RetryInit == Init => RetryInv
<1> SUFFICES ASSUME Init, NEW o \in Orders
             PROVE  /\ IsFiniteSet(QueueUnits(process, o))
                    /\ IsFiniteSet(QueueUnits(retry, o))
                    /\ Due(o) <= Allowed(o)
  BY DEF RetryInv
<1>1. QueueUnits(process, o) = {} /\ QueueUnits(retry, o) = {}
  BY DEF Init, Empty, QueueUnits
<1>2. SlotUnits(SlotWorths(o)) = {}
  BY DEF Init, SlotUnits, SlotWorths, SlotWorth
<1>3. Due(o) = 0
  BY <1>1, <1>2, FS_EmptySet DEF Init, Due
<1>4. Allowed(o) = 0
  BY AllSlotUnits, AttemptsAssumption DEF Init, Allowed
<1> QED BY <1>1, <1>3, <1>4, FS_EmptySet

\* One slot moves.
LEMMA SlotMoves ==
    ASSUME TypeOK, HoldsInv, NEW o, NEW s \in Slots, connected' = connected,
           \A t \in Slots \ {s} : pc'[t] = pc[t] /\ holds'[t] = holds[t],
           SlotWorth(s, o)' \in 0 .. MaxAttempts + 1
    PROVE  /\ SlotWorth(s, o) \in 0 .. MaxAttempts + 1
           /\ Cardinality(SlotUnits(SlotWorths(o)')) =
                  Cardinality(SlotUnits(SlotWorths(o)))
                  - SlotWorth(s, o) + SlotWorth(s, o)'
<1>1. SlotWorths(o) \in Worths
  BY SlotWorthsType
<1>2. \A t \in Slots \ {s} : SlotWorth(t, o)' = SlotWorth(t, o)
  BY DEF SlotWorth
<1>3. \A t \in Slots : /\ SlotWorths(o)[t] = SlotWorth(t, o)
                       /\ SlotWorths(o)'[t] = SlotWorth(t, o)'
  BY DEF SlotWorths
<1>4. \A t \in Slots : SlotWorth(t, o) \in 0 .. MaxAttempts + 1
  BY <1>1, <1>3 DEF Worths
<1>5. \A t \in Slots : SlotWorth(t, o)' \in 0 .. MaxAttempts + 1
  BY <1>2, <1>4
<1>6. SlotWorths(o)' \in Worths
  BY <1>5 DEF SlotWorths, Worths
<1> HIDE DEF SlotWorths
<1> QED BY <1>1, <1>2, <1>3, <1>4, <1>6, SlotUnitsChange

LEMMA RetryStep == TypeOK /\ HoldsInv /\ RetryInv /\ [Next]_vars => RetryInv'
<1> DEFINE Bounded(o) == /\ IsFiniteSet(QueueUnits(process, o))
                         /\ IsFiniteSet(QueueUnits(retry, o))
                         /\ Due(o) <= Allowed(o)
<1> SUFFICES ASSUME TypeOK, HoldsInv, RetryInv, [Next]_vars, NEW o \in Orders
             PROVE  Bounded(o)'
  BY DEF RetryInv
<1> DEFINE P == Cardinality(QueueUnits(process, o))
           R == Cardinality(QueueUnits(retry, o))
           S == Cardinality(SlotUnits(SlotWorths(o)))
           K == (MaxAttempts + 1) * Cardinality(Slots)
<1>a. /\ IsFiniteSet(QueueUnits(process, o)) /\ P \in Nat
      /\ IsFiniteSet(QueueUnits(retry, o)) /\ R \in Nat
      /\ S \in Nat /\ K \in Nat /\ failures[o] \in Nat /\ Allowed(o) \in Int
      /\ failures[o] + P + R + S <= Allowed(o)
  <2>1. Bounded(o) /\ failures[o] \in Nat
    BY DEF RetryInv, TypeOK
  <2>2. S \in Nat
    BY SlotUnitsType
  <2>3. K \in Nat
    BY AttemptsAssumption, AllSlotUnits
  <2>4. Allowed(o) \in Int
    <3>1. outages \in Int /\ Cardinality(Slots) \in Int
      BY AllSlotUnits, OutagesAssumption DEF TypeOK
    <3>2. outages * Cardinality(Slots) \in Int
      BY <3>1
    <3> HIDE DEF TypeOK
    <3> QED BY <3>2, AttemptsAssumption DEF Allowed
  <2> QED BY <2>1, <2>2, <2>3, <2>4, FS_CardinalityType DEF Due
<1>b. sent' = sent /\ outages' = outages => Allowed(o)' = Allowed(o)
  BY DEF Allowed
<1>c. sent' = sent /\ outages' = outages + 1 => Allowed(o)' = Allowed(o) + K
  <2>1. outages \in Int /\ Cardinality(Slots) \in Int /\ MaxAttempts \in Int
    BY AllSlotUnits, OutagesAssumption, AttemptsAssumption DEF TypeOK
  <2>2. \A a, b, k, n \in Int : a * (b + (k + 1) * n) = a * (b + k * n) + a * n
    OBVIOUS
  <2> DEFINE b == IF o \in sent THEN 1 ELSE 0
  <2>3. b \in Int
    OBVIOUS
  <2>4. sent' = sent => b' = b
    OBVIOUS
  <2> HIDE DEF b
  <2>5. /\ Allowed(o) = (MaxAttempts + 1) * (b + outages * Cardinality(Slots))
        /\ Allowed(o)' = (MaxAttempts + 1) * (b' + outages' * Cardinality(Slots))
    BY DEF Allowed, b
  <2>6. (MaxAttempts + 1) * (b + (outages + 1) * Cardinality(Slots))
            = (MaxAttempts + 1) * (b + outages * Cardinality(Slots)) + K
    <3>1. MaxAttempts + 1 \in Int
      BY <2>1
    <3> QED BY <2>1, <2>2, <2>3, <3>1
  <2> QED BY <2>4, <2>5, <2>6
<1>m. \A s \in Slots : pc[s] # "idle" => holds[s] \in Messages
  BY DEF TypeOK, HoldsInv
<1>w. \A m \in Messages : Worth(m) \in 1 .. MaxAttempts + 1
  BY WorthType
<1>p. /\ process \in [Messages -> Nat] /\ retry \in [Messages -> Nat]
      /\ MaxAttempts \in Nat /\ pc \in [Slots -> Places]
      /\ holds \in [Slots -> Messages \cup {NoMessage}]
  BY AttemptsAssumption DEF TypeOK
<1>q. Due(o)' = failures'[o] + Cardinality(QueueUnits(process', o))
                + Cardinality(QueueUnits(retry', o)) + Cardinality(SlotUnits(SlotWorths(o)'))
  BY DEF Due
<1>r. UNCHANGED <<pc, holds, connected>> => SlotWorths(o)' = SlotWorths(o)
  BY DEF SlotWorths, SlotWorth
<1> HIDE DEF K
<1> USE DEF Go
<1>1. ASSUME NEW a \in Orders, ApiPublishes(a) PROVE Bounded(o)'
  <2> DEFINE m == <<a, 0>>
  <2>1. m \in Messages /\ OrderOf(m) = a /\ Worth(m) = MaxAttempts + 1
    BY AttemptsAssumption DEF Messages, OrderOf, AttemptOf, Worth
  <2> HIDE DEF m
  <2>2. process' = Put(process, m) /\ UNCHANGED <<retry, failures, pc, holds, connected, outages>>
        /\ a \notin sent /\ sent' = sent \cup {a}
    BY <1>1 DEF ApiPublishes, m
  <2>3. /\ IsFiniteSet(QueueUnits(process', o))
        /\ Cardinality(QueueUnits(process', o)) = P + IF a = o THEN MaxAttempts + 1 ELSE 0
    BY <1>a, <1>p, <2>1, <2>2, PutUnits
  <2>4. Allowed(o)' = Allowed(o) + IF a = o THEN MaxAttempts + 1 ELSE 0
    <3>1. CASE a = o
      <4>1. /\ Allowed(o) = (MaxAttempts + 1) * (0 + outages * Cardinality(Slots))
            /\ Allowed(o)' = (MaxAttempts + 1) * (1 + outages * Cardinality(Slots))
        BY <2>2, <3>1 DEF Allowed
      <4>2. \A x, y, z \in Int : x * (1 + y * z) = x * (0 + y * z) + x
        OBVIOUS
      <4>3. outages \in Int /\ Cardinality(Slots) \in Int /\ MaxAttempts + 1 \in Int
        BY <1>p, AllSlotUnits DEF TypeOK
      <4> QED BY <3>1, <4>1, <4>2, <4>3
    <3>2. CASE a # o
      BY <1>a, <2>2, <3>2 DEF Allowed
    <3> QED BY <3>1, <3>2
  <2> QED BY <1>a, <1>p, <1>q, <1>r, <2>2, <2>3, <2>4
<1>2. ASSUME NEW m \in Messages, Expire(m) PROVE Bounded(o)'
  <2>1. /\ retry[m] > 0 /\ retry' = Take(retry, m) /\ process' = Put(process, m)
        /\ UNCHANGED <<sent, failures, pc, holds, connected, outages>>
    BY <1>2 DEF Expire
  <2>2. /\ IsFiniteSet(QueueUnits(process', o))
        /\ Cardinality(QueueUnits(process', o)) = P + IF OrderOf(m) = o THEN Worth(m) ELSE 0
    BY <1>a, <1>p, <2>1, PutUnits
  <2>3. /\ IsFiniteSet(QueueUnits(retry', o))
        /\ Cardinality(QueueUnits(retry', o)) = R - IF OrderOf(m) = o THEN Worth(m) ELSE 0
    BY <1>a, <1>p, <2>1, TakeUnits
  <2>4. (IF OrderOf(m) = o THEN Worth(m) ELSE 0) \in Int
    BY <1>w, <1>p
  <2> QED BY <1>a, <1>b, <1>q, <1>r, <2>1, <2>2, <2>3, <2>4
<1>3. ASSUME NEW m \in Messages, NEW s \in Slots, Deliver(s, m) PROVE Bounded(o)'
  <2>1. /\ process[m] > 0 /\ process' = Take(process, m)
        /\ connected /\ pc[s] = "idle" /\ pc'[s] = "delivered" /\ holds'[s] = m
        /\ \A t \in Slots \ {s} : pc'[t] = pc[t] /\ holds'[t] = holds[t]
        /\ UNCHANGED <<sent, retry, failures, connected, outages>>
    BY <1>3, <1>p DEF Deliver
  <2>2. /\ IsFiniteSet(QueueUnits(process', o))
        /\ Cardinality(QueueUnits(process', o)) = P - IF OrderOf(m) = o THEN Worth(m) ELSE 0
    BY <1>a, <1>p, <2>1, TakeUnits
  <2>3. /\ SlotWorth(s, o) = 0
        /\ SlotWorth(s, o)' = IF OrderOf(m) = o THEN Worth(m) ELSE 0
    BY <2>1 DEF SlotWorth, Worth, OrderOf, AttemptOf
  <2>4. SlotWorth(s, o)' \in 0 .. MaxAttempts + 1
    BY <1>w, <1>p, <2>3
  <2>5. Cardinality(SlotUnits(SlotWorths(o)')) = S - SlotWorth(s, o) + SlotWorth(s, o)'
    BY <2>1, <2>4, SlotMoves
  <2> QED BY <1>a, <1>b, <1>p, <1>q, <2>1, <2>2, <2>3, <2>4, <2>5
<1>4. ASSUME NEW s \in Slots,
             \/ InsertProcessed(s) \/ RollbackDuplicate(s)
             \/ Commit(s) \/ WorkFails(s) \/ Ack(s)
      PROVE  Bounded(o)'
  <2>1. /\ UNCHANGED <<sent, process, retry, failures, connected, outages>>
        /\ \A t \in Slots \ {s} : pc'[t] = pc[t] /\ holds'[t] = holds[t]
        /\ pc[s] # "idle"
        /\ \/ pc'[s] \in {"idle", "acking"}
           \/ /\ pc[s] \in {"delivered", "working"}
              /\ pc'[s] \in {"duplicate", "working", "rollback"}
              /\ holds'[s] = holds[s]
    BY <1>4, <1>p DEF InsertProcessed, RollbackDuplicate, Commit, WorkFails, Ack
  <2>2. SlotWorth(s, o)' = 0 \/ SlotWorth(s, o)' = SlotWorth(s, o)
    BY <2>1 DEF SlotWorth, Worth, OrderOf, AttemptOf
  <2>3. SlotWorth(s, o) \in 0 .. MaxAttempts + 1
    BY <1>m, <1>w, <1>p, <2>1 DEF SlotWorth
  <2>4. Cardinality(SlotUnits(SlotWorths(o)')) = S - SlotWorth(s, o) + SlotWorth(s, o)'
    BY <1>p, <2>1, <2>2, <2>3, SlotMoves
  <2> QED BY <1>a, <1>b, <1>p, <1>q, <2>1, <2>2, <2>3, <2>4
<1>8. ASSUME NEW s \in Slots, Rollback(s) PROVE Bounded(o)'
  <2>1. /\ UNCHANGED <<sent, process, retry, connected, outages, holds>>
        /\ \A t \in Slots \ {s} : pc'[t] = pc[t] /\ holds'[t] = holds[t]
        /\ pc[s] = "rollback" /\ pc'[s] = "republish"
        /\ failures'[o] = failures[o] + IF OrderOf(holds[s]) = o THEN 1 ELSE 0
    BY <1>8, <1>p DEF Rollback, TypeOK
  <2>2. Worth(holds[s]) \in 1 .. MaxAttempts + 1
    BY <1>m, <1>w, <2>1
  <2>3. /\ SlotWorth(s, o) \in 0 .. MaxAttempts + 1
        /\ SlotWorth(s, o)' \in 0 .. MaxAttempts + 1
        /\ SlotWorth(s, o)' = SlotWorth(s, o) - IF OrderOf(holds[s]) = o THEN 1 ELSE 0
    <3>1. Worth(holds[s])' = Worth(holds[s])
      BY <2>1 DEF Worth, AttemptOf
    <3>2. OrderOf(holds[s])' = OrderOf(holds[s])
      BY <2>1 DEF OrderOf
    <3> HIDE DEF Worth, OrderOf
    <3> QED BY <1>p, <2>1, <2>2, <3>1, <3>2 DEF SlotWorth
  <2>4. Cardinality(SlotUnits(SlotWorths(o)')) = S - SlotWorth(s, o) + SlotWorth(s, o)'
    BY <2>1, <2>3, SlotMoves
  <2> QED BY <1>a, <1>b, <1>p, <1>q, <2>1, <2>3, <2>4
<1>9. ASSUME NEW s \in Slots, Republish(s) PROVE Bounded(o)'
  <2> DEFINE m == holds[s]
             left == IF OrderOf(m) = o THEN Worth(m) - 1 ELSE 0
  <2>1. /\ UNCHANGED <<sent, process, failures, connected, outages, holds>>
        /\ \A t \in Slots \ {s} : pc'[t] = pc[t] /\ holds'[t] = holds[t]
        /\ connected /\ pc[s] = "republish" /\ pc'[s] = "acking"
        /\ \/ HasAttemptsLeft(m) /\ retry' = Put(retry, NextAttempt(m))
           \/ ~ HasAttemptsLeft(m) /\ retry' = retry
    BY <1>9, <1>p DEF Republish
  <2>2. m \in Messages /\ Worth(m) \in 1 .. MaxAttempts + 1
    BY <1>m, <1>w, <2>1
  <2>3. SlotWorth(s, o) = left /\ SlotWorth(s, o)' = 0
    BY <2>1 DEF SlotWorth
  <2>4. /\ IsFiniteSet(QueueUnits(retry', o))
        /\ Cardinality(QueueUnits(retry', o)) <= R + left
    <3>1. CASE HasAttemptsLeft(m)
      <4>1. /\ NextAttempt(m) \in Messages /\ OrderOf(NextAttempt(m)) = OrderOf(m)
            /\ AttemptOf(NextAttempt(m)) = AttemptOf(m) + 1
        BY <2>2, <3>1, NextIsMessage DEF HasAttemptsLeft
      <4>2. Worth(NextAttempt(m)) = Worth(m) - 1
        <5>1. AttemptOf(m) \in Int
          BY <1>p, <2>2 DEF AttemptOf, Messages
        <5> QED BY <1>p, <4>1, <5>1 DEF Worth
      <4>3. /\ IsFiniteSet(QueueUnits(Put(retry, NextAttempt(m)), o))
            /\ Cardinality(QueueUnits(Put(retry, NextAttempt(m)), o)) =
                   R + IF OrderOf(NextAttempt(m)) = o THEN Worth(NextAttempt(m)) ELSE 0
        BY <1>a, <1>p, <4>1, PutUnits
      <4> HIDE DEF m
      <4>4. retry' = Put(retry, NextAttempt(m))
        BY <2>1, <3>1
      <4> QED BY <1>a, <1>p, <2>2, <4>1, <4>2, <4>3, <4>4
    <3>2. CASE ~ HasAttemptsLeft(m)
      <4>1. retry' = retry
        BY <2>1, <3>2
      <4> HIDE DEF m
      <4> QED BY <1>a, <1>p, <2>2, <4>1
    <3> QED BY <3>1, <3>2
  <2>5. left \in 0 .. MaxAttempts + 1
    <3> HIDE DEF m
    <3> QED BY <1>p, <2>2
  <2> HIDE DEF left
  <2>6. Cardinality(SlotUnits(SlotWorths(o)')) = S - SlotWorth(s, o) + SlotWorth(s, o)'
    BY <1>p, <2>1, <2>3, SlotMoves
  <2>7. Cardinality(QueueUnits(retry', o)) \in Nat
    BY <2>4, FS_CardinalityType
  <2> QED BY <1>a, <1>b, <1>p, <1>q, <2>1, <2>3, <2>4, <2>5, <2>6, <2>7
<1>11. ASSUME NEW s \in Slots, NackRequeue(s) PROVE Bounded(o)'
  <2> DEFINE m == holds[s]
             all == IF OrderOf(m) = o THEN Worth(m) ELSE 0
  <2>1. /\ UNCHANGED <<sent, retry, failures, connected>> /\ outages' = outages + 1
        /\ \A t \in Slots \ {s} : pc'[t] = pc[t] /\ holds'[t] = holds[t]
        /\ connected /\ pc[s] \in {"delivered", "duplicate", "working", "rollback"}
        /\ pc'[s] = "idle" /\ process' = Put(process, m)
    BY <1>11, <1>p DEF NackRequeue, Outage
  <2>2. m \in Messages /\ Worth(m) \in 1 .. MaxAttempts + 1
    BY <1>m, <1>w, <2>1
  <2>3. SlotWorth(s, o) = all /\ SlotWorth(s, o)' = 0
    BY <2>1 DEF SlotWorth
  <2>4. /\ IsFiniteSet(QueueUnits(process', o))
        /\ Cardinality(QueueUnits(process', o)) = P + all
    BY <1>a, <1>p, <2>1, <2>2, PutUnits
  <2>5. all \in 0 .. MaxAttempts + 1
    <3> HIDE DEF m
    <3> QED BY <1>p, <2>2
  <2> HIDE DEF all
  <2>6. Cardinality(SlotUnits(SlotWorths(o)')) = S - SlotWorth(s, o) + SlotWorth(s, o)'
    BY <1>p, <2>1, <2>3, SlotMoves
  <2> QED BY <1>a, <1>c, <1>p, <1>q, <2>1, <2>3, <2>4, <2>5, <2>6
<1>d. PutBack => /\ IsFiniteSet(QueueUnits(process', o))
                 /\ Cardinality(QueueUnits(process', o)) \in Nat
                 /\ Cardinality(QueueUnits(process', o)) <=
                        P + IF connected THEN Cardinality(SlotUnits(HeldWorths(o))) ELSE 0
  BY <1>a, PutBackUnits, FS_CardinalityType
<1>e. /\ Cardinality(SlotUnits(HeldWorths(o))) \in Nat
      /\ Cardinality(SlotUnits(HeldWorths(o))) <= K
  BY SlotUnitsType DEF K
<1>12. CASE Crash \/ Exit
  <2>1. Restart
    BY <1>12 DEF Crash, Exit
  <2>2. PutBack /\ UNCHANGED <<sent, retry, failures>>
    BY <2>1 DEF Restart
  <2>3. SlotUnits(SlotWorths(o)') = {}
    BY <2>1 DEF Restart, SlotUnits, SlotWorths, SlotWorth
  <2>4. Cardinality(SlotUnits(SlotWorths(o)')) = 0
    BY <2>3, FS_EmptySet
  <2>5. CASE Crash
    <3>1. outages' = outages + 1
      BY <2>5 DEF Crash, Outage
    <3> QED BY <1>a, <1>c, <1>d, <1>e, <1>q, <2>2, <2>4, <3>1
  <2>6. CASE Exit
    <3>1. outages' = outages /\ ~ connected
      BY <2>6 DEF Exit
    <3> QED BY <1>a, <1>b, <1>d, <1>q, <2>2, <2>4, <3>1
  <2> QED BY <1>12, <2>5, <2>6
<1>14. CASE Disconnect
  <2>1. /\ PutBack /\ connected /\ connected' = FALSE /\ outages' = outages + 1
        /\ UNCHANGED <<sent, retry, failures, pc, holds>>
    BY <1>14 DEF Disconnect, Outage
  <2>2. Cardinality(SlotUnits(HeldWorths(o))) + Cardinality(SlotUnits(SlotWorths(o)')) <= S + K
    BY <2>1, DisconnectUnits DEF K
  <2>3. Cardinality(SlotUnits(SlotWorths(o)')) \in Nat
    BY SlotUnitsType
  <2> QED BY <1>a, <1>c, <1>d, <1>e, <1>q, <2>1, <2>2, <2>3
<1>13. CASE UNCHANGED vars
  BY <1>13, <1>a, <1>b, <1>q, <1>r DEF vars
<1> QED BY <1>1, <1>2, <1>3, <1>4, <1>8, <1>9, <1>11, <1>12, <1>13, <1>14
        DEF Next, Handle, Drained

-----------------------------------------------------------------------------
(* The theorems.                                                           *)

IInv == TypeOK /\ HoldsInv /\ WorkInv /\ CopyInv /\ AttemptsInv /\ RetryInv

LEMMA IInvInit == Init => IInv
BY TypeInit, WorkInit, CopyInit, AttemptsInit, RetryInit DEF IInv

LEMMA IInvStep == IInv /\ [Next]_vars => IInv'
BY TypeStep, WorkStep, CopyStep, AttemptsStep, RetryStep DEF IInv

LEMMA IInvAlways == Spec => []IInv
BY IInvInit, IInvStep, PTL DEF Spec

\* The worker never records a message without processing its order, or the
\* other way round, whatever is redelivered, retried or cut off by a crash.
THEOREM WorkIsRecorded == Spec => []RecordedIffProcessed
<1>1. IInv => RecordedIffProcessed
  BY DEF IInv, WorkInv
<1> QED BY <1>1, IInvAlways, PTL

\* Acknowledging after the commit or the republish loses no message: a
\* published order that is not processed always has a copy in the broker.
THEOREM MessagesSurvive == Spec => []NoMessageLost
<1>1. IInv => NoMessageLost
  BY DEF IInv, CopyInv, NoMessageLost, Pending, Alive
<1> QED BY <1>1, IInvAlways, PTL

\* An attempt is counted only for a failure, and only messages that failed
\* more than MaxAttempts times reach the dead letter queue.
THEOREM AttemptsCountFailures == Spec => []AttemptsAreFailures
<1>1. IInv => AttemptsAreFailures
  BY DEF IInv, AttemptsInv
<1> QED BY <1>1, IInvAlways, PTL

\* Whatever outages copy, an order fails at most MaxAttempts + 1 times, and as
\* often again for every delivery an outage may have put back.
THEOREM RetriesEnd == Spec => []RetriesAreBounded
<1>1. TypeOK /\ RetryInv => RetriesAreBounded
  <2> SUFFICES ASSUME TypeOK, RetryInv, NEW o \in Orders
               PROVE  failures[o] <= (MaxAttempts + 1) * (1 + outages * Cardinality(Slots))
    BY DEF RetriesAreBounded
  <2>1. /\ Cardinality(QueueUnits(process, o)) \in Nat
        /\ Cardinality(QueueUnits(retry, o)) \in Nat
        /\ Cardinality(SlotUnits(SlotWorths(o))) \in Nat
    BY SlotUnitsType, FS_CardinalityType DEF RetryInv
  <2>2. failures[o] \in Nat /\ outages \in Nat /\ Cardinality(Slots) \in Nat
    BY AllSlotUnits, OutagesAssumption DEF TypeOK
  <2>3. Due(o) <= Allowed(o)
    BY DEF RetryInv
  <2> DEFINE forked == outages * Cardinality(Slots)
  <2>4. forked \in Int /\ MaxAttempts + 1 \in Nat
    BY <2>2, AttemptsAssumption
  <2>5. \A x \in Nat, y \in Int : x * (0 + y) <= x * (1 + y) /\ x * (1 + y) \in Int
    OBVIOUS
  <2>6. Allowed(o) \in Int /\ Allowed(o) <= (MaxAttempts + 1) * (1 + forked)
    <3> HIDE DEF forked
    <3>1. Allowed(o) = (MaxAttempts + 1) * ((IF o \in sent THEN 1 ELSE 0) + forked)
      BY DEF Allowed, forked
    <3>2. (MaxAttempts + 1) * (0 + forked) \in Int
      BY <2>4
    <3> QED BY <2>4, <2>5, <3>1, <3>2
  <2>7. (MaxAttempts + 1) * (1 + forked) \in Int
    <3> HIDE DEF forked
    <3> QED BY <2>4, <2>5
  <2> QED BY <2>1, <2>2, <2>3, <2>6, <2>7 DEF Due
<1>2. IInv => TypeOK /\ RetryInv
  BY DEF IInv
<1> QED BY <1>1, <1>2, IInvAlways, PTL

\* A processed order stays processed and its other copies fail no more.
THEOREM OrdersAreProcessedOnce == Spec => ProcessedOnce
<1>1. IInv /\ [Next]_vars =>
          [\A o \in Orders : status[o] = "processed" =>
              status'[o] = "processed" /\ failures'[o] = failures[o]]_vars
  BY ProcessedStep DEF IInv
<1> QED BY <1>1, IInvAlways, PTL DEF Spec, ProcessedOnce

====
