-------------------------- MODULE LoanWorkerProofs --------------------------
(***************************************************************************)
(* Proofs about LoanWorker, for any payments, amounts, actors and faults.  *)
(***************************************************************************)
EXTENDS LoanWorker, TLAPS

\* The types are inductive together with the sign of the amounts.
TypeInv == TypeOK /\ AmountsArePositive

LEMMA TypeInit == Init => TypeInv
<1>1. Init => raced \in BOOLEAN
  BY DEF Init
<1> QED
  BY <1>1, PrincipalAssumption, FaultsAssumption
     DEF Init, TypeInv, TypeOK, AmountsArePositive, Midway

LEMMA AmountsArePositiveStep == TypeInv /\ [Next]_vars => AmountsArePositive'
<1> SUFFICES ASSUME TypeInv, [Next]_vars PROVE AmountsArePositive'
  OBVIOUS
<1> USE DEF TypeInv, TypeOK, AmountsArePositive, Midway
<1>1. ASSUME NEW e \in Event, Send(e) PROVE AmountsArePositive'
  BY <1>1 DEF Send, loan, ledger, broker, actor
<1>2. ASSUME NEW a \in Actor, NEW e \in Event, Deliver(a, e) PROVE AmountsArePositive'
  BY <1>2 DEF Deliver, Begin, loan, ledger, broker, actor
<1>3. ASSUME NEW a \in Actor, NEW e \in Event, Call(a, e) PROVE AmountsArePositive'
  BY <1>3 DEF Call, Begin, loan, ledger, broker, actor
<1>4. ASSUME NEW a \in Actor, NEW e \in Event, Read(a, e) PROVE AmountsArePositive'
  BY <1>4 DEF Read, At, Goto, loan, ledger, broker, actor
<1>5. ASSUME NEW a \in Actor, NEW e \in Event, Look(a, e) PROVE AmountsArePositive'
  BY <1>5 DEF Look, At, Goto, loan, ledger, broker, actor
<1>6. ASSUME NEW a \in Actor, NEW e \in Event, Fail(a, e) PROVE AmountsArePositive'
  BY <1>6 DEF Fail, Goto, loan, ledger, broker, actor
<1>7. ASSUME NEW a \in Actor, NEW e \in Event, Repay(a, e) PROVE AmountsArePositive'
  BY <1>7 DEF Repay, At, PostAndAnnounce, Committed, Goto, Fault, loan, ledger, broker, actor
<1>8. ASSUME NEW a \in Actor, NEW e \in Event, PayOff(a, e) PROVE AmountsArePositive'
  BY <1>8 DEF PayOff, At, InsertOverpayment, PostAndAnnounce, Committed, Goto, Fault, loan,
      ledger,
              broker, actor
<1>9. ASSUME NEW a \in Actor, NEW e \in Event, Overpay(a, e) PROVE AmountsArePositive'
  BY <1>9 DEF Overpay, At, InsertOverpayment, PostAndAnnounce, Committed, Goto, Fault, loan,
      ledger,
              broker, actor
<1>10. ASSUME NEW a \in Actor, NEW e \in Event, InsertFails(a, e) PROVE AmountsArePositive'
  BY <1>10 DEF InsertFails, At, Goto, loan, ledger, broker, actor
<1>11. ASSUME NEW a \in Actor, NEW e \in Event, Refuse(a, e) PROVE AmountsArePositive'
  BY <1>11 DEF Refuse, At, Committed, Goto, Fault, loan, ledger, broker, actor
<1>12. ASSUME NEW a \in Actor, NEW e \in Event, Succeed(a, e) PROVE AmountsArePositive'
  BY <1>12 DEF Succeed, At, Leave, loan, ledger, broker, actor
<1>13. ASSUME NEW a \in Actor, NEW e \in Event, Reject(a, e) PROVE AmountsArePositive'
  BY <1>13 DEF Reject, At, Leave, loan, ledger, broker, actor
<1>14. ASSUME NEW a \in Actor, NEW e \in Event, Crash(a, e) PROVE AmountsArePositive'
  BY <1>14 DEF Crash, Leave, Fault, loan, ledger, broker, actor
<1>15. CASE UNCHANGED vars
  BY <1>15 DEF vars, loan, ledger, broker, actor
<1> QED
  BY <1>1, <1>2, <1>3, <1>4, <1>5, <1>6, <1>7, <1>8, <1>9, <1>10, <1>11, <1>12, <1>13, <1>14,
      <1>15
     DEF Next, Handle

LEMMA PostingTypes ==
  ASSUME TypeOK, NEW e \in Event, Amount[e] > 0, PostAndAnnounce(e)
  PROVE  /\ credited' \in Nat /\ posted' \in [Event -> Nat]
         /\ outbox' \in [{"resolved", "unresolved"} -> [Event -> Nat]]
<1>1. outbox' \in [{"resolved", "unresolved"} -> [Event -> Nat]]
  BY DEF TypeOK, PostAndAnnounce, CreateOutboxMessage, Incr
<1>2. posted' \in [Event -> Nat]
  BY DEF TypeOK, PostAndAnnounce, Incr
<1>3. Amount[e] \in Int /\ credited \in Nat
  BY AmountAssumption DEF TypeOK
<1>4. credited' \in Nat
  BY <1>3 DEF PostAndAnnounce
<1> QED
  BY <1>1, <1>2, <1>4

LEMMA CommitTypes ==
  ASSUME TypeOK, NEW a \in Actor, Committed(a)
  PROVE  /\ pc' \in [Actor -> {"idle", "begun", "look", "write", "refuse", "handled", "failed", "ended"}]
         /\ event' \in [Actor -> SUBSET Event]
         /\ raced' \in BOOLEAN
         /\ faults' \in 0 .. MaxFaults
<1>1. raced' = raced /\ raced \in BOOLEAN
  BY DEF Committed, Goto, TypeOK
<1>2. raced' \in BOOLEAN
  BY <1>1
<1>3. /\ pc' \in [Actor -> {"idle", "begun", "look", "write", "refuse", "handled", "failed", "ended"}]
      /\ event' \in [Actor -> SUBSET Event]
      /\ faults' \in 0 .. MaxFaults
  <2>1. pc' \in [Actor -> {"idle", "begun", "look", "write", "refuse", "handled", "failed", "ended"}]
    BY DEF TypeOK, Committed, Goto
  <2>2. event' \in [Actor -> SUBSET Event]
    BY DEF TypeOK, Committed, Goto
  <2>3. faults' \in 0 .. MaxFaults
    BY FaultsAssumption DEF TypeOK, Committed, Fault
  <2> QED
    BY <2>1, <2>2, <2>3
<1> QED
  BY <1>2, <1>3

LEMMA TypeStep == TypeInv /\ [Next]_vars => TypeOK'
<1> SUFFICES ASSUME TypeInv, [Next]_vars PROVE TypeOK'
  OBVIOUS
<1> USE AmountAssumption, FaultsAssumption DEF TypeInv, TypeOK, AmountsArePositive, Midway
<1>1. ASSUME NEW e \in Event, Send(e) PROVE TypeOK'
  BY <1>1 DEF Send, loan, ledger, broker, actor
<1>2. ASSUME NEW a \in Actor, NEW e \in Event, Deliver(a, e) PROVE TypeOK'
  BY <1>2 DEF Deliver, Begin, loan, ledger, broker, actor
<1>3. ASSUME NEW a \in Actor, NEW e \in Event, Call(a, e) PROVE TypeOK'
  BY <1>3 DEF Call, Begin, loan, ledger, broker, actor
<1>4. ASSUME NEW a \in Actor, NEW e \in Event, Read(a, e) PROVE TypeOK'
  BY <1>4 DEF Read, At, Goto, loan, ledger, broker, actor
<1>5. ASSUME NEW a \in Actor, NEW e \in Event, Look(a, e) PROVE TypeOK'
  BY <1>5 DEF Look, At, Goto, loan, ledger, broker, actor
<1>6. ASSUME NEW a \in Actor, NEW e \in Event, Fail(a, e) PROVE TypeOK'
  BY <1>6 DEF Fail, Goto, loan, ledger, broker, actor
<1>7. ASSUME NEW a \in Actor, NEW e \in Event, Repay(a, e) PROVE TypeOK'
  <2>1. Amount[e] > 0 /\ seen[a].outstanding \in Nat /\ seen[a].outstanding >= Amount[e]
    BY <1>7 DEF Repay, At
  <2>2. outstanding' \in Nat
    BY <1>7, <2>1 DEF Repay
  <2>3. PostAndAnnounce(e) /\ Committed(a)
    BY <1>7 DEF Repay
  <2> QED
    BY <1>7, <2>1, <2>2, <2>3, PostingTypes, CommitTypes DEF Repay, broker
<1>8. ASSUME NEW a \in Actor, NEW e \in Event, PayOff(a, e) PROVE TypeOK'
  <2>1. Amount[e] > 0 /\ seen[a].outstanding \in Nat /\ seen[a].outstanding < Amount[e]
    BY <1>8 DEF PayOff, At
  <2>2. overpaid' \in Nat /\ overpayments' \in SUBSET Event
    BY <1>8, <2>1 DEF PayOff, InsertOverpayment
  <2>3. PostAndAnnounce(e) /\ Committed(a)
    BY <1>8 DEF PayOff
  <2> QED
    BY <1>8, <2>1, <2>2, <2>3, PostingTypes, CommitTypes DEF PayOff, broker
<1>9. ASSUME NEW a \in Actor, NEW e \in Event, Overpay(a, e) PROVE TypeOK'
  <2>1. Amount[e] > 0
    BY <1>9 DEF Overpay, At
  <2>2. overpaid' \in Nat /\ overpayments' \in SUBSET Event
    BY <1>9, <2>1 DEF Overpay, InsertOverpayment
  <2>3. PostAndAnnounce(e) /\ Committed(a)
    BY <1>9 DEF Overpay
  <2> QED
    BY <1>9, <2>1, <2>2, <2>3, PostingTypes, CommitTypes DEF Overpay, broker
<1>10. ASSUME NEW a \in Actor, NEW e \in Event, InsertFails(a, e) PROVE TypeOK'
  BY <1>10 DEF InsertFails, At, Goto, loan, ledger, broker, actor
<1>11. ASSUME NEW a \in Actor, NEW e \in Event, Refuse(a, e) PROVE TypeOK'
  <2>1. Committed(a)
    BY <1>11 DEF Refuse
  <2>2. outbox' \in [{"resolved", "unresolved"} -> [Event -> Nat]]
    BY <1>11 DEF Refuse, CreateOutboxMessage, Incr
  <2> QED
    BY <1>11, <2>1, <2>2, CommitTypes DEF Refuse, loan, ledger, broker
<1>12. ASSUME NEW a \in Actor, NEW e \in Event, Succeed(a, e) PROVE TypeOK'
  BY <1>12 DEF Succeed, At, Leave, loan, ledger, broker, actor
<1>13. ASSUME NEW a \in Actor, NEW e \in Event, Reject(a, e) PROVE TypeOK'
  BY <1>13 DEF Reject, At, Leave, loan, ledger, broker, actor
<1>14. ASSUME NEW a \in Actor, NEW e \in Event, Crash(a, e) PROVE TypeOK'
  BY <1>14 DEF Crash, Leave, Fault, loan, ledger, broker, actor
<1>15. CASE UNCHANGED vars
  BY <1>15 DEF vars, loan, ledger, broker, actor
<1> QED
  BY <1>1, <1>2, <1>3, <1>4, <1>5, <1>6, <1>7, <1>8, <1>9, <1>10, <1>11, <1>12, <1>13, <1>14,
      <1>15
     DEF Next, Handle

\* Every variable keeps its type: the outstanding amount never falls below zero, whatever
\* the amounts are and however the transactions interleave.
THEOREM TypeCorrect == Spec => []TypeOK
<1>1. TypeInv /\ [Next]_vars => TypeInv'
  BY TypeStep, AmountsArePositiveStep DEF TypeInv
<1>2. TypeInv => TypeOK
  BY DEF TypeInv
<1> QED
  BY <1>1, <1>2, TypeInit, PTL DEF Spec

-----------------------------------------------------------------------------

\* Any number of actors: a transaction adds to the books no more than it credits.
OverstatedInv == TypeInv /\ NeverOverstated /\ SeenNeverOverstated

LEMMA NeverOverstatedStep == OverstatedInv /\ [Next]_vars => NeverOverstated'
<1> SUFFICES ASSUME OverstatedInv, [Next]_vars PROVE NeverOverstated'
  OBVIOUS
<1> USE AmountAssumption, PrincipalAssumption
    DEF OverstatedInv, TypeInv, TypeOK, NeverOverstated, Accounted, SeenNeverOverstated,
        AmountsArePositive, Midway
<1>1. ASSUME NEW e \in Event, Send(e) PROVE NeverOverstated'
  BY <1>1 DEF Send, loan, ledger, broker, actor
<1>2. ASSUME NEW a \in Actor, NEW e \in Event, Deliver(a, e) PROVE NeverOverstated'
  BY <1>2 DEF Deliver, Begin, loan, ledger, broker, actor
<1>3. ASSUME NEW a \in Actor, NEW e \in Event, Call(a, e) PROVE NeverOverstated'
  BY <1>3 DEF Call, Begin, loan, ledger, broker, actor
<1>4. ASSUME NEW a \in Actor, NEW e \in Event, Read(a, e) PROVE NeverOverstated'
  BY <1>4 DEF Read, At, Goto, loan, ledger, broker, actor
<1>5. ASSUME NEW a \in Actor, NEW e \in Event, Look(a, e) PROVE NeverOverstated'
  BY <1>5 DEF Look, At, Goto, loan, ledger, broker, actor
<1>6. ASSUME NEW a \in Actor, NEW e \in Event, Fail(a, e) PROVE NeverOverstated'
  BY <1>6 DEF Fail, Goto, loan, ledger, broker, actor
<1>7. ASSUME NEW a \in Actor, NEW e \in Event, Repay(a, e) PROVE NeverOverstated'
  BY <1>7 DEF Repay, At, PostAndAnnounce, Committed, Goto, Fault, loan, ledger, broker, actor
<1>8. ASSUME NEW a \in Actor, NEW e \in Event, PayOff(a, e) PROVE NeverOverstated'
  BY <1>8 DEF PayOff, At, InsertOverpayment, PostAndAnnounce, Committed, Goto, Fault, loan,
      ledger,
              broker, actor
<1>9. ASSUME NEW a \in Actor, NEW e \in Event, Overpay(a, e) PROVE NeverOverstated'
  BY <1>9 DEF Overpay, At, InsertOverpayment, PostAndAnnounce, Committed, Goto, Fault, loan,
      ledger,
              broker, actor
<1>10. ASSUME NEW a \in Actor, NEW e \in Event, InsertFails(a, e) PROVE NeverOverstated'
  BY <1>10 DEF InsertFails, At, Goto, loan, ledger, broker, actor
<1>11. ASSUME NEW a \in Actor, NEW e \in Event, Refuse(a, e) PROVE NeverOverstated'
  BY <1>11 DEF Refuse, At, Committed, Goto, Fault, loan, ledger, broker, actor
<1>12. ASSUME NEW a \in Actor, NEW e \in Event, Succeed(a, e) PROVE NeverOverstated'
  BY <1>12 DEF Succeed, At, Leave, loan, ledger, broker, actor
<1>13. ASSUME NEW a \in Actor, NEW e \in Event, Reject(a, e) PROVE NeverOverstated'
  BY <1>13 DEF Reject, At, Leave, loan, ledger, broker, actor
<1>14. ASSUME NEW a \in Actor, NEW e \in Event, Crash(a, e) PROVE NeverOverstated'
  BY <1>14 DEF Crash, Leave, Fault, loan, ledger, broker, actor
<1>15. CASE UNCHANGED vars
  BY <1>15 DEF vars, loan, ledger, broker, actor
<1> QED
  BY <1>1, <1>2, <1>3, <1>4, <1>5, <1>6, <1>7, <1>8, <1>9, <1>10, <1>11, <1>12, <1>13, <1>14,
      <1>15
     DEF Next, Handle

LEMMA SeenNeverOverstatedStep == OverstatedInv /\ [Next]_vars => SeenNeverOverstated'
<1> SUFFICES ASSUME OverstatedInv, [Next]_vars PROVE SeenNeverOverstated'
  OBVIOUS
<1> USE AmountAssumption, PrincipalAssumption
    DEF OverstatedInv, TypeInv, TypeOK, NeverOverstated, Accounted, SeenNeverOverstated,
        AmountsArePositive, Midway
<1>1. ASSUME NEW e \in Event, Send(e) PROVE SeenNeverOverstated'
  BY <1>1 DEF Send, loan, ledger, broker, actor
<1>2. ASSUME NEW a \in Actor, NEW e \in Event, Deliver(a, e) PROVE SeenNeverOverstated'
  BY <1>2 DEF Deliver, Begin, loan, ledger, broker, actor
<1>3. ASSUME NEW a \in Actor, NEW e \in Event, Call(a, e) PROVE SeenNeverOverstated'
  BY <1>3 DEF Call, Begin, loan, ledger, broker, actor
<1>4. ASSUME NEW a \in Actor, NEW e \in Event, Read(a, e) PROVE SeenNeverOverstated'
  BY <1>4 DEF Read, At, Goto, loan, ledger, broker, actor
<1>5. ASSUME NEW a \in Actor, NEW e \in Event, Look(a, e) PROVE SeenNeverOverstated'
  BY <1>5 DEF Look, At, Goto, loan, ledger, broker, actor
<1>6. ASSUME NEW a \in Actor, NEW e \in Event, Fail(a, e) PROVE SeenNeverOverstated'
  BY <1>6 DEF Fail, Goto, loan, ledger, broker, actor
<1>7. ASSUME NEW a \in Actor, NEW e \in Event, Repay(a, e) PROVE SeenNeverOverstated'
  BY <1>7 DEF Repay, At, PostAndAnnounce, Committed, Goto, Fault, loan, ledger, broker, actor
<1>8. ASSUME NEW a \in Actor, NEW e \in Event, PayOff(a, e) PROVE SeenNeverOverstated'
  BY <1>8 DEF PayOff, At, InsertOverpayment, PostAndAnnounce, Committed, Goto, Fault, loan,
      ledger,
              broker, actor
<1>9. ASSUME NEW a \in Actor, NEW e \in Event, Overpay(a, e) PROVE SeenNeverOverstated'
  BY <1>9 DEF Overpay, At, InsertOverpayment, PostAndAnnounce, Committed, Goto, Fault, loan,
      ledger,
              broker, actor
<1>10. ASSUME NEW a \in Actor, NEW e \in Event, InsertFails(a, e) PROVE SeenNeverOverstated'
  BY <1>10 DEF InsertFails, At, Goto, loan, ledger, broker, actor
<1>11. ASSUME NEW a \in Actor, NEW e \in Event, Refuse(a, e) PROVE SeenNeverOverstated'
  BY <1>11 DEF Refuse, At, Committed, Goto, Fault, loan, ledger, broker, actor
<1>12. ASSUME NEW a \in Actor, NEW e \in Event, Succeed(a, e) PROVE SeenNeverOverstated'
  BY <1>12 DEF Succeed, At, Leave, loan, ledger, broker, actor
<1>13. ASSUME NEW a \in Actor, NEW e \in Event, Reject(a, e) PROVE SeenNeverOverstated'
  BY <1>13 DEF Reject, At, Leave, loan, ledger, broker, actor
<1>14. ASSUME NEW a \in Actor, NEW e \in Event, Crash(a, e) PROVE SeenNeverOverstated'
  BY <1>14 DEF Crash, Leave, Fault, loan, ledger, broker, actor
<1>15. CASE UNCHANGED vars
  BY <1>15 DEF vars, loan, ledger, broker, actor
<1> QED
  BY <1>1, <1>2, <1>3, <1>4, <1>5, <1>6, <1>7, <1>8, <1>9, <1>10, <1>11, <1>12, <1>13, <1>14,
      <1>15
     DEF Next, Handle

\* The books never account for more than was credited.
THEOREM NothingIsInvented == Spec => []NeverOverstated
<1>1. Init => OverstatedInv
  BY TypeInit, PrincipalAssumption
     DEF Init, OverstatedInv, NeverOverstated, Accounted, SeenNeverOverstated, Midway
<1>2. OverstatedInv /\ [Next]_vars => OverstatedInv'
  BY TypeStep, AmountsArePositiveStep, NeverOverstatedStep, SeenNeverOverstatedStep
     DEF OverstatedInv, TypeInv
<1>3. OverstatedInv => NeverOverstated
  BY DEF OverstatedInv
<1> QED
  BY <1>1, <1>2, <1>3, PTL DEF Spec

-----------------------------------------------------------------------------

\* One payment at a time: who is midway has a payment, and nobody else has one.
Turn ==
  /\ \A a, b \in Actor : event[a] # {} /\ event[b] # {} => a = b
  /\ \A a \in Actor : pc[a] \in Midway => event[a] # {}

LEMMA TurnStep ==
  TypeInv /\ (raced \/ Turn) /\ [Next]_vars => (raced' \/ Turn') /\ (raced => raced')
<1> SUFFICES ASSUME TypeInv, raced \/ Turn, [Next]_vars
             PROVE  (raced' \/ Turn') /\ (raced => raced')
  OBVIOUS
<1> USE DEF TypeInv, TypeOK, Midway, actor
<1>1. ASSUME NEW a \in Actor, NEW e \in Event, Deliver(a, e) \/ Call(a, e)
      PROVE  (raced' \/ Turn') /\ (raced => raced')
  <2>1. Begin(a, e)
    BY <1>1 DEF Deliver, Call
  <2> QED
    BY <2>1 DEF Begin, Turn
<1>2. ASSUME NEW a \in Actor, NEW e \in Event,
             \/ Read(a, e) \/ Look(a, e) \/ Fail(a, e)
             \/ Repay(a, e) \/ PayOff(a, e) \/ Overpay(a, e) \/ InsertFails(a, e) \/ Refuse(a, e)
      PROVE  (raced' \/ Turn') /\ (raced => raced')
  <2>1. UNCHANGED <<event, raced>> /\ event[a] # {} /\ \A b \in Actor : b # a => pc'[b] = pc[b]
    BY <1>2 DEF Read, Look, Fail, Repay, PayOff, Overpay, InsertFails, Refuse, At, Committed, Goto
  <2> QED
    BY <2>1 DEF Turn
<1>3. ASSUME NEW a \in Actor, NEW e \in Event, Succeed(a, e) \/ Reject(a, e) \/ Crash(a, e)
      PROVE  (raced' \/ Turn') /\ (raced => raced')
  <2>1. Leave(a)
    BY <1>3 DEF Succeed, Reject, Crash
  <2> QED
    BY <2>1 DEF Leave, Turn
<1>4. ASSUME NEW e \in Event, Send(e) PROVE (raced' \/ Turn') /\ (raced => raced')
  BY <1>4 DEF Send, Turn
<1>5. CASE UNCHANGED vars
  BY <1>5 DEF vars, Turn
<1> QED
  BY <1>1, <1>2, <1>3, <1>4, <1>5 DEF Next, Handle

SerialInv ==
  TypeInv /\ SeenIsCurrent /\ OverpaidMeansPaidOff /\ BooksBalance /\ PaidOffMeansZero

\* Until two payments race, the books are those of payments handled one after the other.
TurnInv == TypeInv /\ (raced \/ Turn) /\ (raced \/ SerialInv)

LEMMA TurnInit == Init => TurnInv
BY TypeInit, PrincipalAssumption
   DEF Init, TurnInv, Turn, SerialInv, SeenIsCurrent, OverpaidMeansPaidOff, BooksBalance,
       Accounted, PaidOffMeansZero, Midway

LEMMA SeenIsCurrentStep == Turn /\ SerialInv /\ [Next]_vars => SeenIsCurrent'
<1> SUFFICES ASSUME Turn, SerialInv, [Next]_vars PROVE SeenIsCurrent'
  OBVIOUS
<1> USE DEF Turn, SerialInv, TypeInv, TypeOK, SeenIsCurrent, Midway
<1>1. ASSUME NEW e \in Event, Send(e) PROVE SeenIsCurrent'
  BY <1>1 DEF Send, loan, ledger, broker, actor
<1>2. ASSUME NEW a \in Actor, NEW e \in Event, Deliver(a, e) PROVE SeenIsCurrent'
  BY <1>2 DEF Deliver, Begin, loan, ledger, broker, actor
<1>3. ASSUME NEW a \in Actor, NEW e \in Event, Call(a, e) PROVE SeenIsCurrent'
  BY <1>3 DEF Call, Begin, loan, ledger, broker, actor
<1>4. ASSUME NEW a \in Actor, NEW e \in Event, Read(a, e) PROVE SeenIsCurrent'
  BY <1>4 DEF Read, At, Goto, loan, ledger, broker, actor
<1>5. ASSUME NEW a \in Actor, NEW e \in Event, Look(a, e) PROVE SeenIsCurrent'
  BY <1>5 DEF Look, At, Goto, loan, ledger, broker, actor
<1>6. ASSUME NEW a \in Actor, NEW e \in Event, Fail(a, e) PROVE SeenIsCurrent'
  BY <1>6 DEF Fail, Goto, loan, ledger, broker, actor
<1>7. ASSUME NEW a \in Actor, NEW e \in Event, Repay(a, e) PROVE SeenIsCurrent'
  BY <1>7 DEF Repay, At, PostAndAnnounce, Committed, Goto, Fault, loan, ledger, broker, actor
<1>8. ASSUME NEW a \in Actor, NEW e \in Event, PayOff(a, e) PROVE SeenIsCurrent'
  BY <1>8 DEF PayOff, At, InsertOverpayment, PostAndAnnounce, Committed, Goto, Fault, loan,
      ledger,
              broker, actor
<1>9. ASSUME NEW a \in Actor, NEW e \in Event, Overpay(a, e) PROVE SeenIsCurrent'
  BY <1>9 DEF Overpay, At, InsertOverpayment, PostAndAnnounce, Committed, Goto, Fault, loan,
      ledger,
              broker, actor
<1>10. ASSUME NEW a \in Actor, NEW e \in Event, InsertFails(a, e) PROVE SeenIsCurrent'
  BY <1>10 DEF InsertFails, At, Goto, loan, ledger, broker, actor
<1>11. ASSUME NEW a \in Actor, NEW e \in Event, Refuse(a, e) PROVE SeenIsCurrent'
  BY <1>11 DEF Refuse, At, Committed, Goto, Fault, loan, ledger, broker, actor
<1>12. ASSUME NEW a \in Actor, NEW e \in Event, Succeed(a, e) PROVE SeenIsCurrent'
  BY <1>12 DEF Succeed, At, Leave, loan, ledger, broker, actor
<1>13. ASSUME NEW a \in Actor, NEW e \in Event, Reject(a, e) PROVE SeenIsCurrent'
  BY <1>13 DEF Reject, At, Leave, loan, ledger, broker, actor
<1>14. ASSUME NEW a \in Actor, NEW e \in Event, Crash(a, e) PROVE SeenIsCurrent'
  BY <1>14 DEF Crash, Leave, Fault, loan, ledger, broker, actor
<1>15. CASE UNCHANGED vars
  BY <1>15 DEF vars, loan, ledger, broker, actor
<1> QED
  BY <1>1, <1>2, <1>3, <1>4, <1>5, <1>6, <1>7, <1>8, <1>9, <1>10, <1>11, <1>12, <1>13, <1>14,
      <1>15
     DEF Next, Handle

\* A loan stays paid off: this holds of payments that overlap, too.
LEMMA OverpaidMeansPaidOffStep ==
  TypeInv /\ OverpaidMeansPaidOff /\ [Next]_vars => OverpaidMeansPaidOff'
<1> SUFFICES ASSUME TypeInv, OverpaidMeansPaidOff, [Next]_vars PROVE OverpaidMeansPaidOff'
  OBVIOUS
<1> USE DEF TypeInv, TypeOK, OverpaidMeansPaidOff, Midway
<1>1. ASSUME NEW e \in Event, Send(e) PROVE OverpaidMeansPaidOff'
  BY <1>1 DEF Send, loan, ledger, broker, actor
<1>2. ASSUME NEW a \in Actor, NEW e \in Event, Deliver(a, e) PROVE OverpaidMeansPaidOff'
  BY <1>2 DEF Deliver, Begin, loan, ledger, broker, actor
<1>3. ASSUME NEW a \in Actor, NEW e \in Event, Call(a, e) PROVE OverpaidMeansPaidOff'
  BY <1>3 DEF Call, Begin, loan, ledger, broker, actor
<1>4. ASSUME NEW a \in Actor, NEW e \in Event, Read(a, e) PROVE OverpaidMeansPaidOff'
  BY <1>4 DEF Read, At, Goto, loan, ledger, broker, actor
<1>5. ASSUME NEW a \in Actor, NEW e \in Event, Look(a, e) PROVE OverpaidMeansPaidOff'
  BY <1>5 DEF Look, At, Goto, loan, ledger, broker, actor
<1>6. ASSUME NEW a \in Actor, NEW e \in Event, Fail(a, e) PROVE OverpaidMeansPaidOff'
  BY <1>6 DEF Fail, Goto, loan, ledger, broker, actor
<1>7. ASSUME NEW a \in Actor, NEW e \in Event, Repay(a, e) PROVE OverpaidMeansPaidOff'
  BY <1>7 DEF Repay, At, PostAndAnnounce, Committed, Goto, Fault, loan, ledger, broker, actor
<1>8. ASSUME NEW a \in Actor, NEW e \in Event, PayOff(a, e) PROVE OverpaidMeansPaidOff'
  BY <1>8 DEF PayOff, At, InsertOverpayment, PostAndAnnounce, Committed, Goto, Fault, loan,
      ledger,
              broker, actor
<1>9. ASSUME NEW a \in Actor, NEW e \in Event, Overpay(a, e) PROVE OverpaidMeansPaidOff'
  BY <1>9 DEF Overpay, At, InsertOverpayment, PostAndAnnounce, Committed, Goto, Fault, loan,
      ledger,
              broker, actor
<1>10. ASSUME NEW a \in Actor, NEW e \in Event, InsertFails(a, e) PROVE OverpaidMeansPaidOff'
  BY <1>10 DEF InsertFails, At, Goto, loan, ledger, broker, actor
<1>11. ASSUME NEW a \in Actor, NEW e \in Event, Refuse(a, e) PROVE OverpaidMeansPaidOff'
  BY <1>11 DEF Refuse, At, Committed, Goto, Fault, loan, ledger, broker, actor
<1>12. ASSUME NEW a \in Actor, NEW e \in Event, Succeed(a, e) PROVE OverpaidMeansPaidOff'
  BY <1>12 DEF Succeed, At, Leave, loan, ledger, broker, actor
<1>13. ASSUME NEW a \in Actor, NEW e \in Event, Reject(a, e) PROVE OverpaidMeansPaidOff'
  BY <1>13 DEF Reject, At, Leave, loan, ledger, broker, actor
<1>14. ASSUME NEW a \in Actor, NEW e \in Event, Crash(a, e) PROVE OverpaidMeansPaidOff'
  BY <1>14 DEF Crash, Leave, Fault, loan, ledger, broker, actor
<1>15. CASE UNCHANGED vars
  BY <1>15 DEF vars, loan, ledger, broker, actor
<1> QED
  BY <1>1, <1>2, <1>3, <1>4, <1>5, <1>6, <1>7, <1>8, <1>9, <1>10, <1>11, <1>12, <1>13, <1>14,
      <1>15
     DEF Next, Handle

LEMMA BooksBalanceStep == SerialInv /\ [Next]_vars => BooksBalance'
<1> SUFFICES ASSUME SerialInv, [Next]_vars PROVE BooksBalance'
  OBVIOUS
<1> USE AmountAssumption, PrincipalAssumption
    DEF SerialInv, TypeInv, TypeOK, SeenIsCurrent, BooksBalance, Accounted, PaidOffMeansZero, Midway
<1>1. ASSUME NEW e \in Event, Send(e) PROVE BooksBalance'
  BY <1>1 DEF Send, loan, ledger, broker, actor
<1>2. ASSUME NEW a \in Actor, NEW e \in Event, Deliver(a, e) PROVE BooksBalance'
  BY <1>2 DEF Deliver, Begin, loan, ledger, broker, actor
<1>3. ASSUME NEW a \in Actor, NEW e \in Event, Call(a, e) PROVE BooksBalance'
  BY <1>3 DEF Call, Begin, loan, ledger, broker, actor
<1>4. ASSUME NEW a \in Actor, NEW e \in Event, Read(a, e) PROVE BooksBalance'
  BY <1>4 DEF Read, At, Goto, loan, ledger, broker, actor
<1>5. ASSUME NEW a \in Actor, NEW e \in Event, Look(a, e) PROVE BooksBalance'
  BY <1>5 DEF Look, At, Goto, loan, ledger, broker, actor
<1>6. ASSUME NEW a \in Actor, NEW e \in Event, Fail(a, e) PROVE BooksBalance'
  BY <1>6 DEF Fail, Goto, loan, ledger, broker, actor
<1>7. ASSUME NEW a \in Actor, NEW e \in Event, Repay(a, e) PROVE BooksBalance'
  <2>1. seen[a].outstanding = outstanding
    BY <1>7 DEF Repay, At
  <2>2. outstanding' = outstanding - Amount[e] /\ overpaid' = overpaid
    BY <1>7, <2>1 DEF Repay
  <2>3. credited' = credited + Amount[e]
    BY <1>7 DEF Repay, PostAndAnnounce
  <2>4. /\ Principal \in Nat /\ outstanding \in Nat /\ overpaid \in Nat /\ Amount[e] \in Int
        /\ credited = Principal - outstanding + overpaid
    OBVIOUS
  <2>5. Principal - outstanding' + overpaid' = credited'
    BY ONLY <2>2, <2>3, <2>4
  <2> QED
    BY <2>5
<1>8. ASSUME NEW a \in Actor, NEW e \in Event, PayOff(a, e) PROVE BooksBalance'
  <2>1. seen[a].outstanding = outstanding
    BY <1>8 DEF PayOff, At
  <2>2. outstanding' = 0 /\ overpaid' = overpaid + Amount[e] - outstanding
    BY <1>8, <2>1 DEF PayOff, InsertOverpayment
  <2>3. credited' = credited + Amount[e]
    BY <1>8 DEF PayOff, PostAndAnnounce
  <2>4. /\ Principal \in Nat /\ outstanding \in Nat /\ overpaid \in Nat /\ Amount[e] \in Int
        /\ credited = Principal - outstanding + overpaid
    OBVIOUS
  <2>5. Principal - outstanding' + overpaid' = credited'
    BY ONLY <2>2, <2>3, <2>4
  <2> QED
    BY <2>5
<1>9. ASSUME NEW a \in Actor, NEW e \in Event, Overpay(a, e) PROVE BooksBalance'
  <2>1. seen[a].outstanding = outstanding
    BY <1>9 DEF Overpay, At
  <2>2. outstanding' = outstanding /\ overpaid' = overpaid + Amount[e]
    BY <1>9, <2>1 DEF Overpay, InsertOverpayment
  <2>3. credited' = credited + Amount[e]
    BY <1>9 DEF Overpay, PostAndAnnounce
  <2>4. /\ Principal \in Nat /\ outstanding \in Nat /\ overpaid \in Nat /\ Amount[e] \in Int
        /\ credited = Principal - outstanding + overpaid
    OBVIOUS
  <2>5. Principal - outstanding' + overpaid' = credited'
    BY ONLY <2>2, <2>3, <2>4
  <2> QED
    BY <2>5
<1>10. ASSUME NEW a \in Actor, NEW e \in Event, InsertFails(a, e) PROVE BooksBalance'
  BY <1>10 DEF InsertFails, At, Goto, loan, ledger, broker, actor
<1>11. ASSUME NEW a \in Actor, NEW e \in Event, Refuse(a, e) PROVE BooksBalance'
  BY <1>11 DEF Refuse, At, Committed, Goto, Fault, loan, ledger, broker, actor
<1>12. ASSUME NEW a \in Actor, NEW e \in Event, Succeed(a, e) PROVE BooksBalance'
  BY <1>12 DEF Succeed, At, Leave, loan, ledger, broker, actor
<1>13. ASSUME NEW a \in Actor, NEW e \in Event, Reject(a, e) PROVE BooksBalance'
  BY <1>13 DEF Reject, At, Leave, loan, ledger, broker, actor
<1>14. ASSUME NEW a \in Actor, NEW e \in Event, Crash(a, e) PROVE BooksBalance'
  BY <1>14 DEF Crash, Leave, Fault, loan, ledger, broker, actor
<1>15. CASE UNCHANGED vars
  BY <1>15 DEF vars, loan, ledger, broker, actor
<1> QED
  BY <1>1, <1>2, <1>3, <1>4, <1>5, <1>6, <1>7, <1>8, <1>9, <1>10, <1>11, <1>12, <1>13, <1>14,
      <1>15
     DEF Next, Handle

LEMMA PaidOffMeansZeroStep == SerialInv /\ [Next]_vars => PaidOffMeansZero'
<1> SUFFICES ASSUME SerialInv, [Next]_vars PROVE PaidOffMeansZero'
  OBVIOUS
<1> USE DEF SerialInv, TypeInv, TypeOK, SeenIsCurrent, PaidOffMeansZero, Midway
<1>1. ASSUME NEW e \in Event, Send(e) PROVE PaidOffMeansZero'
  BY <1>1 DEF Send, loan, ledger, broker, actor
<1>2. ASSUME NEW a \in Actor, NEW e \in Event, Deliver(a, e) PROVE PaidOffMeansZero'
  BY <1>2 DEF Deliver, Begin, loan, ledger, broker, actor
<1>3. ASSUME NEW a \in Actor, NEW e \in Event, Call(a, e) PROVE PaidOffMeansZero'
  BY <1>3 DEF Call, Begin, loan, ledger, broker, actor
<1>4. ASSUME NEW a \in Actor, NEW e \in Event, Read(a, e) PROVE PaidOffMeansZero'
  BY <1>4 DEF Read, At, Goto, loan, ledger, broker, actor
<1>5. ASSUME NEW a \in Actor, NEW e \in Event, Look(a, e) PROVE PaidOffMeansZero'
  BY <1>5 DEF Look, At, Goto, loan, ledger, broker, actor
<1>6. ASSUME NEW a \in Actor, NEW e \in Event, Fail(a, e) PROVE PaidOffMeansZero'
  BY <1>6 DEF Fail, Goto, loan, ledger, broker, actor
<1>7. ASSUME NEW a \in Actor, NEW e \in Event, Repay(a, e) PROVE PaidOffMeansZero'
  BY <1>7 DEF Repay, At, PostAndAnnounce, Committed, Goto, Fault, loan, ledger, broker, actor
<1>8. ASSUME NEW a \in Actor, NEW e \in Event, PayOff(a, e) PROVE PaidOffMeansZero'
  BY <1>8 DEF PayOff, At, InsertOverpayment, PostAndAnnounce, Committed, Goto, Fault, loan,
      ledger,
              broker, actor
<1>9. ASSUME NEW a \in Actor, NEW e \in Event, Overpay(a, e) PROVE PaidOffMeansZero'
  BY <1>9 DEF Overpay, At, InsertOverpayment, PostAndAnnounce, Committed, Goto, Fault, loan,
      ledger,
              broker, actor
<1>10. ASSUME NEW a \in Actor, NEW e \in Event, InsertFails(a, e) PROVE PaidOffMeansZero'
  BY <1>10 DEF InsertFails, At, Goto, loan, ledger, broker, actor
<1>11. ASSUME NEW a \in Actor, NEW e \in Event, Refuse(a, e) PROVE PaidOffMeansZero'
  BY <1>11 DEF Refuse, At, Committed, Goto, Fault, loan, ledger, broker, actor
<1>12. ASSUME NEW a \in Actor, NEW e \in Event, Succeed(a, e) PROVE PaidOffMeansZero'
  BY <1>12 DEF Succeed, At, Leave, loan, ledger, broker, actor
<1>13. ASSUME NEW a \in Actor, NEW e \in Event, Reject(a, e) PROVE PaidOffMeansZero'
  BY <1>13 DEF Reject, At, Leave, loan, ledger, broker, actor
<1>14. ASSUME NEW a \in Actor, NEW e \in Event, Crash(a, e) PROVE PaidOffMeansZero'
  BY <1>14 DEF Crash, Leave, Fault, loan, ledger, broker, actor
<1>15. CASE UNCHANGED vars
  BY <1>15 DEF vars, loan, ledger, broker, actor
<1> QED
  BY <1>1, <1>2, <1>3, <1>4, <1>5, <1>6, <1>7, <1>8, <1>9, <1>10, <1>11, <1>12, <1>13, <1>14,
      <1>15
     DEF Next, Handle

LEMMA SerialStep == Turn /\ SerialInv /\ [Next]_vars => SerialInv'
BY TypeStep, AmountsArePositiveStep, SeenIsCurrentStep, OverpaidMeansPaidOffStep,
   BooksBalanceStep, PaidOffMeansZeroStep
   DEF SerialInv, TypeInv

LEMMA TurnInvStep == TurnInv /\ [Next]_vars => TurnInv'
BY TypeStep, AmountsArePositiveStep, TurnStep, SerialStep DEF TurnInv, TypeInv

\* One at a time, every shilling credited is taken off the loan or recorded as
\* overpayment, whatever is redelivered.
THEOREM SerialBooksBalance == Spec => []BooksBalanceInTurn
<1>1. TurnInv /\ [Next]_vars => TurnInv'
  BY TurnInvStep
<1>2. TurnInv => BooksBalanceInTurn
  BY DEF TurnInv, SerialInv, BooksBalanceInTurn
<1> QED
  BY <1>1, <1>2, TurnInit, PTL DEF Spec

\* One at a time, the loan only shrinks.
THEOREM SerialLoanShrinks == Spec => OutstandingNeverGrows
<1>1. TurnInv /\ [Next]_vars => TurnInv'
  BY TurnInvStep
<1>2. TurnInv /\ [Next]_vars => [raced' \/ outstanding' <= outstanding]_vars
  <2> SUFFICES ASSUME SerialInv, [Next]_vars PROVE outstanding' <= outstanding
    BY TurnStep DEF TurnInv
  <2> USE DEF SerialInv, TypeInv, TypeOK
  <2>1. ASSUME NEW a \in Actor, NEW e \in Event, Repay(a, e) PROVE outstanding' <= outstanding
    <3>1. seen[a].outstanding = outstanding /\ Amount[e] > 0 /\ Amount[e] \in Int
      BY <2>1, AmountAssumption DEF Repay, At, SeenIsCurrent, AmountsArePositive, Midway
    <3> QED
      BY <2>1, <3>1 DEF Repay
  <2>2. ASSUME NEW a \in Actor, NEW e \in Event, PayOff(a, e) PROVE outstanding' <= outstanding
    BY <2>2 DEF PayOff
  <2>3. ASSUME NEW a \in Actor, NEW e \in Event,
               \/ Read(a, e) \/ Look(a, e) \/ Fail(a, e) \/ Overpay(a, e) \/ InsertFails(a, e)
               \/ Refuse(a, e) \/ Succeed(a, e) \/ Reject(a, e)
               \/ Deliver(a, e) \/ Call(a, e) \/ Crash(a, e)
        PROVE  outstanding' <= outstanding
    BY <2>3 DEF Read, Look, Fail, Overpay, InsertFails, Refuse, Succeed, Reject, Deliver, Call,
                Begin, Crash, loan
  <2>4. ASSUME NEW e \in Event, Send(e) PROVE outstanding' <= outstanding
    BY <2>4 DEF Send, loan
  <2>5. CASE UNCHANGED vars
    BY <2>5 DEF vars, loan
  <2> QED
    BY <2>1, <2>2, <2>3, <2>4, <2>5 DEF Next, Handle
<1> QED
  BY <1>1, <1>2, TurnInit, PTL DEF Spec, OutstandingNeverGrows

\* One at a time, a payment with an overpayment of its own is posted no more.
THEOREM SerialOverpaidOnce == Spec => OverpaidIsPostedNoMore
<1>1. TurnInv /\ [Next]_vars => TurnInv'
  BY TurnInvStep
<1>2. TurnInv /\ [Next]_vars
        => [raced' \/ \A e \in overpayments : posted'[e] = posted[e]]_vars
  <2> SUFFICES ASSUME SerialInv, [Next]_vars, NEW n \in overpayments
               PROVE  posted'[n] = posted[n]
    BY TurnStep DEF TurnInv
  <2> USE DEF SerialInv, TypeInv, TypeOK
  <2>1. ASSUME NEW a \in Actor, NEW e \in Event, Repay(a, e) PROVE FALSE
    BY <2>1 DEF Repay, At, SeenIsCurrent, OverpaidMeansPaidOff, Midway
  <2>2. ASSUME NEW a \in Actor, NEW e \in Event, PayOff(a, e) \/ Overpay(a, e)
        PROVE  posted'[n] = posted[n]
    BY <2>2 DEF PayOff, Overpay, InsertOverpayment, PostAndAnnounce, Incr
  <2>3. ASSUME NEW a \in Actor, NEW e \in Event,
               \/ Read(a, e) \/ Look(a, e) \/ Fail(a, e) \/ InsertFails(a, e)
               \/ Refuse(a, e) \/ Succeed(a, e) \/ Reject(a, e)
               \/ Deliver(a, e) \/ Call(a, e) \/ Crash(a, e)
        PROVE  posted'[n] = posted[n]
    BY <2>3 DEF Read, Look, Fail, InsertFails, Refuse, Succeed, Reject, Deliver, Call,
                Begin, Crash, ledger
  <2>4. ASSUME NEW e \in Event, Send(e) PROVE posted'[n] = posted[n]
    BY <2>4 DEF Send, ledger
  <2>5. CASE UNCHANGED vars
    BY <2>5 DEF vars, ledger
  <2> QED
    BY <2>1, <2>2, <2>3, <2>4, <2>5 DEF Next, Handle
<1> QED
  BY <1>1, <1>2, TurnInit, PTL DEF Spec, OverpaidIsPostedNoMore

-----------------------------------------------------------------------------
(* The loan worker implements the account *)

AccountInv ==
  /\ OverstatedInv
  /\ OverpaidMeansPaidOff
  /\ TurnInv

LEMMA AccountInvInit == Init => AccountInv
<1>1. Init => NeverOverstated /\ SeenNeverOverstated /\ OverpaidMeansPaidOff
  BY PrincipalAssumption
     DEF Init, NeverOverstated, SeenNeverOverstated, Accounted, OverpaidMeansPaidOff, Midway
<1> QED
  BY <1>1, TypeInit, TurnInit DEF AccountInv, OverstatedInv

LEMMA AccountInvStep == AccountInv /\ [Next]_vars => AccountInv'
BY TypeStep, AmountsArePositiveStep, NeverOverstatedStep, SeenNeverOverstatedStep,
   OverpaidMeansPaidOffStep, TurnInvStep
   DEF AccountInv, OverstatedInv, TypeInv

\* A transaction that takes a payment posts its amount, which is positive, once.
LEMMA CreditFollows ==
  ASSUME AccountInv, NEW a \in Actor, NEW e \in Event, At(a, e, "write"),
         PostAndAnnounce(e), Committed(a)
  PROVE  TheAccount!Credit(e) /\ Amount[e] > 0 /\ Amount[e] \in Int
<1>1. Amount[e] > 0 /\ Amount[e] \in Int
  BY AmountAssumption DEF AccountInv, OverstatedInv, TypeInv, AmountsArePositive, At, Midway
<1>2. raced' = raced
  BY DEF Committed, Goto
<1> QED
  BY <1>1, <1>2 DEF TheAccount!Credit, PostAndAnnounce, Incr

\* An actor that is alone computes from what is there.
LEMMA AloneSeesCurrent ==
  ASSUME AccountInv, ~raced, NEW a \in Actor, pc[a] = "write"
  PROVE  /\ seen[a].status = status /\ seen[a].outstanding = outstanding
         /\ status = "paid_off" => outstanding = 0
BY DEF AccountInv, TurnInv, SerialInv, SeenIsCurrent, PaidOffMeansZero, Midway

LEMMA RepayFollows ==
  ASSUME AccountInv, NeverOverstated', NEW a \in Actor, NEW e \in Event, Repay(a, e)
  PROVE  TheAccount!Next
<1>1. /\ At(a, e, "write") /\ PostAndAnnounce(e) /\ Committed(a)
      /\ seen[a].outstanding >= Amount[e] /\ outstanding' = seen[a].outstanding - Amount[e]
      /\ UNCHANGED TheAccount!recorded
  BY DEF Repay, TheAccount!recorded
<1>2. TheAccount!Credit(e)
  BY <1>1, CreditFollows
<1>3. CASE raced
  BY <1>1, <1>2, <1>3
     DEF TheAccount!Next, TheAccount!TakeOverlapped, NeverOverstated, Accounted
<1>4. CASE ~raced
  <2>1. seen[a].outstanding = outstanding
    BY <1>1, <1>4, AloneSeesCurrent DEF At
  <2> QED
    BY <1>1, <1>2, <2>1 DEF TheAccount!Next, TheAccount!Take, TheAccount!Repay
<1> QED
  BY <1>3, <1>4

LEMMA PayOffFollows ==
  ASSUME AccountInv, NeverOverstated', NEW a \in Actor, NEW e \in Event, PayOff(a, e)
  PROVE  TheAccount!Next
<1>1. /\ At(a, e, "write") /\ PostAndAnnounce(e) /\ Committed(a)
      /\ seen[a].outstanding < Amount[e] /\ outstanding' = 0
      /\ overpaid' = overpaid + (Amount[e] - seen[a].outstanding)
      /\ TheAccount!Record(e)
  BY DEF PayOff, InsertOverpayment, TheAccount!Record
<1>2. TheAccount!Credit(e) /\ Amount[e] \in Int
  BY <1>1, CreditFollows
<1>3. overpaid \in Nat /\ seen[a].outstanding \in Nat
  BY DEF AccountInv, OverstatedInv, TypeInv, TypeOK
<1>4. CASE raced
  <2>1. overpaid' > overpaid
    BY <1>1, <1>2, <1>3
  <2> QED
    BY <1>1, <1>2, <1>4, <2>1
       DEF TheAccount!Next, TheAccount!TakeOverlapped, NeverOverstated, Accounted
<1>5. CASE ~raced
  <2>1. seen[a].outstanding = outstanding
    BY <1>1, <1>5, AloneSeesCurrent DEF At
  <2>2. overpaid' = overpaid + Amount[e] - outstanding
    BY <1>1, <1>2, <1>3, <2>1
  <2> QED
    BY <1>1, <1>2, <2>1, <2>2 DEF TheAccount!Next, TheAccount!Take, TheAccount!Overpay
<1> QED
  BY <1>4, <1>5

LEMMA OverpayFollows ==
  ASSUME AccountInv, NeverOverstated', NEW a \in Actor, NEW e \in Event, Overpay(a, e)
  PROVE  TheAccount!Next
<1>1. /\ At(a, e, "write") /\ PostAndAnnounce(e) /\ Committed(a)
      /\ seen[a].status = "paid_off" /\ outstanding' = outstanding /\ status' = status
      /\ e \notin overpayments /\ overpayments' = overpayments \cup {e}
      /\ overpaid' = overpaid + Amount[e]
  BY DEF Overpay, InsertOverpayment
<1>2. TheAccount!Credit(e) /\ Amount[e] > 0 /\ Amount[e] \in Int
  BY <1>1, CreditFollows
<1>3. TheAccount!Record(e)
  BY <1>1 DEF TheAccount!Record, AccountInv, OverpaidMeansPaidOff, At, Midway
<1>4. overpaid \in Nat
  BY DEF AccountInv, OverstatedInv, TypeInv, TypeOK
<1>5. CASE raced
  <2>1. overpaid' > overpaid
    BY <1>1, <1>2, <1>4
  <2> QED
    BY <1>1, <1>2, <1>3, <1>5, <2>1
       DEF TheAccount!Next, TheAccount!TakeOverlapped, NeverOverstated, Accounted
<1>6. CASE ~raced
  <2>1. outstanding = 0
    BY <1>1, <1>6, AloneSeesCurrent DEF At
  <2>2. overpaid' = overpaid + Amount[e] - outstanding /\ outstanding < Amount[e] /\ outstanding' = 0
    BY <1>1, <1>2, <1>4, <2>1
  <2> QED
    BY <1>2, <1>3, <2>2 DEF TheAccount!Next, TheAccount!Take, TheAccount!Overpay
<1> QED
  BY <1>5, <1>6

\* Each step of the worker takes one payment or leaves the account as it is, or payments
\* begin to overlap.
LEMMA StepFollowsAccount == AccountInv /\ [Next]_vars => [TheAccount!Next]_(TheAccount!vars)
<1> SUFFICES ASSUME AccountInv, [Next]_vars
             PROVE  TheAccount!Next \/ UNCHANGED TheAccount!vars
  OBVIOUS
<1>0. NeverOverstated'
  BY NeverOverstatedStep DEF AccountInv, OverstatedInv
<1>1. ASSUME NEW a \in Actor, NEW e \in Event, Repay(a, e) PROVE TheAccount!Next
  BY <1>0, <1>1, RepayFollows
<1>2. ASSUME NEW a \in Actor, NEW e \in Event, PayOff(a, e) PROVE TheAccount!Next
  BY <1>0, <1>2, PayOffFollows
<1>3. ASSUME NEW a \in Actor, NEW e \in Event, Overpay(a, e) PROVE TheAccount!Next
  BY <1>0, <1>3, OverpayFollows
<1>4. ASSUME NEW a \in Actor, NEW e \in Event, Deliver(a, e) \/ Call(a, e)
      PROVE  TheAccount!Next \/ UNCHANGED TheAccount!vars
  <2>1. /\ UNCHANGED <<outstanding, TheAccount!recorded, credited, posted>>
        /\ raced' = (raced \/ \E b \in Actor : event[b] # {})
    BY <1>4 DEF Deliver, Call, Begin, loan, ledger, TheAccount!recorded
  <2>2. CASE \E b \in Actor : event[b] # {}
    BY <2>1, <2>2 DEF TheAccount!Next, TheAccount!Overlap
  <2>3. CASE ~ \E b \in Actor : event[b] # {}
    <3>1. raced \in BOOLEAN
      BY DEF AccountInv, OverstatedInv, TypeInv, TypeOK
    <3>2. raced' = raced
      BY <2>1, <2>3, <3>1
    <3> QED
      BY <2>1, <3>2 DEF TheAccount!vars
  <2> QED
    BY <2>2, <2>3
<1>5. ASSUME NEW a \in Actor, NEW e \in Event,
             \/ Read(a, e) \/ Look(a, e) \/ Fail(a, e) \/ InsertFails(a, e) \/ Refuse(a, e)
             \/ Succeed(a, e) \/ Reject(a, e) \/ Crash(a, e)
      PROVE  UNCHANGED TheAccount!vars
  BY <1>5
     DEF TheAccount!vars, TheAccount!recorded, Read, Look, Fail, InsertFails, Refuse, Committed, Succeed, Reject, Crash, Goto, Leave,
         loan, ledger
<1>6. ASSUME NEW e \in Event, Send(e) PROVE UNCHANGED TheAccount!vars
  BY <1>6 DEF Send, loan, ledger, actor, TheAccount!vars, TheAccount!recorded
<1>7. CASE UNCHANGED vars
  BY <1>7 DEF vars, loan, ledger, actor, TheAccount!vars, TheAccount!recorded
<1> QED
  BY <1>1, <1>2, <1>3, <1>4, <1>5, <1>6, <1>7 DEF Next, Handle

\* Redelivered, repeated over HTTP, failing or crashing as they may, the payments of a loan
\* are taken as the abstract account takes them.
THEOREM AccountIsImplemented == Spec => ImplementsAccount
<1>1. Init => TheAccount!Init
  BY DEF Init, TheAccount!Init
<1> QED
  BY <1>1, AccountInvInit, AccountInvStep, StepFollowsAccount, PTL
     DEF Spec, ImplementsAccount, TheAccount!Spec

\* What the account alone guarantees: a payment that is taken in one step keeps the loan
\* what the ledger makes it.
LEMMA FollowsLedgerStep ==
  ASSUME TypeOK, LoanFollowsLedger, NEW e \in Event, TheAccount!Take(e)
  PROVE  LoanFollowsLedger'
<1>0. raced => LoanFollowsLedger'
  BY DEF TheAccount!Take, TheAccount!Credit, LoanFollowsLedger
<1> SUFFICES ASSUME ~raced PROVE LoanFollowsLedger'
  BY <1>0
<1> DEFINE A == Amount[e]
<1>1. /\ A \in Int /\ A > 0 /\ Principal \in Nat /\ credited \in Nat
      /\ credited' = credited + A
  BY AmountAssumption, PrincipalAssumption DEF TypeOK, TheAccount!Take, TheAccount!Credit
<1>2. /\ outstanding = IF credited < Principal THEN Principal - credited ELSE 0
      /\ overpaid    = IF credited > Principal THEN credited - Principal ELSE 0
      /\ status = "paid_off" <=> credited > Principal
  BY DEF LoanFollowsLedger
<1>3. CASE TheAccount!Repay(e)
  <2>1. outstanding >= A /\ outstanding' = outstanding - A /\ overpaid' = overpaid /\ status' = status
    BY <1>3 DEF TheAccount!Repay, TheAccount!recorded
  <2> HIDE DEF A
  <2>2. credited < Principal /\ credited' <= Principal
    BY <1>1, <1>2, <2>1
  <2> QED
    BY <1>1, <1>2, <2>1, <2>2 DEF LoanFollowsLedger
<1>4. CASE TheAccount!Overpay(e)
  <2>1. /\ outstanding < A /\ outstanding' = 0 /\ overpaid' = overpaid + A - outstanding
        /\ status' = "paid_off"
    BY <1>4 DEF TheAccount!Overpay, TheAccount!Record
  <2> HIDE DEF A
  <2>2. credited' > Principal /\ overpaid' = credited' - Principal
    BY <1>1, <1>2, <2>1
  <2> QED
    BY <1>1, <2>1, <2>2 DEF LoanFollowsLedger
<1> QED
  BY <1>3, <1>4 DEF TheAccount!Take

\* One at a time, the loan, its overpayments and its status are what the ledger makes them.
THEOREM SerialLoanFollowsLedger == Spec => []LoanFollowsLedger
<1>1. Init => LoanFollowsLedger
  BY PrincipalAssumption DEF Init, LoanFollowsLedger
<1>2. TypeOK /\ LoanFollowsLedger /\ [TheAccount!Next]_(TheAccount!vars) => LoanFollowsLedger'
  <2> SUFFICES ASSUME TypeOK, LoanFollowsLedger, [TheAccount!Next]_(TheAccount!vars)
               PROVE  LoanFollowsLedger'
    OBVIOUS
  <2>1. CASE \E e \in Event : TheAccount!TakeOverlapped(e)
    BY <2>1 DEF TheAccount!TakeOverlapped, TheAccount!Credit, LoanFollowsLedger
  <2>2. CASE TheAccount!Overlap
    BY <2>2 DEF TheAccount!Overlap, LoanFollowsLedger
  <2>3. CASE UNCHANGED TheAccount!vars
    BY <2>3 DEF LoanFollowsLedger, TheAccount!vars, TheAccount!recorded
  <2> QED
    BY <2>1, <2>2, <2>3, FollowsLedgerStep DEF TheAccount!Next
<1>3. AccountInv => TypeOK
  BY DEF AccountInv, OverstatedInv, TypeInv
<1> QED
  BY <1>1, <1>2, <1>3, AccountInvInit, AccountInvStep, StepFollowsAccount, PTL DEF Spec

=============================================================================
