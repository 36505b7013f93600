---------------------------- MODULE OutboxProofs ----------------------------
(***************************************************************************)
(* Proofs about Outbox, for any messages, dispatchers and bounds.          *)
(***************************************************************************)
EXTENDS Outbox, FiniteSetTheorems, TLAPS

\* No step breaks a type.
LEMMA TypeStep == TypeOK /\ [Next]_vars => TypeOK'
<1> SUFFICES ASSUME TypeOK, [Next]_vars PROVE TypeOK'
  OBVIOUS
<1> USE FaultsAssumption DEF TypeOK
<1>1. ASSUME NEW m \in Msg, CreateOutboxMessage(m) PROVE TypeOK'
  BY <1>1 DEF CreateOutboxMessage
<1>2. ASSUME NEW d \in Dispatcher, BeginDispatch(d) PROVE TypeOK'
  BY <1>2 DEF BeginDispatch, ReleaseStaleLocks
<1>3. ASSUME NEW d \in Dispatcher, Claim(d) PROVE TypeOK'
  BY <1>3 DEF Claim, ClaimPendingMessages
<1>4. ASSUME NEW d \in Dispatcher, NEW m \in Msg, Publish(d, m) PROVE TypeOK'
  BY <1>4 DEF Publish, Handle
<1>5. ASSUME NEW d \in Dispatcher, NEW m \in Msg, PublishRefused(d, m) PROVE TypeOK'
  BY <1>5 DEF PublishRefused, Handle, MarkMessageAsFailed, table
<1>6. ASSUME NEW d \in Dispatcher, NEW m \in Msg, SkipForeign(d, m) PROVE TypeOK'
  BY <1>6 DEF SkipForeign, Handle, table
<1>7. ASSUME NEW d \in Dispatcher, NEW m \in Msg, FailForeign(d, m) PROVE TypeOK'
  BY <1>7 DEF FailForeign, Handle, MarkMessageAsFailed, table
<1>8. ASSUME NEW d \in Dispatcher, MarkPublished(d) PROVE TypeOK'
  BY <1>8 DEF MarkPublished, MarkMessageAsPublished
<1>9. ASSUME NEW d \in Dispatcher, EndDispatch(d) PROVE TypeOK'
  BY <1>9 DEF EndDispatch, table
<1>10. ASSUME NEW d \in Dispatcher, Crash(d) PROVE TypeOK'
  BY <1>10 DEF Crash, table
<1>11. ASSUME NEW d \in Dispatcher, MarkPublishedLost(d) PROVE TypeOK'
  BY <1>11 DEF MarkPublishedLost, table
<1>12. ASSUME NEW d \in Dispatcher, NEW m \in Msg, MarkFailedLost(d, m) PROVE TypeOK'
  BY <1>12 DEF MarkFailedLost, Handle, table
<1>13. CASE TimePasses
  BY <1>13 DEF TimePasses, Expire
<1>14. CASE PurgeOldMessages
  BY <1>14 DEF PurgeOldMessages
<1>15. CASE UNCHANGED vars
  BY <1>15 DEF vars
<1> QED
  BY <1>1, <1>2, <1>3, <1>4, <1>5, <1>6, <1>7, <1>8, <1>9, <1>10, <1>11, <1>12,
     <1>13, <1>14, <1>15 DEF Next, Step

\* Every variable keeps its type.
THEOREM TypeCorrect == Spec => []TypeOK
<1>1. Init => TypeOK
  BY FaultsAssumption DEF Init, TypeOK
<1> QED
  BY <1>1, TypeStep, PTL DEF Spec

\* The strengthening behind the two invariants about sends.
SendInv == TypeOK /\ StaleProcessing /\ HoldsOnlyInBatch /\ ExclusiveClaim /\ PublishedMeansSent

LEMMA SendInvInit == Init => SendInv
<1> SUFFICES ASSUME Init PROVE SendInv
  OBVIOUS
<1>1. TypeOK
  BY FaultsAssumption DEF Init, TypeOK
<1> QED
  BY <1>1 DEF Init, SendInv, StaleProcessing, HoldsOnlyInBatch, ExclusiveClaim,
      PublishedMeansSent, Holders

LEMMA SendInvStep == SendInv /\ [Next]_vars => SendInv'
<1> SUFFICES ASSUME SendInv, [Next]_vars PROVE SendInv'
  OBVIOUS
<1>0. TypeOK'
  BY TypeStep DEF SendInv
<1> SUFFICES StaleProcessing' /\ HoldsOnlyInBatch' /\ ExclusiveClaim' /\ PublishedMeansSent'
  BY <1>0 DEF SendInv
<1> USE DEF SendInv, TypeOK, StaleProcessing, HoldsOnlyInBatch, ExclusiveClaim,
    PublishedMeansSent, Holders
<1>1. ASSUME NEW m \in Msg, CreateOutboxMessage(m)
      PROVE  StaleProcessing' /\ HoldsOnlyInBatch' /\ ExclusiveClaim' /\ PublishedMeansSent'
  BY <1>1 DEF CreateOutboxMessage
<1>2. ASSUME NEW d \in Dispatcher, BeginDispatch(d)
      PROVE  StaleProcessing' /\ HoldsOnlyInBatch' /\ ExclusiveClaim' /\ PublishedMeansSent'
  BY <1>2 DEF BeginDispatch, ReleaseStaleLocks
<1>3. ASSUME NEW d \in Dispatcher, Claim(d)
      PROVE  StaleProcessing' /\ HoldsOnlyInBatch' /\ ExclusiveClaim' /\ PublishedMeansSent'
  BY <1>3 DEF Claim, ClaimPendingMessages, Claimable
<1>4. ASSUME NEW d \in Dispatcher, NEW m \in Msg, Publish(d, m)
      PROVE  StaleProcessing' /\ HoldsOnlyInBatch' /\ ExclusiveClaim' /\ PublishedMeansSent'
  BY <1>4 DEF Publish, Handle
<1>5. ASSUME NEW d \in Dispatcher, NEW m \in Msg, PublishRefused(d, m)
      PROVE  StaleProcessing' /\ HoldsOnlyInBatch' /\ ExclusiveClaim' /\ PublishedMeansSent'
  BY <1>5 DEF PublishRefused, Handle, MarkMessageAsFailed, table, Row
<1>6. ASSUME NEW d \in Dispatcher, NEW m \in Msg, SkipForeign(d, m)
      PROVE  StaleProcessing' /\ HoldsOnlyInBatch' /\ ExclusiveClaim' /\ PublishedMeansSent'
  BY <1>6 DEF SkipForeign, Handle, table
<1>7. ASSUME NEW d \in Dispatcher, NEW m \in Msg, FailForeign(d, m)
      PROVE  StaleProcessing' /\ HoldsOnlyInBatch' /\ ExclusiveClaim' /\ PublishedMeansSent'
  BY <1>7 DEF FailForeign, Handle, MarkMessageAsFailed, table, Row
<1>8. ASSUME NEW d \in Dispatcher, MarkPublished(d)
      PROVE  StaleProcessing' /\ HoldsOnlyInBatch' /\ ExclusiveClaim' /\ PublishedMeansSent'
  BY <1>8 DEF MarkPublished, MarkMessageAsPublished, Row
<1>9. ASSUME NEW d \in Dispatcher, EndDispatch(d)
      PROVE  StaleProcessing' /\ HoldsOnlyInBatch' /\ ExclusiveClaim' /\ PublishedMeansSent'
  BY <1>9 DEF EndDispatch, table
<1>10. ASSUME NEW d \in Dispatcher, Crash(d)
      PROVE  StaleProcessing' /\ HoldsOnlyInBatch' /\ ExclusiveClaim' /\ PublishedMeansSent'
  BY <1>10 DEF Crash, table
<1>11. ASSUME NEW d \in Dispatcher, MarkPublishedLost(d)
      PROVE  StaleProcessing' /\ HoldsOnlyInBatch' /\ ExclusiveClaim' /\ PublishedMeansSent'
  BY <1>11 DEF MarkPublishedLost, table
<1>12. ASSUME NEW d \in Dispatcher, NEW m \in Msg, MarkFailedLost(d, m)
      PROVE  StaleProcessing' /\ HoldsOnlyInBatch' /\ ExclusiveClaim' /\ PublishedMeansSent'
  BY <1>12 DEF MarkFailedLost, Handle, table
<1>13. CASE TimePasses
  BY <1>13 DEF TimePasses, Expire
<1>14. CASE PurgeOldMessages
  BY <1>14 DEF PurgeOldMessages, Exhausted
<1>15. CASE UNCHANGED vars
  BY <1>15 DEF vars
<1> QED
  BY <1>1, <1>2, <1>3, <1>4, <1>5, <1>6, <1>7, <1>8, <1>9, <1>10, <1>11, <1>12, <1>13, <1>14,
      <1>15 DEF Next, Step

\* A message that was sent twice had its lock expire.
THEOREM DuplicatesNeedExpiry == Spec => []DuplicateOnlyAfterExpiry
<1>1. SendInv => DuplicateOnlyAfterExpiry
  BY DEF SendInv, ExclusiveClaim, DuplicateOnlyAfterExpiry, TypeOK
<1> QED
  BY <1>1, SendInvInit, SendInvStep, PTL DEF Spec

\* A row marked published was sent.
THEOREM PublishedIsSent == Spec => []PublishedMeansSent
<1>1. SendInv => PublishedMeansSent
  BY DEF SendInv
<1> QED
  BY <1>1, SendInvInit, SendInvStep, PTL DEF Spec

\* A published row stays published unless its lock once expired: a mark that would
\* take it back comes from a holder, and the row of a holder is being processed.
THEOREM PublishedStays == Spec => PublishedIsFinal
<1>1. SendInv /\ [Next]_vars
        => [\A m \in Msg : status[m] = "published" /\ m \notin expired
                              => status'[m] = "published"]_vars
  <2> SUFFICES ASSUME SendInv, Next, NEW m \in Msg, status[m] = "published", m \notin expired
               PROVE  status'[m] = "published"
    BY DEF SendInv
  <2> USE DEF SendInv, TypeOK, ExclusiveClaim, Holders
  <2>1. ASSUME NEW d \in Dispatcher PROVE m \notin batch[d] \cup cur[d]
    BY <2>1
  <2>2. ASSUME NEW n \in Msg, CreateOutboxMessage(n) PROVE status'[m] = "published"
    BY <2>2 DEF CreateOutboxMessage
  <2>3. ASSUME NEW d \in Dispatcher, Step(d) PROVE status'[m] = "published"
    <3>1. CASE BeginDispatch(d)
      BY <3>1 DEF BeginDispatch, ReleaseStaleLocks, StaleProcessing
    <3>2. CASE Claim(d)
      BY <3>2 DEF Claim, ClaimPendingMessages, Claimable
    <3>3. ASSUME NEW n \in Msg,
                 Publish(d, n) \/ PublishRefused(d, n) \/ SkipForeign(d, n) \/ FailForeign(d, n)
          PROVE  status'[m] = "published"
      BY <3>3, <2>1 DEF Publish, PublishRefused, SkipForeign, FailForeign, Handle,
                        MarkMessageAsFailed, table
    <3>4. CASE MarkPublished(d)
      BY <3>4, <2>1 DEF MarkPublished, MarkMessageAsPublished
    <3>5. CASE EndDispatch(d)
      BY <3>5 DEF EndDispatch, table
    <3> QED BY <2>3, <3>1, <3>2, <3>3, <3>4, <3>5 DEF Step
  <2>4. ASSUME NEW d \in Dispatcher, Crash(d) \/ MarkPublishedLost(d) PROVE status'[m] = "published"
    BY <2>4 DEF Crash, MarkPublishedLost, table
  <2>5. ASSUME NEW d \in Dispatcher, NEW n \in Msg, MarkFailedLost(d, n)
        PROVE  status'[m] = "published"
    BY <2>5 DEF MarkFailedLost, table
  <2>6. CASE TimePasses
    BY <2>6 DEF TimePasses, Expire
  <2>7. CASE PurgeOldMessages
    BY <2>7 DEF PurgeOldMessages, Exhausted
  <2> QED BY <2>2, <2>3, <2>4, <2>5, <2>6, <2>7 DEF Next
<1> QED
  BY <1>1, SendInvInit, SendInvStep, PTL DEF Spec, PublishedIsFinal

-----------------------------------------------------------------------------

\* Each holder of a message may still charge it one attempt.
ChargeInv ==
  /\ TypeOK
  /\ HoldsOnlyInBatch
  /\ \A m \in Msg : attempts[m] + Cardinality(Holders(m)) + 1
                      <= MaxAttempts + Cardinality(Dispatcher)

\* The holders of a message are finitely many, at most all dispatchers.
LEMMA HoldersBound ==
  ASSUME NEW H, H \subseteq Dispatcher
  PROVE  IsFiniteSet(H) /\ Cardinality(H) \in Nat /\ Cardinality(H) <= Cardinality(Dispatcher)
         /\ Cardinality(Dispatcher) \in Nat
BY DispatcherAssumption, FS_Subset, FS_CardinalityType DEF DispatcherAssumption

LEMMA ChargeInvInit == Init => ChargeInv
<1> SUFFICES ASSUME Init PROVE ChargeInv
  OBVIOUS
<1>1. TypeOK /\ HoldsOnlyInBatch
  BY FaultsAssumption DEF Init, TypeOK, HoldsOnlyInBatch
<1>2. ASSUME NEW m \in Msg
      PROVE  attempts[m] + Cardinality(Holders(m)) + 1 <= MaxAttempts + Cardinality(Dispatcher)
  <2>1. Holders(m) = {}
    BY DEF Init, Holders
  <2>2. Cardinality(Holders(m)) = 0
    BY <2>1, FS_EmptySet
  <2> QED
    BY <2>2, HoldersBound, AttemptsAssumption DEF Init, AttemptsAssumption
<1> QED
  BY <1>1, <1>2 DEF ChargeInv

\* A step that adds no attempt and no holder to a message keeps its bound.
LEMMA ChargeKept ==
  ASSUME ChargeInv, NEW m \in Msg, attempts'[m] = attempts[m], Holders(m)' \subseteq Holders(m)
  PROVE  attempts'[m] + Cardinality(Holders(m)') + 1 <= MaxAttempts + Cardinality(Dispatcher)
<1>1. Holders(m) \subseteq Dispatcher
  BY DEF Holders
<1>2. Cardinality(Holders(m)') \in Nat /\ Cardinality(Holders(m)') <= Cardinality(Holders(m))
  BY <1>1, HoldersBound, FS_Subset, FS_CardinalityType
<1> QED
  BY <1>1, <1>2, HoldersBound, AttemptsAssumption DEF ChargeInv, TypeOK, AttemptsAssumption

\* A dispatcher that charges an attempt lets go of the message.
LEMMA ChargeSpent ==
  ASSUME ChargeInv, NEW m \in Msg, NEW d \in Holders(m),
         attempts'[m] \in {attempts[m], attempts[m] + 1},
         Holders(m)' \subseteq Holders(m) \ {d}
  PROVE  attempts'[m] + Cardinality(Holders(m)') + 1 <= MaxAttempts + Cardinality(Dispatcher)
<1>1. Holders(m) \subseteq Dispatcher
  BY DEF Holders
<1>2. IsFiniteSet(Holders(m)) /\ Cardinality(Holders(m)) \in Nat
  BY <1>1, HoldersBound
<1>3. Cardinality(Holders(m) \ {d}) = Cardinality(Holders(m)) - 1 /\ IsFiniteSet(Holders(m) \ {d})
  BY <1>2, FS_RemoveElement
<1>4. Cardinality(Holders(m)') \in Nat /\ Cardinality(Holders(m)') <= Cardinality(Holders(m)) - 1
  BY <1>3, FS_Subset, FS_CardinalityType
<1>5. attempts[m] \in Nat
  BY DEF ChargeInv, TypeOK
<1>6. attempts[m] + Cardinality(Holders(m)) + 1 <= MaxAttempts + Cardinality(Dispatcher)
  BY DEF ChargeInv
<1> QED
  BY <1>2, <1>4, <1>5, <1>6, HoldersBound, AttemptsAssumption DEF AttemptsAssumption

\* A claim adds one holder, to messages that have used fewer than MaxAttempts.
LEMMA ChargeOnClaim ==
  ASSUME ChargeInv, NEW n \in Msg, NEW d \in Dispatcher, Claim(d)
  PROVE  attempts'[n] + Cardinality(Holders(n)') + 1 <= MaxAttempts + Cardinality(Dispatcher)
<1>1. PICK B \in SUBSET Msg : ClaimPendingMessages(B, BatchLimit[d]) /\ batch' = [batch EXCEPT ![d] = B]
  BY DEF Claim
<1>2. attempts' = attempts /\ cur' = cur /\ attempts[n] \in Nat
  BY <1>1 DEF Claim, ClaimPendingMessages, ChargeInv, TypeOK
<1>3. CASE n \in B
  <2>1. attempts[n] < MaxAttempts
    BY <1>1, <1>3 DEF ClaimPendingMessages, Claimable
  <2>2. Holders(n)' \subseteq Dispatcher
    BY DEF Holders
  <2> QED
    BY <1>2, <2>1, <2>2, HoldersBound, AttemptsAssumption DEF AttemptsAssumption
<1>4. CASE n \notin B
  <2>1. Holders(n)' \subseteq Holders(n)
    BY <1>1, <1>2, <1>4 DEF Holders, ChargeInv, TypeOK
  <2> QED
    BY <1>2, <2>1, ChargeKept
<1> QED
  BY <1>3, <1>4

LEMMA ChargeInvStep == ChargeInv /\ [Next]_vars => ChargeInv'
<1> SUFFICES ASSUME ChargeInv, [Next]_vars PROVE ChargeInv'
  OBVIOUS
<1>0. TypeOK'
  BY TypeStep DEF ChargeInv
<1> DEFINE Bound(n) == attempts'[n] + Cardinality(Holders(n)') + 1 <= MaxAttempts + Cardinality(Dispatcher)
<1> SUFFICES HoldsOnlyInBatch' /\ \A n \in Msg : Bound(n)
  BY <1>0 DEF ChargeInv
<1>1. ASSUME NEW m \in Msg, CreateOutboxMessage(m) PROVE HoldsOnlyInBatch' /\ \A n \in Msg : Bound(n)
  <2>1. HoldsOnlyInBatch'
    BY <1>1 DEF CreateOutboxMessage, HoldsOnlyInBatch, ChargeInv, TypeOK
  <2>2. ASSUME NEW n \in Msg PROVE Bound(n)
    <3>1. attempts'[n] = attempts[n] /\ Holders(n)' \subseteq Holders(n)
      BY <1>1 DEF CreateOutboxMessage, Holders, ChargeInv, TypeOK
    <3> QED BY <3>1, ChargeKept
  <2> QED BY <2>1, <2>2
<1>2. ASSUME NEW d \in Dispatcher, BeginDispatch(d) PROVE HoldsOnlyInBatch' /\ \A n \in Msg : Bound(n)
  <2>1. HoldsOnlyInBatch'
    BY <1>2 DEF BeginDispatch, ReleaseStaleLocks, HoldsOnlyInBatch, ChargeInv, TypeOK
  <2>2. ASSUME NEW n \in Msg PROVE Bound(n)
    <3>1. attempts'[n] = attempts[n] /\ Holders(n)' \subseteq Holders(n)
      BY <1>2 DEF BeginDispatch, ReleaseStaleLocks, Holders, ChargeInv, TypeOK
    <3> QED BY <3>1, ChargeKept
  <2> QED BY <2>1, <2>2
<1>3. ASSUME NEW d \in Dispatcher, Claim(d) PROVE HoldsOnlyInBatch' /\ \A n \in Msg : Bound(n)
  <2>1. HoldsOnlyInBatch'
    BY <1>3 DEF Claim, ClaimPendingMessages, Claimable, HoldsOnlyInBatch, ChargeInv, TypeOK
  <2>2. ASSUME NEW n \in Msg PROVE Bound(n)
    BY <1>3, ChargeOnClaim
  <2> QED BY <2>1, <2>2
<1>4. ASSUME NEW d \in Dispatcher, NEW m \in Msg, Publish(d, m) PROVE HoldsOnlyInBatch' /\ \A n \in Msg : Bound(n)
  <2>1. HoldsOnlyInBatch'
    BY <1>4 DEF Publish, Handle, HoldsOnlyInBatch, ChargeInv, TypeOK
  <2>2. ASSUME NEW n \in Msg PROVE Bound(n)
    <3>1. attempts'[n] = attempts[n] /\ Holders(n)' \subseteq Holders(n)
      BY <1>4 DEF Publish, Handle, Holders, ChargeInv, TypeOK
    <3> QED BY <3>1, ChargeKept
  <2> QED BY <2>1, <2>2
<1>5. ASSUME NEW d \in Dispatcher, NEW m \in Msg, PublishRefused(d, m) PROVE HoldsOnlyInBatch' /\ \A n \in Msg : Bound(n)
  <2>1. HoldsOnlyInBatch'
    BY <1>5 DEF PublishRefused, Handle, MarkMessageAsFailed, table, HoldsOnlyInBatch, ChargeInv, TypeOK
  <2>2. ASSUME NEW n \in Msg PROVE Bound(n)
    <3>1. CASE n # m
      <4>1. attempts'[n] = attempts[n] /\ Holders(n)' \subseteq Holders(n)
        BY <1>5, <3>1 DEF PublishRefused, Handle, MarkMessageAsFailed, table, Holders, ChargeInv,
            TypeOK
      <4> QED BY <4>1, ChargeKept
    <3>2. CASE n = m
      <4>1. d \in Holders(m) /\ cur[d] = {} /\ attempts'[m] \in {attempts[m], attempts[m] + 1}
        BY <1>5 DEF PublishRefused, Handle, MarkMessageAsFailed, table, Holders, HoldsOnlyInBatch,
            ChargeInv, TypeOK
      <4>2. Holders(m)' \subseteq Holders(m) \ {d}
        BY <1>5, <4>1 DEF PublishRefused, Handle, MarkMessageAsFailed, table, Holders, ChargeInv,
            TypeOK
      <4> QED BY <3>2, <4>1, <4>2, ChargeSpent
    <3> QED BY <3>1, <3>2
  <2> QED BY <2>1, <2>2
<1>6. ASSUME NEW d \in Dispatcher, NEW m \in Msg, SkipForeign(d, m) PROVE HoldsOnlyInBatch' /\ \A n \in Msg : Bound(n)
  <2>1. HoldsOnlyInBatch'
    BY <1>6 DEF SkipForeign, Handle, table, HoldsOnlyInBatch, ChargeInv, TypeOK
  <2>2. ASSUME NEW n \in Msg PROVE Bound(n)
    <3>1. attempts'[n] = attempts[n] /\ Holders(n)' \subseteq Holders(n)
      BY <1>6 DEF SkipForeign, Handle, table, Holders, ChargeInv, TypeOK
    <3> QED BY <3>1, ChargeKept
  <2> QED BY <2>1, <2>2
<1>7. ASSUME NEW d \in Dispatcher, NEW m \in Msg, FailForeign(d, m) PROVE HoldsOnlyInBatch' /\ \A n \in Msg : Bound(n)
  <2>1. HoldsOnlyInBatch'
    BY <1>7 DEF FailForeign, Handle, MarkMessageAsFailed, table, HoldsOnlyInBatch, ChargeInv, TypeOK
  <2>2. ASSUME NEW n \in Msg PROVE Bound(n)
    <3>1. CASE n # m
      <4>1. attempts'[n] = attempts[n] /\ Holders(n)' \subseteq Holders(n)
        BY <1>7, <3>1 DEF FailForeign, Handle, MarkMessageAsFailed, table, Holders, ChargeInv, TypeOK
      <4> QED BY <4>1, ChargeKept
    <3>2. CASE n = m
      <4>1. d \in Holders(m) /\ cur[d] = {} /\ attempts'[m] \in {attempts[m], attempts[m] + 1}
        BY <1>7 DEF FailForeign, Handle, MarkMessageAsFailed, table, Holders, HoldsOnlyInBatch,
            ChargeInv, TypeOK
      <4>2. Holders(m)' \subseteq Holders(m) \ {d}
        BY <1>7, <4>1 DEF FailForeign, Handle, MarkMessageAsFailed, table, Holders, ChargeInv, TypeOK
      <4> QED BY <3>2, <4>1, <4>2, ChargeSpent
    <3> QED BY <3>1, <3>2
  <2> QED BY <2>1, <2>2
<1>8. ASSUME NEW d \in Dispatcher, MarkPublished(d) PROVE HoldsOnlyInBatch' /\ \A n \in Msg : Bound(n)
  <2>1. HoldsOnlyInBatch'
    BY <1>8 DEF MarkPublished, MarkMessageAsPublished, HoldsOnlyInBatch, ChargeInv, TypeOK
  <2>2. ASSUME NEW n \in Msg PROVE Bound(n)
    <3>1. attempts'[n] = attempts[n] /\ Holders(n)' \subseteq Holders(n)
      BY <1>8 DEF MarkPublished, MarkMessageAsPublished, Holders, ChargeInv, TypeOK
    <3> QED BY <3>1, ChargeKept
  <2> QED BY <2>1, <2>2
<1>9. ASSUME NEW d \in Dispatcher, EndDispatch(d) PROVE HoldsOnlyInBatch' /\ \A n \in Msg : Bound(n)
  <2>1. HoldsOnlyInBatch'
    BY <1>9 DEF EndDispatch, table, HoldsOnlyInBatch, ChargeInv, TypeOK
  <2>2. ASSUME NEW n \in Msg PROVE Bound(n)
    <3>1. attempts'[n] = attempts[n] /\ Holders(n)' \subseteq Holders(n)
      BY <1>9 DEF EndDispatch, table, Holders, ChargeInv, TypeOK
    <3> QED BY <3>1, ChargeKept
  <2> QED BY <2>1, <2>2
<1>10. ASSUME NEW d \in Dispatcher, Crash(d) PROVE HoldsOnlyInBatch' /\ \A n \in Msg : Bound(n)
  <2>1. HoldsOnlyInBatch'
    BY <1>10 DEF Crash, table, HoldsOnlyInBatch, ChargeInv, TypeOK
  <2>2. ASSUME NEW n \in Msg PROVE Bound(n)
    <3>1. attempts'[n] = attempts[n] /\ Holders(n)' \subseteq Holders(n)
      BY <1>10 DEF Crash, table, Holders, ChargeInv, TypeOK
    <3> QED BY <3>1, ChargeKept
  <2> QED BY <2>1, <2>2
<1>11. ASSUME NEW d \in Dispatcher, MarkPublishedLost(d) PROVE HoldsOnlyInBatch' /\ \A n \in Msg : Bound(n)
  <2>1. HoldsOnlyInBatch'
    BY <1>11 DEF MarkPublishedLost, table, HoldsOnlyInBatch, ChargeInv, TypeOK
  <2>2. ASSUME NEW n \in Msg PROVE Bound(n)
    <3>1. attempts'[n] = attempts[n] /\ Holders(n)' \subseteq Holders(n)
      BY <1>11 DEF MarkPublishedLost, table, Holders, ChargeInv, TypeOK
    <3> QED BY <3>1, ChargeKept
  <2> QED BY <2>1, <2>2
<1>12. ASSUME NEW d \in Dispatcher, NEW m \in Msg, MarkFailedLost(d, m) PROVE HoldsOnlyInBatch' /\ \A n \in Msg : Bound(n)
  <2>1. HoldsOnlyInBatch'
    BY <1>12 DEF MarkFailedLost, Handle, table, HoldsOnlyInBatch, ChargeInv, TypeOK
  <2>2. ASSUME NEW n \in Msg PROVE Bound(n)
    <3>1. attempts'[n] = attempts[n] /\ Holders(n)' \subseteq Holders(n)
      BY <1>12 DEF MarkFailedLost, Handle, table, Holders, ChargeInv, TypeOK
    <3> QED BY <3>1, ChargeKept
  <2> QED BY <2>1, <2>2
<1>13. CASE TimePasses
  <2>1. HoldsOnlyInBatch'
    BY <1>13 DEF TimePasses, Expire, HoldsOnlyInBatch, ChargeInv, TypeOK
  <2>2. ASSUME NEW n \in Msg PROVE Bound(n)
    <3>1. attempts'[n] = attempts[n] /\ Holders(n)' \subseteq Holders(n)
      BY <1>13 DEF TimePasses, Expire, Holders, ChargeInv, TypeOK
    <3> QED BY <3>1, ChargeKept
  <2> QED BY <2>1, <2>2
<1>14. CASE PurgeOldMessages
  <2>1. HoldsOnlyInBatch'
    BY <1>14 DEF PurgeOldMessages, HoldsOnlyInBatch, ChargeInv, TypeOK
  <2>2. ASSUME NEW n \in Msg PROVE Bound(n)
    <3>1. attempts'[n] = attempts[n] /\ Holders(n)' \subseteq Holders(n)
      BY <1>14 DEF PurgeOldMessages, Holders, ChargeInv, TypeOK
    <3> QED BY <3>1, ChargeKept
  <2> QED BY <2>1, <2>2
<1>15. CASE UNCHANGED vars
  <2>1. HoldsOnlyInBatch'
    BY <1>15 DEF vars, HoldsOnlyInBatch, ChargeInv, TypeOK
  <2>2. ASSUME NEW n \in Msg PROVE Bound(n)
    <3>1. attempts'[n] = attempts[n] /\ Holders(n)' \subseteq Holders(n)
      BY <1>15 DEF vars, Holders, ChargeInv, TypeOK
    <3> QED BY <3>1, ChargeKept
  <2> QED BY <2>1, <2>2
<1> QED
  BY <1>1, <1>2, <1>3, <1>4, <1>5, <1>6, <1>7, <1>8, <1>9, <1>10, <1>11, <1>12, <1>13, <1>14,
      <1>15 DEF Next, Step

\* Late charges overrun the claim's bound by fewer attempts than there are dispatchers.
THEOREM AttemptsStayBounded == Spec => []AttemptsBound
<1>1. ChargeInv => AttemptsBound
  <2> SUFFICES ASSUME ChargeInv, NEW m \in Msg
               PROVE  attempts[m] + 1 <= MaxAttempts + Cardinality(Dispatcher)
    BY DEF AttemptsBound
  <2>1. Holders(m) \subseteq Dispatcher
    BY DEF Holders
  <2> QED
    BY <2>1, HoldersBound, AttemptsAssumption DEF ChargeInv, TypeOK, AttemptsAssumption
<1> QED
  BY <1>1, ChargeInvInit, ChargeInvStep, PTL DEF Spec

-----------------------------------------------------------------------------

RefusalInv == TypeOK /\ ChargesAreRefusals

LEMMA RefusalInvStep == RefusalInv /\ [Next]_vars => RefusalInv'
<1> SUFFICES ASSUME RefusalInv, [Next]_vars PROVE RefusalInv'
  OBVIOUS
<1>0. TypeOK'
  BY TypeStep DEF RefusalInv
<1> SUFFICES ChargesAreRefusals'
  BY <1>0 DEF RefusalInv
<1> USE DEF RefusalInv, TypeOK, ChargesAreRefusals
<1>1. ASSUME NEW m \in Msg, CreateOutboxMessage(m) PROVE ChargesAreRefusals'
  BY <1>1 DEF CreateOutboxMessage
<1>2. ASSUME NEW d \in Dispatcher, BeginDispatch(d) PROVE ChargesAreRefusals'
  BY <1>2 DEF BeginDispatch, ReleaseStaleLocks
<1>3. ASSUME NEW d \in Dispatcher, Claim(d) PROVE ChargesAreRefusals'
  BY <1>3 DEF Claim, ClaimPendingMessages
<1>4. ASSUME NEW d \in Dispatcher, NEW m \in Msg, Publish(d, m) \/ SkipForeign(d, m)
      PROVE  ChargesAreRefusals'
  BY <1>4 DEF Publish, SkipForeign, table
<1>5. ASSUME NEW d \in Dispatcher, NEW m \in Msg, PublishRefused(d, m) PROVE ChargesAreRefusals'
  BY <1>5 DEF PublishRefused, MarkMessageAsFailed, table, Row
\* The investment dispatcher charges only the messages that are not of its own kind.
<1>6. ASSUME NEW d \in Dispatcher, NEW m \in Msg, FailForeign(d, m) PROVE ChargesAreRefusals'
  BY <1>6 DEF FailForeign, MarkMessageAsFailed, table, Row, Spared
<1>7. ASSUME NEW d \in Dispatcher, MarkPublished(d) PROVE ChargesAreRefusals'
  BY <1>7 DEF MarkPublished, MarkMessageAsPublished, Row
<1>8. ASSUME NEW d \in Dispatcher, EndDispatch(d) \/ Crash(d) \/ MarkPublishedLost(d)
      PROVE  ChargesAreRefusals'
  BY <1>8 DEF EndDispatch, Crash, MarkPublishedLost, table
<1>9. ASSUME NEW d \in Dispatcher, NEW m \in Msg, MarkFailedLost(d, m) PROVE ChargesAreRefusals'
  BY <1>9 DEF MarkFailedLost, table
<1>10. CASE TimePasses
  BY <1>10 DEF TimePasses, Expire
<1>11. CASE PurgeOldMessages
  BY <1>11 DEF PurgeOldMessages, Exhausted
<1>12. CASE UNCHANGED vars
  BY <1>12 DEF vars
<1> QED
  BY <1>1, <1>2, <1>3, <1>4, <1>5, <1>6, <1>7, <1>8, <1>9, <1>10, <1>11, <1>12 DEF Next, Step

LEMMA RefusalInvHolds == Spec => []RefusalInv
<1>1. Init => RefusalInv
  BY FaultsAssumption DEF Init, RefusalInv, TypeOK, ChargesAreRefusals
<1> QED
  BY <1>1, RefusalInvStep, PTL DEF Spec

\* A spared message that is given up, or was purged since, has been refused so often.
LEMMA SparedDiesOfRefusals ==
  ASSUME RefusalInv, NEW m \in Msg, Spared(m), Exhausted(m) \/ status[m] = "purged"
  PROVE  refused[m] >= MaxAttempts
BY AttemptsAssumption DEF RefusalInv, TypeOK, ChargesAreRefusals, Exhausted

\* An investment message that is given up, or was purged since, was refused by the
\* broker MaxAttempts times.
THEOREM InvestmentDiesOfRefusals == Spec => []InvestmentDeadMeansRefused
<1>1. RefusalInv => InvestmentDeadMeansRefused
  BY SparedDiesOfRefusals, KindAssumption DEF InvestmentDeadMeansRefused, Spared, Own
<1> QED
  BY <1>1, RefusalInvHolds, PTL

\* So was a loan message, where the investment worker's dispatcher does not poll the table:
\* that dispatcher, and no lock, crash or other dispatcher, is what costs it attempts.
THEOREM LoanDiesOfRefusals ==
  ASSUME \A d \in Dispatcher : Service[d] # "investment"
  PROVE  Spec => [](LoanDeadMeansRefused /\ UnrefusedLoanIsAlive)
<1>1. RefusalInv => LoanDeadMeansRefused
  BY SparedDiesOfRefusals DEF LoanDeadMeansRefused, Spared
<1>2. RefusalInv => UnrefusedLoanIsAlive
  <2>1. MaxAttempts > 0
    BY AttemptsAssumption
  <2>2. ASSUME RefusalInv, NEW m \in Msg, refused[m] = 0
        PROVE  ~Exhausted(m) /\ status[m] # "purged"
    BY <2>1, <2>2, SparedDiesOfRefusals, AttemptsAssumption DEF Spared
  <2> QED
    BY <2>2 DEF UnrefusedLoanIsAlive
<1> QED
  BY <1>1, <1>2, RefusalInvHolds, PTL

-----------------------------------------------------------------------------
(* The outbox implements the abstract delivery *)

DeliveryInv == SendInv /\ HeldWasWritten

LEMMA DeliveryInvStep == DeliveryInv /\ [Next]_vars => DeliveryInv'
<1> SUFFICES ASSUME SendInv, HeldWasWritten, [Next]_vars PROVE HeldWasWritten'
  BY SendInvStep DEF DeliveryInv
<1> USE DEF SendInv, TypeOK, HeldWasWritten
<1>1. ASSUME NEW m \in Msg, CreateOutboxMessage(m) PROVE HeldWasWritten'
  BY <1>1 DEF CreateOutboxMessage
<1>2. ASSUME NEW d \in Dispatcher, BeginDispatch(d) PROVE HeldWasWritten'
  BY <1>2 DEF BeginDispatch, ReleaseStaleLocks
<1>3. ASSUME NEW d \in Dispatcher, Claim(d) PROVE HeldWasWritten'
  BY <1>3 DEF Claim, ClaimPendingMessages, Claimable
<1>4. ASSUME NEW d \in Dispatcher, NEW m \in Msg,
             \/ Publish(d, m) \/ PublishRefused(d, m) \/ SkipForeign(d, m)
             \/ FailForeign(d, m) \/ MarkFailedLost(d, m)
      PROVE  HeldWasWritten'
  BY <1>4 DEF Publish, PublishRefused, SkipForeign, FailForeign, MarkFailedLost, Handle,
              MarkMessageAsFailed, table
<1>5. ASSUME NEW d \in Dispatcher,
             MarkPublished(d) \/ EndDispatch(d) \/ Crash(d) \/ MarkPublishedLost(d)
      PROVE  HeldWasWritten'
  BY <1>5 DEF MarkPublished, MarkMessageAsPublished, EndDispatch, Crash, MarkPublishedLost, table
<1>6. CASE TimePasses
  BY <1>6 DEF TimePasses, Expire
<1>7. CASE PurgeOldMessages
  BY <1>7 DEF PurgeOldMessages
<1>8. CASE UNCHANGED vars
  BY <1>8 DEF vars
<1> QED
  BY <1>1, <1>2, <1>3, <1>4, <1>5, <1>6, <1>7, <1>8 DEF Next, Step

\* The phases of the rows, and the state of the abstract outbox when the rows of S alone
\* change theirs.
LEMMA PhaseIs ==
  ASSUME TypeOK, NEW m \in Msg
  PROVE  /\ PhaseOf[m] = "none"      <=> status[m] = "absent"
         /\ PhaseOf[m] = "queued"    <=> status[m] \in {"pending", "processing", "failed"}
         /\ PhaseOf[m] = "published" <=> status[m] = "published"
         /\ PhaseOf[m] = "dropped"   <=> status[m] = "purged"
BY DEF TypeOK, PhaseOf, Phase

LEMMA PhasesMove ==
  ASSUME NEW S \in SUBSET Msg, NEW s,
         \A m \in S : Phase[status'[m]] = s, \A m \in Msg \ S : status'[m] = status[m]
  PROVE  PhaseOf' = [m \in Msg |-> IF m \in S THEN s ELSE PhaseOf[m]]
BY DEF PhaseOf

LEMMA OnePhaseMoves ==
  ASSUME NEW m \in Msg, NEW s,
         Phase[status'[m]] = s, \A n \in Msg \ {m} : status'[n] = status[n]
  PROVE  PhaseOf' = [n \in Msg |-> IF n \in {m} THEN s ELSE PhaseOf[n]]
BY DEF PhaseOf

LEMMA PhasesStay ==
  ASSUME \A m \in Msg : Phase[status'[m]] = Phase[status[m]]
  PROVE  PhaseOf' = PhaseOf
BY DEF PhaseOf

\* A message that was held and never expired is being processed.
LEMMA HolderProcesses ==
  ASSUME SendInv, NEW d \in Dispatcher, NEW m \in batch[d] \cup cur[d], m \in Msg \ expired
  PROVE  status[m] = "processing"
BY DEF SendInv, ExclusiveClaim, Holders

\* A dispatcher that marks what it holds as failed queues it again, if at all.
LEMMA FailureReopens ==
  ASSUME DeliveryInv, NEW d \in Dispatcher, NEW m \in Msg, m \in batch[d],
         MarkMessageAsFailed(m), UNCHANGED <<sent, expired>>
  PROVE  TheDelivery!Next \/ UNCHANGED TheDelivery!vars
<1> USE DEF DeliveryInv, SendInv
<1>1. CASE status' = status
  BY <1>1 DEF PhaseOf, TheDelivery!vars
<1>2. CASE /\ status' = [status EXCEPT ![m] = IF Row(m) THEN "failed" ELSE @]
           /\ Row(m)
  <2>1. /\ \A n \in Msg \ {m} : status'[n] = status[n]
        /\ status'[m] = "failed"
    BY <1>2 DEF TypeOK
  <2>2. CASE status[m] = "published"
    <3>1. m \in expired
      BY <2>2, HolderProcesses
    <3>2. PhaseOf' = [n \in Msg |-> IF n \in {m} THEN "queued" ELSE PhaseOf[n]]
      <4>1. Phase[status'[m]] = "queued"
        BY <2>1 DEF Phase
      <4> QED
        BY <2>1, <4>1, OnePhaseMoves
    <3> QED
      BY <2>2, <3>1, <3>2, PhaseIs DEF TheDelivery!Next, TheDelivery!Reopen, TheDelivery!Move
  <2>3. CASE status[m] # "published"
    <3>1. Phase[status'[m]] = Phase[status[m]]
      BY <1>2, <2>1, <2>3 DEF TypeOK, Row, Phase
    <3> QED
      BY <2>1, <3>1, PhasesStay DEF TheDelivery!vars
  <2> QED
    BY <2>2, <2>3
<1>3. CASE status' = [status EXCEPT ![m] = IF Row(m) THEN "failed" ELSE @] /\ ~Row(m)
  <2>1. status' = status
    BY <1>3 DEF TypeOK
  <2> QED
    BY <2>1, <1>1
<1> QED
  BY <1>1, <1>2, <1>3 DEF MarkMessageAsFailed, table

\* A dispatcher marks as published only what it sent.
LEMMA MarkSettles ==
  ASSUME DeliveryInv, NEW d \in Dispatcher, NEW m \in Msg, m \in cur[d],
         MarkMessageAsPublished(m), UNCHANGED <<sent, expired>>
  PROVE  TheDelivery!Next \/ UNCHANGED TheDelivery!vars
<1> USE DEF DeliveryInv, SendInv
<1>1. \A n \in Msg \ {m} : status'[n] = status[n]
  BY DEF MarkMessageAsPublished, TypeOK
<1>2. CASE PhaseOf[m] = "queued"
  <2>1. status'[m] = "published"
    BY <1>2, PhaseIs DEF MarkMessageAsPublished, TypeOK, Row
  <2>2. PhaseOf' = [n \in Msg |-> IF n \in {m} THEN "published" ELSE PhaseOf[n]]
    <3>1. Phase[status'[m]] = "published"
      BY <2>1 DEF Phase
    <3> QED
      BY <1>1, <3>1, OnePhaseMoves
  <2>3. sent[m] > 0
    BY DEF HoldsOnlyInBatch
  <2> QED
    BY <1>2, <2>2, <2>3 DEF TheDelivery!Next, TheDelivery!Settle, TheDelivery!Move
<1>3. CASE PhaseOf[m] # "queued"
  <2>1. status'[m] = status[m]
    BY <1>3, PhaseIs DEF MarkMessageAsPublished, TypeOK, Row
  <2> QED
    BY <1>1, <2>1, PhasesStay DEF TheDelivery!vars
<1> QED
  BY <1>2, <1>3

\* Each step of the outbox is one of the abstract outbox, or changes nothing it promises.
LEMMA StepDelivers == DeliveryInv /\ [Next]_vars => [TheDelivery!Next]_(TheDelivery!vars)
<1> SUFFICES ASSUME DeliveryInv, [Next]_vars
             PROVE  TheDelivery!Next \/ UNCHANGED TheDelivery!vars
  OBVIOUS
<1>1. ASSUME NEW m \in Msg, CreateOutboxMessage(m) PROVE TheDelivery!Next
  <2>1. /\ \A n \in Msg \ {m} : status'[n] = status[n]
        /\ status'[m] = "pending" /\ status[m] = "absent"
    BY <1>1 DEF CreateOutboxMessage, DeliveryInv, SendInv, TypeOK
  <2>2. PhaseOf' = [n \in Msg |-> IF n \in {m} THEN "queued" ELSE PhaseOf[n]]
    <3>1. Phase[status'[m]] = "queued"
      BY <2>1 DEF Phase
    <3> QED
      BY <2>1, <3>1, OnePhaseMoves
  <2>3. PhaseOf[m] = "none"
    BY <2>1, PhaseIs DEF DeliveryInv, SendInv
  <2> QED
    BY <1>1, <2>2, <2>3
       DEF CreateOutboxMessage, TheDelivery!Next, TheDelivery!Create, TheDelivery!Move
<1>2. ASSUME NEW d \in Dispatcher, BeginDispatch(d) PROVE TheDelivery!Next
  <2>1. \A m \in stale : status[m] = "processing"
    BY DEF DeliveryInv, SendInv, StaleProcessing
  <2>2. stale \in SUBSET Msg
    BY DEF DeliveryInv, SendInv, TypeOK
  <2>3. TheDelivery!Queued(stale)
    BY <2>1, <2>2, PhaseIs DEF TheDelivery!Queued, DeliveryInv, SendInv
  <2>4. \A m \in Msg : Phase[status'[m]] = Phase[status[m]]
    BY <1>2, <2>1 DEF BeginDispatch, ReleaseStaleLocks, Phase
  <2>5. PhaseOf' = PhaseOf
    BY <2>4, PhasesStay
  <2> QED
    BY <1>2, <2>2, <2>3, <2>5
       DEF BeginDispatch, ReleaseStaleLocks, TheDelivery!Next, TheDelivery!Expire
<1>3. ASSUME NEW d \in Dispatcher, Claim(d) PROVE UNCHANGED TheDelivery!vars
  <2>1. \A m \in Msg : Phase[status'[m]] = Phase[status[m]]
    BY <1>3 DEF Claim, ClaimPendingMessages, Claimable, Phase
  <2> QED
    BY <1>3, <2>1, PhasesStay DEF Claim, TheDelivery!vars
<1>4. ASSUME NEW d \in Dispatcher, NEW m \in Msg, Publish(d, m) PROVE TheDelivery!Next
  <2>1. m \in batch[d] /\ PhaseOf' = PhaseOf
    BY <1>4 DEF Publish, Handle, PhaseOf
  <2>2. PhaseOf[m] # "none"
    BY <2>1, PhaseIs DEF DeliveryInv, SendInv, HeldWasWritten
  <2>3. sent[m] = 0 \/ m \in expired
    BY <2>1 DEF DeliveryInv, SendInv, ExclusiveClaim
  <2> QED
    BY <1>4, <2>1, <2>2, <2>3 DEF Publish, TheDelivery!Next, TheDelivery!Send
<1>5. ASSUME NEW d \in Dispatcher, NEW m \in Msg, PublishRefused(d, m) \/ FailForeign(d, m)
      PROVE  TheDelivery!Next \/ UNCHANGED TheDelivery!vars
  BY <1>5, FailureReopens DEF PublishRefused, FailForeign, Handle
<1>6. ASSUME NEW d \in Dispatcher, MarkPublished(d)
      PROVE  TheDelivery!Next \/ UNCHANGED TheDelivery!vars
  <2>1. PICK m \in cur[d] : MarkMessageAsPublished(m)
    BY <1>6 DEF MarkPublished
  <2>2. m \in Msg
    BY DEF DeliveryInv, SendInv, TypeOK
  <2> QED
    BY <1>6, <2>1, <2>2, MarkSettles DEF MarkPublished
<1>7. ASSUME NEW d \in Dispatcher,
             \/ EndDispatch(d) \/ Crash(d) \/ MarkPublishedLost(d)
             \/ \E m \in Msg : SkipForeign(d, m) \/ MarkFailedLost(d, m)
      PROVE  UNCHANGED TheDelivery!vars
  BY <1>7 DEF EndDispatch, Crash, MarkPublishedLost, SkipForeign, MarkFailedLost, table,
              PhaseOf, TheDelivery!vars
<1>8. CASE TimePasses
  BY <1>8 DEF TimePasses, Expire, PhaseOf, TheDelivery!vars
<1>9. CASE PurgeOldMessages
  <2>1. PICK S \in SUBSET {m \in Msg : Exhausted(m)} :
          status' = [m \in Msg |-> IF m \in S THEN "purged" ELSE status[m]]
    BY <1>9 DEF PurgeOldMessages
  <2>2. S \in SUBSET Msg /\ \A m \in S : status[m] = "failed"
    BY DEF Exhausted
  <2>3. TheDelivery!Queued(S)
    BY <2>2, PhaseIs DEF TheDelivery!Queued, DeliveryInv, SendInv
  <2>4. PhaseOf' = [m \in Msg |-> IF m \in S THEN "dropped" ELSE PhaseOf[m]]
    BY <2>1, <2>2, PhasesMove DEF Phase
  <2> QED
    BY <1>9, <2>2, <2>3, <2>4
       DEF PurgeOldMessages, TheDelivery!Next, TheDelivery!Drop, TheDelivery!Move
<1>10. CASE UNCHANGED vars
  BY <1>10 DEF vars, PhaseOf, TheDelivery!vars
<1> QED
  BY <1>1, <1>2, <1>3, <1>4, <1>5, <1>6, <1>7, <1>8, <1>9, <1>10 DEF Next, Step

\* Two dispatchers that claim, send, mark, release and crash on one table deliver messages as
\* the abstract outbox promises: after the commit, marked after the send, twice after an
\* expiry only.
THEOREM DeliveryIsImplemented == Spec => ImplementsDelivery
<1>1. Init => DeliveryInv
  BY SendInvInit DEF Init, DeliveryInv, HeldWasWritten
<1>2. Init => TheDelivery!Init
  BY DEF Init, TheDelivery!Init, PhaseOf, Phase
<1> QED
  BY <1>1, <1>2, DeliveryInvStep, StepDelivers, PTL
     DEF Spec, ImplementsDelivery, TheDelivery!Spec

=============================================================================
