---------------------------- MODULE LedgerProofs ----------------------------
(***************************************************************************)
(* Proofs about LedgerConsumer and the ledger service beneath it, for any  *)
(* postings, accounts, callers, processes, messages and faults.            *)
(***************************************************************************)
EXTENDS LedgerConsumer, SumProofs

-----------------------------------------------------------------------------
(* PostTransaction *)

\* What one statement of PostTransaction does: nothing that is seen, or the commit.
LEMMA PostEffect ==
  ASSUME TypeOK, NEW a \in Actor, NEW p \in Posting, Post(a, p)
  PROVE  /\ task[a] = {p} /\ task' = task
         /\ pc[a] \in {"begun", "inserted", "writing"}
         /\ pc'[a] \in {"inserted", "writing", "posted", "failed"}
         /\ \A b \in Actor \ {a} : pc'[b] = pc[b]
         /\ UNCHANGED <<accounts, told>>
         /\ \/ UNCHANGED <<transactions, entries, doubted>> /\ pc'[a] # "posted"
            \/ /\ Publish(a, p) /\ pc[a] = "writing" /\ written[a] = Len(Lines[p])
               /\ \/ pc'[a] = "posted" /\ UNCHANGED doubted
                  \/ pc'[a] = "failed" /\ doubted' = Incr(doubted, p)
<1> USE DEF TypeOK, Places, At, Goto, books, record
<1>1. CASE CreateTransaction(a, p)
  BY <1>1 DEF CreateTransaction
<1>2. CASE VerifyAccounts(a, p)
  BY <1>2 DEF VerifyAccounts
<1>3. CASE CreateEntry(a, p)
  BY <1>3 DEF CreateEntry
<1>4. CASE Commit(a, p)
  BY <1>4 DEF Commit, Publish
<1>5. CASE CommitUnknown(a, p)
  BY <1>5 DEF CommitUnknown, Publish
<1>6. CASE Fail(a, p)
  BY <1>6 DEF Fail
<1> QED
  BY <1>1, <1>2, <1>3, <1>4, <1>5, <1>6 DEF Post

-----------------------------------------------------------------------------
(* Types *)

\* Who works on what: an actor has a posting exactly when it is at work, a process only
\* messages, and a process whose channel has closed is at work.
Shape ==
  /\ \A a \in Actor : pc[a] \in {"idle", "answered"} <=> task[a] = {}
  /\ \A a \in Actor : \A p, q \in task[a] : p = q
  /\ \A c \in Consumer : task[c] \subseteq Message
  /\ \A a \in Caller : task[a] \subseteq Asked
  /\ \A c \in cut : task[c] # {} /\ inbox[c] = {}

\* No step breaks a type.
LEMMA TypeStep == TypeOK /\ Shape /\ [Next]_vars => TypeOK'
<1> SUFFICES ASSUME TypeOK, Shape, [Next]_vars PROVE TypeOK'
  OBVIOUS
<1> USE FaultsAssumption, LimitAssumption, ConsumerAssumption, ActorAssumption
    DEF TypeOK, Places, books, work, record, ledgerVars, queue, fate, Goto, Leave, Incr, Fault
<1>1. ASSUME NEW x \in Account, CreateAccount(x), UNCHANGED <<queue, tries, fate>> PROVE TypeOK'
  BY <1>1 DEF CreateAccount
<1>2. ASSUME NEW a \in Caller, NEW p \in Asked, Request(a, p), UNCHANGED <<queue, tries, fate>>
      PROVE  TypeOK'
  BY <1>2 DEF Request
<1>3. ASSUME NEW a \in Actor, NEW p \in Posting, Post(a, p), UNCHANGED <<queue, tries, dead, handled>>,
             redone' \subseteq Message
      PROVE  TypeOK'
  <2>1. CASE CreateTransaction(a, p)
    BY <1>3, <2>1 DEF CreateTransaction
  <2>2. CASE VerifyAccounts(a, p)
    BY <1>3, <2>2 DEF VerifyAccounts
  <2>3. CASE CreateEntry(a, p)
    BY <1>3, <2>3 DEF CreateEntry
  <2>4. CASE Commit(a, p)
    BY <1>3, <2>4 DEF Commit, Publish
  <2>5. CASE CommitUnknown(a, p)
    BY <1>3, <2>5 DEF CommitUnknown, Publish
  <2>6. CASE Fail(a, p)
    BY <1>3, <2>6 DEF Fail
  <2> QED
    BY <1>3, <2>1, <2>2, <2>3, <2>4, <2>5, <2>6 DEF Post
<1>4. ASSUME NEW a \in Caller, NEW p \in Asked, Answer(a, p), UNCHANGED <<queue, tries, fate>>
      PROVE  TypeOK'
  BY <1>4 DEF Answer
<1>5. ASSUME NEW a \in Caller, NEW p \in Asked, Abort(a, p), UNCHANGED <<queue, tries, fate>>
      PROVE  TypeOK'
  BY <1>5 DEF Abort, Forget
<1>6. ASSUME NEW m \in Message, Send(m) PROVE TypeOK'
  BY <1>6 DEF Send
<1>7. ASSUME NEW m \in Message, LoanWorkerTakes(m) PROVE TypeOK'
  BY <1>7 DEF LoanWorkerTakes
<1>8. ASSUME NEW c \in Consumer, NEW m \in Message, Deliver(c, m) PROVE TypeOK'
  BY <1>8 DEF Deliver
<1>9. ASSUME NEW c \in Consumer, NEW m \in Message, Take(c, m) PROVE TypeOK'
  BY <1>9 DEF Take
<1>10. ASSUME NEW c \in Consumer, NEW m \in Message, PostTask(c, m) PROVE TypeOK'
  BY <1>3, <1>10 DEF PostTask
<1>11. ASSUME NEW c \in Consumer, NEW m \in Message, Again(c, m) PROVE TypeOK'
  BY <1>11 DEF Again
<1>12. ASSUME NEW c \in Consumer, NEW m \in Message, GiveUp(c, m) PROVE TypeOK'
  BY <1>12 DEF GiveUp
<1>13. ASSUME NEW c \in Consumer, NEW m \in Message, PublishCopy(c, m) PROVE TypeOK'
  BY <1>13 DEF PublishCopy
<1>14. ASSUME NEW c \in Consumer, NEW m \in Message, Nack(c, m) PROVE TypeOK'
  BY <1>14 DEF Nack
<1>15. ASSUME NEW c \in Consumer, NEW m \in Message, Ack(c, m) PROVE TypeOK'
  BY <1>15 DEF Ack
<1>16. ASSUME NEW c \in Consumer, NEW m \in Message, FindClosed(c, m) PROVE TypeOK'
  BY <1>16 DEF FindClosed, Forget
<1>17. ASSUME NEW c \in Consumer, Disconnect(c) PROVE TypeOK'
  BY <1>17 DEF Disconnect, Redeliver, Held, Shape
<1>18. ASSUME NEW c \in Consumer, Crash(c) PROVE TypeOK'
  BY <1>18 DEF Crash, Redeliver, Held, Forget, Shape
<1>19. CASE UNCHANGED vars
  BY <1>19 DEF vars
<1> QED
  BY <1>1, <1>2, <1>3, <1>4, <1>5, <1>6, <1>7, <1>8, <1>9, <1>10, <1>11, <1>12, <1>13, <1>14,
     <1>15, <1>16, <1>17, <1>18, <1>19 DEF Next, ApiStep, Api, Handle

LEMMA ShapeStep == TypeOK /\ Shape /\ [Next]_vars => Shape'
<1> SUFFICES ASSUME TypeOK, Shape, [Next]_vars PROVE Shape'
  OBVIOUS
<1> USE ConsumerAssumption, ActorAssumption
    DEF TypeOK, Places, Shape, books, work, record, ledgerVars, queue, fate, Goto, Leave, At
<1>1. ASSUME NEW x \in Account, CreateAccount(x), UNCHANGED <<queue, tries, fate>> PROVE Shape'
  BY <1>1 DEF CreateAccount
<1>2. ASSUME NEW a \in Caller, NEW p \in Asked, Request(a, p), UNCHANGED <<queue, tries, fate>>
      PROVE  Shape'
  BY <1>2 DEF Request
<1>3. ASSUME NEW a \in Actor, NEW p \in Posting, Post(a, p), UNCHANGED <<queue, tries>>
      PROVE  Shape'
  BY <1>3, PostEffect DEF Shape
<1>4. ASSUME NEW a \in Caller, NEW p \in Asked, Answer(a, p), UNCHANGED <<queue, tries, fate>>
      PROVE  Shape'
  BY <1>4 DEF Answer
<1>5. ASSUME NEW a \in Caller, NEW p \in Asked, Abort(a, p), UNCHANGED <<queue, tries, fate>>
      PROVE  Shape'
  BY <1>5 DEF Abort
<1>6. ASSUME NEW m \in Message, Send(m) PROVE Shape'
  BY <1>6 DEF Send
<1>7. ASSUME NEW m \in Message, LoanWorkerTakes(m) PROVE Shape'
  BY <1>7 DEF LoanWorkerTakes
<1>8. ASSUME NEW c \in Consumer, NEW m \in Message, Deliver(c, m) PROVE Shape'
  BY <1>8 DEF Deliver
<1>9. ASSUME NEW c \in Consumer, NEW m \in Message, Take(c, m) PROVE Shape'
  BY <1>9 DEF Take
<1>10. ASSUME NEW c \in Consumer, NEW m \in Message, PostTask(c, m) PROVE Shape'
  BY <1>3, <1>10 DEF PostTask
<1>11. ASSUME NEW c \in Consumer, NEW m \in Message, Again(c, m) PROVE Shape'
  BY <1>11 DEF Again
<1>12. ASSUME NEW c \in Consumer, NEW m \in Message, GiveUp(c, m) PROVE Shape'
  BY <1>12 DEF GiveUp
<1>13. ASSUME NEW c \in Consumer, NEW m \in Message, PublishCopy(c, m) PROVE Shape'
  BY <1>13 DEF PublishCopy
<1>14. ASSUME NEW c \in Consumer, NEW m \in Message, Nack(c, m) PROVE Shape'
  BY <1>14 DEF Nack
<1>15. ASSUME NEW c \in Consumer, NEW m \in Message, Ack(c, m) PROVE Shape'
  BY <1>15 DEF Ack
<1>16. ASSUME NEW c \in Consumer, NEW m \in Message, FindClosed(c, m) PROVE Shape'
  BY <1>16 DEF FindClosed
<1>17. ASSUME NEW c \in Consumer, Disconnect(c) PROVE Shape'
  BY <1>17 DEF Disconnect, Redeliver
<1>18. ASSUME NEW c \in Consumer, Crash(c) PROVE Shape'
  BY <1>18 DEF Crash, Redeliver
<1>19. CASE UNCHANGED vars
  BY <1>19 DEF vars
<1> QED
  BY <1>1, <1>2, <1>3, <1>4, <1>5, <1>6, <1>7, <1>8, <1>9, <1>10, <1>11, <1>12, <1>13, <1>14,
     <1>15, <1>16, <1>17, <1>18, <1>19 DEF Next, ApiStep, Api, Handle

LEMMA ShapeInit == Init => TypeOK /\ Shape
<1> SUFFICES ASSUME Init PROVE TypeOK /\ Shape
  OBVIOUS
<1> USE DEF Init, LedgerInit
<1>1. accounts \in SUBSET Account /\ tries \in [Consumer -> 0..MaxTries]
  BY LinesAssumption, LimitAssumption
<1>2. TypeOK
  BY <1>1 DEF TypeOK, Places
<1>3. Shape
  BY ConsumerAssumption, ActorAssumption DEF Shape
<1> QED
  BY <1>2, <1>3

\* Every variable keeps its type, and every actor works on what it was given.
THEOREM TypeCorrect == Spec => []TypeOK
BY ShapeInit, TypeStep, ShapeStep, PTL DEF Spec

-----------------------------------------------------------------------------
(* What is in the books was answered *)

LEMMA UnansweredIsFinite ==
  ASSUME NEW p
  PROVE  IsFiniteSet(Unanswered(p)) /\ Cardinality(Unanswered(p)) \in Nat
BY ActorAssumption, FS_Subset, FS_CardinalityType DEF Unanswered

LEMMA IncrAdds ==
  ASSUME NEW f \in [Posting -> Nat], NEW p \in Posting, NEW q \in Posting
  PROVE  f[q] \in Nat /\ Incr(f, p)[q] = f[q] + (IF q = p THEN 1 ELSE 0)
BY DEF Incr

\* A step that nobody is told of.
LEMMA QuietKeepsBooks ==
  ASSUME BooksMatchAnswers, UNCHANGED <<transactions, told, doubted>>,
         \A b \in Actor : /\ pc'[b] = "posted" <=> pc[b] = "posted"
                          /\ pc[b] = "posted" => task'[b] = task[b]
  PROVE  BooksMatchAnswers'
<1>1. ASSUME NEW p \in Posting PROVE Unanswered(p)' = Unanswered(p)
  BY DEF Unanswered, At
<1> QED
  BY <1>1 DEF BooksMatchAnswers

\* An actor leaves its posting: a success is counted as told or as doubted.
LEMMA LeavingKeepsBooks ==
  ASSUME TypeOK, BooksMatchAnswers, NEW a \in Actor, NEW p \in Posting,
         task[a] = {p}, task'[a] = {},
         \A b \in Actor \ {a} : task'[b] = task[b] /\ pc'[b] = pc[b],
         UNCHANGED transactions,
         \A q \in Posting :
           told'[q] + doubted'[q] = told[q] + doubted[q] + (IF q = p /\ pc[a] = "posted" THEN 1 ELSE 0)
  PROVE  BooksMatchAnswers'
<1> SUFFICES ASSUME NEW q \in Posting
             PROVE  transactions'[q] = told'[q] + doubted'[q] + Cardinality(Unanswered(q)')
  BY DEF BooksMatchAnswers
<1>1. /\ transactions[q] = told[q] + doubted[q] + Cardinality(Unanswered(q))
      /\ told[q] \in Nat /\ doubted[q] \in Nat
  BY DEF BooksMatchAnswers, TypeOK
<1>2. CASE pc[a] = "posted" /\ q = p
  <2>1. Unanswered(q)' = Unanswered(q) \ {a} /\ a \in Unanswered(q)
    BY <1>2 DEF Unanswered, At
  <2>2. Cardinality(Unanswered(q)') = Cardinality(Unanswered(q)) - 1
    BY <2>1, UnansweredIsFinite, FS_RemoveElement
  <2>3. told'[q] + doubted'[q] = told[q] + doubted[q] + 1
    BY <1>2
  <2> QED
    BY <1>1, <2>2, <2>3, UnansweredIsFinite
<1>3. CASE ~(pc[a] = "posted" /\ q = p)
  <2>1. a \notin Unanswered(q) /\ a \notin Unanswered(q)'
    BY <1>3 DEF Unanswered, At
  <2>2. Unanswered(q)' = Unanswered(q)
    BY <2>1 DEF Unanswered, At
  <2>3. told'[q] + doubted'[q] = told[q] + doubted[q]
    BY <1>1, <1>3
  <2> QED
    BY <1>1, <2>2, <2>3
<1> QED
  BY <1>2, <1>3

LEMMA PostingKeepsBooks ==
  ASSUME TypeOK, BooksMatchAnswers, NEW a \in Actor, NEW p \in Posting, Post(a, p)
  PROVE  BooksMatchAnswers'
<1>1. CASE UNCHANGED <<transactions, entries, doubted>> /\ pc'[a] # "posted"
  <2>1. \A b \in Actor : /\ pc'[b] = "posted" <=> pc[b] = "posted"
                         /\ pc[b] = "posted" => task'[b] = task[b]
    BY <1>1, PostEffect
  <2>2. UNCHANGED <<transactions, told, doubted>>
    BY <1>1, PostEffect
  <2> QED
    BY <2>1, <2>2, QuietKeepsBooks
<1>2. CASE Publish(a, p)
  <2> SUFFICES ASSUME NEW q \in Posting
               PROVE  transactions'[q] = told'[q] + doubted'[q] + Cardinality(Unanswered(q)')
    BY DEF BooksMatchAnswers
  <2>1. /\ transactions[q] = told[q] + doubted[q] + Cardinality(Unanswered(q))
        /\ told[q] \in Nat /\ doubted[q] \in Nat /\ told' = told
    BY PostEffect DEF BooksMatchAnswers, TypeOK
  <2>2. /\ task' = task /\ task[a] = {p} /\ pc[a] # "posted"
        /\ \A b \in Actor \ {a} : pc'[b] = pc[b]
    BY PostEffect
  <2>3. transactions'[q] = transactions[q] + (IF q = p THEN 1 ELSE 0)
    BY <1>2 DEF Publish, Incr, TypeOK
  <2>4. CASE pc'[a] = "posted" /\ q = p
    <3>1. Unanswered(q)' = Unanswered(q) \cup {a} /\ a \notin Unanswered(q)
      BY <2>2, <2>4 DEF Unanswered, At
    <3>2. Cardinality(Unanswered(q)') = Cardinality(Unanswered(q)) + 1
      BY <3>1, UnansweredIsFinite, FS_AddElement
    <3>3. UNCHANGED doubted
      BY <2>3, <2>4, PostEffect DEF TypeOK
    <3> QED
      BY <2>1, <2>3, <2>4, <3>2, <3>3, UnansweredIsFinite
  <2>5. CASE ~(pc'[a] = "posted" /\ q = p)
    <3>1. a \notin Unanswered(q) /\ a \notin Unanswered(q)'
      BY <2>2, <2>5 DEF Unanswered, At
    <3>2. Unanswered(q)' = Unanswered(q)
      BY <2>2, <3>1 DEF Unanswered, At
    <3>3. doubted'[q] = doubted[q] + (IF q = p THEN 1 ELSE 0)
      <4>1. UNCHANGED doubted \/ (pc'[a] = "failed" /\ doubted' = Incr(doubted, p))
        BY PostEffect
      <4>2. CASE q = p
        <5>1. transactions' # transactions
          BY <2>1, <2>3, <4>2 DEF TypeOK
        <5>2. doubted' = Incr(doubted, p)
          BY <2>5, <4>2, <5>1, PostEffect
        <5> QED
          BY <4>2, <5>2 DEF TypeOK, Incr
      <4>3. CASE q # p
        BY <2>1, <4>1, <4>3 DEF TypeOK, Incr
      <4> QED
        BY <4>2, <4>3
    <3> QED
      BY <2>1, <2>3, <3>2, <3>3, UnansweredIsFinite
  <2> QED
    BY <2>4, <2>5
<1> QED
  BY <1>1, <1>2, PostEffect

LEMMA AnswersStep == TypeOK /\ Shape /\ BooksMatchAnswers /\ [Next]_vars => BooksMatchAnswers'
<1> SUFFICES ASSUME TypeOK, Shape, BooksMatchAnswers, [Next]_vars PROVE BooksMatchAnswers'
  OBVIOUS
<1> DEFINE Quiet == /\ UNCHANGED <<transactions, told, doubted>>
                    /\ \A b \in Actor : /\ pc'[b] = "posted" <=> pc[b] = "posted"
                                        /\ pc[b] = "posted" => task'[b] = task[b]
<1>0. Quiet => BooksMatchAnswers'
  BY QuietKeepsBooks
<1> USE ConsumerAssumption, ActorAssumption
    DEF TypeOK, books, work, record, ledgerVars, Goto, Leave, At
<1>1. ASSUME NEW x \in Account, CreateAccount(x) PROVE BooksMatchAnswers'
  BY <1>0, <1>1 DEF CreateAccount
<1>2. ASSUME NEW a \in Caller, NEW p \in Asked, Request(a, p) PROVE BooksMatchAnswers'
  <2>1. Quiet
    BY <1>2 DEF Request
  <2> QED
    BY <1>0, <2>1
<1>3. ASSUME NEW a \in Caller, NEW p \in Asked, Post(a, p) PROVE BooksMatchAnswers'
  BY <1>3, PostingKeepsBooks
<1>4. ASSUME NEW a \in Caller, NEW p \in Asked, Answer(a, p) PROVE BooksMatchAnswers'
  <2>1. /\ task[a] = {p} /\ task'[a] = {} /\ a \in Actor /\ p \in Posting
        /\ \A b \in Actor \ {a} : task'[b] = task[b] /\ pc'[b] = pc[b]
        /\ UNCHANGED transactions
    BY <1>4 DEF Answer
  <2>2. \A q \in Posting : told'[q] + doubted'[q] = told[q] + doubted[q]
                                                 + (IF q = p /\ pc[a] = "posted" THEN 1 ELSE 0)
    BY <1>4 DEF Answer, Forget, Incr
  <2> QED
    BY <2>1, <2>2, LeavingKeepsBooks
<1>5. ASSUME NEW a \in Caller, NEW p \in Asked, Abort(a, p) PROVE BooksMatchAnswers'
  <2>1. /\ task[a] = {p} /\ task'[a] = {} /\ a \in Actor /\ p \in Posting
        /\ \A b \in Actor \ {a} : task'[b] = task[b] /\ pc'[b] = pc[b]
        /\ UNCHANGED transactions
    BY <1>5 DEF Abort
  <2>2. \A q \in Posting : told'[q] + doubted'[q] = told[q] + doubted[q]
                                                 + (IF q = p /\ pc[a] = "posted" THEN 1 ELSE 0)
    BY <1>5 DEF Abort, Forget, Incr
  <2> QED
    BY <2>1, <2>2, LeavingKeepsBooks
<1>6. ASSUME NEW m \in Message, Send(m) PROVE BooksMatchAnswers'
  BY <1>0, <1>6 DEF Send
<1>7. ASSUME NEW m \in Message, LoanWorkerTakes(m) PROVE BooksMatchAnswers'
  BY <1>0, <1>7 DEF LoanWorkerTakes
<1>8. ASSUME NEW c \in Consumer, NEW m \in Message, Deliver(c, m) PROVE BooksMatchAnswers'
  BY <1>0, <1>8 DEF Deliver
<1>9. ASSUME NEW c \in Consumer, NEW m \in Message, Take(c, m) PROVE BooksMatchAnswers'
  <2>1. Quiet
    BY <1>9 DEF Take
  <2> QED
    BY <1>0, <2>1
<1>10. ASSUME NEW c \in Consumer, NEW m \in Message, PostTask(c, m) PROVE BooksMatchAnswers'
  BY <1>10, PostingKeepsBooks DEF PostTask
<1>11. ASSUME NEW c \in Consumer, NEW m \in Message, Again(c, m) PROVE BooksMatchAnswers'
  <2>1. Quiet
    BY <1>11 DEF Again
  <2> QED
    BY <1>0, <2>1
<1>12. ASSUME NEW c \in Consumer, NEW m \in Message, GiveUp(c, m) PROVE BooksMatchAnswers'
  <2>1. Quiet
    BY <1>12 DEF GiveUp
  <2> QED
    BY <1>0, <2>1
<1>13. ASSUME NEW c \in Consumer, NEW m \in Message, PublishCopy(c, m) PROVE BooksMatchAnswers'
  <2>1. Quiet
    BY <1>13 DEF PublishCopy
  <2> QED
    BY <1>0, <2>1
<1>14. ASSUME NEW c \in Consumer, NEW m \in Message, Nack(c, m) PROVE BooksMatchAnswers'
  <2>1. /\ task[c] = {m} /\ task'[c] = {} /\ c \in Actor /\ m \in Posting
        /\ \A b \in Actor \ {c} : task'[b] = task[b] /\ pc'[b] = pc[b]
        /\ UNCHANGED transactions
    BY <1>14 DEF Nack
  <2>2. \A q \in Posting : told'[q] + doubted'[q] = told[q] + doubted[q]
                                                 + (IF q = m /\ pc[c] = "posted" THEN 1 ELSE 0)
    BY <1>14 DEF Nack, Forget, Incr
  <2> QED
    BY <2>1, <2>2, LeavingKeepsBooks
<1>15. ASSUME NEW c \in Consumer, NEW m \in Message, Ack(c, m) PROVE BooksMatchAnswers'
  <2>1. /\ task[c] = {m} /\ task'[c] = {} /\ c \in Actor /\ m \in Posting
        /\ \A b \in Actor \ {c} : task'[b] = task[b] /\ pc'[b] = pc[b]
        /\ UNCHANGED transactions
    BY <1>15 DEF Ack
  <2>2. \A q \in Posting : told'[q] + doubted'[q] = told[q] + doubted[q]
                                                 + (IF q = m /\ pc[c] = "posted" THEN 1 ELSE 0)
    <3>1. told' = Incr(told, m) /\ doubted' = doubted /\ pc[c] = "posted"
      BY <1>15 DEF Ack
    <3> QED
      BY <2>1, <3>1, IncrAdds
  <2> QED
    BY <2>1, <2>2, LeavingKeepsBooks
<1>16. ASSUME NEW c \in Consumer, NEW m \in Message, FindClosed(c, m) PROVE BooksMatchAnswers'
  <2>1. /\ task[c] = {m} /\ task'[c] = {} /\ c \in Actor /\ m \in Posting
        /\ \A b \in Actor \ {c} : task'[b] = task[b] /\ pc'[b] = pc[b]
        /\ UNCHANGED transactions
    BY <1>16 DEF FindClosed
  <2>2. \A q \in Posting : told'[q] + doubted'[q] = told[q] + doubted[q]
                                                 + (IF q = m /\ pc[c] = "posted" THEN 1 ELSE 0)
    <3>1. told' = told /\ doubted' = IF pc[c] = "posted" THEN Incr(doubted, m) ELSE doubted
      BY <1>16 DEF FindClosed, Forget
    <3>2. CASE pc[c] = "posted"
      BY <2>1, <3>1, <3>2, IncrAdds
    <3>3. CASE pc[c] # "posted"
      BY <3>1, <3>3
    <3> QED
      BY <3>2, <3>3
  <2> QED
    BY <2>1, <2>2, LeavingKeepsBooks
<1>17. ASSUME NEW c \in Consumer, Disconnect(c) PROVE BooksMatchAnswers'
  BY <1>0, <1>17 DEF Disconnect
<1>18. ASSUME NEW c \in Consumer, Crash(c) PROVE BooksMatchAnswers'
  <2>3. PICK m \in task[c] : Forget(c, m)
    BY <1>18 DEF Crash
  <2>4. task[c] = {m} /\ m \in Posting
    BY <2>3 DEF Shape
  <2>5. /\ task[c] = {m} /\ task'[c] = {} /\ c \in Actor /\ m \in Posting
        /\ \A b \in Actor \ {c} : task'[b] = task[b] /\ pc'[b] = pc[b]
        /\ UNCHANGED transactions
    BY <1>18, <2>3, <2>4 DEF Crash
  <2>6. \A q \in Posting : told'[q] + doubted'[q] = told[q] + doubted[q]
                                                 + (IF q = m /\ pc[c] = "posted" THEN 1 ELSE 0)
    BY <1>18, <2>3, <2>4 DEF Crash, Forget, Incr
  <2> QED
    BY <2>5, <2>6, LeavingKeepsBooks
<1>19. CASE UNCHANGED vars
  BY <1>0, <1>19 DEF vars
<1> QED
  BY <1>1, <1>2, <1>3, <1>4, <1>5, <1>6, <1>7, <1>8, <1>9, <1>10, <1>11, <1>12, <1>13, <1>14,
     <1>15, <1>16, <1>17, <1>18, <1>19 DEF Next, ApiStep, Api, Handle

\* The transactions of a posting are the successes that were acknowledged, those that are
\* about to be, and the commits that a fault hid.
THEOREM BooksAreAnswered == Spec => []BooksMatchAnswers
<1>1. Init => BooksMatchAnswers
  <2> SUFFICES ASSUME Init, NEW p \in Posting
               PROVE  transactions[p] = told[p] + doubted[p] + Cardinality(Unanswered(p))
    BY DEF BooksMatchAnswers
  <2>1. Unanswered(p) = {}
    BY DEF Init, LedgerInit, Unanswered, At
  <2> QED
    BY <2>1, FS_EmptySet DEF Init, LedgerInit
<1> QED
  BY <1>1, ShapeInit, TypeStep, ShapeStep, AnswersStep, PTL DEF Spec

-----------------------------------------------------------------------------
(* The ledger implements the book *)

\* An actor that writes entries has a sound posting, on accounts that exist.
SoundWork ==
  \A a \in Actor : \A p \in task[a] :
    /\ pc[a] \in {"inserted", "writing"} => Valid(p)
    /\ pc[a] = "writing" => AccountsExist(p)

LEMMA SoundWorkStep == TypeOK /\ Shape /\ SoundWork /\ [Next]_vars => SoundWork'
<1> SUFFICES ASSUME TypeOK, Shape, SoundWork, [Next]_vars PROVE SoundWork'
  OBVIOUS
<1> DEFINE Elsewhere == /\ accounts \subseteq accounts'
                        /\ \A a \in Actor : \/ UNCHANGED <<pc[a], task[a]>>
                                            \/ pc'[a] \notin {"inserted", "writing"}
<1>0. Elsewhere => SoundWork'
  BY DEF SoundWork, AccountsExist
<1> USE ConsumerAssumption, ActorAssumption
    DEF TypeOK, books, work, record, ledgerVars, Goto, Leave, At
<1>1. ASSUME NEW a \in Actor, NEW p \in Posting, Post(a, p) PROVE SoundWork'
  <2> USE <1>1 DEF SoundWork, AccountsExist
  <2>1. CASE CreateTransaction(a, p)
    BY <2>1 DEF CreateTransaction
  <2>2. CASE VerifyAccounts(a, p)
    BY <2>2 DEF VerifyAccounts
  <2>3. CASE CreateEntry(a, p)
    BY <2>3 DEF CreateEntry
  <2>4. CASE Commit(a, p)
    BY <2>4 DEF Commit, Publish
  <2>5. CASE CommitUnknown(a, p)
    BY <2>5 DEF CommitUnknown, Publish
  <2>6. CASE Fail(a, p)
    BY <2>6 DEF Fail
  <2> QED
    BY <2>1, <2>2, <2>3, <2>4, <2>5, <2>6 DEF Post
<1>2. CASE \E x \in Account : CreateAccount(x)
  BY <1>0, <1>2 DEF CreateAccount
<1>3. CASE \E a \in Caller, p \in Asked : Request(a, p) \/ Answer(a, p) \/ Abort(a, p)
  <2>1. Elsewhere
    BY <1>3 DEF Request, Answer, Abort
  <2> QED
    BY <1>0, <2>1
<1>4. CASE \E m \in Message : Send(m) \/ LoanWorkerTakes(m) \/ \E c \in Consumer : Deliver(c, m)
  BY <1>0, <1>4 DEF Send, LoanWorkerTakes, Deliver
<1>5. ASSUME NEW c \in Consumer, NEW m \in Message, Handle(c, m) PROVE SoundWork'
  <2>1. CASE PostTask(c, m)
    BY <1>1, <2>1 DEF PostTask
  <2>2. CASE ~PostTask(c, m)
    <3>1. Elsewhere
      BY <1>5, <2>2 DEF Handle, Take, Again, GiveUp, PublishCopy, Nack, Ack, FindClosed
    <3> QED
      BY <1>0, <3>1
  <2> QED
    BY <2>1, <2>2
<1>6. CASE \E c \in Consumer : Disconnect(c) \/ Crash(c)
  <2>1. Elsewhere
    BY <1>6 DEF Disconnect, Crash
  <2> QED
    BY <1>0, <2>1
<1>7. CASE UNCHANGED vars
  BY <1>0, <1>7 DEF vars
<1> QED
  BY <1>1, <1>2, <1>3, <1>4, <1>5, <1>6, <1>7 DEF Next, ApiStep, Api

\* The books change by whole, sound postings and by new accounts.
LEMMA StepFollowsBook ==
  TypeOK /\ SoundWork /\ [Next]_vars => [TheBook!Next]_<<accounts, transactions, entries>>
<1> SUFFICES ASSUME TypeOK, SoundWork, [Next]_vars
             PROVE  TheBook!Next \/ UNCHANGED <<accounts, transactions, entries>>
  OBVIOUS
<1> USE DEF books, ledgerVars
<1>1. ASSUME NEW a \in Actor, NEW p \in Posting, Post(a, p)
      PROVE  TheBook!Next \/ UNCHANGED <<accounts, transactions, entries>>
  <2>1. CASE Publish(a, p) /\ pc[a] = "writing" /\ written[a] = Len(Lines[p])
    <3>1. Valid(p) /\ AccountsOf(p) \subseteq accounts
      BY <1>1, <2>1, PostEffect DEF SoundWork, AccountsExist
    <3>2. \A i \in DOMAIN Lines[p] : i <= written[a]
      BY <2>1, LinesAssumption
    <3>3. entries' = [entries EXCEPT ![p] = [i \in DOMAIN Lines[p] |-> entries[p][i] + 1]]
      BY <2>1, <3>2 DEF Publish
    <3> QED
      BY <2>1, <3>1, <3>3 DEF TheBook!Next, TheBook!Record, Publish, Incr
  <2>2. CASE UNCHANGED <<transactions, entries, doubted>>
    BY <1>1, <2>2, PostEffect
  <2> QED
    BY <1>1, <2>1, <2>2, PostEffect
<1>2. CASE \E x \in Account : CreateAccount(x)
  BY <1>2 DEF CreateAccount, TheBook!Next, TheBook!Open
<1>3. CASE \E a \in Caller, p \in Asked : Request(a, p) \/ Answer(a, p) \/ Abort(a, p)
  BY <1>3 DEF Request, Answer, Abort
<1>4. CASE \E m \in Message : Send(m) \/ LoanWorkerTakes(m) \/ \E c \in Consumer : Deliver(c, m)
  BY <1>4 DEF Send, LoanWorkerTakes, Deliver
<1>5. ASSUME NEW c \in Consumer, NEW m \in Message, Handle(c, m)
      PROVE  TheBook!Next \/ UNCHANGED <<accounts, transactions, entries>>
  BY <1>1, <1>5, ConsumerAssumption DEF Handle, Take, PostTask, Again, GiveUp, PublishCopy, Nack, Ack, FindClosed
<1>6. CASE \E c \in Consumer : Disconnect(c) \/ Crash(c)
  BY <1>6 DEF Disconnect, Crash
<1>7. CASE UNCHANGED vars
  BY <1>7 DEF vars
<1> QED
  BY <1>1, <1>2, <1>3, <1>4, <1>5, <1>6, <1>7, ActorAssumption DEF Next, ApiStep, Api

\* Statement by statement, with every failure, retry and redelivery, the ledger only ever
\* records whole and sound postings.
THEOREM BookIsImplemented == Spec => ImplementsBook
<1>1. Init => TheBook!Init
  BY DEF Init, LedgerInit, TheBook!Init
<1>2. Init => SoundWork
  BY DEF Init, LedgerInit, SoundWork
<1> QED
  BY <1>1, <1>2, ShapeInit, TypeStep, ShapeStep, SoundWorkStep, StepFollowsBook, PTL
     DEF Spec, ImplementsBook, TheBook!Spec

\* Every line of a posting is in the books as often as its transaction: no call, whatever
\* statement of it failed, left half a transaction behind.
THEOREM TransactionsAreWhole == Spec => []WholeTransactions
<1>1. Init => WholeTransactions
  BY LinesAssumption DEF Init, LedgerInit, WholeTransactions
<1>2. TypeOK /\ WholeTransactions /\ [TheBook!Next]_<<accounts, transactions, entries>>
        => WholeTransactions'
  <2> SUFFICES ASSUME TypeOK, WholeTransactions, NEW p \in Posting, TheBook!Record(p)
               PROVE  WholeTransactions'
    BY DEF TheBook!Next, TheBook!Open, WholeTransactions
  <2>1. ASSUME NEW q \in Posting, NEW i \in DOMAIN Lines[q] PROVE entries'[q][i] = transactions'[q]
    <3>1. CASE q = p
      BY <2>1, <3>1 DEF TheBook!Record, WholeTransactions, TypeOK
    <3>2. CASE q # p
      BY <2>1, <3>2 DEF TheBook!Record, WholeTransactions, TypeOK
    <3> QED
      BY <3>1, <3>2
  <2> QED
    BY <2>1 DEF WholeTransactions
<1>3. Init => SoundWork
  BY DEF Init, LedgerInit, SoundWork
<1> QED
  BY <1>1, <1>2, <1>3, ShapeInit, TypeStep, ShapeStep, SoundWorkStep, StepFollowsBook, PTL DEF Spec

-----------------------------------------------------------------------------
(* Debits equal credits *)

\* A posting has finitely many lines.
LEMMA SideIsFinite ==
  ASSUME NEW p \in Posting, NEW side
  PROVE  IsFiniteSet(OfSide(p, side)) /\ OfSide(p, side) \subseteq DOMAIN Lines[p]
<1>1. IsFiniteSet(1..Len(Lines[p])) /\ DOMAIN Lines[p] = 1..Len(Lines[p])
  BY LinesAssumption, FS_Interval
<1> QED
  BY <1>1, FS_Subset DEF OfSide

\* Amounts are integers.
LEMMA AmountIsInt == ASSUME NEW p \in Posting PROVE \A i \in DOMAIN Lines[p] : Lines[p][i].amount \in Int
<1>1. Lines[p] \in Seq(Line)
  BY LinesAssumption
<1>2. \A i \in DOMAIN Lines[p] : Lines[p][i] \in Line
  <2> DEFINE s == Lines[p]
  <2>1. s \in Seq(Line)
    BY <1>1
  <2> HIDE DEF s
  <2>2. \A i \in DOMAIN s : s[i] \in Line
    BY <2>1
  <2> QED
    BY <2>2 DEF s
<1> QED
  BY <1>2 DEF Line

\* The amounts of a sound posting are positive, so that its totals are naturals; below the
\* limit of an int64 they do not wrap, and are equal when the code finds them equal.
LEMMA SoundTotals ==
  ASSUME NEW p \in Fitting, Valid(p)
  PROVE  /\ \A side : Total(p, side) \in Nat
         /\ Total(p, "debit") = Total(p, "credit")
<1>1. ASSUME NEW side PROVE Total(p, side) \in Nat
  <2> DEFINE f == [i \in DOMAIN Lines[p] |-> Lines[p][i].amount]
  <2>1. \A i \in OfSide(p, side) : f[i] \in Nat
    BY SideIsFinite, AmountIsInt DEF Valid, Fitting
  <2>2. IsFiniteSet(OfSide(p, side))
    BY SideIsFinite DEF Fitting
  <2> HIDE DEF f
  <2>3. SumFunctionOnSet(f, OfSide(p, side)) \in Nat
    BY <2>1, <2>2, SumOfNats
  <2> QED
    BY <2>3 DEF Total, f
<1>2. ASSUME NEW n \in Nat, n < Word PROVE Wrap(n) = n
  BY <1>2, WordAssumption DEF Wrap
<1>3. Total(p, "debit") < Word /\ Total(p, "credit") < Word
  BY DEF Fitting
<1>4. Total(p, "debit") = Total(p, "credit")
  BY <1>1, <1>2, <1>3 DEF Valid
<1> QED
  BY <1>1, <1>4

\* What a whole posting contributes to a side is its total, once per transaction.
LEMMA AmountIsTotal ==
  ASSUME TypeOK, WholeTransactions, NEW p \in Fitting, Valid(p), NEW side
  PROVE  Amount(p, side) = Total(p, side) * transactions[p]
<1> DEFINE f == [i \in DOMAIN Lines[p] |-> Lines[p][i].amount * entries[p][i]]
           g == [i \in DOMAIN Lines[p] |-> Lines[p][i].amount]
<1>1. \A i \in OfSide(p, side) : g[i] \in Nat /\ f[i] = g[i] * transactions[p]
  <2>1. \A i \in DOMAIN Lines[p] : Lines[p][i].amount \in Nat /\ entries[p][i] = transactions[p]
    BY AmountIsInt DEF Valid, Fitting, WholeTransactions
  <2> QED
    BY <2>1, SideIsFinite DEF Fitting
<1>2. IsFiniteSet(OfSide(p, side)) /\ transactions[p] \in Nat
  BY SideIsFinite DEF Fitting, TypeOK
<1> HIDE DEF f, g
<1>3. SumFunctionOnSet(f, OfSide(p, side)) = SumFunctionOnSet(g, OfSide(p, side)) * transactions[p]
  BY <1>1, <1>2, SumOfMultiples
<1> QED
  BY <1>3 DEF Amount, Total, f, g

\* A posting that is not sound has nothing in the books.
LEMMA AmountIsNone ==
  ASSUME WholeTransactions, NEW p \in Posting, transactions[p] = 0, NEW side
  PROVE  Amount(p, side) = 0
<1> DEFINE f == [i \in DOMAIN Lines[p] |-> Lines[p][i].amount * entries[p][i]]
           g == [i \in DOMAIN Lines[p] |-> 0]
<1>1. \A i \in OfSide(p, side) : g[i] \in Nat /\ f[i] = g[i] * 0
  <2>1. \A i \in DOMAIN Lines[p] : Lines[p][i].amount \in Int /\ entries[p][i] = 0
    BY AmountIsInt DEF WholeTransactions
  <2>2. \A n \in Int : n * 0 = 0
    OBVIOUS
  <2> QED
    BY <2>1, <2>2, SideIsFinite
<1>2. IsFiniteSet(OfSide(p, side)) /\ \A i \in OfSide(p, side) : g[i] \in Nat
  BY SideIsFinite
<1> HIDE DEF f, g
<1>3. SumFunctionOnSet(f, OfSide(p, side)) = SumFunctionOnSet(g, OfSide(p, side)) * 0
  BY <1>1, <1>2, SumOfMultiples
<1>4. SumFunctionOnSet(g, OfSide(p, side)) \in Nat
  BY <1>2, SumOfNats
<1> QED
  BY <1>3, <1>4 DEF Amount, f

\* Only sound postings are in the books: the book's promise, as an invariant.
RecordedIsSound == \A p \in Posting : transactions[p] > 0 => Valid(p)

\* Over all accounts debits equal credits, whatever call failed at whatever statement.
THEOREM DoubleEntry == Spec => []DebitsEqualCredits
<1>1. Init => RecordedIsSound
  BY DEF Init, LedgerInit, RecordedIsSound
<1>2. TypeOK /\ RecordedIsSound /\ [TheBook!Next]_<<accounts, transactions, entries>>
        => RecordedIsSound'
  BY DEF TypeOK, RecordedIsSound, TheBook!Next, TheBook!Open, TheBook!Record
<1>3. TypeOK /\ WholeTransactions /\ RecordedIsSound => DebitsEqualCredits
  <2> SUFFICES ASSUME TypeOK, WholeTransactions, RecordedIsSound
               PROVE  [p \in Fitting |-> Amount(p, "debit")] = [p \in Fitting |-> Amount(p, "credit")]
    BY DEF DebitsEqualCredits, Booked
  <2> SUFFICES ASSUME NEW p \in Fitting PROVE Amount(p, "debit") = Amount(p, "credit")
    OBVIOUS
  <2>1. p \in Posting /\ transactions[p] \in Nat
    BY DEF Fitting, TypeOK
  <2>2. CASE transactions[p] = 0
    BY <2>1, <2>2, AmountIsNone
  <2>3. CASE transactions[p] > 0
    <3>1. Valid(p)
      BY <2>1, <2>3 DEF RecordedIsSound
    <3> QED
      BY <3>1, AmountIsTotal, SoundTotals
  <2> QED
    BY <2>1, <2>2, <2>3
<1>4. Init => SoundWork
  BY DEF Init, LedgerInit, SoundWork
<1> QED
  BY <1>1, <1>2, <1>3, <1>4, TransactionsAreWhole, ShapeInit, TypeStep, ShapeStep, SoundWorkStep,
     StepFollowsBook, PTL DEF Spec

-----------------------------------------------------------------------------
(* No command is lost *)

\* What a process is about to acknowledge is in the books.
PostedIsThere == \A c \in Consumer : pc[c] = "posted" => \A m \in task[c] : transactions[m] > 0

\* Rows are never deleted and letters stay dead.
LEMMA OutcomesStay ==
  ASSUME TypeOK, Shape, [Next]_vars
  PROVE  /\ \A p \in Posting : transactions'[p] >= transactions[p]
         /\ \A m \in Message : dead'[m] >= dead[m]
         /\ handled \subseteq handled'
<1> USE ConsumerAssumption, ActorAssumption
    DEF TypeOK, books, record, ledgerVars, queue, fate, Incr
<1>1. ASSUME NEW a \in Actor, NEW p \in Posting, Post(a, p), UNCHANGED <<dead, handled>>
      PROVE  /\ \A q \in Posting : transactions'[q] >= transactions[q]
             /\ \A m \in Message : dead'[m] >= dead[m]
             /\ handled \subseteq handled'
  <2>1. UNCHANGED transactions \/ transactions' = Incr(transactions, p)
    BY <1>1, PostEffect DEF Publish
  <2> QED
    BY <1>1, <2>1
<1>2. CASE \E x \in Account : CreateAccount(x) /\ UNCHANGED <<queue, tries, fate>>
  BY <1>2 DEF CreateAccount
<1>3. CASE \E a \in Caller, p \in Asked : /\ Request(a, p) \/ Answer(a, p) \/ Abort(a, p)
                                        /\ UNCHANGED <<queue, tries, fate>>
  BY <1>3 DEF Request, Answer, Abort
<1>4. CASE \E m \in Message : Send(m) \/ LoanWorkerTakes(m) \/ \E c \in Consumer : Deliver(c, m)
  BY <1>4 DEF Send, LoanWorkerTakes, Deliver
<1>5. CASE \E c \in Consumer, m \in Message : Handle(c, m)
  BY <1>1, <1>5 DEF Handle, Take, PostTask, Again, GiveUp, PublishCopy, Nack, Ack, FindClosed
<1>6. CASE \E c \in Consumer : Disconnect(c) \/ Crash(c)
  BY <1>6 DEF Disconnect, Crash, Redeliver
<1>7. CASE UNCHANGED vars
  BY <1>7 DEF vars
<1> QED
  BY <1>1, <1>2, <1>3, <1>4, <1>5, <1>6, <1>7 DEF Next, ApiStep, Api

LEMMA PostedIsThereStep == TypeOK /\ Shape /\ PostedIsThere /\ [Next]_vars => PostedIsThere'
<1> SUFFICES ASSUME TypeOK, Shape, PostedIsThere, [Next]_vars PROVE PostedIsThere'
  OBVIOUS
<1> DEFINE Elsewhere == \A c \in Consumer : UNCHANGED <<pc[c], task[c]>> \/ pc'[c] # "posted"
<1>8. TypeOK'
  BY TypeStep
<1>9. \A c \in Consumer : \A m \in task[c] : m \in Posting /\ transactions'[m] >= transactions[m]
  BY OutcomesStay, ConsumerAssumption DEF Shape
<1>0. Elsewhere => PostedIsThere'
  BY <1>8, <1>9, ConsumerAssumption, ActorAssumption DEF PostedIsThere, TypeOK
<1> USE ConsumerAssumption, ActorAssumption
    DEF TypeOK, books, work, record, ledgerVars, Goto, Leave, At
<1>1. ASSUME NEW a \in Actor, NEW p \in Posting, Post(a, p) PROVE PostedIsThere'
  <2>1. CASE pc'[a] = "posted"
    <3>1. transactions'[p] > 0 /\ task[a] = {p}
      BY <1>1, <2>1, PostEffect DEF Publish, Incr
    <3>2. \A b \in Actor \ {a} : pc'[b] = pc[b] /\ task'[b] = task[b]
      BY <1>1, PostEffect
    <3>3. task'[a] = {p}
      BY <1>1, <3>1, PostEffect
    <3>5. ASSUME NEW c \in Consumer, pc'[c] = "posted", NEW m \in task'[c] PROVE transactions'[m] > 0
      <4>1. CASE c = a
        BY <3>1, <3>3, <3>5, <4>1
      <4>2. CASE c # a
        BY <1>8, <1>9, <3>2, <3>5, <4>2 DEF PostedIsThere
      <4> QED
        BY <4>1, <4>2
    <3> QED
      BY <3>5 DEF PostedIsThere
  <2>2. CASE pc'[a] # "posted"
    <3>1. Elsewhere
      BY <1>1, <2>2, PostEffect
    <3> QED
      BY <1>0, <3>1
  <2> QED
    BY <2>1, <2>2
<1>2. CASE \E x \in Account : CreateAccount(x)
  BY <1>0, <1>2 DEF CreateAccount
<1>3. CASE \E a \in Caller, p \in Asked : Request(a, p) \/ Answer(a, p) \/ Abort(a, p)
  <2>1. Elsewhere
    BY <1>3 DEF Request, Answer, Abort
  <2> QED
    BY <1>0, <2>1
<1>4. CASE \E m \in Message : Send(m) \/ LoanWorkerTakes(m) \/ \E c \in Consumer : Deliver(c, m)
  BY <1>0, <1>4 DEF Send, LoanWorkerTakes, Deliver
<1>5. ASSUME NEW c \in Consumer, NEW m \in Message, Handle(c, m) PROVE PostedIsThere'
  <2>1. CASE PostTask(c, m)
    BY <1>1, <2>1 DEF PostTask
  <2>2. CASE ~PostTask(c, m)
    <3>1. Elsewhere
      BY <1>5, <2>2 DEF Handle, Take, Again, GiveUp, PublishCopy, Nack, Ack, FindClosed
    <3> QED
      BY <1>0, <3>1
  <2> QED
    BY <2>1, <2>2
<1>6. CASE \E c \in Consumer : Disconnect(c) \/ Crash(c)
  <2>1. Elsewhere
    BY <1>6 DEF Disconnect, Crash
  <2> QED
    BY <1>0, <2>1
<1>7. CASE UNCHANGED vars
  BY <1>0, <1>7 DEF vars
<1> QED
  BY <1>1, <1>2, <1>3, <1>4, <1>5, <1>6, <1>7 DEF Next, ApiStep, Api

LEMMA NothingIsLostStep ==
  TypeOK /\ Shape /\ PostedIsThere /\ NothingIsLost /\ [Next]_vars => NothingIsLost'
<1> SUFFICES ASSUME TypeOK, Shape, PostedIsThere, NothingIsLost, [Next]_vars PROVE NothingIsLost'
  OBVIOUS
<1> DEFINE Somewhere(m) == m \in ready \/ \E c \in Consumer : m \in Held(c)
           Ended(m) == transactions[m] > 0 \/ dead[m] > 0 \/ m \in handled
           Kept == \A m \in sent' : Ended(m)' \/ Somewhere(m)' \/ (m \in sent /\ ~Somewhere(m))
<1>1. Kept => NothingIsLost'
  <2>1. TypeOK'
    BY TypeStep
  <2>2. ASSUME NEW m \in sent, Ended(m) PROVE Ended(m)'
    BY <2>1, <2>2, OutcomesStay, ConsumerAssumption DEF TypeOK
  <2>3. \A m \in sent : Somewhere(m) \/ Ended(m)
    BY DEF NothingIsLost
  <2>4. Kept => \A m \in sent' : Somewhere(m)' \/ Ended(m)'
    BY <2>2, <2>3
  <2> QED
    BY <2>4 DEF NothingIsLost
<1> SUFFICES Kept
  BY <1>1
<1> USE ConsumerAssumption, ActorAssumption
    DEF TypeOK, Shape, Held, books, work, record, ledgerVars, queue, fate, Goto, Leave, At
<1>2. ASSUME NEW a \in Actor, NEW p \in Posting, Post(a, p), UNCHANGED queue PROVE Kept
  BY <1>2, PostEffect
<1>3. CASE UNCHANGED queue /\ \E x \in Account : CreateAccount(x)
  BY <1>3 DEF CreateAccount
<1>4. CASE UNCHANGED queue /\ \E a \in Caller, p \in Asked : Request(a, p) \/ Answer(a, p) \/ Abort(a, p)
  <2>1. UNCHANGED queue /\ \A c \in Consumer : task'[c] = task[c]
    BY <1>4 DEF Request, Answer, Abort
  <2> QED
    BY <2>1
<1>5. ASSUME NEW m \in Message, Send(m) PROVE Kept
  BY <1>5 DEF Send
<1>6. ASSUME NEW m \in Message, LoanWorkerTakes(m) PROVE Kept
  BY <1>6 DEF LoanWorkerTakes, Incr
<1>7. ASSUME NEW c \in Consumer, NEW m \in Message, Deliver(c, m) PROVE Kept
  <2>1. \A d \in Consumer : Held(d) \subseteq Held(d)'
    BY <1>7 DEF Deliver
  <2>2. m \in Held(c)' /\ ready \subseteq ready' \cup {m} /\ sent' = sent
    BY <1>7 DEF Deliver
  <2> HIDE DEF Held
  <2> QED
    BY <2>1, <2>2
<1>8. ASSUME NEW c \in Consumer, NEW m \in Message, Take(c, m) PROVE Kept
  <2>1. c \notin cut /\ task'[c] = {m}
    BY <1>8 DEF Take
  <2>2. Held(c) \subseteq Held(c)'
    BY <1>8, <2>1 DEF Take
  <2>3. \A d \in Consumer \ {c} : Held(d) \subseteq Held(d)'
    BY <1>8 DEF Take
  <2>4. ready' = ready /\ sent' = sent
    BY <1>8 DEF Take
  <2> HIDE DEF Held
  <2> QED
    BY <2>2, <2>3, <2>4
<1>9. ASSUME NEW c \in Consumer, NEW m \in Message, Again(c, m) \/ GiveUp(c, m) \/ PublishCopy(c, m)
      PROVE  Kept
  BY <1>9 DEF Again, GiveUp, PublishCopy
<1>10. ASSUME NEW c \in Consumer, NEW m \in Message, Nack(c, m) PROVE Kept
  BY <1>10 DEF Nack, Incr
<1>11. ASSUME NEW c \in Consumer, NEW m \in Message, Ack(c, m) PROVE Kept
  <2>1. \A d \in Consumer : Held(d) \subseteq Held(d)' \cup {m}
    BY <1>11 DEF Ack
  <2>2. UNCHANGED <<sent, ready, transactions>>
    BY <1>11 DEF Ack
  <2>3. Ended(m)'
    BY <1>11, <2>2 DEF Ack, PostedIsThere
  <2> HIDE DEF Held
  <2> QED
    BY <2>1, <2>2, <2>3
<1>12. ASSUME NEW c \in Consumer, NEW m \in Message, FindClosed(c, m) PROVE Kept
  <2>1. Held(c) = {}
    BY <1>12 DEF FindClosed
  <2>2. \A d \in Consumer \ {c} : Held(d) \subseteq Held(d)'
    BY <1>12 DEF FindClosed
  <2>3. UNCHANGED <<sent, ready>>
    BY <1>12 DEF FindClosed
  <2> HIDE DEF Held
  <2> QED
    BY <2>1, <2>2, <2>3
<1>13. ASSUME NEW c \in Consumer, Disconnect(c) PROVE Kept
  BY <1>13 DEF Disconnect, Redeliver
<1>14. ASSUME NEW c \in Consumer, Crash(c) PROVE Kept
  BY <1>14 DEF Crash, Redeliver
<1>15. CASE UNCHANGED vars
  BY <1>15 DEF vars
<1> QED
  BY <1>2, <1>3, <1>4, <1>5, <1>6, <1>7, <1>8, <1>9, <1>10, <1>11, <1>12, <1>13, <1>14, <1>15
     DEF Next, ApiStep, Api, Handle, PostTask

\* A command that was sent is in the queue, with a process, in the books, dead-lettered or
\* handled by the loan worker, whatever crashes and whatever channel closes.
THEOREM NoCommandIsLost == Spec => []NothingIsLost
<1>1. Init => PostedIsThere /\ NothingIsLost
  BY ConsumerAssumption DEF Init, LedgerInit, PostedIsThere, NothingIsLost
<1> QED
  BY <1>1, ShapeInit, TypeStep, ShapeStep, PostedIsThereStep, NothingIsLostStep, PTL DEF Spec

-----------------------------------------------------------------------------
(* Every command has one outcome *)

\* A message that was never delivered again is in one place at most.
PlacedOnce ==
  \A m \in Message \ redone :
    /\ m \notin sent => m \notin ready /\ \A c \in Consumer : m \notin inbox[c] \cup task[c]
    /\ m \in ready => \A c \in Consumer : m \notin inbox[c] \cup task[c]
    /\ \A c, d \in Consumer : m \in inbox[c] => m \notin task[d] /\ (m \in inbox[d] => d = c)
    /\ \A c, d \in Consumer : m \in task[c] \cap task[d] => c = d

LEMMA PlacedOnceStep == TypeOK /\ Shape /\ PlacedOnce /\ [Next]_vars => PlacedOnce'
<1> SUFFICES ASSUME TypeOK, Shape, PlacedOnce, [Next]_vars PROVE PlacedOnce'
  OBVIOUS
<1> DEFINE Unmoved == /\ UNCHANGED <<sent, ready, inbox>>
                      /\ \A c \in Consumer : task'[c] \subseteq task[c]
                      /\ redone \subseteq redone'
<1>0. Unmoved => PlacedOnce'
  <2> HIDE DEF PlacedOnce
  <2> QED
    BY DEF PlacedOnce
<1> USE ConsumerAssumption, ActorAssumption
    DEF TypeOK, Shape, books, work, record, ledgerVars, queue, fate, Goto, Leave, At
<1>1. CASE ApiStep
  <2>1. ASSUME NEW a \in Caller, NEW p \in Asked, Post(a, p) PROVE task' = task
    BY <2>1, PostEffect
  <2>2. ASSUME NEW a \in Caller, NEW p \in Asked, Request(a, p) \/ Answer(a, p) \/ Abort(a, p)
        PROVE  \A c \in Consumer : task'[c] = task[c]
    BY <2>2 DEF Request, Answer, Abort
  <2>3. ASSUME NEW x \in Account, CreateAccount(x) PROVE task' = task
    BY <2>3 DEF CreateAccount
  <2>4. Unmoved
    BY <1>1, <2>1, <2>2, <2>3 DEF ApiStep, Api
  <2> QED
    BY <1>0, <2>4
<1>2. ASSUME NEW m \in Message, Send(m) PROVE PlacedOnce'
  BY <1>2 DEF Send, PlacedOnce
<1>3. ASSUME NEW m \in Message, LoanWorkerTakes(m) PROVE PlacedOnce'
  BY <1>3 DEF LoanWorkerTakes, PlacedOnce
<1>4. ASSUME NEW c \in Consumer, NEW m \in Message, Deliver(c, m) PROVE PlacedOnce'
  BY <1>4 DEF Deliver, PlacedOnce
<1>5. ASSUME NEW c \in Consumer, NEW m \in Message, Take(c, m) PROVE PlacedOnce'
  BY <1>5 DEF Take, PlacedOnce
<1>6. ASSUME NEW c \in Consumer, NEW m \in Message, PostTask(c, m) PROVE PlacedOnce'
  <2>1. Unmoved
    BY <1>6, PostEffect DEF PostTask
  <2> QED
    BY <1>0, <2>1
<1>7. ASSUME NEW c \in Consumer, NEW m \in Message, Handle(c, m), ~Take(c, m), ~PostTask(c, m)
      PROVE  PlacedOnce'
  <2>1. Unmoved
    BY <1>7 DEF Handle, Again, GiveUp, PublishCopy, Nack, Ack, FindClosed
  <2> QED
    BY <1>0, <2>1
<1>8. ASSUME NEW c \in Consumer, Disconnect(c) \/ Crash(c) PROVE PlacedOnce'
  <2>1. /\ ready' = ready \cup Held(c) /\ redone' = redone \cup Held(c) /\ sent' = sent
        /\ inbox' = [inbox EXCEPT ![c] = {}]
    BY <1>8 DEF Disconnect, Crash, Redeliver
  <2>2. \A d \in Consumer : inbox'[d] \subseteq inbox[d]
    BY <2>1
  <2>3. task' = task \/ task' = [task EXCEPT ![c] = {}]
    BY <1>8 DEF Disconnect, Crash
  <2>4. \A d \in Consumer : task'[d] \subseteq task[d]
    BY <2>3
  <2> QED
    BY <2>1, <2>2, <2>4 DEF PlacedOnce
<1>9. CASE UNCHANGED vars
  BY <1>0, <1>9 DEF vars
<1> QED
  BY <1>1, <1>2, <1>3, <1>4, <1>5, <1>6, <1>7, <1>8, <1>9 DEF Next, Handle

Untouched(m) == transactions[m] = 0 /\ dead[m] = 0

\* What has become of a message that was never delivered again: nothing before a process
\* is done with it, and then one outcome.
Outcome ==
  \A m \in Message \ redone :
    /\ m \notin sent \/ m \in ready \/ (\E c \in Consumer : m \in inbox[c]) => Untouched(m)
    /\ \A c \in Consumer : m \in task[c] =>
         /\ pc[c] \notin {"posted", "rejecting"} => Untouched(m)
         /\ pc[c] = "posted" => transactions[m] = 1 /\ dead[m] = 0
         /\ pc[c] = "rejecting" => transactions[m] = 0
    /\ transactions[m] + (IF dead[m] > 0 THEN 1 ELSE 0) <= 1

LEMMA OutcomeStep == TypeOK /\ Shape /\ PlacedOnce /\ Outcome /\ [Next]_vars => Outcome'
<1> SUFFICES ASSUME TypeOK, Shape, PlacedOnce, Outcome, [Next]_vars PROVE Outcome'
  OBVIOUS
<1> DEFINE Same(m) == /\ transactions'[m] = transactions[m] /\ dead'[m] = dead[m]
                      /\ m \in sent => m \in sent'
                      /\ m \in ready' => m \in ready
                      /\ \A c \in Consumer : m \in inbox'[c] => m \in inbox[c]
                      /\ \A c \in Consumer : m \in task'[c] =>
                           m \in task[c] /\ (pc'[c] = pc[c] \/ {pc[c], pc'[c]} \cap {"posted", "rejecting"} = {})
<1>0. ASSUME redone \subseteq redone', \A m \in Message \ redone' : Same(m) PROVE Outcome'
  BY <1>0 DEF Outcome, Untouched
<1> USE ConsumerAssumption, ActorAssumption
    DEF TypeOK, Shape, books, work, record, ledgerVars, queue, fate, Goto, Leave, At, Incr
<1>1. CASE ApiStep
  <2>1. ASSUME NEW a \in Caller, NEW p \in Asked, Post(a, p)
        PROVE  \A m \in Message : transactions'[m] = transactions[m]
    <3>1. UNCHANGED transactions \/ transactions' = Incr(transactions, p)
      BY <2>1, PostEffect DEF Publish
    <3>2. p \in Posting /\ p \notin Message
      OBVIOUS
    <3> QED
      BY <3>1, <3>2
  <2>2. ASSUME NEW a \in Caller, NEW p \in Asked, Post(a, p)
        PROVE  \A c \in Consumer : task'[c] = task[c] /\ pc'[c] = pc[c]
    BY <2>2, PostEffect
  <2>3. ASSUME NEW a \in Caller, NEW p \in Asked, Request(a, p) \/ Answer(a, p) \/ Abort(a, p)
        PROVE  /\ \A c \in Consumer : task'[c] = task[c] /\ pc'[c] = pc[c]
               /\ transactions' = transactions
    BY <2>3 DEF Request, Answer, Abort
  <2>4. ASSUME NEW x \in Account, CreateAccount(x)
        PROVE  UNCHANGED <<task, pc, transactions>>
    BY <2>4 DEF CreateAccount
  <2>5. \A m \in Message \ redone' : Same(m)
    BY <1>1, <2>1, <2>2, <2>3, <2>4 DEF ApiStep, Api
  <2> QED
    BY <1>0, <1>1, <2>5 DEF ApiStep
<1>2. ASSUME NEW m \in Message, Send(m) PROVE Outcome'
  BY <1>2 DEF Send, Outcome, Untouched, PlacedOnce
<1>3. ASSUME NEW m \in Message, LoanWorkerTakes(m) PROVE Outcome'
  BY <1>3 DEF LoanWorkerTakes, Outcome, Untouched, PlacedOnce
<1>4. ASSUME NEW c \in Consumer, NEW m \in Message, Deliver(c, m) PROVE Outcome'
  BY <1>4 DEF Deliver, Outcome, Untouched, PlacedOnce
<1>5. ASSUME NEW c \in Consumer, NEW m \in Message, Take(c, m) PROVE Outcome'
  BY <1>5 DEF Take, Outcome, Untouched, PlacedOnce
<1>6. ASSUME NEW c \in Consumer, NEW m \in Message, PostTask(c, m) PROVE Outcome'
  <2> DEFINE Rest == /\ UNCHANGED <<sent, ready, inbox, dead, task>>
                     /\ \A b \in Actor \ {c} : pc'[b] = pc[b]
                     /\ m \in task[c] /\ pc[c] \in {"begun", "inserted", "writing"}
  <2>1. Rest
    BY <1>6, PostEffect DEF PostTask
  <2>2. m \in Posting /\ (Untouched(m) \/ m \in redone)
    BY <2>1 DEF Outcome, Untouched
  <2>3. CASE UNCHANGED <<transactions, doubted>> /\ pc'[c] \in {"inserted", "writing", "failed"}
    <3>1. redone' = redone
      BY <1>6, <2>3 DEF PostTask
    <3>2. \A n \in Message \ redone' : Same(n)
      BY <2>1, <2>3
    <3> QED
      BY <1>0, <3>1, <3>2
  <2>4. CASE transactions' = Incr(transactions, m) /\ pc'[c] = "posted" /\ UNCHANGED doubted
    <3>1. redone' = redone
      BY <1>6, <2>4 DEF PostTask
    <3>2. \A n \in Message \ redone : n # m => Same(n)
      BY <2>1, <2>4
    <3>3. m \notin redone => transactions'[m] = 1 /\ dead'[m] = 0
      BY <2>1, <2>2, <2>4 DEF Untouched
    <3>4. m \notin redone => /\ m \in sent /\ m \notin ready
                             /\ \A d \in Consumer : m \notin inbox[d]
                             /\ \A d \in Consumer : m \in task[d] => d = c
      BY <2>1 DEF PlacedOnce
    <3>5. \A n \in Message \ redone : n # m =>
            /\ n \notin sent \/ n \in ready \/ (\E d \in Consumer : n \in inbox[d]) => Untouched(n)'
            /\ \A d \in Consumer : n \in task[d] =>
                 /\ pc'[d] \notin {"posted", "rejecting"} => Untouched(n)'
                 /\ pc'[d] = "posted" => transactions'[n] = 1 /\ dead'[n] = 0
                 /\ pc'[d] = "rejecting" => transactions'[n] = 0
            /\ transactions'[n] + (IF dead'[n] > 0 THEN 1 ELSE 0) <= 1
      <4> SUFFICES ASSUME NEW n \in Message \ redone, n # m
                   PROVE  /\ n \notin sent \/ n \in ready \/ (\E d \in Consumer : n \in inbox[d])
                               => Untouched(n)'
                          /\ \A d \in Consumer : n \in task[d] =>
                               /\ pc'[d] \notin {"posted", "rejecting"} => Untouched(n)'
                               /\ pc'[d] = "posted" => transactions'[n] = 1 /\ dead'[n] = 0
                               /\ pc'[d] = "rejecting" => transactions'[n] = 0
                          /\ transactions'[n] + (IF dead'[n] > 0 THEN 1 ELSE 0) <= 1
        OBVIOUS
      <4>1. transactions'[n] = transactions[n] /\ dead'[n] = dead[n]
        BY <3>2
      <4>2. \A d \in Consumer : n \in task[d] => d # c /\ pc'[d] = pc[d]
        BY <2>1
      <4> QED
        BY ONLY <4>1, <4>2, Outcome, n \in Message \ redone DEF Outcome, Untouched
    <3> QED
      BY ONLY <2>1, <2>4, <3>1, <3>3, <3>4, <3>5 DEF Outcome, Untouched
  <2>5. CASE transactions' = Incr(transactions, m) /\ doubted' = Incr(doubted, m)
    <3>1. doubted' # doubted
      BY <2>5
    <3>2. redone' = redone \cup {m}
      BY <1>6, <3>1 DEF PostTask
    <3>3. \A n \in Message \ redone' : Same(n)
      BY <2>1, <2>5, <3>2
    <3> QED
      BY <1>0, <3>2, <3>3
  <2> QED
    BY <1>6, <2>3, <2>4, <2>5, PostEffect DEF PostTask, Publish
<1>7. ASSUME NEW c \in Consumer, NEW m \in Message, Again(c, m) \/ GiveUp(c, m) PROVE Outcome'
  <2>1. \A n \in Message \ redone' : Same(n)
    BY <1>7 DEF Again, GiveUp
  <2> QED
    BY <1>0, <1>7, <2>1 DEF Again, GiveUp
<1>8. ASSUME NEW c \in Consumer, NEW m \in Message, PublishCopy(c, m) PROVE Outcome'
  BY <1>8 DEF PublishCopy, Outcome, Untouched, PlacedOnce
<1>9. ASSUME NEW c \in Consumer, NEW m \in Message, Nack(c, m) PROVE Outcome'
  BY <1>9 DEF Nack, Outcome, Untouched, PlacedOnce
<1>10. ASSUME NEW c \in Consumer, NEW m \in Message, Ack(c, m) \/ FindClosed(c, m) PROVE Outcome'
  <2>1. \A n \in Message \ redone' : Same(n)
    BY <1>10 DEF Ack, FindClosed
  <2> QED
    BY <1>0, <1>10, <2>1 DEF Ack, FindClosed
<1>11. ASSUME NEW c \in Consumer, Disconnect(c) \/ Crash(c) PROVE Outcome'
  <2>1. /\ ready' = ready \cup Held(c) /\ redone' = redone \cup Held(c)
        /\ UNCHANGED <<sent, dead, transactions>>
        /\ \A d \in Consumer : inbox'[d] \subseteq inbox[d]
    <3>1. CASE Disconnect(c)
      BY <3>1 DEF Disconnect, Redeliver
    <3>2. CASE Crash(c)
      BY <3>2 DEF Crash, Redeliver
    <3> QED
      BY <1>11, <3>1, <3>2
  <2>2. \A d \in Consumer : task'[d] = {} \/ UNCHANGED <<task[d], pc[d]>>
    BY <1>11 DEF Disconnect, Crash
  <2>3. \A n \in Message \ redone' : Same(n)
    BY <2>1, <2>2
  <2> QED
    BY <1>0, <2>1, <2>3
<1>12. CASE UNCHANGED vars
  BY <1>0, <1>12 DEF vars
<1> QED
  BY <1>1, <1>2, <1>3, <1>4, <1>5, <1>6, <1>7, <1>8, <1>9, <1>10, <1>11, <1>12 DEF Next, Handle

\* A command that was not delivered again has one outcome.
THEOREM OutcomeOnce == Spec => []OutcomeIsOne
<1>1. Init => PlacedOnce /\ Outcome
  BY ConsumerAssumption DEF Init, LedgerInit, PlacedOnce, Outcome, Untouched
<1>2. Outcome => OutcomeIsOne
  BY DEF Outcome, OutcomeIsOne
<1> QED
  BY <1>1, <1>2, ShapeInit, TypeStep, ShapeStep, PlacedOnceStep, OutcomeStep, PTL DEF Spec

=============================================================================
