--------------------------- MODULE PaymentsProofs ---------------------------
(***************************************************************************)
(* Proofs about Payments, for any payments, requests, workers and faults.  *)
(***************************************************************************)
EXTENDS Payments, FiniteSetTheorems, TLAPS

\* No step breaks a type, as long as no counter is taken below zero.
LEMMA TypeStep == TypeOK /\ [Next]_vars => TypeOK'
<1> SUFFICES ASSUME TypeOK, [Next]_vars PROVE TypeOK'
  OBVIOUS
<1> USE KeyOfAssumption, FaultsAssumption DEF TypeOK, Terminal, Outcomes
<1>1. ASSUME NEW r \in Request, CheckKey(r) PROVE TypeOK'
  BY <1>1 DEF CheckKey, Step, payment, work, mail, history
<1>2. ASSUME NEW r \in Request, CreatePayment(r) PROVE TypeOK'
  BY <1>2 DEF CreatePayment, Step, payment, work, mail, history
<1>3. ASSUME NEW r \in Request, PublishUnresolved(r) PROVE TypeOK'
  BY <1>3 DEF PublishUnresolved, Step, Put, Incr, payment, work, mail, history
<1>4. ASSUME NEW r \in Request, PublishResolve(r) PROVE TypeOK'
  BY <1>4 DEF PublishResolve, Step, Incr, payment, work, mail, history
<1>5. ASSUME NEW r \in Request, SetResolving(r) PROVE TypeOK'
  BY <1>5 DEF SetResolving, Step, UpdatePaymentStatus, payment, work, mail, history
<1>6. ASSUME NEW r \in Request, RequestFails(r) PROVE TypeOK'
  BY <1>6 DEF RequestFails, Fault, payment, work, mail, history
<1>7. ASSUME NEW w \in Worker, NEW k \in Key, Deliver(w, k) PROVE TypeOK'
  BY <1>7 DEF Deliver, Decr, payment, work, mail, history
<1>8. ASSUME NEW w \in Worker, NEW k \in Key, Claim(w, k) PROVE TypeOK'
  BY <1>8 DEF Claim, TryClaimPayment, Goto, At, payment, work, mail, history
<1>9. ASSUME NEW w \in Worker, NEW k \in Key, ClaimRefused(w, k) PROVE TypeOK'
  BY <1>9 DEF ClaimRefused, Finish, At, payment, work, mail, history
<1>10. ASSUME NEW w \in Worker, NEW k \in Key, Apply(w, k) PROVE TypeOK'
  BY <1>10 DEF Apply, Incr, Put, Goto, At, payment, work, mail, history
<1>11. ASSUME NEW w \in Worker, NEW k \in Key, Refuse(w, k) PROVE TypeOK'
  BY <1>11 DEF Refuse, Incr, Put, Goto, At, payment, work, mail, history
<1>12. ASSUME NEW w \in Worker, NEW k \in Key, HandlingFails(w, k) PROVE TypeOK'
  BY <1>12 DEF HandlingFails, Goto, At, payment, work, mail, history
<1>13. ASSUME NEW w \in Worker, NEW k \in Key, Ack(w, k) PROVE TypeOK'
  BY <1>13 DEF Ack, Finish, At, payment, work, mail, history
<1>14. ASSUME NEW w \in Worker, NEW k \in Key, FailInvestment(w, k) PROVE TypeOK'
  BY <1>14 DEF FailInvestment, TryFailPayment, Incr, Finish, At, payment, work, mail, history
<1>15. ASSUME NEW w \in Worker, NEW k \in Key, FailLoan(w, k) PROVE TypeOK'
  BY <1>15 DEF FailLoan, Put, Incr, Finish, At, payment, work, mail, history
<1>16. ASSUME NEW o \in Outcomes, NEW k \in Key, Dispatch(o, k) PROVE TypeOK'
  BY <1>16 DEF Dispatch, Put, Drop, Incr, Decr, payment, work, mail, history
<1>17. ASSUME NEW o \in Outcomes, NEW k \in Key, DispatchAgain(o, k) PROVE TypeOK'
  BY <1>17 DEF DispatchAgain, Put, Incr, Fault, payment, work, mail, history
<1>18. ASSUME NEW k \in Key, ConsumeResolved(k) PROVE TypeOK'
  BY <1>18 DEF ConsumeResolved, TryCompletePayment, Drop, Decr, payment, work, mail, history
<1>19. ASSUME NEW k \in Key, ConsumeUnresolved(k) PROVE TypeOK'
  BY <1>19 DEF ConsumeUnresolved, TryUnresolvePayment, Drop, Decr, payment, work, mail, history
<1>20. ASSUME NEW w \in Worker, NEW k \in Key, Crash(w, k) PROVE TypeOK'
  BY <1>20 DEF Crash, Fault, Finish, Incr, payment, work, mail, history
<1>21. ASSUME NEW w \in Worker, NEW k \in Key, CommitUnknown(w, k) PROVE TypeOK'
  BY <1>21 DEF CommitUnknown, Fault, Incr, Put, Goto, At, payment, work, mail, history
<1>22. ASSUME NEW w \in Worker, NEW k \in Key, AnnouncementLost(w, k) PROVE TypeOK'
  BY <1>22 DEF AnnouncementLost, Fault, Incr, Finish, At, payment, work, mail, history
<1>23. CASE TimePasses
  BY <1>23 DEF TimePasses, payment, work, mail, history
<1>24. CASE UNCHANGED vars
  BY <1>24 DEF vars, payment, work, mail, history
<1>25. ASSUME NEW w \in Worker, NEW k \in Key, RefuseThenFail(w, k) PROVE TypeOK'
  BY <1>25 DEF RefuseThenFail, Fault, Incr, Put, Goto, At, payment, work, mail, history
<1>26. ASSUME NEW o \in Outcomes, NEW k \in Key, DispatchGivenUp(o, k) PROVE TypeOK'
  BY <1>26 DEF DispatchGivenUp, Fault, Put, Drop, Incr, Decr, payment, work, mail, history
<1> QED
  BY <1>1, <1>2, <1>3, <1>4, <1>5, <1>6, <1>7, <1>8, <1>9, <1>10, <1>11, <1>12, <1>13, <1>14,
      <1>15, <1>16, <1>17, <1>18, <1>19, <1>20, <1>21, <1>22, <1>23, <1>24, <1>25, <1>26 DEF Next,
      RequestStep, WorkerStep

\* Every variable keeps its type.
THEOREM TypeCorrect == Spec => []TypeOK
<1>1. Init => TypeOK
  BY FaultsAssumption DEF Init, TypeOK, Nothing
<1> QED
  BY <1>1, TypeStep, PTL DEF Spec

-----------------------------------------------------------------------------

\* One request, one command, one worker: who may touch a payment.
AloneInv == TypeOK /\ WorkersHoldOne /\ OnlyTargets /\ CopyIsAlone /\ RequestsAreAlone

LEMMA AloneInit == Init => AloneInv
<1> SUFFICES ASSUME Init PROVE AloneInv
  OBVIOUS
<1>1. TypeOK
  BY FaultsAssumption DEF Init, TypeOK, Nothing
<1> QED
  BY <1>1 DEF Init, AloneInv, WorkersHoldOne, OnlyTargets, CopyIsAlone, RequestsAreAlone,
              Untouched, Holding, Nothing

LEMMA WorkersHoldOneStep == TypeOK /\ WorkersHoldOne /\ [Next]_vars => WorkersHoldOne'
<1> SUFFICES ASSUME TypeOK, WorkersHoldOne, [Next]_vars PROVE WorkersHoldOne'
  OBVIOUS
<1> USE DEF TypeOK, WorkersHoldOne
<1>1. ASSUME NEW r \in Request, CheckKey(r) PROVE WorkersHoldOne'
  BY <1>1 DEF CheckKey, Step, payment, work, mail, history
<1>2. ASSUME NEW r \in Request, CreatePayment(r) PROVE WorkersHoldOne'
  BY <1>2 DEF CreatePayment, Step, payment, work, mail, history
<1>3. ASSUME NEW r \in Request, PublishUnresolved(r) PROVE WorkersHoldOne'
  BY <1>3 DEF PublishUnresolved, Step, Put, Incr, payment, work, mail, history
<1>4. ASSUME NEW r \in Request, PublishResolve(r) PROVE WorkersHoldOne'
  BY <1>4 DEF PublishResolve, Step, Incr, payment, work, mail, history
<1>5. ASSUME NEW r \in Request, SetResolving(r) PROVE WorkersHoldOne'
  BY <1>5 DEF SetResolving, Step, UpdatePaymentStatus, payment, work, mail, history
<1>6. ASSUME NEW r \in Request, RequestFails(r) PROVE WorkersHoldOne'
  BY <1>6 DEF RequestFails, Fault, payment, work, mail, history
<1>7. ASSUME NEW w \in Worker, NEW k \in Key, Deliver(w, k) PROVE WorkersHoldOne'
  BY <1>7 DEF Deliver, Decr, payment, work, mail, history
<1>8. ASSUME NEW w \in Worker, NEW k \in Key, Claim(w, k) PROVE WorkersHoldOne'
  BY <1>8 DEF Claim, TryClaimPayment, Goto, At, payment, work, mail, history
<1>9. ASSUME NEW w \in Worker, NEW k \in Key, ClaimRefused(w, k) PROVE WorkersHoldOne'
  BY <1>9 DEF ClaimRefused, Finish, At, payment, work, mail, history
<1>10. ASSUME NEW w \in Worker, NEW k \in Key, Apply(w, k) PROVE WorkersHoldOne'
  BY <1>10 DEF Apply, Incr, Put, Goto, At, payment, work, mail, history
<1>11. ASSUME NEW w \in Worker, NEW k \in Key, Refuse(w, k) PROVE WorkersHoldOne'
  BY <1>11 DEF Refuse, Incr, Put, Goto, At, payment, work, mail, history
<1>12. ASSUME NEW w \in Worker, NEW k \in Key, HandlingFails(w, k) PROVE WorkersHoldOne'
  BY <1>12 DEF HandlingFails, Goto, At, payment, work, mail, history
<1>13. ASSUME NEW w \in Worker, NEW k \in Key, Ack(w, k) PROVE WorkersHoldOne'
  BY <1>13 DEF Ack, Finish, At, payment, work, mail, history
<1>14. ASSUME NEW w \in Worker, NEW k \in Key, FailInvestment(w, k) PROVE WorkersHoldOne'
  BY <1>14 DEF FailInvestment, TryFailPayment, Incr, Finish, At, payment, work, mail, history
<1>15. ASSUME NEW w \in Worker, NEW k \in Key, FailLoan(w, k) PROVE WorkersHoldOne'
  BY <1>15 DEF FailLoan, Put, Incr, Finish, At, payment, work, mail, history
<1>16. ASSUME NEW o \in Outcomes, NEW k \in Key, Dispatch(o, k) PROVE WorkersHoldOne'
  BY <1>16 DEF Dispatch, Put, Drop, Incr, Decr, payment, work, mail, history
<1>17. ASSUME NEW o \in Outcomes, NEW k \in Key, DispatchAgain(o, k) PROVE WorkersHoldOne'
  BY <1>17 DEF DispatchAgain, Put, Incr, Fault, payment, work, mail, history
<1>18. ASSUME NEW k \in Key, ConsumeResolved(k) PROVE WorkersHoldOne'
  BY <1>18 DEF ConsumeResolved, TryCompletePayment, Drop, Decr, payment, work, mail, history
<1>19. ASSUME NEW k \in Key, ConsumeUnresolved(k) PROVE WorkersHoldOne'
  BY <1>19 DEF ConsumeUnresolved, TryUnresolvePayment, Drop, Decr, payment, work, mail, history
<1>20. ASSUME NEW w \in Worker, NEW k \in Key, Crash(w, k) PROVE WorkersHoldOne'
  BY <1>20 DEF Crash, Fault, Finish, Incr, payment, work, mail, history
<1>21. ASSUME NEW w \in Worker, NEW k \in Key, CommitUnknown(w, k) PROVE WorkersHoldOne'
  BY <1>21 DEF CommitUnknown, Fault, Incr, Put, Goto, At, payment, work, mail, history
<1>22. ASSUME NEW w \in Worker, NEW k \in Key, AnnouncementLost(w, k) PROVE WorkersHoldOne'
  BY <1>22 DEF AnnouncementLost, Fault, Incr, Finish, At, payment, work, mail, history
<1>23. CASE TimePasses
  BY <1>23 DEF TimePasses, payment, work, mail, history
<1>24. CASE UNCHANGED vars
  BY <1>24 DEF vars, payment, work, mail, history
<1>25. ASSUME NEW w \in Worker, NEW k \in Key, RefuseThenFail(w, k) PROVE WorkersHoldOne'
  BY <1>25 DEF RefuseThenFail, Fault, Incr, Put, Goto, At, payment, work, mail, history
<1>26. ASSUME NEW o \in Outcomes, NEW k \in Key, DispatchGivenUp(o, k) PROVE WorkersHoldOne'
  BY <1>26 DEF DispatchGivenUp, Fault, Put, Drop, Incr, Decr, payment, work, mail, history
<1> QED
  BY <1>1, <1>2, <1>3, <1>4, <1>5, <1>6, <1>7, <1>8, <1>9, <1>10, <1>11, <1>12, <1>13, <1>14,
      <1>15, <1>16, <1>17, <1>18, <1>19, <1>20, <1>21, <1>22, <1>23, <1>24, <1>25, <1>26 DEF Next,
      RequestStep, WorkerStep

LEMMA OnlyTargetsStep == AloneInv /\ [Next]_vars => OnlyTargets'
<1> SUFFICES ASSUME AloneInv, [Next]_vars PROVE OnlyTargets'
  OBVIOUS
<1> USE TargetAssumption, KeyOfAssumption, ServiceAssumption
    DEF AloneInv, TypeOK, WorkersHoldOne, OnlyTargets, Holding, Services
<1>1. ASSUME NEW r \in Request, CheckKey(r) PROVE OnlyTargets'
  BY <1>1 DEF CheckKey, Step, payment, work, mail, history
<1>2. ASSUME NEW r \in Request, CreatePayment(r) PROVE OnlyTargets'
  BY <1>2 DEF CreatePayment, Step, payment, work, mail, history
<1>3. ASSUME NEW r \in Request, PublishUnresolved(r) PROVE OnlyTargets'
  BY <1>3 DEF PublishUnresolved, Step, Put, Incr, payment, work, mail, history
<1>4. ASSUME NEW r \in Request, PublishResolve(r) PROVE OnlyTargets'
  BY <1>4 DEF PublishResolve, Step, Incr, payment, work, mail, history
<1>5. ASSUME NEW r \in Request, SetResolving(r) PROVE OnlyTargets'
  BY <1>5 DEF SetResolving, Step, UpdatePaymentStatus, payment, work, mail, history
<1>6. ASSUME NEW r \in Request, RequestFails(r) PROVE OnlyTargets'
  BY <1>6 DEF RequestFails, Fault, payment, work, mail, history
<1>7. ASSUME NEW w \in Worker, NEW k \in Key, Deliver(w, k) PROVE OnlyTargets'
  BY <1>7 DEF Deliver, Decr, payment, work, mail, history
<1>8. ASSUME NEW w \in Worker, NEW k \in Key, Claim(w, k) PROVE OnlyTargets'
  BY <1>8 DEF Claim, TryClaimPayment, Goto, At, payment, work, mail, history
<1>9. ASSUME NEW w \in Worker, NEW k \in Key, ClaimRefused(w, k) PROVE OnlyTargets'
  BY <1>9 DEF ClaimRefused, Finish, At, payment, work, mail, history
<1>10. ASSUME NEW w \in Worker, NEW k \in Key, Apply(w, k) PROVE OnlyTargets'
  BY <1>10 DEF Apply, Incr, Put, Goto, At, payment, work, mail, history
<1>11. ASSUME NEW w \in Worker, NEW k \in Key, Refuse(w, k) PROVE OnlyTargets'
  BY <1>11 DEF Refuse, Incr, Put, Goto, At, payment, work, mail, history
<1>12. ASSUME NEW w \in Worker, NEW k \in Key, HandlingFails(w, k) PROVE OnlyTargets'
  BY <1>12 DEF HandlingFails, Goto, At, payment, work, mail, history
<1>13. ASSUME NEW w \in Worker, NEW k \in Key, Ack(w, k) PROVE OnlyTargets'
  BY <1>13 DEF Ack, Finish, At, payment, work, mail, history
<1>14. ASSUME NEW w \in Worker, NEW k \in Key, FailInvestment(w, k) PROVE OnlyTargets'
  BY <1>14 DEF FailInvestment, TryFailPayment, Incr, Finish, At, payment, work, mail, history
<1>15. ASSUME NEW w \in Worker, NEW k \in Key, FailLoan(w, k) PROVE OnlyTargets'
  BY <1>15 DEF FailLoan, Put, Incr, Finish, At, payment, work, mail, history
<1>16. ASSUME NEW o \in Outcomes, NEW k \in Key, Dispatch(o, k) PROVE OnlyTargets'
  BY <1>16 DEF Dispatch, Put, Drop, Incr, Decr, payment, work, mail, history
<1>17. ASSUME NEW o \in Outcomes, NEW k \in Key, DispatchAgain(o, k) PROVE OnlyTargets'
  BY <1>17 DEF DispatchAgain, Put, Incr, Fault, payment, work, mail, history
<1>18. ASSUME NEW k \in Key, ConsumeResolved(k) PROVE OnlyTargets'
  BY <1>18 DEF ConsumeResolved, TryCompletePayment, Drop, Decr, payment, work, mail, history
<1>19. ASSUME NEW k \in Key, ConsumeUnresolved(k) PROVE OnlyTargets'
  BY <1>19 DEF ConsumeUnresolved, TryUnresolvePayment, Drop, Decr, payment, work, mail, history
<1>20. ASSUME NEW w \in Worker, NEW k \in Key, Crash(w, k) PROVE OnlyTargets'
  BY <1>20 DEF Crash, Fault, Finish, Incr, payment, work, mail, history
<1>21. ASSUME NEW w \in Worker, NEW k \in Key, CommitUnknown(w, k) PROVE OnlyTargets'
  BY <1>21 DEF CommitUnknown, Fault, Incr, Put, Goto, At, payment, work, mail, history
<1>22. ASSUME NEW w \in Worker, NEW k \in Key, AnnouncementLost(w, k) PROVE OnlyTargets'
  BY <1>22 DEF AnnouncementLost, Fault, Incr, Finish, At, payment, work, mail, history
<1>23. CASE TimePasses
  BY <1>23 DEF TimePasses, payment, work, mail, history
<1>24. CASE UNCHANGED vars
  BY <1>24 DEF vars, payment, work, mail, history
<1>25. ASSUME NEW w \in Worker, NEW k \in Key, RefuseThenFail(w, k) PROVE OnlyTargets'
  BY <1>25 DEF RefuseThenFail, Fault, Incr, Put, Goto, At, payment, work, mail, history
<1>26. ASSUME NEW o \in Outcomes, NEW k \in Key, DispatchGivenUp(o, k) PROVE OnlyTargets'
  BY <1>26 DEF DispatchGivenUp, Fault, Put, Drop, Incr, Decr, payment, work, mail, history
<1> QED
  BY <1>1, <1>2, <1>3, <1>4, <1>5, <1>6, <1>7, <1>8, <1>9, <1>10, <1>11, <1>12, <1>13, <1>14,
      <1>15, <1>16, <1>17, <1>18, <1>19, <1>20, <1>21, <1>22, <1>23, <1>24, <1>25, <1>26 DEF Next,
      RequestStep, WorkerStep

LEMMA CopyIsAloneStep == AloneInv /\ [Next]_vars => CopyIsAlone'
<1> SUFFICES ASSUME AloneInv, [Next]_vars PROVE CopyIsAlone'
  OBVIOUS
<1> USE KeyOfAssumption
    DEF AloneInv, TypeOK, WorkersHoldOne, CopyIsAlone, RequestsAreAlone, Untouched, Holding
<1>1. ASSUME NEW r \in Request, CheckKey(r) PROVE CopyIsAlone'
  BY <1>1 DEF CheckKey, Step, payment, work, mail, history
<1>2. ASSUME NEW r \in Request, CreatePayment(r) PROVE CopyIsAlone'
  BY <1>2 DEF CreatePayment, Step, payment, work, mail, history
<1>3. ASSUME NEW r \in Request, PublishUnresolved(r) PROVE CopyIsAlone'
  BY <1>3 DEF PublishUnresolved, Step, Put, Incr, payment, work, mail, history
<1>4. ASSUME NEW r \in Request, PublishResolve(r) PROVE CopyIsAlone'
  BY <1>4 DEF PublishResolve, Step, Incr, payment, work, mail, history
<1>5. ASSUME NEW r \in Request, SetResolving(r) PROVE CopyIsAlone'
  BY <1>5 DEF SetResolving, Step, UpdatePaymentStatus, payment, work, mail, history
<1>6. ASSUME NEW r \in Request, RequestFails(r) PROVE CopyIsAlone'
  BY <1>6 DEF RequestFails, Fault, payment, work, mail, history
<1>7. ASSUME NEW w \in Worker, NEW k \in Key, Deliver(w, k) PROVE CopyIsAlone'
  <2>1. command' = [command EXCEPT ![k] = @ - 1] /\ dead' = dead /\ task' = [task EXCEPT ![w] = {k}]
    BY <1>7 DEF Deliver, Decr
  <2>2. \A v \in Worker : k \notin task[v]
    BY <1>7 DEF Deliver
  <2>3. command[k] \in Nat /\ dead[k] \in Nat /\ command[k] > 0 /\ command[k] + dead[k] <= 1
    BY <1>7 DEF Deliver
  <2>4. command[k] = 1 /\ dead[k] = 0
    BY ONLY <2>3
  <2>5. \A v \in Worker : k \in task'[v] <=> v = w
    BY <2>1, <2>2
  <2>6. ASSUME NEW n \in Key, n # k
        PROVE  command'[n] = command[n] /\ Holding(n)' \subseteq Holding(n)
    BY <2>1, <2>6
  <2> QED
    BY <2>1, <2>4, <2>5, <2>6
<1>8. ASSUME NEW w \in Worker, NEW k \in Key, Claim(w, k) PROVE CopyIsAlone'
  BY <1>8 DEF Claim, TryClaimPayment, Goto, At, payment, work, mail, history
<1>9. ASSUME NEW w \in Worker, NEW k \in Key, ClaimRefused(w, k) PROVE CopyIsAlone'
  BY <1>9 DEF ClaimRefused, Finish, At, payment, work, mail, history
<1>10. ASSUME NEW w \in Worker, NEW k \in Key, Apply(w, k) PROVE CopyIsAlone'
  BY <1>10 DEF Apply, Incr, Put, Goto, At, payment, work, mail, history
<1>11. ASSUME NEW w \in Worker, NEW k \in Key, Refuse(w, k) PROVE CopyIsAlone'
  BY <1>11 DEF Refuse, Incr, Put, Goto, At, payment, work, mail, history
<1>12. ASSUME NEW w \in Worker, NEW k \in Key, HandlingFails(w, k) PROVE CopyIsAlone'
  BY <1>12 DEF HandlingFails, Goto, At, payment, work, mail, history
<1>13. ASSUME NEW w \in Worker, NEW k \in Key, Ack(w, k) PROVE CopyIsAlone'
  BY <1>13 DEF Ack, Finish, At, payment, work, mail, history
<1>14. ASSUME NEW w \in Worker, NEW k \in Key, FailInvestment(w, k) PROVE CopyIsAlone'
  BY <1>14 DEF FailInvestment, TryFailPayment, Incr, Finish, At, payment, work, mail, history
<1>15. ASSUME NEW w \in Worker, NEW k \in Key, FailLoan(w, k) PROVE CopyIsAlone'
  BY <1>15 DEF FailLoan, Put, Incr, Finish, At, payment, work, mail, history
<1>16. ASSUME NEW o \in Outcomes, NEW k \in Key, Dispatch(o, k) PROVE CopyIsAlone'
  BY <1>16 DEF Dispatch, Put, Drop, Incr, Decr, payment, work, mail, history
<1>17. ASSUME NEW o \in Outcomes, NEW k \in Key, DispatchAgain(o, k) PROVE CopyIsAlone'
  BY <1>17 DEF DispatchAgain, Put, Incr, Fault, payment, work, mail, history
<1>18. ASSUME NEW k \in Key, ConsumeResolved(k) PROVE CopyIsAlone'
  BY <1>18 DEF ConsumeResolved, TryCompletePayment, Drop, Decr, payment, work, mail, history
<1>19. ASSUME NEW k \in Key, ConsumeUnresolved(k) PROVE CopyIsAlone'
  BY <1>19 DEF ConsumeUnresolved, TryUnresolvePayment, Drop, Decr, payment, work, mail, history
<1>20. ASSUME NEW w \in Worker, NEW k \in Key, Crash(w, k) PROVE CopyIsAlone'
  BY <1>20 DEF Crash, Fault, Finish, Incr, payment, work, mail, history
<1>21. ASSUME NEW w \in Worker, NEW k \in Key, CommitUnknown(w, k) PROVE CopyIsAlone'
  BY <1>21 DEF CommitUnknown, Fault, Incr, Put, Goto, At, payment, work, mail, history
<1>22. ASSUME NEW w \in Worker, NEW k \in Key, AnnouncementLost(w, k) PROVE CopyIsAlone'
  BY <1>22 DEF AnnouncementLost, Fault, Incr, Finish, At, payment, work, mail, history
<1>23. CASE TimePasses
  BY <1>23 DEF TimePasses, payment, work, mail, history
<1>24. CASE UNCHANGED vars
  BY <1>24 DEF vars, payment, work, mail, history
<1>25. ASSUME NEW w \in Worker, NEW k \in Key, RefuseThenFail(w, k) PROVE CopyIsAlone'
  BY <1>25 DEF RefuseThenFail, Fault, Incr, Put, Goto, At, payment, work, mail, history
<1>26. ASSUME NEW o \in Outcomes, NEW k \in Key, DispatchGivenUp(o, k) PROVE CopyIsAlone'
  BY <1>26 DEF DispatchGivenUp, Fault, Put, Drop, Incr, Decr, payment, work, mail, history
<1> QED
  BY <1>1, <1>2, <1>3, <1>4, <1>5, <1>6, <1>7, <1>8, <1>9, <1>10, <1>11, <1>12, <1>13, <1>14,
      <1>15, <1>16, <1>17, <1>18, <1>19, <1>20, <1>21, <1>22, <1>23, <1>24, <1>25, <1>26 DEF Next,
      RequestStep, WorkerStep

LEMMA RequestsAreAloneStep == AloneInv /\ [Next]_vars => RequestsAreAlone'
<1> SUFFICES ASSUME AloneInv, [Next]_vars PROVE RequestsAreAlone'
  OBVIOUS
<1> USE KeyOfAssumption
    DEF AloneInv, TypeOK, WorkersHoldOne, OnlyTargets, CopyIsAlone, RequestsAreAlone, Untouched,
        Holding, Outcomes
<1>1. ASSUME NEW r \in Request, CheckKey(r) PROVE RequestsAreAlone'
  BY <1>1 DEF CheckKey, Step, payment, work, mail, history
<1>2. ASSUME NEW r \in Request, CreatePayment(r) PROVE RequestsAreAlone'
  BY <1>2 DEF CreatePayment, Step, payment, work, mail, history
<1>3. ASSUME NEW r \in Request, PublishUnresolved(r) PROVE RequestsAreAlone'
  BY <1>3 DEF PublishUnresolved, Step, Put, Incr, payment, work, mail, history
<1>4. ASSUME NEW r \in Request, PublishResolve(r) PROVE RequestsAreAlone'
  BY <1>4 DEF PublishResolve, Step, Incr, payment, work, mail, history
<1>5. ASSUME NEW r \in Request, SetResolving(r) PROVE RequestsAreAlone'
  BY <1>5 DEF SetResolving, Step, UpdatePaymentStatus, payment, work, mail, history
<1>6. ASSUME NEW r \in Request, RequestFails(r) PROVE RequestsAreAlone'
  BY <1>6 DEF RequestFails, Fault, payment, work, mail, history
<1>7. ASSUME NEW w \in Worker, NEW k \in Key, Deliver(w, k) PROVE RequestsAreAlone'
  BY <1>7 DEF Deliver, Decr, payment, work, mail, history
<1>8. ASSUME NEW w \in Worker, NEW k \in Key, Claim(w, k) PROVE RequestsAreAlone'
  BY <1>8 DEF Claim, TryClaimPayment, Goto, At, payment, work, mail, history
<1>9. ASSUME NEW w \in Worker, NEW k \in Key, ClaimRefused(w, k) PROVE RequestsAreAlone'
  BY <1>9 DEF ClaimRefused, Finish, At, payment, work, mail, history
<1>10. ASSUME NEW w \in Worker, NEW k \in Key, Apply(w, k) PROVE RequestsAreAlone'
  BY <1>10 DEF Apply, Incr, Put, Goto, At, payment, work, mail, history
<1>11. ASSUME NEW w \in Worker, NEW k \in Key, Refuse(w, k) PROVE RequestsAreAlone'
  BY <1>11 DEF Refuse, Incr, Put, Goto, At, payment, work, mail, history
<1>12. ASSUME NEW w \in Worker, NEW k \in Key, HandlingFails(w, k) PROVE RequestsAreAlone'
  BY <1>12 DEF HandlingFails, Goto, At, payment, work, mail, history
<1>13. ASSUME NEW w \in Worker, NEW k \in Key, Ack(w, k) PROVE RequestsAreAlone'
  BY <1>13 DEF Ack, Finish, At, payment, work, mail, history
<1>14. ASSUME NEW w \in Worker, NEW k \in Key, FailInvestment(w, k) PROVE RequestsAreAlone'
  BY <1>14 DEF FailInvestment, TryFailPayment, Incr, Finish, At, payment, work, mail, history
<1>15. ASSUME NEW w \in Worker, NEW k \in Key, FailLoan(w, k) PROVE RequestsAreAlone'
  BY <1>15 DEF FailLoan, Put, Incr, Finish, At, payment, work, mail, history
<1>16. ASSUME NEW o \in Outcomes, NEW k \in Key, Dispatch(o, k) PROVE RequestsAreAlone'
  BY <1>16 DEF Dispatch, Put, Drop, Incr, Decr, payment, work, mail, history
<1>17. ASSUME NEW o \in Outcomes, NEW k \in Key, DispatchAgain(o, k) PROVE RequestsAreAlone'
  BY <1>17 DEF DispatchAgain, Put, Incr, Fault, payment, work, mail, history
<1>18. ASSUME NEW k \in Key, ConsumeResolved(k) PROVE RequestsAreAlone'
  BY <1>18 DEF ConsumeResolved, TryCompletePayment, Drop, Decr, payment, work, mail, history
<1>19. ASSUME NEW k \in Key, ConsumeUnresolved(k) PROVE RequestsAreAlone'
  BY <1>19 DEF ConsumeUnresolved, TryUnresolvePayment, Drop, Decr, payment, work, mail, history
<1>20. ASSUME NEW w \in Worker, NEW k \in Key, Crash(w, k) PROVE RequestsAreAlone'
  BY <1>20 DEF Crash, Fault, Finish, Incr, payment, work, mail, history
<1>21. ASSUME NEW w \in Worker, NEW k \in Key, CommitUnknown(w, k) PROVE RequestsAreAlone'
  BY <1>21 DEF CommitUnknown, Fault, Incr, Put, Goto, At, payment, work, mail, history
<1>22. ASSUME NEW w \in Worker, NEW k \in Key, AnnouncementLost(w, k) PROVE RequestsAreAlone'
  BY <1>22 DEF AnnouncementLost, Fault, Incr, Finish, At, payment, work, mail, history
<1>23. CASE TimePasses
  BY <1>23 DEF TimePasses, payment, work, mail, history
<1>24. CASE UNCHANGED vars
  BY <1>24 DEF vars, payment, work, mail, history
<1>25. ASSUME NEW w \in Worker, NEW k \in Key, RefuseThenFail(w, k) PROVE RequestsAreAlone'
  BY <1>25 DEF RefuseThenFail, Fault, Incr, Put, Goto, At, payment, work, mail, history
<1>26. ASSUME NEW o \in Outcomes, NEW k \in Key, DispatchGivenUp(o, k) PROVE RequestsAreAlone'
  BY <1>26 DEF DispatchGivenUp, Fault, Put, Drop, Incr, Decr, payment, work, mail, history
<1> QED
  BY <1>1, <1>2, <1>3, <1>4, <1>5, <1>6, <1>7, <1>8, <1>9, <1>10, <1>11, <1>12, <1>13, <1>14,
      <1>15, <1>16, <1>17, <1>18, <1>19, <1>20, <1>21, <1>22, <1>23, <1>24, <1>25, <1>26 DEF Next,
      RequestStep, WorkerStep

LEMMA AloneStep == AloneInv /\ [Next]_vars => AloneInv'
BY TypeStep, WorkersHoldOneStep, OnlyTargetsStep, CopyIsAloneStep,
    RequestsAreAloneStep DEF AloneInv

\* There is one copy of a payment's command at most, wherever it is.
THEOREM CommandIsUnique == Spec => []OneCommand
<1>1. AloneInv => OneCommand
  <2> SUFFICES ASSUME AloneInv, NEW k \in Key
               PROVE  command[k] + dead[k] + Cardinality(Holding(k)) <= 1
    BY DEF OneCommand
  <2> USE DEF AloneInv, TypeOK, CopyIsAlone
  <2>1. CASE Holding(k) = {}
    BY <2>1, FS_EmptySet
  <2>2. CASE Holding(k) # {}
    <3>1. PICK w \in Holding(k) : command[k] = 0 /\ dead[k] = 0
      BY <2>2
    <3>2. Holding(k) = {w}
      BY <3>1
    <3>3. Cardinality(Holding(k)) = 1
      BY <3>2, FS_Singleton
    <3> QED BY <3>1, <3>3
  <2> QED BY <2>1, <2>2
<1> QED
  BY <1>1, AloneInit, AloneStep, PTL DEF Spec

\* A closed payment stays closed: the only request that could still set it to resolving
\* would find it received.
THEOREM ClosedStaysClosed == Spec => TerminalIsFinal
<1>1. AloneInv /\ [Next]_vars
        => [\A k \in Key : status[k] \in Terminal => status'[k] = status[k]]_vars
  <2> SUFFICES ASSUME AloneInv, Next, NEW n \in Key, status[n] \in Terminal
               PROVE  status'[n] = status[n]
    OBVIOUS
  <2>1. ASSUME NEW r \in Request, RequestStep(r) \/ RequestFails(r) PROVE status'[n] = status[n]
    BY <2>1, KeyOfAssumption
       DEF RequestStep, CheckKey, CreatePayment, PublishUnresolved, PublishResolve, SetResolving,
           RequestFails, Step, UpdatePaymentStatus, payment, AloneInv, RequestsAreAlone, TypeOK,
           Terminal
  <2>2. ASSUME NEW w \in Worker, NEW k \in Key,
               \/ Deliver(w, k) \/ Claim(w, k) \/ ClaimRefused(w, k)
               \/ Apply(w, k) \/ Refuse(w, k) \/ RefuseThenFail(w, k) \/ HandlingFails(w, k)
               \/ Ack(w, k) \/ FailInvestment(w, k) \/ FailLoan(w, k)
               \/ Crash(w, k) \/ CommitUnknown(w, k) \/ AnnouncementLost(w, k)
        PROVE  status'[n] = status[n]
    BY <2>2
       DEF Deliver, Claim, TryClaimPayment, ClaimRefused, Apply, Refuse, RefuseThenFail, HandlingFails, Ack,
           FailInvestment, TryFailPayment, FailLoan, Crash, CommitUnknown, AnnouncementLost,
           payment, AloneInv, TypeOK, Terminal
  <2>3. ASSUME NEW o \in Outcomes, NEW k \in Key, Dispatch(o, k) \/ DispatchAgain(o, k) \/ DispatchGivenUp(o, k)
        PROVE  status'[n] = status[n]
    BY <2>3 DEF Dispatch, DispatchAgain, DispatchGivenUp, payment
  <2>4. ASSUME NEW k \in Key, ConsumeResolved(k) \/ ConsumeUnresolved(k)
        PROVE  status'[n] = status[n]
    BY <2>4 DEF ConsumeResolved, TryCompletePayment, ConsumeUnresolved, TryUnresolvePayment,
                AloneInv, TypeOK, Terminal
  <2>5. CASE TimePasses
    BY <2>5 DEF TimePasses
  <2> QED
    BY <2>1, <2>2, <2>3, <2>4, <2>5 DEF Next, WorkerStep
<1> QED
  BY <1>1, AloneInit, AloneStep, PTL DEF Spec, TerminalIsFinal

-----------------------------------------------------------------------------

LEMMA ResolvedMeansAppliedStep ==
  AloneInv /\ ResolvedMeansApplied /\ [Next]_vars => ResolvedMeansApplied'
<1> SUFFICES ASSUME AloneInv, ResolvedMeansApplied, [Next]_vars PROVE ResolvedMeansApplied'
  OBVIOUS
<1> USE KeyOfAssumption DEF AloneInv, TypeOK, ResolvedMeansApplied, Outcomes, Terminal
<1>1. ASSUME NEW r \in Request, CheckKey(r) PROVE ResolvedMeansApplied'
  BY <1>1 DEF CheckKey, Step, payment, work, mail, history
<1>2. ASSUME NEW r \in Request, CreatePayment(r) PROVE ResolvedMeansApplied'
  BY <1>2 DEF CreatePayment, Step, payment, work, mail, history
<1>3. ASSUME NEW r \in Request, PublishUnresolved(r) PROVE ResolvedMeansApplied'
  BY <1>3 DEF PublishUnresolved, Step, Put, Incr, payment, work, mail, history
<1>4. ASSUME NEW r \in Request, PublishResolve(r) PROVE ResolvedMeansApplied'
  BY <1>4 DEF PublishResolve, Step, Incr, payment, work, mail, history
<1>5. ASSUME NEW r \in Request, SetResolving(r) PROVE ResolvedMeansApplied'
  BY <1>5 DEF SetResolving, Step, UpdatePaymentStatus, payment, work, mail, history
<1>6. ASSUME NEW r \in Request, RequestFails(r) PROVE ResolvedMeansApplied'
  BY <1>6 DEF RequestFails, Fault, payment, work, mail, history
<1>7. ASSUME NEW w \in Worker, NEW k \in Key, Deliver(w, k) PROVE ResolvedMeansApplied'
  BY <1>7 DEF Deliver, Decr, payment, work, mail, history
<1>8. ASSUME NEW w \in Worker, NEW k \in Key, Claim(w, k) PROVE ResolvedMeansApplied'
  BY <1>8 DEF Claim, TryClaimPayment, Goto, At, payment, work, mail, history
<1>9. ASSUME NEW w \in Worker, NEW k \in Key, ClaimRefused(w, k) PROVE ResolvedMeansApplied'
  BY <1>9 DEF ClaimRefused, Finish, At, payment, work, mail, history
<1>10. ASSUME NEW w \in Worker, NEW k \in Key, Apply(w, k) PROVE ResolvedMeansApplied'
  BY <1>10 DEF Apply, Incr, Put, Goto, At, payment, work, mail, history
<1>11. ASSUME NEW w \in Worker, NEW k \in Key, Refuse(w, k) PROVE ResolvedMeansApplied'
  BY <1>11 DEF Refuse, Incr, Put, Goto, At, payment, work, mail, history
<1>12. ASSUME NEW w \in Worker, NEW k \in Key, HandlingFails(w, k) PROVE ResolvedMeansApplied'
  BY <1>12 DEF HandlingFails, Goto, At, payment, work, mail, history
<1>13. ASSUME NEW w \in Worker, NEW k \in Key, Ack(w, k) PROVE ResolvedMeansApplied'
  BY <1>13 DEF Ack, Finish, At, payment, work, mail, history
<1>14. ASSUME NEW w \in Worker, NEW k \in Key, FailInvestment(w, k) PROVE ResolvedMeansApplied'
  BY <1>14 DEF FailInvestment, TryFailPayment, Incr, Finish, At, payment, work, mail, history
<1>15. ASSUME NEW w \in Worker, NEW k \in Key, FailLoan(w, k) PROVE ResolvedMeansApplied'
  BY <1>15 DEF FailLoan, Put, Incr, Finish, At, payment, work, mail, history
<1>16. ASSUME NEW o \in Outcomes, NEW k \in Key, Dispatch(o, k) PROVE ResolvedMeansApplied'
  BY <1>16 DEF Dispatch, Put, Drop, Incr, Decr, payment, work, mail, history
<1>17. ASSUME NEW o \in Outcomes, NEW k \in Key, DispatchAgain(o, k) PROVE ResolvedMeansApplied'
  BY <1>17 DEF DispatchAgain, Put, Incr, Fault, payment, work, mail, history
<1>18. ASSUME NEW k \in Key, ConsumeResolved(k) PROVE ResolvedMeansApplied'
  BY <1>18 DEF ConsumeResolved, TryCompletePayment, Drop, Decr, payment, work, mail, history
<1>19. ASSUME NEW k \in Key, ConsumeUnresolved(k) PROVE ResolvedMeansApplied'
  BY <1>19 DEF ConsumeUnresolved, TryUnresolvePayment, Drop, Decr, payment, work, mail, history
<1>20. ASSUME NEW w \in Worker, NEW k \in Key, Crash(w, k) PROVE ResolvedMeansApplied'
  BY <1>20 DEF Crash, Fault, Finish, Incr, payment, work, mail, history
<1>21. ASSUME NEW w \in Worker, NEW k \in Key, CommitUnknown(w, k) PROVE ResolvedMeansApplied'
  BY <1>21 DEF CommitUnknown, Fault, Incr, Put, Goto, At, payment, work, mail, history
<1>22. ASSUME NEW w \in Worker, NEW k \in Key, AnnouncementLost(w, k) PROVE ResolvedMeansApplied'
  BY <1>22 DEF AnnouncementLost, Fault, Incr, Finish, At, payment, work, mail, history
<1>23. CASE TimePasses
  BY <1>23 DEF TimePasses, payment, work, mail, history
<1>24. CASE UNCHANGED vars
  BY <1>24 DEF vars, payment, work, mail, history
<1>25. ASSUME NEW w \in Worker, NEW k \in Key, RefuseThenFail(w, k) PROVE ResolvedMeansApplied'
  BY <1>25 DEF RefuseThenFail, Fault, Incr, Put, Goto, At, payment, work, mail, history
<1>26. ASSUME NEW o \in Outcomes, NEW k \in Key, DispatchGivenUp(o, k) PROVE ResolvedMeansApplied'
  BY <1>26 DEF DispatchGivenUp, Fault, Put, Drop, Incr, Decr, payment, work, mail, history
<1> QED
  BY <1>1, <1>2, <1>3, <1>4, <1>5, <1>6, <1>7, <1>8, <1>9, <1>10, <1>11, <1>12, <1>13, <1>14,
      <1>15, <1>16, <1>17, <1>18, <1>19, <1>20, <1>21, <1>22, <1>23, <1>24, <1>25, <1>26 DEF Next,
      RequestStep, WorkerStep

\* A completed payment was posted.
THEOREM CompletedIsApplied == Spec => []CompletedMeansApplied
<1>1. Init => ResolvedMeansApplied
  BY DEF Init, ResolvedMeansApplied, Nothing, Outcomes
<1>2. ResolvedMeansApplied => CompletedMeansApplied
  BY DEF ResolvedMeansApplied, CompletedMeansApplied
<1> QED
  BY <1>1, <1>2, AloneInit, AloneStep, ResolvedMeansAppliedStep, PTL DEF Spec

-----------------------------------------------------------------------------

OutcomeInv == AloneInv /\ OutcomeIsOne

\* A worker with a delivery is the only one with it, and no copy is left elsewhere.
LEMMA TaskIsAlone ==
  ASSUME AloneInv, NEW w \in Worker, NEW k \in Key, task[w] = {k}
  PROVE  /\ Holding(k) = {w} /\ command[k] = 0
         /\ \A n \in Key : n # k => w \notin Holding(n)
BY DEF AloneInv, CopyIsAlone, Holding

\* Nothing OutcomeOf speaks of changes for the payment n.
Unmoved(n) ==
  /\ status'[n] = status[n] /\ command'[n] = command[n] /\ effect'[n] = effect[n]
  /\ outbox'["unresolved"][n] = outbox["unresolved"][n]
  /\ queue'["unresolved"][n] = queue["unresolved"][n]
  /\ Holding(n)' = Holding(n)
  /\ \A w \in Holding(n) : wpc'[w] = wpc[w]

LEMMA UnmovedKeepsOutcome ==
  ASSUME NEW n \in Key, OutcomeOf(n), Unmoved(n)
  PROVE  OutcomeOf(n)'
BY DEF OutcomeOf, Unmoved, Waiting, Refused

LEMMA RedoneGrows == [Next]_vars => redone \subseteq redone'
<1> SUFFICES ASSUME [Next]_vars PROVE redone \subseteq redone'
  OBVIOUS
<1> USE DEF history
<1>1. ASSUME NEW r \in Request, RequestStep(r) \/ RequestFails(r) PROVE redone \subseteq redone'
  BY <1>1 DEF RequestStep, CheckKey, CreatePayment, PublishUnresolved, PublishResolve,
              SetResolving, RequestFails
<1>2. ASSUME NEW w \in Worker, WorkerStep(w) PROVE redone \subseteq redone'
  BY <1>2 DEF WorkerStep, Deliver, Claim, ClaimRefused, Apply, Refuse, RefuseThenFail,
      HandlingFails, Ack,
              FailInvestment, FailLoan
<1>3. ASSUME NEW o \in Outcomes, NEW k \in Key, Dispatch(o, k) \/ DispatchAgain(o, k) \/ DispatchGivenUp(o, k)
      PROVE  redone \subseteq redone'
  BY <1>3 DEF Dispatch, DispatchAgain, DispatchGivenUp
<1>4. ASSUME NEW k \in Key, ConsumeResolved(k) \/ ConsumeUnresolved(k)
      PROVE  redone \subseteq redone'
  BY <1>4 DEF ConsumeResolved, ConsumeUnresolved
<1>5. ASSUME NEW w \in Worker, NEW k \in Key,
             Crash(w, k) \/ CommitUnknown(w, k) \/ AnnouncementLost(w, k)
      PROVE  redone \subseteq redone'
  BY <1>5 DEF Crash, CommitUnknown, AnnouncementLost
<1>6. CASE TimePasses \/ UNCHANGED vars
  BY <1>6 DEF TimePasses, vars
<1> QED
  BY <1>1, <1>2, <1>3, <1>4, <1>5, <1>6 DEF Next

LEMMA OutcomeIsOneStep == OutcomeInv /\ [Next]_vars => OutcomeIsOne'
<1> SUFFICES ASSUME OutcomeInv, [Next]_vars, NEW n \in Key \ redone', n \in Key, OutcomeOf(n)
             PROVE  OutcomeOf(n)'
  BY RedoneGrows DEF OutcomeInv, OutcomeIsOne
<1> USE KeyOfAssumption, ServiceAssumption DEF OutcomeInv, AloneInv, TypeOK
<1>1. ASSUME NEW r \in Request, CheckKey(r) PROVE OutcomeOf(n)'
  BY <1>1, UnmovedKeepsOutcome DEF Unmoved, CheckKey, Step, payment, work, mail, history,
      Holding
<1>2. ASSUME NEW r \in Request, CreatePayment(r) PROVE OutcomeOf(n)'
  <2>1. CASE n # KeyOf[r]
    BY <1>2, <2>1, UnmovedKeepsOutcome DEF Unmoved, CreatePayment, Step, payment, work, mail,
        history, Holding
  <2>2. CASE n = KeyOf[r]
    BY <1>2, <2>2
       DEF CreatePayment, Step, payment, work, mail, history, Holding, RequestsAreAlone, Untouched,
           OutcomeOf, Waiting, Refused, Terminal, Outcomes
  <2> QED BY <2>1, <2>2
<1>3. ASSUME NEW r \in Request, PublishUnresolved(r) PROVE OutcomeOf(n)'
  <2>1. CASE n # KeyOf[r]
    BY <1>3, <2>1, UnmovedKeepsOutcome DEF Unmoved, PublishUnresolved, Step, Put, Incr,
        payment, work, mail, history, Holding
  <2>2. CASE n = KeyOf[r]
    BY <1>3, <2>2
       DEF PublishUnresolved, Step, Put, Incr, payment, work, mail, history, Holding, RequestsAreAlone, Untouched,
           OutcomeOf, Waiting, Refused, Terminal, Outcomes
  <2> QED BY <2>1, <2>2
<1>4. ASSUME NEW r \in Request, PublishResolve(r) PROVE OutcomeOf(n)'
  <2>1. CASE n # KeyOf[r]
    BY <1>4, <2>1, UnmovedKeepsOutcome DEF Unmoved, PublishResolve, Step, Incr, payment, work,
        mail, history, Holding
  <2>2. CASE n = KeyOf[r]
    BY <1>4, <2>2
       DEF PublishResolve, Step, Incr, payment, work, mail, history, Holding, RequestsAreAlone, Untouched,
           OutcomeOf, Waiting, Refused, Terminal, Outcomes
  <2> QED BY <2>1, <2>2
<1>5. ASSUME NEW r \in Request, SetResolving(r) PROVE OutcomeOf(n)'
  <2>1. CASE n # KeyOf[r]
    BY <1>5, <2>1, UnmovedKeepsOutcome DEF Unmoved, SetResolving, Step, UpdatePaymentStatus,
        payment, work, mail, history, Holding
  <2>2. CASE n = KeyOf[r]
    BY <1>5, <2>2
       DEF SetResolving, Step, UpdatePaymentStatus, payment, work, mail, history, Holding, RequestsAreAlone, Untouched,
           OutcomeOf, Waiting, Refused, Terminal, Outcomes
  <2> QED BY <2>1, <2>2
<1>6. ASSUME NEW r \in Request, RequestFails(r) PROVE OutcomeOf(n)'
  BY <1>6, UnmovedKeepsOutcome DEF Unmoved, RequestFails, Fault, payment, work, mail, history,
      Holding
<1>7. ASSUME NEW w \in Worker, NEW k \in Key, Deliver(w, k) PROVE OutcomeOf(n)'
  <2>1. w \notin Holding(n)
    BY <1>7 DEF Deliver, WorkersHoldOne, Holding
  <2>2. CASE n # k
    BY <1>7, <2>1, <2>2, UnmovedKeepsOutcome DEF Unmoved, Deliver, Decr, payment, work, mail,
        history, Holding
  <2>3. CASE n = k
    <3>1. OutcomeOf(k) /\ Waiting(k)
      BY <1>7, <2>3 DEF Deliver, Waiting
    <3>2. effect'[k] = 0 /\ ~Refused(k)'
      BY <1>7, <3>1 DEF Deliver, payment, mail, OutcomeOf, Refused
    <3>3. ASSUME NEW v \in Holding(k)' PROVE wpc'[v] # "failed"
      BY <1>7, <3>3 DEF Deliver, Holding, CopyIsAlone
    <3> QED
      BY <2>3, <3>2, <3>3 DEF OutcomeOf
  <2> QED BY <2>2, <2>3
<1>8. ASSUME NEW w \in Worker, NEW k \in Key, Claim(w, k) PROVE OutcomeOf(n)'
  <2>1. Holding(k) = {w} /\ command[k] = 0 /\ (n # k => w \notin Holding(n))
    BY <1>8, TaskIsAlone DEF Claim, At
  <2>2. CASE n # k
    BY <1>8, <2>1, <2>2, UnmovedKeepsOutcome DEF Unmoved, Claim, TryClaimPayment, Goto, At,
        payment, work, mail, history, Holding
  <2>3. CASE n = k
    <3>1. Holding(k)' = {w}
      BY <1>8, <2>1 DEF Claim, TryClaimPayment, Goto, At, payment, work, mail, history, Holding
    <3> QED
      BY <1>8, <2>1, <2>3, <3>1 DEF Claim, TryClaimPayment, Goto, At, payment, work, mail,
          history, OutcomeOf, Waiting, Refused, Terminal, Outcomes
  <2> QED BY <2>2, <2>3
<1>9. ASSUME NEW w \in Worker, NEW k \in Key, ClaimRefused(w, k) PROVE OutcomeOf(n)'
  <2>1. Holding(k) = {w} /\ command[k] = 0 /\ (n # k => w \notin Holding(n))
    BY <1>9, TaskIsAlone DEF ClaimRefused, At
  <2>2. CASE n # k
    BY <1>9, <2>1, <2>2, UnmovedKeepsOutcome DEF Unmoved, ClaimRefused, Finish, At, payment,
        work, mail, history, Holding
  <2>3. CASE n = k
    <3>1. Holding(k)' = {}
      BY <1>9, <2>1 DEF ClaimRefused, Finish, At, payment, work, mail, history, Holding
    <3> QED
      BY <1>9, <2>1, <2>3, <3>1 DEF ClaimRefused, Finish, At, payment, work, mail, history,
          OutcomeOf, Waiting, Refused, Terminal, Outcomes
  <2> QED BY <2>2, <2>3
<1>10. ASSUME NEW w \in Worker, NEW k \in Key, Apply(w, k) PROVE OutcomeOf(n)'
  <2>1. Holding(k) = {w} /\ command[k] = 0 /\ (n # k => w \notin Holding(n))
    BY <1>10, TaskIsAlone DEF Apply, At
  <2>2. CASE n # k
    BY <1>10, <2>1, <2>2, UnmovedKeepsOutcome DEF Unmoved, Apply, Incr, Put, Goto, At,
        payment, work, mail, history, Holding
  <2>3. CASE n = k
    <3>1. Holding(k)' = {w}
      BY <1>10, <2>1 DEF Apply, Incr, Put, Goto, At, payment, work, mail, history, Holding
    <3> QED
      BY <1>10, <2>1, <2>3, <3>1 DEF Apply, Incr, Put, Goto, At, payment, work, mail, history,
          OutcomeOf, Waiting, Refused, Terminal, Outcomes
  <2> QED BY <2>2, <2>3
<1>11. ASSUME NEW w \in Worker, NEW k \in Key, Refuse(w, k) PROVE OutcomeOf(n)'
  <2>1. Holding(k) = {w} /\ command[k] = 0 /\ (n # k => w \notin Holding(n))
    BY <1>11, TaskIsAlone DEF Refuse, At
  <2>2. CASE n # k
    BY <1>11, <2>1, <2>2, UnmovedKeepsOutcome DEF Unmoved, Refuse, Incr, Put, Goto, At,
        payment, work, mail, history, Holding
  <2>3. CASE n = k
    <3>1. Holding(k)' = {w}
      BY <1>11, <2>1 DEF Refuse, Incr, Put, Goto, At, payment, work, mail, history, Holding
    <3> QED
      BY <1>11, <2>1, <2>3, <3>1 DEF Refuse, Incr, Put, Goto, At, payment, work, mail,
          history, OutcomeOf, Waiting, Refused, Terminal, Outcomes
  <2> QED BY <2>2, <2>3
<1>12. ASSUME NEW w \in Worker, NEW k \in Key, HandlingFails(w, k) PROVE OutcomeOf(n)'
  <2>1. Holding(k) = {w} /\ command[k] = 0 /\ (n # k => w \notin Holding(n))
    BY <1>12, TaskIsAlone DEF HandlingFails, At
  <2>2. CASE n # k
    BY <1>12, <2>1, <2>2, UnmovedKeepsOutcome DEF Unmoved, HandlingFails, Goto, At, payment,
        work, mail, history, Holding
  <2>3. CASE n = k
    <3>1. Holding(k)' = {w}
      BY <1>12, <2>1 DEF HandlingFails, Goto, At, payment, work, mail, history, Holding
    <3> QED
      BY <1>12, <2>1, <2>3, <3>1 DEF HandlingFails, Goto, At, payment, work, mail, history,
          OutcomeOf, Waiting, Refused, Terminal, Outcomes
  <2> QED BY <2>2, <2>3
<1>13. ASSUME NEW w \in Worker, NEW k \in Key, Ack(w, k) PROVE OutcomeOf(n)'
  <2>1. Holding(k) = {w} /\ command[k] = 0 /\ (n # k => w \notin Holding(n))
    BY <1>13, TaskIsAlone DEF Ack, At
  <2>2. CASE n # k
    BY <1>13, <2>1, <2>2, UnmovedKeepsOutcome DEF Unmoved, Ack, Finish, At, payment, work,
        mail, history, Holding
  <2>3. CASE n = k
    <3>1. Holding(k)' = {}
      BY <1>13, <2>1 DEF Ack, Finish, At, payment, work, mail, history, Holding
    <3> QED
      BY <1>13, <2>1, <2>3, <3>1 DEF Ack, Finish, At, payment, work, mail, history, OutcomeOf,
          Waiting, Refused, Terminal, Outcomes
  <2> QED BY <2>2, <2>3
<1>14. ASSUME NEW w \in Worker, NEW k \in Key, FailInvestment(w, k) PROVE OutcomeOf(n)'
  <2>1. Holding(k) = {w} /\ command[k] = 0 /\ (n # k => w \notin Holding(n))
    BY <1>14, TaskIsAlone DEF FailInvestment, At
  <2>2. CASE n # k
    BY <1>14, <2>1, <2>2, UnmovedKeepsOutcome DEF Unmoved, FailInvestment, TryFailPayment,
        Incr, Finish, At, payment, work, mail, history, Holding
  <2>3. CASE n = k
    <3>1. Holding(k)' = {}
      BY <1>14, <2>1 DEF FailInvestment, TryFailPayment, Incr, Finish, At, payment, work,
          mail, history, Holding
    <3> QED
      BY <1>14, <2>1, <2>3, <3>1 DEF FailInvestment, TryFailPayment, Incr, Finish, At,
          payment, work, mail, history, OutcomeOf, Waiting, Refused, Terminal, Outcomes
  <2> QED BY <2>2, <2>3
<1>15. ASSUME NEW w \in Worker, NEW k \in Key, FailLoan(w, k) PROVE OutcomeOf(n)'
  <2>1. Holding(k) = {w} /\ command[k] = 0 /\ (n # k => w \notin Holding(n))
    BY <1>15, TaskIsAlone DEF FailLoan, At
  <2>2. CASE n # k
    BY <1>15, <2>1, <2>2, UnmovedKeepsOutcome DEF Unmoved, FailLoan, Put, Incr, Finish, At,
        payment, work, mail, history, Holding
  <2>3. CASE n = k
    <3>1. Holding(k)' = {}
      BY <1>15, <2>1 DEF FailLoan, Put, Incr, Finish, At, payment, work, mail, history, Holding
    <3> QED
      BY <1>15, <2>1, <2>3, <3>1 DEF FailLoan, Put, Incr, Finish, At, payment, work, mail,
          history, OutcomeOf, Waiting, Refused, Terminal, Outcomes
  <2> QED BY <2>2, <2>3
<1>16. ASSUME NEW o \in Outcomes, NEW k \in Key, Dispatch(o, k) PROVE OutcomeOf(n)'
  <2>1. CASE n # k
    BY <1>16, <2>1, UnmovedKeepsOutcome DEF Unmoved, Outcomes, Dispatch, Put, Drop, Incr,
        Decr, payment, work, mail, history, Holding
  <2>2. CASE n = k
    BY <1>16, <2>2
       DEF Dispatch, Put, Drop, Incr, Decr, payment, work, mail, history, Holding,
           OutcomeOf, Waiting, Refused, Terminal, Outcomes
  <2> QED BY <2>1, <2>2
<1>17. ASSUME NEW o \in Outcomes, NEW k \in Key, DispatchAgain(o, k) PROVE OutcomeOf(n)'
  <2>1. CASE n # k
    BY <1>17, <2>1, UnmovedKeepsOutcome DEF Unmoved, Outcomes, DispatchAgain, Put, Incr,
        Fault, payment, work, mail, history, Holding
  <2>2. CASE n = k
    BY <1>17, <2>2
       DEF DispatchAgain, Put, Incr, Fault, payment, work, mail, history, Holding,
           OutcomeOf, Waiting, Refused, Terminal, Outcomes
  <2> QED BY <2>1, <2>2
<1>18. ASSUME NEW k \in Key, ConsumeResolved(k) PROVE OutcomeOf(n)'
  <2>1. CASE n # k
    BY <1>18, <2>1, UnmovedKeepsOutcome DEF Unmoved, Outcomes, ConsumeResolved,
        TryCompletePayment, Drop, Decr, payment, work, mail, history, Holding
  <2>2. CASE n = k
    BY <1>18, <2>2
       DEF ConsumeResolved, TryCompletePayment, Drop, Decr, payment, work, mail, history, Holding,
           OutcomeOf, Waiting, Refused, Terminal, Outcomes
  <2> QED BY <2>1, <2>2
<1>19. ASSUME NEW k \in Key, ConsumeUnresolved(k) PROVE OutcomeOf(n)'
  <2>1. CASE n # k
    BY <1>19, <2>1, UnmovedKeepsOutcome DEF Unmoved, Outcomes, ConsumeUnresolved,
        TryUnresolvePayment, Drop, Decr, payment, work, mail, history, Holding
  <2>2. CASE n = k
    BY <1>19, <2>2
       DEF ConsumeUnresolved, TryUnresolvePayment, Drop, Decr, payment, work, mail, history, Holding,
           OutcomeOf, Waiting, Refused, Terminal, Outcomes
  <2> QED BY <2>1, <2>2
<1>20. ASSUME NEW w \in Worker, NEW k \in Key, Crash(w, k) PROVE OutcomeOf(n)'
  <2>1. Holding(k) = {w} /\ command[k] = 0 /\ (n # k => w \notin Holding(n))
    BY <1>20, TaskIsAlone DEF Crash, At
  <2>2. CASE n # k
    BY <1>20, <2>1, <2>2, UnmovedKeepsOutcome DEF Unmoved, Crash, Fault, Finish, Incr, At,
        payment, work, mail, history, Holding
  <2>3. CASE n = k
    BY <1>20, <2>3 DEF Crash
  <2> QED BY <2>2, <2>3
<1>21. ASSUME NEW w \in Worker, NEW k \in Key, CommitUnknown(w, k) PROVE OutcomeOf(n)'
  <2>1. Holding(k) = {w} /\ command[k] = 0 /\ (n # k => w \notin Holding(n))
    BY <1>21, TaskIsAlone DEF CommitUnknown, At
  <2>2. CASE n # k
    BY <1>21, <2>1, <2>2, UnmovedKeepsOutcome DEF Unmoved, CommitUnknown, Fault, Incr, Put,
        Goto, At, payment, work, mail, history, Holding
  <2>3. CASE n = k
    BY <1>21, <2>3 DEF CommitUnknown
  <2> QED BY <2>2, <2>3
<1>22. ASSUME NEW w \in Worker, NEW k \in Key, AnnouncementLost(w, k) PROVE OutcomeOf(n)'
  <2>1. Holding(k) = {w} /\ command[k] = 0 /\ (n # k => w \notin Holding(n))
    BY <1>22, TaskIsAlone DEF AnnouncementLost, At
  <2>2. CASE n # k
    BY <1>22, <2>1, <2>2, UnmovedKeepsOutcome DEF Unmoved, AnnouncementLost, Fault, Incr,
        Finish, At, payment, work, mail, history, Holding
  <2>3. CASE n = k
    <3>1. Holding(k)' = {}
      BY <1>22, <2>1 DEF AnnouncementLost, Fault, Incr, Finish, At, payment, work, mail,
          history, Holding
    <3> QED
      BY <1>22, <2>1, <2>3, <3>1 DEF AnnouncementLost, Fault, Incr, Finish, At, payment, work,
          mail, history, OutcomeOf, Waiting, Refused, Terminal, Outcomes
  <2> QED BY <2>2, <2>3
<1>23. CASE TimePasses
  BY <1>23, UnmovedKeepsOutcome DEF Unmoved, TimePasses, payment, work, mail, history, Holding
<1>24. CASE UNCHANGED vars
  BY <1>24, UnmovedKeepsOutcome DEF Unmoved, vars, payment, work, mail, history, Holding
<1>25. ASSUME NEW w \in Worker, NEW k \in Key, RefuseThenFail(w, k) PROVE OutcomeOf(n)'
  <2>1. Holding(k) = {w} /\ command[k] = 0 /\ (n # k => w \notin Holding(n))
    BY <1>25, TaskIsAlone DEF RefuseThenFail, At
  <2>2. CASE n # k
    BY <1>25, <2>1, <2>2, UnmovedKeepsOutcome DEF Unmoved, RefuseThenFail, Fault, Incr, Put, Goto,
        At, payment, work, mail, history, Holding
  <2>3. CASE n = k
    <3>1. Holding(k)' = {w}
      BY <1>25, <2>1 DEF RefuseThenFail, Fault, Incr, Put, Goto, At, payment, work, mail, history,
          Holding
    <3> QED
      BY <1>25, <2>1, <2>3, <3>1 DEF RefuseThenFail, Fault, Incr, Put, Goto, At, payment, work, mail,
          history, OutcomeOf, Waiting, Refused, Terminal, Outcomes
  <2> QED BY <2>2, <2>3
<1>26. ASSUME NEW o \in Outcomes, NEW k \in Key, DispatchGivenUp(o, k) PROVE OutcomeOf(n)'
  <2>1. CASE n # k
    BY <1>26, <2>1, UnmovedKeepsOutcome DEF Unmoved, Outcomes, DispatchGivenUp, Fault, Put, Drop, Incr,
        Decr, payment, work, mail, history, Holding
  <2>2. CASE n = k
    BY <1>26, <2>2
       DEF DispatchGivenUp, Fault, Put, Drop, Incr, Decr, payment, work, mail, history, Holding,
           OutcomeOf, Waiting, Refused, Terminal, Outcomes
  <2> QED BY <2>1, <2>2
<1> QED
  BY <1>1, <1>2, <1>3, <1>4, <1>5, <1>6, <1>7, <1>8, <1>9, <1>10, <1>11, <1>12, <1>13, <1>14,
      <1>15, <1>16, <1>17, <1>18, <1>19, <1>20, <1>21, <1>22, <1>23, <1>24, <1>25, <1>26 DEF Next,
      RequestStep, WorkerStep

LEMMA OutcomeInit == Init => OutcomeInv
<1>1. Init => OutcomeIsOne
  BY DEF Init, OutcomeIsOne, OutcomeOf, Waiting, Refused, Holding, Nothing, Outcomes
<1> QED
  BY <1>1, AloneInit DEF OutcomeInv

LEMMA OutcomeStep == OutcomeInv /\ [Next]_vars => OutcomeInv'
BY AloneStep, OutcomeIsOneStep DEF OutcomeInv

\* Without a redelivery or a lost commit, a refused payment was not posted.
THEOREM RefusedIsNotApplied == Spec => []RefusedMeansNotApplied
<1>1. OutcomeInv => RefusedMeansNotApplied
  BY DEF OutcomeInv, OutcomeIsOne, OutcomeOf, Refused, RefusedMeansNotApplied
<1> QED
  BY <1>1, OutcomeInit, OutcomeStep, PTL DEF Spec

\* Nor was any payment posted twice.
THEOREM PostedOnce == Spec => []AppliedOnce
<1>1. OutcomeInv => AppliedOnce
  BY DEF OutcomeInv, OutcomeIsOne, OutcomeOf, AppliedOnce
<1> QED
  BY <1>1, OutcomeInit, OutcomeStep, PTL DEF Spec

-----------------------------------------------------------------------------

Posted == {k \in Key : effect[k] > 0}

\* Every step is one of the abstract lifecycle or leaves the rows and the postings alone.
LEMMA StepFollowsLifecycle ==
  AloneInv /\ ResolvedMeansApplied /\ [Next]_vars => [Lifecycle!Next]_<<status, Posted>>
<1> SUFFICES ASSUME AloneInv, ResolvedMeansApplied, [Next]_vars
             PROVE  Lifecycle!Next \/ UNCHANGED <<status, Posted>>
  OBVIOUS
<1> USE DEF Posted
<1>1. ASSUME NEW r \in Request, CreatePayment(r)
      PROVE  Lifecycle!Next \/ UNCHANGED <<status, Posted>>
  <2>1. KeyOf[r] \in Key
    BY KeyOfAssumption
  <2>2. CASE status[KeyOf[r]] = "none"
    BY <1>1, <2>1, <2>2 DEF CreatePayment, Lifecycle!Next, Lifecycle!Receive, Lifecycle!Become
  <2>3. CASE status[KeyOf[r]] # "none"
    BY <1>1, <2>1, <2>3 DEF CreatePayment, AloneInv, TypeOK
  <2> QED BY <2>2, <2>3
<1>2. ASSUME NEW r \in Request, SetResolving(r) PROVE Lifecycle!Next
  <2>1. KeyOf[r] \in Key /\ status[KeyOf[r]] = "received"
    BY <1>2, KeyOfAssumption DEF SetResolving, Step, AloneInv, RequestsAreAlone
  <2> QED
    BY <1>2, <2>1 DEF SetResolving, UpdatePaymentStatus, Lifecycle!Next, Lifecycle!Resolve,
                      Lifecycle!Become
<1>3. ASSUME NEW r \in Request,
             CheckKey(r) \/ PublishUnresolved(r) \/ PublishResolve(r) \/ RequestFails(r)
      PROVE  UNCHANGED <<status, Posted>>
  BY <1>3 DEF CheckKey, PublishUnresolved, PublishResolve, RequestFails, payment
<1>4. ASSUME NEW w \in Worker, NEW k \in Key, Apply(w, k) \/ CommitUnknown(w, k)
      PROVE  Lifecycle!Next
  <2>1. task[w] = {k} /\ effect' = [effect EXCEPT ![k] = @ + 1] /\ UNCHANGED status
    BY <1>4 DEF Apply, CommitUnknown, At, Incr, payment
  <2>2. status[k] # "none"
    BY <2>1 DEF AloneInv, RequestsAreAlone, Untouched, Holding
  <2>3. Posted' = Posted \cup {k}
    BY <2>1 DEF AloneInv, TypeOK
  <2> QED
    BY <2>1, <2>2, <2>3 DEF Lifecycle!Next, Lifecycle!Post
<1>5. ASSUME NEW w \in Worker, NEW k \in Key, FailInvestment(w, k)
      PROVE  Lifecycle!Next \/ UNCHANGED <<status, Posted>>
  <2>1. CASE status[k] = "resolving" /\ age[k] = "old"
    BY <1>5, <2>1 DEF FailInvestment, TryFailPayment, Lifecycle!Next, Lifecycle!GiveUp,
                      Lifecycle!Become
  <2>2. CASE ~(status[k] = "resolving" /\ age[k] = "old")
    BY <1>5, <2>2 DEF FailInvestment, TryFailPayment, AloneInv, TypeOK
  <2> QED BY <2>1, <2>2
<1>6. ASSUME NEW w \in Worker, NEW k \in Key,
             \/ Deliver(w, k) \/ Claim(w, k) \/ ClaimRefused(w, k)
             \/ Refuse(w, k) \/ RefuseThenFail(w, k) \/ HandlingFails(w, k) \/ Ack(w, k)
             \/ FailLoan(w, k)
             \/ Crash(w, k) \/ AnnouncementLost(w, k)
      PROVE  UNCHANGED <<status, Posted>>
  BY <1>6 DEF Deliver, Claim, TryClaimPayment, ClaimRefused, Refuse, RefuseThenFail,
      HandlingFails, Ack,
              FailLoan, Crash, AnnouncementLost, payment
<1>7. ASSUME NEW k \in Key, ConsumeResolved(k) PROVE Lifecycle!Next
  <2>1. k \in Posted
    BY <1>7 DEF ConsumeResolved, ResolvedMeansApplied
  <2> QED
    BY <1>7, <2>1 DEF ConsumeResolved, TryCompletePayment, Lifecycle!Next, Lifecycle!Complete,
                      Lifecycle!Become
<1>8. ASSUME NEW k \in Key, ConsumeUnresolved(k) PROVE Lifecycle!Next
  BY <1>8 DEF ConsumeUnresolved, TryUnresolvePayment, Lifecycle!Next, Lifecycle!GiveUp,
              Lifecycle!Become
<1>9. ASSUME NEW o \in Outcomes, NEW k \in Key, Dispatch(o, k) \/ DispatchAgain(o, k) \/ DispatchGivenUp(o, k)
      PROVE  UNCHANGED <<status, Posted>>
  BY <1>9 DEF Dispatch, DispatchAgain, DispatchGivenUp, payment
<1>10. CASE TimePasses \/ UNCHANGED vars
  BY <1>10 DEF TimePasses, vars, payment
<1> QED
  BY <1>1, <1>2, <1>3, <1>4, <1>5, <1>6, <1>7, <1>8, <1>9, <1>10
     DEF Next, RequestStep, WorkerStep

\* The services implement the life of a payment that PaymentLifecycle promises.
THEOREM LifecycleIsImplemented == Spec => ImplementsLifecycle
<1>1. Init => Lifecycle!Init
  BY DEF Init, Lifecycle!Init
<1>2. Init => ResolvedMeansApplied
  BY DEF Init, ResolvedMeansApplied, Nothing, Outcomes
<1> QED
  BY <1>1, <1>2, AloneInit, AloneStep, ResolvedMeansAppliedStep, StepFollowsLifecycle, PTL
     DEF Spec, ImplementsLifecycle, Lifecycle!Spec, Posted

-----------------------------------------------------------------------------
(* No payment is forgotten *)

\* A worker has payments of its own service only, and only the investment worker claims.
OwnWork ==
  \A w \in Worker : \A k \in task[w] :
    target[k] = Service[w] /\ (wpc[w] = "delivered" => Service[w] = "investment")

LEMMA OwnWorkStep == TypeOK /\ WorkersHoldOne /\ OwnWork /\ [Next]_vars => OwnWork'
<1> SUFFICES ASSUME TypeOK, WorkersHoldOne, OwnWork, [Next]_vars PROVE OwnWork'
  OBVIOUS
<1> USE ServiceAssumption DEF TypeOK, WorkersHoldOne, OwnWork, payment, work, mail, history
<1>1. ASSUME NEW r \in Request, RequestStep(r) \/ RequestFails(r) PROVE OwnWork'
  BY <1>1 DEF RequestStep, CheckKey, CreatePayment, PublishUnresolved, PublishResolve,
              SetResolving, UpdatePaymentStatus, RequestFails
<1>2. ASSUME NEW w \in Worker, NEW k \in Key, Deliver(w, k) PROVE OwnWork'
  BY <1>2 DEF Deliver
<1>3. ASSUME NEW w \in Worker, NEW k \in Key,
             \/ Claim(w, k) \/ Apply(w, k) \/ Refuse(w, k) \/ HandlingFails(w, k)
             \/ RefuseThenFail(w, k) \/ CommitUnknown(w, k)
      PROVE  OwnWork'
  <2>1. /\ UNCHANGED <<target, task>> /\ wpc'[w] # "delivered"
        /\ \A v \in Worker : v # w => wpc'[v] = wpc[v]
    BY <1>3 DEF Claim, TryClaimPayment, Apply, Refuse, HandlingFails, RefuseThenFail,
                CommitUnknown, Goto
  <2> QED
    BY <2>1
<1>4. ASSUME NEW w \in Worker, NEW k \in Key,
             \/ ClaimRefused(w, k) \/ Ack(w, k) \/ FailInvestment(w, k) \/ FailLoan(w, k)
             \/ Crash(w, k) \/ AnnouncementLost(w, k)
      PROVE  OwnWork'
  <2>1. UNCHANGED target /\ Finish(w)
    BY <1>4 DEF ClaimRefused, Ack, FailInvestment, TryFailPayment, FailLoan, Crash,
                AnnouncementLost
  <2> QED
    BY <2>1 DEF Finish
<1>5. ASSUME NEW o \in Outcomes, NEW k \in Key,
             Dispatch(o, k) \/ DispatchAgain(o, k) \/ DispatchGivenUp(o, k)
      PROVE  OwnWork'
  BY <1>5 DEF Dispatch, DispatchAgain, DispatchGivenUp
<1>6. ASSUME NEW k \in Key, ConsumeResolved(k) \/ ConsumeUnresolved(k) PROVE OwnWork'
  BY <1>6 DEF ConsumeResolved, TryCompletePayment, ConsumeUnresolved, TryUnresolvePayment
<1>7. CASE TimePasses \/ UNCHANGED vars
  BY <1>7 DEF TimePasses, vars
<1> QED
  BY <1>1, <1>2, <1>3, <1>4, <1>5, <1>6, <1>7 DEF Next, WorkerStep

\* The payments that someone waits for: of a loan, when the row is resolving or about to be;
\* of an investment, when it was claimed and its delivery not given up.
LoanExpected(k) ==
  /\ target[k] = "loan"
  /\ \/ status[k] = "resolving"
     \/ \E r \in Request : hpc[r] = "published" /\ KeyOf[r] = k

ClaimedExpected(k) ==
  target[k] = "investment" /\ status[k] = "resolving" /\ age[k] # "null" /\ dead[k] = 0

Expected(k) == k \notin unannounced /\ (LoanExpected(k) \/ ClaimedExpected(k))

\* Only a resolving row is claimed.
ClaimedWasResolving ==
  \A k \in Key : age[k] # "null" => status[k] \in {"resolving"} \cup Terminal

LEMMA ClaimedWasResolvingStep ==
  AloneInv /\ ClaimedWasResolving /\ [Next]_vars => ClaimedWasResolving'
<1> SUFFICES ASSUME AloneInv, ClaimedWasResolving, [Next]_vars PROVE ClaimedWasResolving'
  OBVIOUS
<1> USE KeyOfAssumption DEF AloneInv, TypeOK, ClaimedWasResolving, Terminal, payment
<1>1. ASSUME NEW r \in Request,
             \/ CheckKey(r) \/ CreatePayment(r) \/ PublishUnresolved(r) \/ PublishResolve(r)
             \/ SetResolving(r) \/ RequestFails(r)
      PROVE  ClaimedWasResolving'
  BY <1>1 DEF CheckKey, CreatePayment, PublishUnresolved, PublishResolve, SetResolving,
              UpdatePaymentStatus, RequestFails
<1>2. ASSUME NEW w \in Worker, NEW k \in Key, Claim(w, k) PROVE ClaimedWasResolving'
  BY <1>2 DEF Claim, TryClaimPayment
<1>3. ASSUME NEW w \in Worker, NEW k \in Key, FailInvestment(w, k) PROVE ClaimedWasResolving'
  BY <1>3 DEF FailInvestment, TryFailPayment
<1>4. ASSUME NEW w \in Worker, NEW k \in Key,
             \/ Deliver(w, k) \/ ClaimRefused(w, k) \/ Apply(w, k) \/ Refuse(w, k)
             \/ HandlingFails(w, k) \/ RefuseThenFail(w, k) \/ Ack(w, k) \/ FailLoan(w, k)
             \/ Crash(w, k) \/ CommitUnknown(w, k) \/ AnnouncementLost(w, k)
      PROVE  ClaimedWasResolving'
  BY <1>4 DEF Deliver, ClaimRefused, Apply, Refuse, HandlingFails, RefuseThenFail, Ack, FailLoan,
              Crash, CommitUnknown, AnnouncementLost
<1>5. ASSUME NEW o \in Outcomes, NEW k \in Key,
             Dispatch(o, k) \/ DispatchAgain(o, k) \/ DispatchGivenUp(o, k)
      PROVE  ClaimedWasResolving'
  BY <1>5 DEF Dispatch, DispatchAgain, DispatchGivenUp
<1>6. ASSUME NEW k \in Key, ConsumeResolved(k) \/ ConsumeUnresolved(k)
      PROVE  ClaimedWasResolving'
  BY <1>6 DEF ConsumeResolved, TryCompletePayment, ConsumeUnresolved, TryUnresolvePayment
<1>7. CASE TimePasses \/ UNCHANGED vars
  BY <1>7 DEF TimePasses, vars
<1> QED
  BY <1>1, <1>2, <1>3, <1>4, <1>5, <1>6, <1>7 DEF Next, RequestStep, WorkerStep

Mailed(k) == \E o \in Outcomes : outbox[o][k] > 0 \/ queue[o][k] > 0

\* What keeps a payment going: its command, a worker that has not committed, or a message.
InFlight(k) == command[k] > 0 \/ Mailed(k) \/ \E w \in Holding(k) : wpc[w] # "handled"

PaymentsInFlight == \A k \in Key : Expected(k) => InFlight(k)

LEMMA PaymentsInFlightStep ==
  AloneInv /\ OwnWork /\ ClaimedWasResolving /\ PaymentsInFlight /\ [Next]_vars
    => PaymentsInFlight'
<1> SUFFICES ASSUME AloneInv, OwnWork, ClaimedWasResolving, PaymentsInFlight, [Next]_vars,
                    NEW n \in Key, Expected(n)'
             PROVE  InFlight(n)'
  BY DEF PaymentsInFlight
<1> USE KeyOfAssumption, ServiceAssumption
    DEF AloneInv, TypeOK, PaymentsInFlight, Expected, LoanExpected, ClaimedExpected,
        payment, work, mail, history
<1> DEFINE Kept == /\ UNCHANGED <<wpc, task>> /\ (command[n] > 0 => command'[n] > 0)
                   /\ \A o \in Outcomes : /\ outbox[o][n] > 0 => outbox'[o][n] > 0
                                          /\ queue[o][n] > 0 => queue'[o][n] > 0
<1>0. ASSUME Expected(n), Kept PROVE InFlight(n)'
  <2>1. InFlight(n)
    BY <1>0
  <2>2. Kept
    BY <1>0
  <2> QED
    BY ONLY <2>1, <2>2 DEF InFlight, Mailed, Holding
<1>1. ASSUME NEW r \in Request,
             CheckKey(r) \/ CreatePayment(r) \/ SetResolving(r) \/ RequestFails(r)
      PROVE  InFlight(n)'
  <2>1. Kept
    BY <1>1 DEF CheckKey, CreatePayment, SetResolving, UpdatePaymentStatus, RequestFails
  <2>2. Expected(n)
    <3>1. CASE SetResolving(r)
      <4>1. hpc[r] = "published" /\ status[KeyOf[r]] = "received" /\ age[KeyOf[r]] = "null"
        BY <3>1 DEF SetResolving, Step, RequestsAreAlone, ClaimedWasResolving, Terminal
      <4>2. CASE n = KeyOf[r]
        BY <3>1, <4>1, <4>2 DEF SetResolving, UpdatePaymentStatus
      <4>3. CASE n # KeyOf[r]
        BY <3>1, <4>1, <4>3 DEF SetResolving, UpdatePaymentStatus, Step
      <4> QED
        BY <4>2, <4>3
    <3>2. CASE CheckKey(r) \/ CreatePayment(r) \/ RequestFails(r)
      BY <3>2 DEF CheckKey, CreatePayment, RequestFails, Step
    <3> QED
      BY <1>1, <3>1, <3>2
  <2> QED
    BY <1>0, <2>1, <2>2
<1>2. ASSUME NEW r \in Request, PublishUnresolved(r) PROVE InFlight(n)'
  BY <1>0, <1>2 DEF PublishUnresolved, Step, Put, Incr, Outcomes
<1>3. ASSUME NEW r \in Request, PublishResolve(r) PROVE InFlight(n)'
  <2>1. CASE KeyOf[r] = n
    BY <1>3, <2>1 DEF PublishResolve, Incr, InFlight
  <2>2. CASE KeyOf[r] # n
    <3>1. Kept /\ Expected(n)
      BY <1>3, <2>2 DEF PublishResolve, Step, Incr
    <3> QED
      BY <1>0, <3>1
  <2> QED
    BY <2>1, <2>2
<1>4. ASSUME NEW w \in Worker, NEW k \in Key, Deliver(w, k) PROVE InFlight(n)'
  <2>1. Expected(n)
    BY <1>4 DEF Deliver
  <2>2. CASE n = k
    BY <1>4, <2>2 DEF Deliver, InFlight, Holding
  <2>3. CASE n # k
    BY <1>4, <2>1, <2>3 DEF Deliver, Decr, InFlight, Mailed, Holding, WorkersHoldOne
  <2> QED
    BY <2>2, <2>3
<1>5. ASSUME NEW w \in Worker, NEW k \in Key,
             Claim(w, k) \/ HandlingFails(w, k)
      PROVE  InFlight(n)'
  <2>1. /\ UNCHANGED <<command, outbox, queue, task>> /\ task[w] = {k} /\ wpc'[w] # "handled"
        /\ \A v \in Worker : v # w => wpc'[v] = wpc[v]
    BY <1>5 DEF Claim, HandlingFails, Goto, At
  <2>2. CASE n = k
    BY <2>1, <2>2 DEF InFlight, Holding
  <2>3. CASE n # k
    <3>1. Expected(n)
      BY <1>5, <2>3 DEF Claim, TryClaimPayment, HandlingFails
    <3> QED
      BY <2>1, <3>1 DEF InFlight, Mailed, Holding
  <2> QED
    BY <2>2, <2>3
<1>6. ASSUME NEW w \in Worker, NEW k \in Key,
             Apply(w, k) \/ Refuse(w, k) \/ RefuseThenFail(w, k) \/ CommitUnknown(w, k)
      PROVE  InFlight(n)'
  <2>1. Expected(n)
    BY <1>6 DEF Apply, Refuse, RefuseThenFail, CommitUnknown
  <2>2. PICK o \in Outcomes : outbox' = Put(outbox, o, k)
    BY <1>6 DEF Apply, Refuse, RefuseThenFail, CommitUnknown, Outcomes
  <2>3. /\ UNCHANGED <<command, queue, task>> /\ task[w] = {k}
        /\ \A v \in Worker : v # w => wpc'[v] = wpc[v]
    BY <1>6 DEF Apply, Refuse, RefuseThenFail, CommitUnknown, Goto, At
  <2>4. CASE n = k
    BY <2>2, <2>4 DEF Put, Incr, InFlight, Mailed
  <2>5. CASE n # k
    <3>1. \A p \in Outcomes : outbox'[p][n] = outbox[p][n]
      BY <2>2, <2>5 DEF Put, Incr
    <3> QED
      BY <2>1, <2>3, <2>5, <3>1 DEF InFlight, Mailed, Holding
  <2> QED
    BY <2>4, <2>5
<1>7. ASSUME NEW w \in Worker, NEW k \in Key, Ack(w, k) PROVE InFlight(n)'
  BY <1>7 DEF Ack, At, Finish, InFlight, Mailed, Holding
<1>8. ASSUME NEW w \in Worker, NEW k \in Key, ClaimRefused(w, k) \/ FailInvestment(w, k)
      PROVE  InFlight(n)'
  <2>1. k # n /\ task[w] = {k}
    <3>1. CASE ClaimRefused(w, k)
      BY <3>1 DEF ClaimRefused, At, OwnWork
    <3>2. CASE FailInvestment(w, k)
      BY <3>2 DEF FailInvestment, TryFailPayment, Incr, At, OwnWork
    <3> QED
      BY <1>8, <3>1, <3>2
  <2>2. /\ Expected(n) /\ UNCHANGED <<command, outbox, queue>> /\ Finish(w)
    BY <1>8, <2>1 DEF ClaimRefused, FailInvestment, TryFailPayment, Incr
  <2> QED
    BY <2>1, <2>2 DEF Finish, InFlight, Mailed, Holding
<1>9. ASSUME NEW w \in Worker, NEW k \in Key,
             FailLoan(w, k) \/ Crash(w, k) \/ AnnouncementLost(w, k)
      PROVE  InFlight(n)'
  <2>1. task[w] = {k} /\ Finish(w) /\ UNCHANGED <<target, status, age, hpc>>
        /\ unannounced \subseteq unannounced' /\ (dead'[n] = 0 => dead[n] = 0)
    BY <1>9 DEF FailLoan, Crash, AnnouncementLost, At, Incr
  <2>2. Expected(n)
    BY <2>1
  <2>3. CASE n = k
    BY <1>9, <2>3 DEF FailLoan, Crash, AnnouncementLost, Put, Incr, InFlight, Mailed, Outcomes
  <2>4. CASE n # k
    <3>1. /\ command'[n] = command[n] /\ UNCHANGED outbox
          /\ \A o \in Outcomes : queue'[o][n] = queue[o][n]
      BY <1>9, <2>4 DEF FailLoan, Crash, AnnouncementLost, Put, Incr
    <3> QED
      BY <2>2, <2>1, <2>4, <3>1 DEF Finish, InFlight, Mailed, Holding
  <2> QED
    BY <2>3, <2>4
<1>10. ASSUME NEW o \in Outcomes, NEW k \in Key,
              Dispatch(o, k) \/ DispatchAgain(o, k) \/ DispatchGivenUp(o, k)
       PROVE  InFlight(n)'
  <2>1. Expected(n) /\ UNCHANGED <<command, wpc, task>>
    BY <1>10 DEF Dispatch, DispatchAgain, DispatchGivenUp
  <2>2. CASE n = k
    BY <1>10, <2>2 DEF Dispatch, DispatchAgain, DispatchGivenUp, Put, Incr, InFlight, Mailed
  <2>3. CASE n # k
    <3>1. \A p \in Outcomes : outbox'[p][n] = outbox[p][n] /\ queue'[p][n] = queue[p][n]
      BY <1>10, <2>3 DEF Dispatch, DispatchAgain, DispatchGivenUp, Put, Drop, Incr, Decr
    <3> QED
      BY <2>1, <3>1 DEF InFlight, Mailed, Holding
  <2> QED
    BY <2>2, <2>3
<1>11. ASSUME NEW k \in Key, ConsumeResolved(k) \/ ConsumeUnresolved(k) PROVE InFlight(n)'
  <2>1. PICK o \in Outcomes : queue' = Drop(queue, o, k)
    BY <1>11 DEF ConsumeResolved, ConsumeUnresolved, Outcomes
  <2>2. /\ UNCHANGED <<target, hpc, command, outbox, wpc, task>>
        /\ status[k] = "resolving" /\ status'[k] \in Terminal
        /\ \A j \in Key : j # k => status'[j] = status[j]
    BY <1>11 DEF ConsumeResolved, TryCompletePayment, ConsumeUnresolved, TryUnresolvePayment, Terminal
  <2>3. n # k
    BY <2>2 DEF RequestsAreAlone, Terminal
  <2>4. Expected(n)
    BY <1>11, <2>2, <2>3
       DEF ConsumeResolved, TryCompletePayment, ConsumeUnresolved, TryUnresolvePayment
  <2>5. \A p \in Outcomes : queue'[p][n] = queue[p][n]
    BY <2>1, <2>3 DEF Drop, Decr
  <2> QED
    BY <2>2, <2>4, <2>5 DEF InFlight, Mailed, Holding
<1>12. CASE TimePasses \/ UNCHANGED vars
  BY <1>0, <1>12 DEF TimePasses, vars
<1> QED
  BY <1>1, <1>2, <1>3, <1>4, <1>5, <1>6, <1>7, <1>8, <1>9, <1>10, <1>11, <1>12
     DEF Next, RequestStep, WorkerStep

LEMMA InFlightHolds == Spec => []PaymentsInFlight
<1>1. Init => OwnWork /\ ClaimedWasResolving /\ PaymentsInFlight
  BY DEF Init, OwnWork, ClaimedWasResolving, PaymentsInFlight, Expected, LoanExpected,
         ClaimedExpected
<1>2. AloneInv => TypeOK /\ WorkersHoldOne
  BY DEF AloneInv
<1> QED
  BY <1>1, <1>2, AloneInit, AloneStep, OwnWorkStep, ClaimedWasResolvingStep,
     PaymentsInFlightStep, PTL DEF Spec

\* A loan payment that is resolving is never forgotten: its command, a worker or a message
\* still carries it, unless a message of it was lost.
THEOREM LoansAreCarried == Spec => []LoanIsCarried
<1>1. PaymentsInFlight => LoanIsCarried
  BY DEF PaymentsInFlight, LoanIsCarried, Expected, LoanExpected, InFlight, Mailed, Carried,
         Holding
<1> QED
  BY <1>1, InFlightHolds, PTL

\* Nor is a claimed payment of an investment, unless a message of it was lost or its delivery
\* is in the dead letter queue.
THEOREM ClaimedAreCarried == Spec => []ClaimedIsCarried
<1>1. PaymentsInFlight => ClaimedIsCarried
  BY DEF PaymentsInFlight, ClaimedIsCarried, Expected, ClaimedExpected, InFlight, Mailed,
         Carried, Holding
<1> QED
  BY <1>1, InFlightHolds, PTL

=============================================================================
