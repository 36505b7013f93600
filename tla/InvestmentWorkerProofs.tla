----------------------- MODULE InvestmentWorkerProofs -----------------------
(***************************************************************************)
(* Proofs about InvestmentWorker, for any investments, payments, actors,   *)
(* schedulers, withdrawals and faults.                                     *)
(***************************************************************************)
EXTENDS InvestmentWorker, TLAPS

-----------------------------------------------------------------------------
(* The arithmetic of the interest *)

LEMMA ProductIsNat == ASSUME NEW p \in Nat, NEW m \in Nat PROVE p * m \in Nat
OBVIOUS

\* The interest of m months is off by at most half a cent a month.
LEMMA InterestBounds ==
  ASSUME NEW p \in Nat, NEW m \in Nat \ {0}
  PROVE  /\ Interest(p, m) \in Nat
         /\ 40 * Interest(p, m) <= (p + 20) * m
         /\ 40 * Interest(p, m) >= (p - 20) * m
<1> DEFINE x == p * m
           q == (x + 20) \div 40
<1>1. x \in Nat
  BY ProductIsNat
<1>2. q \in Nat /\ 40 * q <= x + 20 /\ 40 * q >= x - 19
  <2> HIDE DEF x
  <2> QED
    BY <1>1
<1>3. (p + 20) * m = x + 20 * m /\ (p - 20) * m = x - 20 * m
  OBVIOUS
<1>4. 20 * m >= 20
  OBVIOUS
<1> HIDE DEF x
<1>5. 40 * q <= x + 20 * m /\ 40 * q >= x - 20 * m
  BY <1>1, <1>2, <1>4
<1> QED
  BY <1>2, <1>3, <1>5 DEF Interest, x

\* Paying the interest of m months more keeps a total on the calendar.
LEMMA FollowsOn ==
  ASSUME TypeOK, NEW i \in Investment, NEW total \in Nat, NEW date \in Nat, NEW m \in Nat \ {0},
         Follows(i, total, date)
  PROVE  Follows(i, total + Interest(initial[i], m), date + m)
<1> DEFINE p == initial[i]
           d == date - 1 - created[i]
           q == Interest(p, m)
<1>1. p \in Nat /\ d \in Int /\ created[i] \in Nat
  BY DEF TypeOK
<1>2. q \in Nat /\ 40 * q <= (p + 20) * m /\ 40 * q >= (p - 20) * m
  BY <1>1, InterestBounds
<1>3. 40 * total <= (p + 20) * d /\ 40 * total >= (p - 20) * d
  BY DEF Follows
<1>4. (date + m) - 1 - created[i] = d + m
  BY <1>1
<1> HIDE DEF p, d, q
<1>5. (p + 20) * (d + m) = (p + 20) * d + (p + 20) * m /\ (p - 20) * (d + m) = (p - 20) * d + (p - 20) * m
  BY <1>1
<1>6. 40 * (total + q) <= (p + 20) * (d + m) /\ 40 * (total + q) >= (p - 20) * (d + m)
  <2> DEFINE u == (p + 20) * d
             v == (p + 20) * m
             y == (p - 20) * d
             z == (p - 20) * m
  <2>1. u \in Int /\ v \in Int /\ y \in Int /\ z \in Int
    BY <1>1
  <2> HIDE DEF u, v, y, z
  <2>2. 40 * (total + q) <= u + v /\ 40 * (total + q) >= y + z
    BY <1>2, <1>3, <2>1 DEF u, v, y, z
  <2> QED
    BY <1>5, <2>2 DEF u, v, y, z
<1> QED
  BY <1>4, <1>6 DEF Follows, p, d, q

-----------------------------------------------------------------------------
(* Types and the calendar *)

\* What an accrual writes is computed from the listed row, so the types of the totals
\* rest on what the scheduler has listed, and that on the calendar of the rows.
CalendarInv == TypeOK /\ UnopenedIsEmpty /\ AccrualFollowsCalendar /\ ListedFollows

LEMMA CalendarInit == Init => CalendarInv
<1> SUFFICES ASSUME Init PROVE CalendarInv
  OBVIOUS
<1> USE BoundsAssumption DEF Init, Zero, NoColumns, NotSeen
<1>1. TypeOK
  BY DEF TypeOK, Columns
<1>2. UnopenedIsEmpty /\ AccrualFollowsCalendar
  BY DEF UnopenedIsEmpty, AccrualFollowsCalendar, At
<1>3. ListedFollows
  BY DEF ListedFollows
<1> QED
  BY <1>1, <1>2, <1>3 DEF CalendarInv

\* The accrual of a listed row, seen from the row.
LEMMA AccrueWrites ==
  ASSUME CalendarInv, NEW s \in Scheduler, NEW i \in Investment, Accrue(s, i)
  PROVE  /\ i \in opened
         /\ Interest(snap[s].initial[i], MonthsElapsed(s, i)) \in Nat
         /\ next' = [next EXCEPT ![i] = month + 1]
         /\ \E total \in Nat :
              accrued' = [accrued EXCEPT ![i] = total] /\ Follows(i, total, month + 1)
<1> DEFINE m == MonthsElapsed(s, i)
           total == snap[s].accrued[i]
           date == snap[s].next[i]
<1>1. /\ i \in opened /\ snap[s].initial[i] = initial[i] /\ date <= month /\ Follows(i, total, date)
  BY DEF Accrue, CalendarInv, ListedFollows
<1>2. snap[s] \in Columns /\ month \in Nat /\ initial[i] \in Nat
  BY DEF CalendarInv, TypeOK
<1>3. total \in Nat /\ date \in Nat
  BY <1>2 DEF Columns
<1>4. m \in Nat \ {0} /\ date + m = month + 1
  BY <1>1, <1>2, <1>3 DEF MonthsElapsed
<1>5. Interest(initial[i], m) \in Nat
  BY <1>2, <1>4, InterestBounds
<1>6. Follows(i, total + Interest(initial[i], m), date + m)
  <2> HIDE DEF m, total, date
  <2> QED
    BY <1>1, <1>3, <1>4, FollowsOn DEF CalendarInv
<1>7. /\ accrued' = [accrued EXCEPT ![i] = total + Interest(initial[i], m)]
      /\ next' = [next EXCEPT ![i] = date + m]
  BY <1>1 DEF Accrue, UpdateInvestmentAccrual
<1>8. next' = [next EXCEPT ![i] = month + 1]
  BY <1>4, <1>7
<1>9. total + Interest(initial[i], m) \in Nat
  BY <1>3, <1>5
<1> QED
  BY <1>1, <1>4, <1>5, <1>6, <1>7, <1>8, <1>9

LEMMA TypeStep == CalendarInv /\ [Next]_vars => TypeOK'
<1> SUFFICES ASSUME CalendarInv, [Next]_vars PROVE TypeOK'
  OBVIOUS
<1> USE TargetAssumption, AmountAssumption, BoundsAssumption DEF CalendarInv, TypeOK, Columns,
    NotSeen, Zero, NoColumns
<1>1. ASSUME NEW a \in Actor, NEW e \in Event, Start(a, e) PROVE TypeOK'
  BY <1>1 DEF Start, Handlers, row, deposit, schedule, withdrawn
<1>2. ASSUME NEW a \in Actor, NEW e \in Event, Read(a, e) PROVE TypeOK'
  BY <1>2 DEF Read, At, Goto, row, deposit, schedule, withdrawn
<1>3. ASSUME NEW a \in Actor, NEW e \in Event, Fail(a, e) PROVE TypeOK'
  BY <1>3 DEF Fail, Leave, row, deposit, schedule, withdrawn
<1>4. ASSUME NEW a \in Actor, NEW e \in Event, Create(a, e) PROVE TypeOK'
  BY <1>4 DEF Create, At, Post, Leave, row, deposit, schedule, withdrawn
<1>5. ASSUME NEW a \in Actor, NEW e \in Event, CreateFails(a, e) PROVE TypeOK'
  BY <1>5 DEF CreateFails, At, Leave, row, deposit, schedule, withdrawn
<1>6. ASSUME NEW a \in Actor, NEW e \in Event, Add(a, e) PROVE TypeOK'
  BY <1>6 DEF Add, At, UpdateInvestmentPrincipal, Post, Leave, row, deposit, schedule, withdrawn
<1>7. ASSUME NEW w \in Withdrawal, RequestWithdrawal(w) PROVE TypeOK'
  BY <1>7 DEF RequestWithdrawal, CreateInvestmentWithdrawal, row, deposit, schedule, withdrawn
<1>8. ASSUME NEW s \in Scheduler, Wake(s) PROVE TypeOK'
  BY <1>8 DEF Wake, ListEligibleWithdrawals, row, deposit, schedule, withdrawn
<1>9. ASSUME NEW s \in Scheduler, NEW w \in Withdrawal, ProcessWithdrawal(s, w) PROVE TypeOK'
  BY <1>9 DEF ProcessWithdrawal, Transferable, row, deposit, schedule, withdrawn
<1>10. ASSUME NEW s \in Scheduler, ListDueForAccrual(s) PROVE TypeOK'
  BY <1>10 DEF ListDueForAccrual, GetDueAccruals, row, deposit, schedule, withdrawn
<1>11. ASSUME NEW s \in Scheduler, NEW i \in Investment, Accrue(s, i) PROVE TypeOK'
  <2>1. /\ next' = [next EXCEPT ![i] = month + 1]
        /\ \E total \in Nat : accrued' = [accrued EXCEPT ![i] = total]
        /\ Interest(snap[s].initial[i], MonthsElapsed(s, i)) \in Nat
    <3> HIDE DEF CalendarInv
    <3> QED
      BY <1>11, AccrueWrites
  <2>2. announced' \in [Investment -> Nat]
    BY <1>11, <2>1 DEF Accrue
  <2> QED
    BY <1>11, <2>1, <2>2 DEF Accrue, deposit, withdrawn
<1>12. ASSUME NEW s \in Scheduler, EndAccruals(s) PROVE TypeOK'
  BY <1>12 DEF EndAccruals, Sleep, row, deposit, schedule, withdrawn
<1>13. ASSUME NEW s \in Scheduler, WithdrawalsFail(s) PROVE TypeOK'
  BY <1>13 DEF WithdrawalsFail, row, deposit, schedule, withdrawn
<1>14. ASSUME NEW s \in Scheduler, RunFails(s) PROVE TypeOK'
  BY <1>14 DEF RunFails, Sleep, row, deposit, schedule, withdrawn
<1>15. CASE MonthPasses
  BY <1>15 DEF MonthPasses, row, deposit, schedule, withdrawn
<1>16. CASE UNCHANGED vars
  BY <1>16 DEF vars, row, deposit, schedule, withdrawn
<1> QED
  BY <1>1, <1>2, <1>3, <1>4, <1>5, <1>6, <1>7, <1>8, <1>9, <1>10, <1>11, <1>12, <1>13, <1>14,
      <1>15, <1>16
     DEF Next, Handle, DailyRun

LEMMA UnopenedStep == CalendarInv /\ [Next]_vars => UnopenedIsEmpty'
<1> SUFFICES ASSUME CalendarInv, [Next]_vars PROVE UnopenedIsEmpty'
  OBVIOUS
<1> USE TargetAssumption DEF CalendarInv, TypeOK, UnopenedIsEmpty, At
<1>1. ASSUME NEW a \in Actor, NEW e \in Event, Start(a, e) PROVE UnopenedIsEmpty'
  BY <1>1 DEF Start, Handlers, row, deposit, schedule, withdrawn
<1>2. ASSUME NEW a \in Actor, NEW e \in Event, Read(a, e) PROVE UnopenedIsEmpty'
  BY <1>2 DEF Read, At, Goto, row, deposit, schedule, withdrawn
<1>3. ASSUME NEW a \in Actor, NEW e \in Event, Fail(a, e) PROVE UnopenedIsEmpty'
  BY <1>3 DEF Fail, Leave, row, deposit, schedule, withdrawn
<1>4. ASSUME NEW a \in Actor, NEW e \in Event, Create(a, e) PROVE UnopenedIsEmpty'
  BY <1>4 DEF Create, At, Post, Leave, row, deposit, schedule, withdrawn
<1>5. ASSUME NEW a \in Actor, NEW e \in Event, CreateFails(a, e) PROVE UnopenedIsEmpty'
  BY <1>5 DEF CreateFails, At, Leave, row, deposit, schedule, withdrawn
<1>6. ASSUME NEW a \in Actor, NEW e \in Event, Add(a, e) PROVE UnopenedIsEmpty'
  BY <1>6 DEF Add, At, UpdateInvestmentPrincipal, Post, Leave, row, deposit, schedule, withdrawn
<1>7. ASSUME NEW w \in Withdrawal, RequestWithdrawal(w) PROVE UnopenedIsEmpty'
  BY <1>7 DEF RequestWithdrawal, CreateInvestmentWithdrawal, row, deposit, schedule, withdrawn
<1>8. ASSUME NEW s \in Scheduler, Wake(s) PROVE UnopenedIsEmpty'
  BY <1>8 DEF Wake, ListEligibleWithdrawals, row, deposit, schedule, withdrawn
<1>9. ASSUME NEW s \in Scheduler, NEW w \in Withdrawal, ProcessWithdrawal(s, w) PROVE UnopenedIsEmpty'
  BY <1>9 DEF ProcessWithdrawal, Transferable, row, deposit, schedule, withdrawn
<1>10. ASSUME NEW s \in Scheduler, ListDueForAccrual(s) PROVE UnopenedIsEmpty'
  BY <1>10 DEF ListDueForAccrual, GetDueAccruals, row, deposit, schedule, withdrawn
<1>11. ASSUME NEW s \in Scheduler, NEW i \in Investment, Accrue(s, i) PROVE UnopenedIsEmpty'
  <2>1. /\ i \in opened
        /\ \E total \in Nat : accrued' = [accrued EXCEPT ![i] = total]
    <3> HIDE DEF CalendarInv
    <3> QED
      BY <1>11, AccrueWrites
  <2> QED
    BY <1>11, <2>1 DEF Accrue, deposit, withdrawn
<1>12. ASSUME NEW s \in Scheduler, EndAccruals(s) PROVE UnopenedIsEmpty'
  BY <1>12 DEF EndAccruals, Sleep, row, deposit, schedule, withdrawn
<1>13. ASSUME NEW s \in Scheduler, WithdrawalsFail(s) PROVE UnopenedIsEmpty'
  BY <1>13 DEF WithdrawalsFail, row, deposit, schedule, withdrawn
<1>14. ASSUME NEW s \in Scheduler, RunFails(s) PROVE UnopenedIsEmpty'
  BY <1>14 DEF RunFails, Sleep, row, deposit, schedule, withdrawn
<1>15. CASE MonthPasses
  BY <1>15 DEF MonthPasses, row, deposit, schedule, withdrawn
<1>16. CASE UNCHANGED vars
  BY <1>16 DEF vars, row, deposit, schedule, withdrawn
<1> QED
  BY <1>1, <1>2, <1>3, <1>4, <1>5, <1>6, <1>7, <1>8, <1>9, <1>10, <1>11, <1>12, <1>13, <1>14,
      <1>15, <1>16
     DEF Next, Handle, DailyRun

LEMMA CalendarStep == CalendarInv /\ [Next]_vars => AccrualFollowsCalendar'
<1> SUFFICES ASSUME CalendarInv, [Next]_vars PROVE AccrualFollowsCalendar'
  OBVIOUS
<1> USE TargetAssumption, AmountAssumption DEF CalendarInv, TypeOK, AccrualFollowsCalendar,
    Follows
<1>1. ASSUME NEW a \in Actor, NEW e \in Event, Start(a, e) PROVE AccrualFollowsCalendar'
  BY <1>1 DEF Start, Handlers, row, deposit, schedule, withdrawn
<1>2. ASSUME NEW a \in Actor, NEW e \in Event, Read(a, e) PROVE AccrualFollowsCalendar'
  BY <1>2 DEF Read, At, Goto, row, deposit, schedule, withdrawn
<1>3. ASSUME NEW a \in Actor, NEW e \in Event, Fail(a, e) PROVE AccrualFollowsCalendar'
  BY <1>3 DEF Fail, Leave, row, deposit, schedule, withdrawn
<1>4. ASSUME NEW a \in Actor, NEW e \in Event, Create(a, e) PROVE AccrualFollowsCalendar'
  <2>1. Target[e] \in Investment /\ Amount[e] \in Nat
    BY TargetAssumption, AmountAssumption
  <2>2. accrued[Target[e]] = 0
    BY <1>4, <2>1 DEF Create, UnopenedIsEmpty
  <2> QED
    BY <1>4, <2>1, <2>2 DEF Create, Post, Leave, schedule, withdrawn
<1>5. ASSUME NEW a \in Actor, NEW e \in Event, CreateFails(a, e) PROVE AccrualFollowsCalendar'
  BY <1>5 DEF CreateFails, At, Leave, row, deposit, schedule, withdrawn
<1>6. ASSUME NEW a \in Actor, NEW e \in Event, Add(a, e) PROVE AccrualFollowsCalendar'
  BY <1>6 DEF Add, At, UpdateInvestmentPrincipal, Post, Leave, row, deposit, schedule, withdrawn
<1>7. ASSUME NEW w \in Withdrawal, RequestWithdrawal(w) PROVE AccrualFollowsCalendar'
  BY <1>7 DEF RequestWithdrawal, CreateInvestmentWithdrawal, row, deposit, schedule, withdrawn
<1>8. ASSUME NEW s \in Scheduler, Wake(s) PROVE AccrualFollowsCalendar'
  BY <1>8 DEF Wake, ListEligibleWithdrawals, row, deposit, schedule, withdrawn
<1>9. ASSUME NEW s \in Scheduler, NEW w \in Withdrawal, ProcessWithdrawal(s, w) PROVE AccrualFollowsCalendar'
  BY <1>9 DEF ProcessWithdrawal, Transferable, row, deposit, schedule, withdrawn
<1>10. ASSUME NEW s \in Scheduler, ListDueForAccrual(s) PROVE AccrualFollowsCalendar'
  BY <1>10 DEF ListDueForAccrual, GetDueAccruals, row, deposit, schedule, withdrawn
<1>11. ASSUME NEW s \in Scheduler, NEW i \in Investment, Accrue(s, i) PROVE AccrualFollowsCalendar'
  <2>1. /\ next' = [next EXCEPT ![i] = month + 1]
        /\ \E total \in Nat :
             accrued' = [accrued EXCEPT ![i] = total] /\ Follows(i, total, month + 1)
    <3> HIDE DEF CalendarInv, Follows
    <3> QED
      BY <1>11, AccrueWrites
  <2>2. UNCHANGED <<month, opened, initial, created>>
    BY <1>11 DEF Accrue
  <2> QED
    BY <2>1, <2>2
<1>12. ASSUME NEW s \in Scheduler, EndAccruals(s) PROVE AccrualFollowsCalendar'
  BY <1>12 DEF EndAccruals, Sleep, row, deposit, schedule, withdrawn
<1>13. ASSUME NEW s \in Scheduler, WithdrawalsFail(s) PROVE AccrualFollowsCalendar'
  BY <1>13 DEF WithdrawalsFail, row, deposit, schedule, withdrawn
<1>14. ASSUME NEW s \in Scheduler, RunFails(s) PROVE AccrualFollowsCalendar'
  BY <1>14 DEF RunFails, Sleep, row, deposit, schedule, withdrawn
<1>15. CASE MonthPasses
  BY <1>15 DEF MonthPasses, row, deposit, schedule, withdrawn
<1>16. CASE UNCHANGED vars
  BY <1>16 DEF vars, row, deposit, schedule, withdrawn
<1> QED
  BY <1>1, <1>2, <1>3, <1>4, <1>5, <1>6, <1>7, <1>8, <1>9, <1>10, <1>11, <1>12, <1>13, <1>14,
      <1>15, <1>16
     DEF Next, Handle, DailyRun

LEMMA ListedStep == CalendarInv /\ [Next]_vars => ListedFollows'
<1> SUFFICES ASSUME CalendarInv, [Next]_vars PROVE ListedFollows'
  OBVIOUS
<1> USE TargetAssumption, AmountAssumption DEF CalendarInv, TypeOK, Columns, ListedFollows,
    Follows
<1>1. ASSUME NEW a \in Actor, NEW e \in Event, Start(a, e) PROVE ListedFollows'
  BY <1>1 DEF Start, Handlers, row, deposit, schedule, withdrawn
<1>2. ASSUME NEW a \in Actor, NEW e \in Event, Read(a, e) PROVE ListedFollows'
  BY <1>2 DEF Read, At, Goto, row, deposit, schedule, withdrawn
<1>3. ASSUME NEW a \in Actor, NEW e \in Event, Fail(a, e) PROVE ListedFollows'
  BY <1>3 DEF Fail, Leave, row, deposit, schedule, withdrawn
<1>4. ASSUME NEW a \in Actor, NEW e \in Event, Create(a, e) PROVE ListedFollows'
  BY <1>4 DEF Create, At, Post, Leave, row, deposit, schedule, withdrawn
<1>5. ASSUME NEW a \in Actor, NEW e \in Event, CreateFails(a, e) PROVE ListedFollows'
  BY <1>5 DEF CreateFails, At, Leave, row, deposit, schedule, withdrawn
<1>6. ASSUME NEW a \in Actor, NEW e \in Event, Add(a, e) PROVE ListedFollows'
  BY <1>6 DEF Add, At, UpdateInvestmentPrincipal, Post, Leave, row, deposit, schedule, withdrawn
<1>7. ASSUME NEW w \in Withdrawal, RequestWithdrawal(w) PROVE ListedFollows'
  BY <1>7 DEF RequestWithdrawal, CreateInvestmentWithdrawal, row, deposit, schedule, withdrawn
<1>8. ASSUME NEW s \in Scheduler, Wake(s) PROVE ListedFollows'
  BY <1>8 DEF Wake, ListEligibleWithdrawals, row, deposit, schedule, withdrawn
<1>9. ASSUME NEW s \in Scheduler, NEW w \in Withdrawal, ProcessWithdrawal(s, w) PROVE ListedFollows'
  BY <1>9 DEF ProcessWithdrawal, Transferable, row, deposit, schedule, withdrawn
<1>10. ASSUME NEW s \in Scheduler, ListDueForAccrual(s) PROVE ListedFollows'
  <2>1. UNCHANGED <<month, opened, initial, created>>
    BY <1>10 DEF ListDueForAccrual, row
  <2> QED
    BY <1>10, <2>1 DEF ListDueForAccrual, GetDueAccruals, AccrualFollowsCalendar
<1>11. ASSUME NEW s \in Scheduler, NEW i \in Investment, Accrue(s, i) PROVE ListedFollows'
  BY <1>11 DEF Accrue, UpdateInvestmentAccrual, row, deposit, schedule, withdrawn
<1>12. ASSUME NEW s \in Scheduler, EndAccruals(s) PROVE ListedFollows'
  BY <1>12 DEF EndAccruals, Sleep, row, deposit, schedule, withdrawn
<1>13. ASSUME NEW s \in Scheduler, WithdrawalsFail(s) PROVE ListedFollows'
  BY <1>13 DEF WithdrawalsFail, row, deposit, schedule, withdrawn
<1>14. ASSUME NEW s \in Scheduler, RunFails(s) PROVE ListedFollows'
  BY <1>14 DEF RunFails, Sleep, row, deposit, schedule, withdrawn
<1>15. CASE MonthPasses
  BY <1>15 DEF MonthPasses, row, deposit, schedule, withdrawn
<1>16. CASE UNCHANGED vars
  BY <1>16 DEF vars, row, deposit, schedule, withdrawn
<1> QED
  BY <1>1, <1>2, <1>3, <1>4, <1>5, <1>6, <1>7, <1>8, <1>9, <1>10, <1>11, <1>12, <1>13, <1>14,
      <1>15, <1>16
     DEF Next, Handle, DailyRun

LEMMA CalendarInvStep == CalendarInv /\ [Next]_vars => CalendarInv'
BY TypeStep, UnopenedStep, CalendarStep, ListedStep DEF CalendarInv

LEMMA CalendarInvHolds == Spec => []CalendarInv
BY CalendarInit, CalendarInvStep, PTL DEF Spec

\* Every column stays in its type: no accrual, however late and from whatever row, takes a
\* total or a date below zero.
THEOREM TypeCorrect == Spec => []TypeOK
<1>1. CalendarInv => TypeOK
  BY DEF CalendarInv
<1> QED
  BY <1>1, CalendarInvHolds, PTL

\* However many schedulers there are, and however stale the rows they work from, the
\* interest of an investment is that of the months it was accrued for.
THEOREM AccrualIsCalendar == Spec => []AccrualFollowsCalendar
<1>1. CalendarInv => AccrualFollowsCalendar
  BY DEF CalendarInv
<1> QED
  BY <1>1, CalendarInvHolds, PTL

-----------------------------------------------------------------------------
(* The principal *)

PrincipalInv == CalendarInv /\ PrincipalNeverOverstated /\ SeenNeverOverstated

LEMMA PrincipalInit == Init => PrincipalNeverOverstated /\ SeenNeverOverstated
BY DEF Init, Zero, PrincipalNeverOverstated, SeenNeverOverstated, At

LEMMA PrincipalStep == PrincipalInv /\ [Next]_vars => PrincipalNeverOverstated'
<1> SUFFICES ASSUME PrincipalInv, [Next]_vars PROVE PrincipalNeverOverstated'
  OBVIOUS
<1> USE TargetAssumption, AmountAssumption DEF PrincipalInv, CalendarInv, TypeOK, At,
           PrincipalNeverOverstated, SeenNeverOverstated
<1>1. ASSUME NEW a \in Actor, NEW e \in Event, Start(a, e) PROVE PrincipalNeverOverstated'
  BY <1>1 DEF Start, Handlers, row, deposit, schedule, withdrawn
<1>2. ASSUME NEW a \in Actor, NEW e \in Event, Read(a, e) PROVE PrincipalNeverOverstated'
  BY <1>2 DEF Read, At, Goto, row, deposit, schedule, withdrawn
<1>3. ASSUME NEW a \in Actor, NEW e \in Event, Fail(a, e) PROVE PrincipalNeverOverstated'
  BY <1>3 DEF Fail, Leave, row, deposit, schedule, withdrawn
<1>4. ASSUME NEW a \in Actor, NEW e \in Event, Create(a, e) PROVE PrincipalNeverOverstated'
  BY <1>4 DEF Create, At, Post, Leave, row, deposit, schedule, withdrawn
<1>5. ASSUME NEW a \in Actor, NEW e \in Event, CreateFails(a, e) PROVE PrincipalNeverOverstated'
  BY <1>5 DEF CreateFails, At, Leave, row, deposit, schedule, withdrawn
<1>6. ASSUME NEW a \in Actor, NEW e \in Event, Add(a, e) PROVE PrincipalNeverOverstated'
  BY <1>6 DEF Add, At, UpdateInvestmentPrincipal, Post, Leave, row, deposit, schedule, withdrawn
<1>7. ASSUME NEW w \in Withdrawal, RequestWithdrawal(w) PROVE PrincipalNeverOverstated'
  BY <1>7 DEF RequestWithdrawal, CreateInvestmentWithdrawal, row, deposit, schedule, withdrawn
<1>8. ASSUME NEW s \in Scheduler, Wake(s) PROVE PrincipalNeverOverstated'
  BY <1>8 DEF Wake, ListEligibleWithdrawals, row, deposit, schedule, withdrawn
<1>9. ASSUME NEW s \in Scheduler, NEW w \in Withdrawal, ProcessWithdrawal(s, w) PROVE PrincipalNeverOverstated'
  BY <1>9 DEF ProcessWithdrawal, Transferable, row, deposit, schedule, withdrawn
<1>10. ASSUME NEW s \in Scheduler, ListDueForAccrual(s) PROVE PrincipalNeverOverstated'
  BY <1>10 DEF ListDueForAccrual, GetDueAccruals, row, deposit, schedule, withdrawn
<1>11. ASSUME NEW s \in Scheduler, NEW i \in Investment, Accrue(s, i) PROVE PrincipalNeverOverstated'
  BY <1>11 DEF Accrue, UpdateInvestmentAccrual, row, deposit, schedule, withdrawn
<1>12. ASSUME NEW s \in Scheduler, EndAccruals(s) PROVE PrincipalNeverOverstated'
  BY <1>12 DEF EndAccruals, Sleep, row, deposit, schedule, withdrawn
<1>13. ASSUME NEW s \in Scheduler, WithdrawalsFail(s) PROVE PrincipalNeverOverstated'
  BY <1>13 DEF WithdrawalsFail, row, deposit, schedule, withdrawn
<1>14. ASSUME NEW s \in Scheduler, RunFails(s) PROVE PrincipalNeverOverstated'
  BY <1>14 DEF RunFails, Sleep, row, deposit, schedule, withdrawn
<1>15. CASE MonthPasses
  BY <1>15 DEF MonthPasses, row, deposit, schedule, withdrawn
<1>16. CASE UNCHANGED vars
  BY <1>16 DEF vars, row, deposit, schedule, withdrawn
<1> QED
  BY <1>1, <1>2, <1>3, <1>4, <1>5, <1>6, <1>7, <1>8, <1>9, <1>10, <1>11, <1>12, <1>13, <1>14,
      <1>15, <1>16
     DEF Next, Handle, DailyRun

LEMMA SeenStep == PrincipalInv /\ [Next]_vars => SeenNeverOverstated'
<1> SUFFICES ASSUME PrincipalInv, [Next]_vars PROVE SeenNeverOverstated'
  OBVIOUS
<1> USE TargetAssumption, AmountAssumption DEF PrincipalInv, CalendarInv, TypeOK, At,
           PrincipalNeverOverstated, SeenNeverOverstated
<1>1. ASSUME NEW a \in Actor, NEW e \in Event, Start(a, e) PROVE SeenNeverOverstated'
  BY <1>1 DEF Start, Handlers, row, deposit, schedule, withdrawn
<1>2. ASSUME NEW a \in Actor, NEW e \in Event, Read(a, e) PROVE SeenNeverOverstated'
  <2> SUFFICES ASSUME NEW b \in Actor, NEW f \in Event, At(b, f, "write")', seen'[b].found
               PROVE  seen'[b].current <= credited'[Target[f]]
    OBVIOUS
  <2>1. event' = event /\ credited' = credited /\ event[a] = {e}
    BY <1>2 DEF Read, Goto
  <2>2. CASE b = a
    <3>1. seen'[a].current = current[Target[e]] /\ f = e
      BY <1>2, <2>1, <2>2 DEF Read
    <3> QED
      BY <2>1, <2>2, <3>1
  <2>3. CASE b # a
    <3>1. pc'[b] = pc[b] /\ seen'[b] = seen[b]
      BY <1>2, <2>3 DEF Read, Goto
    <3> QED
      BY <2>1, <3>1
  <2> QED
    BY <2>2, <2>3
<1>3. ASSUME NEW a \in Actor, NEW e \in Event, Fail(a, e) PROVE SeenNeverOverstated'
  BY <1>3 DEF Fail, Leave, row, deposit, schedule, withdrawn
<1>4. ASSUME NEW a \in Actor, NEW e \in Event, Create(a, e) PROVE SeenNeverOverstated'
  <2> SUFFICES ASSUME NEW b \in Actor, NEW f \in Event, At(b, f, "write")', seen'[b].found
               PROVE  seen'[b].current <= credited'[Target[f]]
    OBVIOUS
  <2>1. b # a /\ pc'[b] = pc[b] /\ event'[b] = event[b] /\ seen'[b] = seen[b]
    BY <1>4 DEF Create, Leave
  <2>2. credited' = [credited EXCEPT ![Target[e]] = @ + Amount[e]]
    BY <1>4 DEF Create, Post
  <2>3. credited[Target[f]] <= credited'[Target[f]]
    BY <2>2
  <2>4. seen[b].current <= credited[Target[f]] /\ seen[b].current \in Nat
    BY <2>1
  <2> QED
    BY <2>1, <2>2, <2>3, <2>4
<1>5. ASSUME NEW a \in Actor, NEW e \in Event, CreateFails(a, e) PROVE SeenNeverOverstated'
  BY <1>5 DEF CreateFails, At, Leave, row, deposit, schedule, withdrawn
<1>6. ASSUME NEW a \in Actor, NEW e \in Event, Add(a, e) PROVE SeenNeverOverstated'
  <2> SUFFICES ASSUME NEW b \in Actor, NEW f \in Event, At(b, f, "write")', seen'[b].found
               PROVE  seen'[b].current <= credited'[Target[f]]
    OBVIOUS
  <2>1. b # a /\ pc'[b] = pc[b] /\ event'[b] = event[b] /\ seen'[b] = seen[b]
    BY <1>6 DEF Add, Leave
  <2>2. credited' = [credited EXCEPT ![Target[e]] = @ + Amount[e]]
    BY <1>6 DEF Add, Post
  <2>3. credited[Target[f]] <= credited'[Target[f]]
    BY <2>2
  <2>4. seen[b].current <= credited[Target[f]] /\ seen[b].current \in Nat
    BY <2>1
  <2> QED
    BY <2>1, <2>2, <2>3, <2>4
<1>7. ASSUME NEW w \in Withdrawal, RequestWithdrawal(w) PROVE SeenNeverOverstated'
  BY <1>7 DEF RequestWithdrawal, CreateInvestmentWithdrawal, row, deposit, schedule, withdrawn
<1>8. ASSUME NEW s \in Scheduler, Wake(s) PROVE SeenNeverOverstated'
  BY <1>8 DEF Wake, ListEligibleWithdrawals, row, deposit, schedule, withdrawn
<1>9. ASSUME NEW s \in Scheduler, NEW w \in Withdrawal, ProcessWithdrawal(s, w) PROVE SeenNeverOverstated'
  BY <1>9 DEF ProcessWithdrawal, Transferable, row, deposit, schedule, withdrawn
<1>10. ASSUME NEW s \in Scheduler, ListDueForAccrual(s) PROVE SeenNeverOverstated'
  BY <1>10 DEF ListDueForAccrual, GetDueAccruals, row, deposit, schedule, withdrawn
<1>11. ASSUME NEW s \in Scheduler, NEW i \in Investment, Accrue(s, i) PROVE SeenNeverOverstated'
  BY <1>11 DEF Accrue, UpdateInvestmentAccrual, row, deposit, schedule, withdrawn
<1>12. ASSUME NEW s \in Scheduler, EndAccruals(s) PROVE SeenNeverOverstated'
  BY <1>12 DEF EndAccruals, Sleep, row, deposit, schedule, withdrawn
<1>13. ASSUME NEW s \in Scheduler, WithdrawalsFail(s) PROVE SeenNeverOverstated'
  BY <1>13 DEF WithdrawalsFail, row, deposit, schedule, withdrawn
<1>14. ASSUME NEW s \in Scheduler, RunFails(s) PROVE SeenNeverOverstated'
  BY <1>14 DEF RunFails, Sleep, row, deposit, schedule, withdrawn
<1>15. CASE MonthPasses
  BY <1>15 DEF MonthPasses, row, deposit, schedule, withdrawn
<1>16. CASE UNCHANGED vars
  BY <1>16 DEF vars, row, deposit, schedule, withdrawn
<1> QED
  BY <1>1, <1>2, <1>3, <1>4, <1>5, <1>6, <1>7, <1>8, <1>9, <1>10, <1>11, <1>12, <1>13, <1>14,
      <1>15, <1>16
     DEF Next, Handle, DailyRun

\* However deposits, accruals and withdrawals interleave, the principal is never more than
\* was deposited: an overwritten deposit is to the investor's loss only.
THEOREM PrincipalIsCovered == Spec => []PrincipalNeverOverstated
<1>1. Init => PrincipalInv
  BY CalendarInit, PrincipalInit DEF PrincipalInv
<1>2. PrincipalInv /\ [Next]_vars => PrincipalInv'
  BY CalendarInvStep, PrincipalStep, SeenStep DEF PrincipalInv
<1>3. PrincipalInv => PrincipalNeverOverstated
  BY DEF PrincipalInv
<1> QED
  BY <1>1, <1>2, <1>3, PTL DEF Spec

\* As long as no two actors handle deposits of an investment at once, what each of them
\* read is current when it writes.
AloneInv ==
  /\ CalendarInv
  /\ EventsAreSingle
  /\ HandlersAreAlone
  /\ SeenIsCurrent
  /\ PrincipalMatchesLedger

LEMMA AloneInit ==
  Init => EventsAreSingle /\ HandlersAreAlone /\ SeenIsCurrent /\ PrincipalMatchesLedger
BY DEF Init, Zero, EventsAreSingle, HandlersAreAlone, SeenIsCurrent, PrincipalMatchesLedger, At

LEMMA SingleStep == AloneInv /\ [Next]_vars => EventsAreSingle'
<1> SUFFICES ASSUME AloneInv, [Next]_vars PROVE EventsAreSingle'
  OBVIOUS
<1> USE TargetAssumption, AmountAssumption DEF AloneInv, CalendarInv, TypeOK, At,
    EventsAreSingle
<1>1. ASSUME NEW a \in Actor, NEW e \in Event, Start(a, e) PROVE EventsAreSingle'
  BY <1>1 DEF Start, Handlers, row, deposit, schedule, withdrawn
<1>2. ASSUME NEW a \in Actor, NEW e \in Event, Read(a, e) PROVE EventsAreSingle'
  BY <1>2 DEF Read, At, Goto, row, deposit, schedule, withdrawn
<1>3. ASSUME NEW a \in Actor, NEW e \in Event, Fail(a, e) PROVE EventsAreSingle'
  BY <1>3 DEF Fail, Leave, row, deposit, schedule, withdrawn
<1>4. ASSUME NEW a \in Actor, NEW e \in Event, Create(a, e) PROVE EventsAreSingle'
  BY <1>4 DEF Create, At, Post, Leave, row, deposit, schedule, withdrawn
<1>5. ASSUME NEW a \in Actor, NEW e \in Event, CreateFails(a, e) PROVE EventsAreSingle'
  BY <1>5 DEF CreateFails, At, Leave, row, deposit, schedule, withdrawn
<1>6. ASSUME NEW a \in Actor, NEW e \in Event, Add(a, e) PROVE EventsAreSingle'
  BY <1>6 DEF Add, At, UpdateInvestmentPrincipal, Post, Leave, row, deposit, schedule, withdrawn
<1>7. ASSUME NEW w \in Withdrawal, RequestWithdrawal(w) PROVE EventsAreSingle'
  BY <1>7 DEF RequestWithdrawal, CreateInvestmentWithdrawal, row, deposit, schedule, withdrawn
<1>8. ASSUME NEW s \in Scheduler, Wake(s) PROVE EventsAreSingle'
  BY <1>8 DEF Wake, ListEligibleWithdrawals, row, deposit, schedule, withdrawn
<1>9. ASSUME NEW s \in Scheduler, NEW w \in Withdrawal, ProcessWithdrawal(s, w) PROVE EventsAreSingle'
  BY <1>9 DEF ProcessWithdrawal, Transferable, row, deposit, schedule, withdrawn
<1>10. ASSUME NEW s \in Scheduler, ListDueForAccrual(s) PROVE EventsAreSingle'
  BY <1>10 DEF ListDueForAccrual, GetDueAccruals, row, deposit, schedule, withdrawn
<1>11. ASSUME NEW s \in Scheduler, NEW i \in Investment, Accrue(s, i) PROVE EventsAreSingle'
  BY <1>11 DEF Accrue, UpdateInvestmentAccrual, row, deposit, schedule, withdrawn
<1>12. ASSUME NEW s \in Scheduler, EndAccruals(s) PROVE EventsAreSingle'
  BY <1>12 DEF EndAccruals, Sleep, row, deposit, schedule, withdrawn
<1>13. ASSUME NEW s \in Scheduler, WithdrawalsFail(s) PROVE EventsAreSingle'
  BY <1>13 DEF WithdrawalsFail, row, deposit, schedule, withdrawn
<1>14. ASSUME NEW s \in Scheduler, RunFails(s) PROVE EventsAreSingle'
  BY <1>14 DEF RunFails, Sleep, row, deposit, schedule, withdrawn
<1>15. CASE MonthPasses
  BY <1>15 DEF MonthPasses, row, deposit, schedule, withdrawn
<1>16. CASE UNCHANGED vars
  BY <1>16 DEF vars, row, deposit, schedule, withdrawn
<1> QED
  BY <1>1, <1>2, <1>3, <1>4, <1>5, <1>6, <1>7, <1>8, <1>9, <1>10, <1>11, <1>12, <1>13, <1>14,
      <1>15, <1>16
     DEF Next, Handle, DailyRun

LEMMA AloneStep == AloneInv /\ [Next]_vars => HandlersAreAlone'
<1> SUFFICES ASSUME AloneInv, [Next]_vars PROVE HandlersAreAlone'
  OBVIOUS
<1> USE TargetAssumption, AmountAssumption DEF AloneInv, CalendarInv, TypeOK, At,
    HandlersAreAlone
<1>1. ASSUME NEW a \in Actor, NEW e \in Event, Start(a, e) PROVE HandlersAreAlone'
  BY <1>1 DEF Start, Handlers, row, deposit, schedule, withdrawn
<1>2. ASSUME NEW a \in Actor, NEW e \in Event, Read(a, e) PROVE HandlersAreAlone'
  BY <1>2 DEF Read, At, Goto, row, deposit, schedule, withdrawn
<1>3. ASSUME NEW a \in Actor, NEW e \in Event, Fail(a, e) PROVE HandlersAreAlone'
  BY <1>3 DEF Fail, Leave, row, deposit, schedule, withdrawn
<1>4. ASSUME NEW a \in Actor, NEW e \in Event, Create(a, e) PROVE HandlersAreAlone'
  BY <1>4 DEF Create, At, Post, Leave, row, deposit, schedule, withdrawn
<1>5. ASSUME NEW a \in Actor, NEW e \in Event, CreateFails(a, e) PROVE HandlersAreAlone'
  BY <1>5 DEF CreateFails, At, Leave, row, deposit, schedule, withdrawn
<1>6. ASSUME NEW a \in Actor, NEW e \in Event, Add(a, e) PROVE HandlersAreAlone'
  BY <1>6 DEF Add, At, UpdateInvestmentPrincipal, Post, Leave, row, deposit, schedule, withdrawn
<1>7. ASSUME NEW w \in Withdrawal, RequestWithdrawal(w) PROVE HandlersAreAlone'
  BY <1>7 DEF RequestWithdrawal, CreateInvestmentWithdrawal, row, deposit, schedule, withdrawn
<1>8. ASSUME NEW s \in Scheduler, Wake(s) PROVE HandlersAreAlone'
  BY <1>8 DEF Wake, ListEligibleWithdrawals, row, deposit, schedule, withdrawn
<1>9. ASSUME NEW s \in Scheduler, NEW w \in Withdrawal, ProcessWithdrawal(s, w) PROVE HandlersAreAlone'
  BY <1>9 DEF ProcessWithdrawal, Transferable, row, deposit, schedule, withdrawn
<1>10. ASSUME NEW s \in Scheduler, ListDueForAccrual(s) PROVE HandlersAreAlone'
  BY <1>10 DEF ListDueForAccrual, GetDueAccruals, row, deposit, schedule, withdrawn
<1>11. ASSUME NEW s \in Scheduler, NEW i \in Investment, Accrue(s, i) PROVE HandlersAreAlone'
  BY <1>11 DEF Accrue, UpdateInvestmentAccrual, row, deposit, schedule, withdrawn
<1>12. ASSUME NEW s \in Scheduler, EndAccruals(s) PROVE HandlersAreAlone'
  BY <1>12 DEF EndAccruals, Sleep, row, deposit, schedule, withdrawn
<1>13. ASSUME NEW s \in Scheduler, WithdrawalsFail(s) PROVE HandlersAreAlone'
  BY <1>13 DEF WithdrawalsFail, row, deposit, schedule, withdrawn
<1>14. ASSUME NEW s \in Scheduler, RunFails(s) PROVE HandlersAreAlone'
  BY <1>14 DEF RunFails, Sleep, row, deposit, schedule, withdrawn
<1>15. CASE MonthPasses
  BY <1>15 DEF MonthPasses, row, deposit, schedule, withdrawn
<1>16. CASE UNCHANGED vars
  BY <1>16 DEF vars, row, deposit, schedule, withdrawn
<1> QED
  BY <1>1, <1>2, <1>3, <1>4, <1>5, <1>6, <1>7, <1>8, <1>9, <1>10, <1>11, <1>12, <1>13, <1>14,
      <1>15, <1>16
     DEF Next, Handle, DailyRun

LEMMA SeenIsCurrentStep == AloneInv /\ [Next]_vars => SeenIsCurrent'
<1> SUFFICES ASSUME AloneInv, [Next]_vars PROVE SeenIsCurrent'
  OBVIOUS
<1> USE TargetAssumption, AmountAssumption DEF AloneInv, CalendarInv, TypeOK, At, SeenIsCurrent
<1>1. ASSUME NEW a \in Actor, NEW e \in Event, Start(a, e) PROVE SeenIsCurrent'
  BY <1>1 DEF Start, Handlers, row, deposit, schedule, withdrawn
<1>2. ASSUME NEW a \in Actor, NEW e \in Event, Read(a, e) PROVE SeenIsCurrent'
  BY <1>2 DEF Read, At, Goto, row, deposit, schedule, withdrawn
<1>3. ASSUME NEW a \in Actor, NEW e \in Event, Fail(a, e) PROVE SeenIsCurrent'
  BY <1>3 DEF Fail, Leave, row, deposit, schedule, withdrawn
<1>4. ASSUME NEW a \in Actor, NEW e \in Event, Create(a, e) PROVE SeenIsCurrent'
  <2> SUFFICES ASSUME NEW b \in Actor, NEW d \in Event, At(b, d, "write")', Target[d] \notin raced'
               PROVE  (seen[b] = [found |-> Target[d] \in opened, current |-> current[Target[d]]])'
    BY DEF SeenIsCurrent
  <2>1. b # a /\ pc[b] = "write" /\ d \in event[b] /\ seen'[b] = seen[b]
    BY <1>4 DEF Create, Leave
  <2>2. Target[d] # Target[e]
    BY <1>4, <2>1 DEF Create, HandlersAreAlone
  <2>3. (Target[d] \in opened' <=> Target[d] \in opened) /\ current'[Target[d]] = current[Target[d]]
    BY <1>4, <2>2 DEF Create
  <2> QED
    BY <1>4, <2>1, <2>3 DEF Create, Leave
<1>5. ASSUME NEW a \in Actor, NEW e \in Event, CreateFails(a, e) PROVE SeenIsCurrent'
  BY <1>5 DEF CreateFails, At, Leave, row, deposit, schedule, withdrawn
<1>6. ASSUME NEW a \in Actor, NEW e \in Event, Add(a, e) PROVE SeenIsCurrent'
  BY <1>6 DEF Add, At, UpdateInvestmentPrincipal, Post, Leave, HandlersAreAlone, row, deposit,
      schedule, withdrawn
<1>7. ASSUME NEW w \in Withdrawal, RequestWithdrawal(w) PROVE SeenIsCurrent'
  BY <1>7 DEF RequestWithdrawal, CreateInvestmentWithdrawal, row, deposit, schedule, withdrawn
<1>8. ASSUME NEW s \in Scheduler, Wake(s) PROVE SeenIsCurrent'
  BY <1>8 DEF Wake, ListEligibleWithdrawals, row, deposit, schedule, withdrawn
<1>9. ASSUME NEW s \in Scheduler, NEW w \in Withdrawal, ProcessWithdrawal(s, w) PROVE SeenIsCurrent'
  BY <1>9 DEF ProcessWithdrawal, Transferable, row, deposit, schedule, withdrawn
<1>10. ASSUME NEW s \in Scheduler, ListDueForAccrual(s) PROVE SeenIsCurrent'
  BY <1>10 DEF ListDueForAccrual, GetDueAccruals, row, deposit, schedule, withdrawn
<1>11. ASSUME NEW s \in Scheduler, NEW i \in Investment, Accrue(s, i) PROVE SeenIsCurrent'
  BY <1>11 DEF Accrue, UpdateInvestmentAccrual, row, deposit, schedule, withdrawn
<1>12. ASSUME NEW s \in Scheduler, EndAccruals(s) PROVE SeenIsCurrent'
  BY <1>12 DEF EndAccruals, Sleep, row, deposit, schedule, withdrawn
<1>13. ASSUME NEW s \in Scheduler, WithdrawalsFail(s) PROVE SeenIsCurrent'
  BY <1>13 DEF WithdrawalsFail, row, deposit, schedule, withdrawn
<1>14. ASSUME NEW s \in Scheduler, RunFails(s) PROVE SeenIsCurrent'
  BY <1>14 DEF RunFails, Sleep, row, deposit, schedule, withdrawn
<1>15. CASE MonthPasses
  BY <1>15 DEF MonthPasses, row, deposit, schedule, withdrawn
<1>16. CASE UNCHANGED vars
  BY <1>16 DEF vars, row, deposit, schedule, withdrawn
<1> QED
  BY <1>1, <1>2, <1>3, <1>4, <1>5, <1>6, <1>7, <1>8, <1>9, <1>10, <1>11, <1>12, <1>13, <1>14,
      <1>15, <1>16
     DEF Next, Handle, DailyRun

LEMMA MatchStep == AloneInv /\ [Next]_vars => PrincipalMatchesLedger'
<1> SUFFICES ASSUME AloneInv, [Next]_vars PROVE PrincipalMatchesLedger'
  OBVIOUS
<1> USE TargetAssumption, AmountAssumption DEF AloneInv, CalendarInv, TypeOK, At,
    PrincipalMatchesLedger
<1>1. ASSUME NEW a \in Actor, NEW e \in Event, Start(a, e) PROVE PrincipalMatchesLedger'
  BY <1>1 DEF Start, Handlers, row, deposit, schedule, withdrawn
<1>2. ASSUME NEW a \in Actor, NEW e \in Event, Read(a, e) PROVE PrincipalMatchesLedger'
  BY <1>2 DEF Read, At, Goto, row, deposit, schedule, withdrawn
<1>3. ASSUME NEW a \in Actor, NEW e \in Event, Fail(a, e) PROVE PrincipalMatchesLedger'
  BY <1>3 DEF Fail, Leave, row, deposit, schedule, withdrawn
<1>4. ASSUME NEW a \in Actor, NEW e \in Event, Create(a, e) PROVE PrincipalMatchesLedger'
  BY <1>4 DEF Create, At, Post, Leave, UnopenedIsEmpty, row, deposit, schedule, withdrawn
<1>5. ASSUME NEW a \in Actor, NEW e \in Event, CreateFails(a, e) PROVE PrincipalMatchesLedger'
  BY <1>5 DEF CreateFails, At, Leave, row, deposit, schedule, withdrawn
<1>6. ASSUME NEW a \in Actor, NEW e \in Event, Add(a, e) PROVE PrincipalMatchesLedger'
  <2>1. /\ current' = [current EXCEPT ![Target[e]] = seen[a].current + Amount[e]]
        /\ credited' = [credited EXCEPT ![Target[e]] = @ + Amount[e]]
        /\ raced' = raced
    BY <1>6 DEF Add, UpdateInvestmentPrincipal, Post, deposit
  <2>2. Target[e] \notin raced => seen[a].current = current[Target[e]]
    BY <1>6 DEF Add, SeenIsCurrent
  <2> QED
    BY <2>1, <2>2
<1>7. ASSUME NEW w \in Withdrawal, RequestWithdrawal(w) PROVE PrincipalMatchesLedger'
  BY <1>7 DEF RequestWithdrawal, CreateInvestmentWithdrawal, row, deposit, schedule, withdrawn
<1>8. ASSUME NEW s \in Scheduler, Wake(s) PROVE PrincipalMatchesLedger'
  BY <1>8 DEF Wake, ListEligibleWithdrawals, row, deposit, schedule, withdrawn
<1>9. ASSUME NEW s \in Scheduler, NEW w \in Withdrawal, ProcessWithdrawal(s, w) PROVE PrincipalMatchesLedger'
  BY <1>9 DEF ProcessWithdrawal, Transferable, row, deposit, schedule, withdrawn
<1>10. ASSUME NEW s \in Scheduler, ListDueForAccrual(s) PROVE PrincipalMatchesLedger'
  BY <1>10 DEF ListDueForAccrual, GetDueAccruals, row, deposit, schedule, withdrawn
<1>11. ASSUME NEW s \in Scheduler, NEW i \in Investment, Accrue(s, i) PROVE PrincipalMatchesLedger'
  BY <1>11 DEF Accrue, UpdateInvestmentAccrual, row, deposit, schedule, withdrawn
<1>12. ASSUME NEW s \in Scheduler, EndAccruals(s) PROVE PrincipalMatchesLedger'
  BY <1>12 DEF EndAccruals, Sleep, row, deposit, schedule, withdrawn
<1>13. ASSUME NEW s \in Scheduler, WithdrawalsFail(s) PROVE PrincipalMatchesLedger'
  BY <1>13 DEF WithdrawalsFail, row, deposit, schedule, withdrawn
<1>14. ASSUME NEW s \in Scheduler, RunFails(s) PROVE PrincipalMatchesLedger'
  BY <1>14 DEF RunFails, Sleep, row, deposit, schedule, withdrawn
<1>15. CASE MonthPasses
  BY <1>15 DEF MonthPasses, row, deposit, schedule, withdrawn
<1>16. CASE UNCHANGED vars
  BY <1>16 DEF vars, row, deposit, schedule, withdrawn
<1> QED
  BY <1>1, <1>2, <1>3, <1>4, <1>5, <1>6, <1>7, <1>8, <1>9, <1>10, <1>11, <1>12, <1>13, <1>14,
      <1>15, <1>16
     DEF Next, Handle, DailyRun

\* An investment whose deposits came one after the other has exactly the principal that
\* was deposited: the scheduler's late writes take nothing from it.
THEOREM PrincipalIsDeposited == Spec => []PrincipalMatchesLedger
<1>1. Init => AloneInv
  BY CalendarInit, AloneInit DEF AloneInv
<1>2. AloneInv /\ [Next]_vars => AloneInv'
  BY CalendarInvStep, SingleStep, AloneStep, SeenIsCurrentStep, MatchStep DEF AloneInv
<1>3. AloneInv => PrincipalMatchesLedger
  BY DEF AloneInv
<1> QED
  BY <1>1, <1>2, <1>3, PTL DEF Spec

-----------------------------------------------------------------------------
(* The announcements of one scheduler *)

OneScheduler == \A s, t \in Scheduler : s = t

AnnouncedInv == CalendarInv /\ AccruedIsAnnounced /\ ListedIsCurrent

LEMMA AnnouncedInit == Init => AccruedIsAnnounced /\ ListedIsCurrent
BY DEF Init, Zero, AccruedIsAnnounced, ListedIsCurrent

LEMMA AnnouncedStep == AnnouncedInv /\ [Next]_vars => AccruedIsAnnounced'
<1> SUFFICES ASSUME AnnouncedInv, [Next]_vars PROVE AccruedIsAnnounced'
  OBVIOUS
<1> USE TargetAssumption DEF AnnouncedInv, CalendarInv, TypeOK, AccruedIsAnnounced
<1>1. ASSUME NEW a \in Actor, NEW e \in Event, Start(a, e) PROVE AccruedIsAnnounced'
  BY <1>1 DEF Start, Handlers, row, deposit, schedule, withdrawn
<1>2. ASSUME NEW a \in Actor, NEW e \in Event, Read(a, e) PROVE AccruedIsAnnounced'
  BY <1>2 DEF Read, At, Goto, row, deposit, schedule, withdrawn
<1>3. ASSUME NEW a \in Actor, NEW e \in Event, Fail(a, e) PROVE AccruedIsAnnounced'
  BY <1>3 DEF Fail, Leave, row, deposit, schedule, withdrawn
<1>4. ASSUME NEW a \in Actor, NEW e \in Event, Create(a, e) PROVE AccruedIsAnnounced'
  BY <1>4 DEF Create, At, Post, Leave, row, deposit, schedule, withdrawn
<1>5. ASSUME NEW a \in Actor, NEW e \in Event, CreateFails(a, e) PROVE AccruedIsAnnounced'
  BY <1>5 DEF CreateFails, At, Leave, row, deposit, schedule, withdrawn
<1>6. ASSUME NEW a \in Actor, NEW e \in Event, Add(a, e) PROVE AccruedIsAnnounced'
  BY <1>6 DEF Add, At, UpdateInvestmentPrincipal, Post, Leave, row, deposit, schedule, withdrawn
<1>7. ASSUME NEW w \in Withdrawal, RequestWithdrawal(w) PROVE AccruedIsAnnounced'
  BY <1>7 DEF RequestWithdrawal, CreateInvestmentWithdrawal, row, deposit, schedule, withdrawn
<1>8. ASSUME NEW s \in Scheduler, Wake(s) PROVE AccruedIsAnnounced'
  BY <1>8 DEF Wake, ListEligibleWithdrawals, row, deposit, schedule, withdrawn
<1>9. ASSUME NEW s \in Scheduler, NEW w \in Withdrawal, ProcessWithdrawal(s, w) PROVE AccruedIsAnnounced'
  BY <1>9 DEF ProcessWithdrawal, Transferable, row, deposit, schedule, withdrawn
<1>10. ASSUME NEW s \in Scheduler, ListDueForAccrual(s) PROVE AccruedIsAnnounced'
  BY <1>10 DEF ListDueForAccrual, GetDueAccruals, row, deposit, schedule, withdrawn
<1>11. ASSUME NEW s \in Scheduler, NEW i \in Investment, Accrue(s, i) PROVE AccruedIsAnnounced'
  <2> DEFINE amount == Interest(snap[s].initial[i], MonthsElapsed(s, i))
  <2>1. amount \in Nat
    <3> HIDE DEF CalendarInv
    <3> QED
      BY <1>11, AccrueWrites
  <2>2. snap[s].accrued[i] = accrued[i]
    BY <1>11 DEF Accrue, ListedIsCurrent
  <2> HIDE DEF amount
  <2>3. /\ accrued' = [accrued EXCEPT ![i] = snap[s].accrued[i] + amount]
        /\ announced' = [announced EXCEPT ![i] = announced[i] + amount]
    BY <1>11 DEF Accrue, UpdateInvestmentAccrual, amount
  <2> QED
    BY <2>1, <2>2, <2>3
<1>12. ASSUME NEW s \in Scheduler, EndAccruals(s) PROVE AccruedIsAnnounced'
  BY <1>12 DEF EndAccruals, Sleep, row, deposit, schedule, withdrawn
<1>13. ASSUME NEW s \in Scheduler, WithdrawalsFail(s) PROVE AccruedIsAnnounced'
  BY <1>13 DEF WithdrawalsFail, row, deposit, schedule, withdrawn
<1>14. ASSUME NEW s \in Scheduler, RunFails(s) PROVE AccruedIsAnnounced'
  BY <1>14 DEF RunFails, Sleep, row, deposit, schedule, withdrawn
<1>15. CASE MonthPasses
  BY <1>15 DEF MonthPasses, row, deposit, schedule, withdrawn
<1>16. CASE UNCHANGED vars
  BY <1>16 DEF vars, row, deposit, schedule, withdrawn
<1> QED
  BY <1>1, <1>2, <1>3, <1>4, <1>5, <1>6, <1>7, <1>8, <1>9, <1>10, <1>11, <1>12, <1>13, <1>14,
      <1>15, <1>16
     DEF Next, Handle, DailyRun

LEMMA ListedIsCurrentStep == OneScheduler /\ AnnouncedInv /\ [Next]_vars => ListedIsCurrent'
<1> SUFFICES ASSUME OneScheduler, AnnouncedInv, [Next]_vars PROVE ListedIsCurrent'
  OBVIOUS
<1> USE TargetAssumption DEF AnnouncedInv, CalendarInv, TypeOK, Columns, ListedIsCurrent
<1>1. ASSUME NEW a \in Actor, NEW e \in Event, Start(a, e) PROVE ListedIsCurrent'
  BY <1>1 DEF Start, Handlers, row, deposit, schedule, withdrawn
<1>2. ASSUME NEW a \in Actor, NEW e \in Event, Read(a, e) PROVE ListedIsCurrent'
  BY <1>2 DEF Read, At, Goto, row, deposit, schedule, withdrawn
<1>3. ASSUME NEW a \in Actor, NEW e \in Event, Fail(a, e) PROVE ListedIsCurrent'
  BY <1>3 DEF Fail, Leave, row, deposit, schedule, withdrawn
<1>4. ASSUME NEW a \in Actor, NEW e \in Event, Create(a, e) PROVE ListedIsCurrent'
  BY <1>4 DEF Create, At, Post, Leave, row, deposit, schedule, withdrawn
<1>5. ASSUME NEW a \in Actor, NEW e \in Event, CreateFails(a, e) PROVE ListedIsCurrent'
  BY <1>5 DEF CreateFails, At, Leave, row, deposit, schedule, withdrawn
<1>6. ASSUME NEW a \in Actor, NEW e \in Event, Add(a, e) PROVE ListedIsCurrent'
  BY <1>6 DEF Add, At, UpdateInvestmentPrincipal, Post, Leave, row, deposit, schedule, withdrawn
<1>7. ASSUME NEW w \in Withdrawal, RequestWithdrawal(w) PROVE ListedIsCurrent'
  BY <1>7 DEF RequestWithdrawal, CreateInvestmentWithdrawal, row, deposit, schedule, withdrawn
<1>8. ASSUME NEW s \in Scheduler, Wake(s) PROVE ListedIsCurrent'
  BY <1>8 DEF Wake, ListEligibleWithdrawals, row, deposit, schedule, withdrawn
<1>9. ASSUME NEW s \in Scheduler, NEW w \in Withdrawal, ProcessWithdrawal(s, w) PROVE ListedIsCurrent'
  BY <1>9 DEF ProcessWithdrawal, Transferable, row, deposit, schedule, withdrawn
<1>10. ASSUME NEW s \in Scheduler, ListDueForAccrual(s) PROVE ListedIsCurrent'
  BY <1>10 DEF ListDueForAccrual, GetDueAccruals, row, deposit, schedule, withdrawn
<1>11. ASSUME NEW s \in Scheduler, NEW i \in Investment, Accrue(s, i) PROVE ListedIsCurrent'
  BY <1>11 DEF Accrue, UpdateInvestmentAccrual, OneScheduler, row, deposit, schedule, withdrawn
<1>12. ASSUME NEW s \in Scheduler, EndAccruals(s) PROVE ListedIsCurrent'
  BY <1>12 DEF EndAccruals, Sleep, row, deposit, schedule, withdrawn
<1>13. ASSUME NEW s \in Scheduler, WithdrawalsFail(s) PROVE ListedIsCurrent'
  BY <1>13 DEF WithdrawalsFail, row, deposit, schedule, withdrawn
<1>14. ASSUME NEW s \in Scheduler, RunFails(s) PROVE ListedIsCurrent'
  BY <1>14 DEF RunFails, Sleep, row, deposit, schedule, withdrawn
<1>15. CASE MonthPasses
  BY <1>15 DEF MonthPasses, row, deposit, schedule, withdrawn
<1>16. CASE UNCHANGED vars
  BY <1>16 DEF vars, row, deposit, schedule, withdrawn
<1> QED
  BY <1>1, <1>2, <1>3, <1>4, <1>5, <1>6, <1>7, <1>8, <1>9, <1>10, <1>11, <1>12, <1>13, <1>14,
      <1>15, <1>16
     DEF Next, Handle, DailyRun

\* With one scheduler, the announcements of an investment add up to its accrued interest,
\* whatever runs fail and whatever deposits come between listing and accrual.
THEOREM AnnouncementsAddUp ==
  ASSUME OneScheduler
  PROVE  Spec => []AccruedIsAnnounced
<1>1. Init => AnnouncedInv
  BY CalendarInit, AnnouncedInit DEF AnnouncedInv
<1>2. AnnouncedInv /\ [Next]_vars => AnnouncedInv'
  BY OneScheduler, CalendarInvStep, AnnouncedStep, ListedIsCurrentStep DEF AnnouncedInv
<1>3. AnnouncedInv => AccruedIsAnnounced
  BY DEF AnnouncedInv
<1> QED
  BY <1>1, <1>2, <1>3, PTL DEF Spec

-----------------------------------------------------------------------------
(* The investment worker implements the abstract savings *)

SavingsInv == PrincipalInv /\ AloneInv

LEMMA SavingsInvInit == Init => SavingsInv
BY CalendarInit, PrincipalInit, AloneInit DEF SavingsInv, PrincipalInv, AloneInv

LEMMA SavingsInvStep == SavingsInv /\ [Next]_vars => SavingsInv'
BY CalendarInvStep, PrincipalStep, SeenStep, SingleStep, AloneStep, SeenIsCurrentStep, MatchStep
   DEF SavingsInv, PrincipalInv, AloneInv

\* The row that was found is still there, and what is added to it was once its principal.
LEMMA AddDeposits ==
  ASSUME SavingsInv, PrincipalNeverOverstated', NEW a \in Actor, NEW e \in Event, Add(a, e)
  PROVE  TheSavings!Deposit(e)
<1> DEFINE i == Target[e]
           p == seen[a].current + Amount[e]
<1>1. i \in Investment /\ i \in opened /\ p \in Nat
  BY TargetAssumption, AmountAssumption
     DEF Add, SavingsInv, PrincipalInv, CalendarInv, TypeOK, UnopenedIsEmpty
<1>2. /\ current' = [current EXCEPT ![i] = p]
      /\ TheSavings!Credit(e)
      /\ UNCHANGED <<month, TheSavings!contract, TheSavings!interest, raced>>
  BY DEF Add, UpdateInvestmentPrincipal, Post, TheSavings!Credit, TheSavings!contract,
         TheSavings!interest
<1>3. CASE i \notin raced
  <2>1. seen[a].current = current[i]
    <3>1. At(a, e, "write")
      BY DEF Add
    <3>2. seen[a] = [found |-> i \in opened, current |-> current[i]]
      BY <1>3, <3>1 DEF SavingsInv, AloneInv, SeenIsCurrent
    <3> QED
      BY <3>2
  <2>2. current' = [current EXCEPT ![i] = @ + Amount[e]]
    BY <1>2, <2>1
  <2> QED
    BY <1>1, <1>2, <2>2 DEF TheSavings!Deposit
<1>4. CASE i \in raced
  <2>1. current'[i] = p /\ credited'[i] \in Nat
    <3>1. current'[i] = p
      BY <1>1, <1>2 DEF SavingsInv, PrincipalInv, CalendarInv, TypeOK
    <3>2. credited'[i] = credited[i] + Amount[e] /\ credited[i] \in Nat
      BY <1>1, <1>2 DEF TheSavings!Credit, SavingsInv, PrincipalInv, CalendarInv, TypeOK
    <3> QED
      BY <3>1, <3>2, AmountAssumption
  <2>2. p \in 0 .. credited'[i]
    BY <1>1, <2>1 DEF PrincipalNeverOverstated
  <2> HIDE DEF p
  <2> QED
    BY <1>1, <1>2, <1>4, <2>2 DEF TheSavings!Deposit
<1> QED
  BY <1>3, <1>4

\* The first deposit opens an investment, when the row is inserted.
LEMMA CreateOpens ==
  ASSUME NEW a \in Actor, NEW e \in Event, Create(a, e)
  PROVE  TheSavings!Open(e)
BY DEF Create, Post, TheSavings!Open, TheSavings!Credit

\* An accrual, computed from a row that was listed before, pays the months that are over.
LEMMA AccrualPays ==
  ASSUME SavingsInv, NEW s \in Scheduler, NEW i \in Investment, Accrue(s, i)
  PROVE  TheSavings!Accrue(i)
<1>1. CalendarInv
  BY DEF SavingsInv, PrincipalInv
<1>2. i \in opened /\ next' = [next EXCEPT ![i] = month + 1]
  BY <1>1, AccrueWrites
<1>3. PICK total \in Nat : accrued' = [accrued EXCEPT ![i] = total] /\ Follows(i, total, month + 1)
  BY <1>1, AccrueWrites
<1>4. accrued'[i] = total
  BY <1>1, <1>3 DEF CalendarInv, TypeOK
<1>5. TheSavings!IsInterest(total, initial[i], month - created[i])
  <2>1. (month + 1) - 1 - created[i] = month - created[i]
    BY <1>1 DEF CalendarInv, TypeOK
  <2> QED
    BY <1>3, <2>1 DEF Follows, TheSavings!IsInterest
<1>6. UNCHANGED <<month, TheSavings!contract, TheSavings!money, raced>>
  BY DEF Accrue, deposit, TheSavings!contract, TheSavings!money
<1> QED
  BY <1>2, <1>3, <1>4, <1>5, <1>6 DEF TheSavings!Accrue

\* Each step of the worker keeps the savings as the abstract ones are kept, or leaves them.
LEMMA StepSaves == SavingsInv /\ [Next]_vars => [TheSavings!Next]_(TheSavings!vars)
<1> SUFFICES ASSUME SavingsInv, [Next]_vars
             PROVE  TheSavings!Next \/ UNCHANGED TheSavings!vars
  OBVIOUS
<1> USE DEF TheSavings!vars, TheSavings!contract, TheSavings!interest, TheSavings!money
<1>0. PrincipalNeverOverstated'
  BY PrincipalStep DEF SavingsInv
<1>1. ASSUME NEW a \in Actor, NEW e \in Event, Start(a, e)
      PROVE  TheSavings!Next \/ UNCHANGED TheSavings!vars
  <2>1. CASE Handlers(Target[e]) = {}
    BY <1>1, <2>1 DEF Start, row
  <2>2. CASE Handlers(Target[e]) # {}
    <3>1. Target[e] \in Investment
      BY TargetAssumption
    <3>2. TheSavings!Overlap(Target[e])
      BY <1>1, <2>2 DEF Start, row, TheSavings!Overlap
    <3> QED
      BY <3>1, <3>2 DEF TheSavings!Next
  <2> QED
    BY <2>1, <2>2
<1>2. ASSUME NEW a \in Actor, NEW e \in Event, Create(a, e) \/ Add(a, e) PROVE TheSavings!Next
  BY <1>0, <1>2, CreateOpens, AddDeposits DEF TheSavings!Next
<1>3. ASSUME NEW s \in Scheduler, NEW i \in Investment, Accrue(s, i) PROVE TheSavings!Next
  BY <1>3, AccrualPays DEF TheSavings!Next
<1>4. ASSUME NEW a \in Actor, NEW e \in Event, Read(a, e) \/ Fail(a, e) \/ CreateFails(a, e)
      PROVE  UNCHANGED TheSavings!vars
  BY <1>4 DEF Read, Fail, CreateFails, row
<1>5. ASSUME NEW w \in Withdrawal, RequestWithdrawal(w) PROVE UNCHANGED TheSavings!vars
  BY <1>5 DEF RequestWithdrawal, row, deposit
<1>6. ASSUME NEW s \in Scheduler,
             \/ Wake(s) \/ ListDueForAccrual(s) \/ EndAccruals(s)
             \/ WithdrawalsFail(s) \/ RunFails(s)
             \/ \E w \in Withdrawal : ProcessWithdrawal(s, w)
      PROVE  UNCHANGED TheSavings!vars
  BY <1>6 DEF Wake, ListDueForAccrual, EndAccruals, WithdrawalsFail, RunFails,
              ProcessWithdrawal, row, deposit
<1>7. CASE MonthPasses
  BY <1>7 DEF MonthPasses, row, deposit, TheSavings!Next, TheSavings!MonthPasses
<1>8. CASE UNCHANGED vars
  BY <1>8 DEF vars, row, deposit
<1> QED
  BY <1>1, <1>2, <1>3, <1>4, <1>5, <1>6, <1>7, <1>8 DEF Next, Handle, DailyRun

\* Deposits that are read and written in two steps, by any number of actors, and accruals
\* computed from listed rows, by any number of schedulers that fail as they may, keep the
\* savings of every investor as the abstract ones are kept.
THEOREM SavingsAreImplemented == Spec => ImplementsSavings
<1>1. Init => TheSavings!Init
  BY DEF Init, Zero, TheSavings!Init, TheSavings!Zero
<1> QED
  BY <1>1, SavingsInvInit, SavingsInvStep, StepSaves, PTL
     DEF Spec, ImplementsSavings, TheSavings!Spec

=============================================================================
