------------------------------- MODULE Outbox -------------------------------
(***************************************************************************)
(* The transactional outbox: the table outbox_messages, the dispatchers of *)
(* the loan and the investment worker that poll it, the release of stale   *)
(* locks and the purge.  The two workers share one table, and neither the  *)
(* claim nor the marks look at who wrote a message or who locked it.       *)
(*                                                                         *)
(* A message is a natural number, its place in the order of created_at.    *)
(* locked_by is written by the code and read by no statement, so it is     *)
(* left out; locked_at is kept as the set of locks that are over 5 minutes *)
(* old.  updated_at is only read by the purge, whose age test is a choice. *)
(***************************************************************************)
EXTENDS Naturals, FiniteSets

CONSTANTS
  Msg,          \* the messages, numbered in the order they are created
  Kind,         \* the aggregate_type of each message
  Dispatcher,   \* the dispatcher processes, one per running worker
  Service,      \* the aggregate_type each dispatcher is there for
  MaxAttempts,  \* claim only messages with fewer attempts (5 in the code)
  BatchLimit,   \* the LIMIT of each dispatcher's claim (10 for both in the code)
  MaxFaults     \* bound: crashes and lost database calls of one behaviour

Kinds == {"loan", "investment"}

ASSUME MsgAssumption        == Msg \subseteq Nat
ASSUME KindAssumption       == Kind \in [Msg -> Kinds]
ASSUME DispatcherAssumption == IsFiniteSet(Dispatcher)
ASSUME ServiceAssumption    == Service \in [Dispatcher -> Kinds]
ASSUME AttemptsAssumption   == MaxAttempts \in Nat \ {0}
ASSUME BatchAssumption      == BatchLimit \in [Dispatcher -> Nat \ {0}]
ASSUME FaultsAssumption     == MaxFaults \in Nat

VARIABLES
  status,    \* status of each row; "absent" before its insert, "purged" after its delete
  attempts,  \* the attempts column
  stale,     \* rows being processed whose locked_at is over 5 minutes old
  pc,        \* where each dispatcher is in DispatchOnce
  batch,     \* the claimed messages a dispatcher has still to handle
  cur,       \* the messages sent and not yet marked: at most one per dispatcher
  faults,    \* faults so far
  sent,      \* history: publishes of each message, counted up to 2
  refused,   \* history: failed publishes charged to each message
  expired    \* history: messages ever released as stale

table == <<status, attempts, stale>>
vars  == <<status, attempts, stale, pc, batch, cur, faults, sent, refused, expired>>

Row(m)       == status[m] \notin {"absent", "purged"}
Exhausted(m) == status[m] = "failed" /\ attempts[m] >= MaxAttempts

Init ==
  /\ status   = [m \in Msg |-> "absent"]
  /\ attempts = [m \in Msg |-> 0]
  /\ stale    = {}
  /\ pc       = [d \in Dispatcher |-> "idle"]
  /\ batch    = [d \in Dispatcher |-> {}]
  /\ cur      = [d \in Dispatcher |-> {}]
  /\ faults   = 0
  /\ sent     = [m \in Msg |-> 0]
  /\ refused  = [m \in Msg |-> 0]
  /\ expired  = {}

-----------------------------------------------------------------------------
(* The statements of outbox_messages.sql *)

CreateOutboxMessage(m) ==
  /\ status[m] = "absent"
  /\ \A n \in Msg : n < m => status[n] # "absent"
  /\ status' = [status EXCEPT ![m] = "pending"]
  /\ UNCHANGED <<attempts, stale, pc, batch, cur, faults, sent, refused, expired>>

\* Mutant: the claim also takes rows another dispatcher is processing.
ClaimableWhileProcessing ==
  {m \in Msg : status[m] \in {"pending", "failed", "processing"} /\ attempts[m] < MaxAttempts}

\* Mutant: the claim is off by one.
ClaimableOnceMore ==
  {m \in Msg : status[m] \in {"pending", "failed"} /\ attempts[m] <= MaxAttempts}

Claimable == {m \in Msg : status[m] \in {"pending", "failed"} /\ attempts[m] < MaxAttempts}

\* ORDER BY created_at LIMIT: B is the oldest rows of S, as many as a batch takes.
IsOldest(B, S, limit) ==
  /\ \A m \in B, n \in S \ B : m < n
  /\ IF Cardinality(S) <= limit THEN B = S ELSE Cardinality(B) = limit

ClaimPendingMessages(B, limit) ==
  /\ B \in SUBSET Claimable
  /\ IsOldest(B, Claimable, limit)
  /\ status' = [m \in Msg |-> IF m \in B THEN "processing" ELSE status[m]]
  /\ UNCHANGED <<attempts, stale>>

MarkMessageAsPublished(m) ==
  /\ status' = [status EXCEPT ![m] = IF Row(m) THEN "published" ELSE @]
  /\ stale'  = stale \ {m}
  /\ UNCHANGED attempts

\* The migrations that the ledger API runs leave attempts without an upper bound; the
\* CHECK of sql/schema refuses the update that would exceed MaxAttempts, which is logged.
MarkMessageAsFailed(m) ==
  \/ /\ status'   = [status   EXCEPT ![m] = IF Row(m) THEN "failed" ELSE @]
     /\ attempts' = [attempts EXCEPT ![m] = IF Row(m) THEN @ + 1 ELSE @]
     /\ stale'    = stale \ {m}
  \/ /\ attempts[m] >= MaxAttempts
     /\ UNCHANGED table

\* Mutant: an expired lock gets a status of its own, which no CHECK allows.
ReleaseToExpired ==
  /\ status'  = [m \in Msg |-> IF m \in stale THEN "expired" ELSE status[m]]
  /\ expired' = expired \cup stale
  /\ stale'   = {}
  /\ UNCHANGED attempts

\* Mutant: an expired lock counts as a failed attempt.
ReleaseChargesAttempt ==
  /\ status'   = [m \in Msg |-> IF m \in stale THEN "failed" ELSE status[m]]
  /\ attempts' = [m \in Msg |-> IF m \in stale THEN attempts[m] + 1 ELSE attempts[m]]
  /\ expired'  = expired \cup stale
  /\ stale'    = {}

\* Mutant: the release clears the lock columns and forgets the status.
ReleaseKeepsStatus ==
  /\ expired' = expired \cup stale
  /\ stale'   = {}
  /\ UNCHANGED <<status, attempts>>

\* Releasing a lock leaves attempts as it is.
ReleaseStaleLocks ==
  /\ status'  = [m \in Msg |-> IF m \in stale THEN "failed" ELSE status[m]]
  /\ expired' = expired \cup stale
  /\ stale'   = {}
  /\ UNCHANGED attempts

-----------------------------------------------------------------------------
(* DispatchOnce, run by each dispatcher on its own 5 second ticker *)

BeginDispatch(d) ==
  /\ pc[d] = "idle"
  /\ pc' = [pc EXCEPT ![d] = "released"]
  /\ ReleaseStaleLocks
  /\ UNCHANGED <<batch, cur, faults, sent, refused>>

Claim(d) ==
  /\ pc[d] = "released"
  /\ \E B \in SUBSET Msg :
       /\ ClaimPendingMessages(B, BatchLimit[d])
       /\ batch' = [batch EXCEPT ![d] = B]
  /\ pc' = [pc EXCEPT ![d] = "batch"]
  /\ UNCHANGED <<cur, faults, sent, refused, expired>>

\* The next message of the batch: an UPDATE ... RETURNING has no order.
Handle(d, m) ==
  /\ pc[d] = "batch"
  /\ m \in batch[d]
  /\ batch' = [batch EXCEPT ![d] = @ \ {m}]

Own(d, m) == Kind[m] = Service[d]

Publish(d, m) ==
  /\ Handle(d, m)
  /\ Own(d, m)
  /\ pc'   = [pc   EXCEPT ![d] = "sent"]
  /\ cur'  = [cur  EXCEPT ![d] = {m}]
  /\ sent' = [sent EXCEPT ![m] = IF @ < 2 THEN @ + 1 ELSE @]
  /\ UNCHANGED <<status, attempts, stale, faults, refused, expired>>

MarkPublished(d) ==
  /\ pc[d] = "sent"
  /\ \E m \in cur[d] : MarkMessageAsPublished(m)
  /\ pc'  = [pc  EXCEPT ![d] = "batch"]
  /\ cur' = [cur EXCEPT ![d] = {}]
  /\ UNCHANGED <<batch, faults, sent, refused, expired>>

\* Mutant: no continue after the failed publish, so the message is marked published.
PublishRefusedFallsThrough(d, m) ==
  /\ Handle(d, m)
  /\ Own(d, m)
  /\ MarkMessageAsPublished(m)
  /\ refused' = [refused EXCEPT ![m] = IF Row(m) THEN @ + 1 ELSE @]
  /\ UNCHANGED <<pc, cur, faults, sent, expired>>

PublishRefused(d, m) ==
  /\ Handle(d, m)
  /\ Own(d, m)
  /\ MarkMessageAsFailed(m)
  /\ refused' = [refused EXCEPT ![m] = IF Row(m) THEN @ + 1 ELSE @]
  /\ UNCHANGED <<pc, cur, faults, sent, expired>>

\* The loan dispatcher leaves another worker's message locked.
SkipForeign(d, m) ==
  /\ Handle(d, m)
  /\ Service[d] = "loan"
  /\ ~Own(d, m)
  /\ UNCHANGED <<table, pc, cur, faults, sent, refused, expired>>

\* The investment dispatcher charges it a failed attempt.
FailForeign(d, m) ==
  /\ Handle(d, m)
  /\ Service[d] = "investment"
  /\ ~Own(d, m)
  /\ MarkMessageAsFailed(m)
  /\ UNCHANGED <<pc, cur, faults, sent, refused, expired>>

EndDispatch(d) ==
  /\ pc[d] = "batch"
  /\ batch[d] = {}
  /\ pc' = [pc EXCEPT ![d] = "idle"]
  /\ UNCHANGED <<table, batch, cur, faults, sent, refused, expired>>

Step(d) ==
  \/ BeginDispatch(d)
  \/ Claim(d)
  \/ \E m \in Msg :
       Publish(d, m) \/ PublishRefused(d, m) \/ SkipForeign(d, m) \/ FailForeign(d, m)
  \/ MarkPublished(d)
  \/ EndDispatch(d)

-----------------------------------------------------------------------------
(* Faults, time and the purge *)

\* The process dies and is started again: its batch is forgotten, its locks stay.
Crash(d) ==
  /\ faults < MaxFaults
  /\ pc[d] # "idle"
  /\ faults' = faults + 1
  /\ pc'     = [pc    EXCEPT ![d] = "idle"]
  /\ batch'  = [batch EXCEPT ![d] = {}]
  /\ cur'    = [cur   EXCEPT ![d] = {}]
  /\ UNCHANGED <<table, sent, refused, expired>>

\* A mark whose database call fails is logged and the batch goes on.
MarkPublishedLost(d) ==
  /\ faults < MaxFaults
  /\ pc[d] = "sent"
  /\ faults' = faults + 1
  /\ pc'     = [pc  EXCEPT ![d] = "batch"]
  /\ cur'    = [cur EXCEPT ![d] = {}]
  /\ UNCHANGED <<table, batch, sent, refused, expired>>

MarkFailedLost(d, m) ==
  /\ faults < MaxFaults
  /\ Handle(d, m)
  /\ Own(d, m) \/ Service[d] = "investment"
  /\ faults' = faults + 1
  /\ UNCHANGED <<table, pc, cur, sent, refused, expired>>

\* Five minutes have passed since a row was locked.
Expire(m) ==
  /\ status[m] = "processing"
  /\ m \notin stale
  /\ stale' = stale \cup {m}
  /\ UNCHANGED <<status, attempts, pc, batch, cur, faults, sent, refused, expired>>

TimePasses == \E m \in Msg : Expire(m)

\* Mutant: the purge forgets the status.
PurgeWhateverStatus ==
  /\ \E S \in SUBSET {m \in Msg : Row(m)} :
       /\ S # {}
       /\ status' = [m \in Msg |-> IF m \in S THEN "purged" ELSE status[m]]
  /\ UNCHANGED <<attempts, stale, pc, batch, cur, faults, sent, refused, expired>>

PurgeOldMessages ==
  /\ \E S \in SUBSET {m \in Msg : Exhausted(m)} :
       /\ S # {}
       /\ status' = [m \in Msg |-> IF m \in S THEN "purged" ELSE status[m]]
  /\ UNCHANGED <<attempts, stale, pc, batch, cur, faults, sent, refused, expired>>

Next ==
  \/ \E m \in Msg : CreateOutboxMessage(m)
  \/ \E d \in Dispatcher : Step(d) \/ Crash(d) \/ MarkPublishedLost(d)
  \/ \E d \in Dispatcher, m \in Msg : MarkFailedLost(d, m)
  \/ TimePasses
  \/ PurgeOldMessages

Spec == Init /\ [][Next]_vars

\* The tickers keep running and time goes on; faults, refusals and the purge owe nothing.
FairSpec ==
  /\ Spec
  /\ \A d \in Dispatcher : WF_vars(Step(d))
  /\ \A m \in Msg : WF_vars(Expire(m))

-----------------------------------------------------------------------------
(* Properties *)

Holders(m) == {d \in Dispatcher : m \in batch[d] \cup cur[d]}

TypeOK ==
  /\ status   \in [Msg -> {"absent", "pending", "processing", "published", "failed", "purged"}]
  /\ attempts \in [Msg -> Nat]
  /\ stale    \in SUBSET Msg
  /\ pc       \in [Dispatcher -> {"idle", "released", "batch", "sent"}]
  /\ batch    \in [Dispatcher -> SUBSET Msg]
  /\ cur      \in [Dispatcher -> SUBSET Msg]
  /\ faults   \in 0 .. MaxFaults
  /\ sent     \in [Msg -> 0 .. 2]
  /\ refused  \in [Msg -> Nat]
  /\ expired  \in SUBSET Msg

\* A lock is stale only while its row is being processed.
StaleProcessing == \A m \in stale : status[m] = "processing"

\* What a dispatcher remembers between two steps of DispatchOnce.
HoldsOnlyInBatch ==
  \A d \in Dispatcher :
    /\ pc[d] \in {"idle", "released"} => batch[d] = {}
    /\ pc[d] # "sent" => cur[d] = {}
    /\ \A m \in cur[d] : sent[m] > 0 /\ m \notin batch[d]

\* What it holds was written: no message goes out before its transaction is committed.
HeldWasWritten ==
  \A d \in Dispatcher : \A m \in batch[d] \cup cur[d] : status[m] # "absent"

\* Why the claim is exclusive until a lock expires: a message that never expired is
\* held by one dispatcher at most, unsent while it waits in a batch, and every row
\* that is not being processed or published is still unsent.
ExclusiveClaim ==
  \A m \in Msg \ expired :
    /\ \A d \in Holders(m) : status[m] = "processing"
    /\ \A d, e \in Holders(m) : d = e
    /\ \A d \in Dispatcher : m \in batch[d] => sent[m] = 0
    /\ status[m] \notin {"processing", "published"} => sent[m] = 0
    /\ sent[m] < 2

\* A row is marked published only when its message went to the broker, whatever
\* dispatcher set the mark and whatever crash, expiry or late mark came between.
PublishedMeansSent ==
  \A m \in Msg : status[m] = "published" => sent[m] > 0

\* A message reaches its queue a second time only when its lock was once taken
\* for dead: the claim is exclusive as long as every batch ends in five minutes.
DuplicateOnlyAfterExpiry ==
  \A m \in Msg : sent[m] > 1 => m \in expired

\* Only an expired lock lets a late mark of another dispatcher bring a published
\* message back to life.
PublishedIsFinal ==
  [][\A m \in Msg : status[m] = "published" /\ m \notin expired
                      => status'[m] = "published"]_vars

\* What a row says of its message.
Phase == [absent     |-> "none",      pending |-> "queued", processing |-> "queued",
          published  |-> "published", failed  |-> "queued", purged     |-> "dropped"]

PhaseOf == [m \in Msg |-> Phase[status[m]]]

TheDelivery == INSTANCE Delivery WITH state <- PhaseOf

\* The claims, marks and releases of two dispatchers on one table, crashed and repeated as
\* they may be, deliver messages as the abstract outbox does.
ImplementsDelivery == TheDelivery!Spec

\* The attempts a message uses up: the claim's bound is overrun by at most one
\* for every other dispatcher that still holds the message when its lock expires.
AttemptsBound ==
  \A m \in Msg : attempts[m] + 1 <= MaxAttempts + Cardinality(Dispatcher)

\* An investment message is given up only after the broker refused it MaxAttempts
\* times: neither an expired lock nor the loan dispatcher costs it an attempt.
InvestmentDeadMeansRefused ==
  \A m \in Msg : Kind[m] = "investment" /\ (Exhausted(m) \/ status[m] = "purged")
                   => refused[m] >= MaxAttempts

\* Why: a refusal is counted for each attempt a message is charged, if no dispatcher of the
\* investment worker can take it for a foreign one.
Spared(m) == \A d \in Dispatcher : Service[d] = "investment" => Own(d, m)

ChargesAreRefusals ==
  \A m \in Msg :
    /\ Spared(m) => attempts[m] <= refused[m]
    /\ status[m] = "purged" => attempts[m] >= MaxAttempts

\* What the comment on the investment dispatcher says, that it publishes a batch of
\* pending investment messages, would give the loan messages: one that the broker has
\* never refused is not given up.
UnrefusedLoanIsAlive ==
  \A m \in Msg : Kind[m] = "loan" /\ refused[m] = 0 => ~Exhausted(m) /\ status[m] # "purged"

\* And more: no attempt is spent on them by anything but a refusal.
LoanDeadMeansRefused ==
  \A m \in Msg : Kind[m] = "loan" /\ (Exhausted(m) \/ status[m] = "purged")
                   => refused[m] >= MaxAttempts

\* A message that is in the hands of the other worker's dispatcher.
Misheld(m) == \E d \in Dispatcher : m \in batch[d] /\ ~Own(d, m)

\* With finitely many faults every message comes to an end, published or given up
\* after MaxAttempts, whichever dispatchers take it and however many are before it.
\* One exception: the loan dispatcher, which skips an investment message and leaves it
\* locked, may find it again after each expiry, for ever.
EveryMessageSettles ==
  \A m \in Msg :
    \/ Kind[m] = "investment" /\ []<>Misheld(m)
    \/ status[m] = "pending"
         ~> (status[m] \in {"published", "purged"} \/ Exhausted(m))

=============================================================================
