--------------------------- MODULE LedgerConsumer ---------------------------
(***************************************************************************)
(* The ledger consumer: processes that take POST_TRANSACTION commands from *)
(* the loan queue, post them with the ledger service, try again those that *)
(* fail, and dead-letter what keeps failing.  The loan worker takes its    *)
(* messages from the same queue.  The API of the module Ledger runs beside *)
(* them.                                                                   *)
(*                                                                         *)
(* The broker gives a message to one process at a time.  When the channel  *)
(* of a process closes, what it has not acknowledged is delivered again;   *)
(* a process that is at work finds out when it next uses the channel.      *)
(***************************************************************************)
EXTENDS Ledger

CONSTANTS
  Consumer,  \* the processes
  Message,   \* the commands on the queue, each asking for the posting of its name
  Command,   \* their types
  MaxTries,  \* calls of PostTransaction for one delivery: stands for the elapsed time
  Limited    \* whether the elapsed time, max_retries * delay_seconds, is above zero

ASSUME ConsumerAssumption == /\ Consumer \subseteq Actor
                             /\ Consumer \cap Caller = {}
                             /\ Message \subseteq Posting \ Asked
ASSUME LimitAssumption    == MaxTries \in Nat \ {0} /\ Limited \in BOOLEAN

VARIABLES
  sent,     \* the messages that were published
  ready,    \* those in the queue
  inbox,    \* those delivered to each process, behind the one it works on
  cut,      \* the processes whose channel has closed
  tries,    \* how often each process has retried
  dead,     \* how often each message was put into the dead letter queue
  handled,  \* the messages the loan worker acknowledged
  redone    \* history: the messages delivered again, or posted without the code knowing

queue == <<sent, ready, inbox, cut>>
fate  == <<dead, handled, redone>>
vars  == <<ledgerVars, queue, tries, fate>>

Init ==
  /\ LedgerInit
  /\ sent    = {}
  /\ ready   = {}
  /\ inbox   = [c \in Consumer |-> {}]
  /\ cut     = {}
  /\ tries   = [c \in Consumer |-> 0]
  /\ dead    = [m \in Message |-> 0]
  /\ handled = {}
  /\ redone  = {}

-----------------------------------------------------------------------------
(* The queue *)

Send(m) ==
  /\ m \notin sent
  /\ sent'  = sent  \cup {m}
  /\ ready' = ready \cup {m}
  /\ UNCHANGED <<ledgerVars, inbox, cut, tries, fate>>

\* No Qos is set: the broker delivers ahead of the acknowledgements.
Deliver(c, m) ==
  /\ m \in ready
  /\ c \notin cut
  /\ ready' = ready \ {m}
  /\ inbox' = [inbox EXCEPT ![c] = @ \cup {m}]
  /\ UNCHANGED <<ledgerVars, sent, cut, tries, fate>>

\* The loan worker reads a POST_TRANSACTION as a payment of amount zero, which is an
\* error; it dead-letters what it cannot apply, and acknowledges the rest.
LoanWorkerTakes(m) ==
  /\ m \in ready
  /\ ready' = ready \ {m}
  /\ \/ Command[m] = "RESOLVE_PAYMENT" /\ handled' = handled \cup {m} /\ UNCHANGED dead
     \/ dead' = Incr(dead, m) /\ UNCHANGED handled
  /\ UNCHANGED <<ledgerVars, sent, inbox, cut, tries, redone>>

\* What the broker takes back from a process.
Held(c) == inbox[c] \cup (IF c \in cut THEN {} ELSE task[c])

\* Mutant: the broker counts what it has delivered as acknowledged.
AutoAck(c) ==
  /\ inbox' = [inbox EXCEPT ![c] = {}]
  /\ UNCHANGED <<sent, ready, dead, handled, redone>>

Redeliver(c) ==
  /\ ready'  = ready \cup Held(c)
  /\ redone' = redone \cup Held(c)
  /\ inbox'  = [inbox EXCEPT ![c] = {}]
  /\ UNCHANGED <<sent, dead, handled>>

-----------------------------------------------------------------------------
(* Start and handleRetry *)

Take(c, m) ==
  /\ pc[c] = "idle"
  /\ m \in inbox[c]
  /\ inbox' = [inbox EXCEPT ![c] = @ \ {m}]
  /\ task'  = [task  EXCEPT ![c] = {m}]
  /\ pc'    = [pc EXCEPT ![c] = IF Command[m] = "POST_TRANSACTION" THEN "begun" ELSE "failed"]
  /\ tries' = [tries EXCEPT ![c] = 0]
  /\ UNCHANGED <<books, written, record, faults, sent, ready, cut, fate>>

\* A commit that went through and is retried.
PostTask(c, m) ==
  /\ Post(c, m)
  /\ redone' = IF doubted' = doubted THEN redone ELSE redone \cup {m}
  /\ UNCHANGED <<queue, tries, dead, handled>>

\* Mutant: the limit is not given to the backoff.
AgainForever(c, m) ==
  /\ At(c, m, "failed")
  /\ Goto(c, IF Command[m] = "POST_TRANSACTION" THEN "begun" ELSE "failed")
  /\ tries' = [tries EXCEPT ![c] = 1 - @]
  /\ UNCHANGED <<books, record, faults, queue, fate>>

\* Mutant: a try too many.
AgainOnceMore(c, m) ==
  /\ At(c, m, "failed")
  /\ tries[c] = 0 \/ ~Limited \/ tries[c] <= MaxTries
  /\ Goto(c, IF Command[m] = "POST_TRANSACTION" THEN "begun" ELSE "failed")
  /\ tries' = [tries EXCEPT ![c] = @ + 1]
  /\ UNCHANGED <<books, record, faults, queue, fate>>

\* backoff.Retry calls at once, and then until the elapsed time is over; a limit of zero
\* is none.
Again(c, m) ==
  /\ At(c, m, "failed")
  /\ tries[c] = 0 \/ ~Limited \/ tries[c] < MaxTries
  /\ Goto(c, IF Command[m] = "POST_TRANSACTION" THEN "begun" ELSE "failed")
  /\ tries' = [tries EXCEPT ![c] = IF @ < MaxTries THEN @ + 1 ELSE @]
  /\ UNCHANGED <<books, record, faults, queue, fate>>

GiveUp(c, m) ==
  /\ At(c, m, "failed")
  /\ tries[c] > 0
  /\ Limited
  /\ Goto(c, "dropping")
  /\ UNCHANGED <<books, record, faults, queue, tries, fate>>

PublishCopy(c, m) ==
  /\ At(c, m, "dropping")
  /\ c \notin cut
  /\ Goto(c, "rejecting")
  /\ dead' = Incr(dead, m)
  /\ UNCHANGED <<books, record, faults, queue, tries, handled, redone>>

\* Mutant: the message is put back into the queue.
NackRequeues(c, m) ==
  /\ At(c, m, "rejecting")
  /\ c \notin cut
  /\ Leave(c, "idle")
  /\ ready' = ready \cup {m}
  /\ UNCHANGED <<books, record, faults, sent, inbox, cut, tries, fate>>

\* Not requeued, the message goes to the dead letter queue itself, next to its copy.
Nack(c, m) ==
  /\ At(c, m, "rejecting")
  /\ c \notin cut
  /\ Leave(c, "idle")
  /\ dead' = Incr(dead, m)
  /\ UNCHANGED <<books, record, faults, queue, tries, handled, redone>>

Ack(c, m) ==
  /\ At(c, m, "posted")
  /\ c \notin cut
  /\ Leave(c, "idle")
  /\ told' = Incr(told, m)
  /\ UNCHANGED <<books, doubted, faults, queue, tries, fate>>

\* The call on the closed channel fails, the loop over its messages ends, and the process
\* is started again.
FindClosed(c, m) ==
  /\ c \in cut
  /\ task[c] = {m}
  /\ pc[c] \in {"posted", "dropping", "rejecting"}
  /\ Leave(c, "idle")
  /\ Forget(c, m)
  /\ cut' = cut \ {c}
  /\ UNCHANGED <<books, faults, sent, ready, inbox, tries, fate>>

\* The channel closes: the connection is lost, or the broker's time for an acknowledgement
\* is over.  A process that waits for a message ends at once and is started again.
Disconnect(c) ==
  /\ c \notin cut
  /\ Fault
  /\ Redeliver(c)
  /\ cut' = IF task[c] = {} THEN cut ELSE cut \cup {c}
  /\ UNCHANGED <<books, work, record, tries>>

Crash(c) ==
  /\ task[c] # {}
  /\ Fault
  /\ Redeliver(c)
  /\ Leave(c, "idle")
  /\ \E m \in task[c] : Forget(c, m)
  /\ cut' = cut \ {c}
  /\ UNCHANGED <<books, tries>>

Handle(c, m) ==
  \/ Take(c, m) \/ PostTask(c, m) \/ Again(c, m) \/ GiveUp(c, m)
  \/ PublishCopy(c, m) \/ Nack(c, m) \/ Ack(c, m) \/ FindClosed(c, m)

ApiStep == Api /\ UNCHANGED <<queue, tries, fate>>

Next ==
  \/ ApiStep
  \/ \E m \in Message : Send(m) \/ LoanWorkerTakes(m)
  \/ \E c \in Consumer, m \in Message : Deliver(c, m) \/ Handle(c, m)
  \/ \E c \in Consumer : Disconnect(c) \/ Crash(c)

Spec == Init /\ [][Next]_vars

\* Queued messages are delivered, and processes do not stop.
Fairness ==
  /\ WF_vars(\E c \in Consumer, m \in Message : Deliver(c, m))
  /\ \A c \in Consumer : WF_vars(\E m \in Message : Handle(c, m))

FairSpec == Spec /\ Fairness

-----------------------------------------------------------------------------
(* Properties *)

Places == {"idle", "begun", "inserted", "writing", "posted", "failed", "dropping", "rejecting",
           "answered"}

TypeOK ==
  /\ accounts \in SUBSET Account
  /\ transactions \in [Posting -> Nat]
  /\ told \in [Posting -> Nat] /\ doubted \in [Posting -> Nat]
  /\ DOMAIN entries = Posting
  /\ \A p \in Posting : entries[p] \in [DOMAIN Lines[p] -> Nat]
  /\ pc \in [Actor -> Places]
  /\ task \in [Actor -> SUBSET Posting]
  /\ written \in [Actor -> Nat]
  /\ faults \in Nat
  /\ sent \subseteq Message /\ ready \subseteq Message
  /\ handled \subseteq Message /\ redone \subseteq Message
  /\ inbox \in [Consumer -> SUBSET Message]
  /\ cut \subseteq Consumer
  /\ tries \in [Consumer -> 0..MaxTries]
  /\ dead \in [Message -> Nat]

\* A message that was sent is never lost: until the books, the dead letter queue or the
\* loan worker has it, the queue or a process does, over every crash and lost connection.
NothingIsLost ==
  \A m \in sent :
    \/ m \in ready
    \/ \E c \in Consumer : m \in Held(c)
    \/ transactions[m] > 0
    \/ dead[m] > 0
    \/ m \in handled

\* A command is posted once or dead-lettered, never both or twice, unless it was delivered
\* again or a commit went through unseen.
OutcomeIsOne ==
  \A m \in Message \ redone : transactions[m] + (IF dead[m] > 0 THEN 1 ELSE 0) <= 1

Drained == ready = {} /\ \A c \in Consumer : Held(c) = {}

\* When the elapsed time is limited, the queue is drained in the end, whatever the
\* commands ask for.
EveryCommandSettles == <>[]Drained

\* README.md:189: "After max retries: message moved to dead letter queue".  Asked of the
\* commands that can only fail.
Hopeless(m) == Command[m] # "POST_TRANSACTION" \/ ~Valid(m) \/ m \notin Known

FailedIsDeadLettered ==
  \A m \in Message : Hopeless(m) => ((\E c \in Consumer : At(c, m, "failed")) ~> (dead[m] > 0))

=============================================================================
