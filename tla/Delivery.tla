------------------------------ MODULE Delivery ------------------------------
(***************************************************************************)
(* What the transactional outbox promises of a message: it goes to the     *)
(* broker only after the transaction that wrote it, it counts as published *)
(* only once it went there, and it goes there a second time, or stops      *)
(* counting as published, only when a lock on it was taken for dead.       *)
(***************************************************************************)
EXTENDS Naturals

CONSTANT Msg

VARIABLES
  state,   \* "none" before it is written, then "queued", "published" or "dropped"
  sent,    \* how often it went to the broker, counted up to 2
  expired  \* the messages with a lock that was ever taken for dead

vars == <<state, sent, expired>>

Init ==
  /\ state   = [m \in Msg |-> "none"]
  /\ sent    = [m \in Msg |-> 0]
  /\ expired = {}

Move(S, s) ==
  /\ state' = [m \in Msg |-> IF m \in S THEN s ELSE state[m]]
  /\ UNCHANGED <<sent, expired>>

Create(m) == state[m] = "none" /\ Move({m}, "queued")

Send(m) ==
  /\ state[m] # "none"
  /\ sent[m] = 0 \/ m \in expired
  /\ sent' = [sent EXCEPT ![m] = IF @ < 2 THEN @ + 1 ELSE @]
  /\ UNCHANGED <<state, expired>>

Settle(m) == state[m] = "queued" /\ sent[m] > 0 /\ Move({m}, "published")

Reopen(m) == state[m] = "published" /\ m \in expired /\ Move({m}, "queued")

Queued(S) == \A m \in S : state[m] = "queued"

Drop(S) == Queued(S) /\ Move(S, "dropped")

Expire(S) ==
  /\ Queued(S)
  /\ expired' = expired \cup S
  /\ UNCHANGED <<state, sent>>

Next ==
  \/ \E m \in Msg : Create(m) \/ Send(m) \/ Settle(m) \/ Reopen(m)
  \/ \E S \in SUBSET Msg : Drop(S) \/ Expire(S)

Spec == Init /\ [][Next]_vars

=============================================================================
