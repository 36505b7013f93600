-------------------------- MODULE PaymentLifecycle --------------------------
(***************************************************************************)
(* What the payments table promises about a payment, whatever the services *)
(* do in between: it is received once, it is worked on, and it ends        *)
(* completed, unresolved or failed, once and for all.  It is completed     *)
(* only after its money was posted.                                        *)
(***************************************************************************)
CONSTANT Key

VARIABLES
  status,   \* the status column of each payment, "none" before its insert
  posted    \* the payments whose money reached the ledger

Terminal == {"completed", "unresolved", "failed"}

Init ==
  /\ status = [k \in Key |-> "none"]
  /\ posted = {}

Become(k, from, to) ==
  /\ status[k] = from
  /\ status' = [status EXCEPT ![k] = to]
  /\ UNCHANGED posted

Receive(k)  == Become(k, "none", "received")
Resolve(k)  == Become(k, "received", "resolving")
Complete(k) == k \in posted /\ Become(k, "resolving", "completed")
GiveUp(k)   == \E to \in {"unresolved", "failed"} : Become(k, "resolving", to)

Post(k) ==
  /\ status[k] # "none"
  /\ posted' = posted \cup {k}
  /\ UNCHANGED status

Next == \E k \in Key : Receive(k) \/ Resolve(k) \/ Complete(k) \/ GiveUp(k) \/ Post(k)

Spec == Init /\ [][Next]_<<status, posted>>

=============================================================================
