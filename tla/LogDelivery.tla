---------------------------- MODULE LogDelivery ----------------------------
(***************************************************************************)
(* What the write path of observad promises about a log, whatever fails:   *)
(* at-least-once delivery out of a bounded buffer.  Logs are numbered in   *)
(* the order they enter the buffer.  A log leaves it settled, which takes  *)
(* that it is in the table, or by being dropped, which takes Capacity      *)
(* newer logs; the live tail shows only what is settled in the table.      *)
(***************************************************************************)
EXTENDS Integers

CONSTANT Capacity

VARIABLES
  pushed,    \* logs 1..pushed have entered the buffer
  dropped,   \* logs the buffer has lost to newer ones
  accepted,  \* logs the API has answered for
  stored,    \* logs in the table
  settled,   \* logs the writers will not touch again
  tailed     \* logs the live tail has shown

vars == <<pushed, dropped, accepted, stored, settled, tailed>>

Init ==
  /\ pushed = 0
  /\ dropped = {}
  /\ accepted = {}
  /\ stored = {}
  /\ settled = {}
  /\ tailed = {}

Push ==
  /\ pushed' = pushed + 1
  /\ dropped \subseteq dropped'
  /\ \A e \in dropped' \ dropped : pushed' - e >= Capacity
  /\ UNCHANGED <<accepted, stored, settled, tailed>>

Accept ==
  /\ accepted \subseteq accepted'
  /\ accepted' \ accepted \subseteq 1..pushed
  /\ UNCHANGED <<pushed, dropped, stored, settled, tailed>>

Store ==
  /\ stored \subseteq stored'
  /\ stored' \ stored \subseteq 1..pushed
  /\ UNCHANGED <<pushed, dropped, accepted, settled, tailed>>

Settle ==
  /\ settled \subseteq settled'
  /\ settled' \ settled \subseteq stored \cup dropped
  /\ UNCHANGED <<pushed, dropped, accepted, stored, tailed>>

Show ==
  /\ tailed \subseteq tailed'
  /\ tailed' \ tailed \subseteq stored \cap settled
  /\ UNCHANGED <<pushed, dropped, accepted, stored, settled>>

Next == Push \/ Accept \/ Store \/ Settle \/ Show

Spec == Init /\ [][Next]_vars
=============================================================================
