----------------------------- MODULE Deliveries -----------------------------
(***************************************************************************)
(* What an at-least-once work queue promises of each item: it is delivered *)
(* once at a time and at most Budget times; a delivery is acknowledged     *)
(* while it is the current one, at most once, or is lost; only an          *)
(* acknowledgement completes or fails an item, and what has ended stays.   *)
(* Workers, leases, tokens, time, attempts and continuations do not appear *)
(* here, nor does the order in which items are delivered.                  *)
(***************************************************************************)
EXTENDS Integers, Sequences

CONSTANTS
  Works,    \* items
  Budget    \* how often each may be delivered

VARIABLES
  state,      \* where each item stands
  delivery,   \* how often it was delivered
  acked       \* which of its deliveries were acknowledged, in order

Ended == {"completed", "failed", "cancelled", "dead_lettered"}
States == {"absent", "queued", "leased"} \cup Ended

Init ==
  /\ state = [w \in Works |-> "absent"]
  /\ delivery = [w \in Works |-> 0]
  /\ acked = [w \in Works |-> <<>>]

Keeps(w) ==
  state'[w] = state[w] /\ delivery'[w] = delivery[w] /\ acked'[w] = acked[w]

Submit(w) ==
  /\ state[w] = "absent" /\ state'[w] = "queued"
  /\ delivery'[w] = delivery[w] /\ acked'[w] = acked[w]

\* That the delivery before was lost may show only now.
Deliver(w) ==
  /\ state[w] \in {"queued", "leased"} /\ state'[w] = "leased"
  /\ delivery[w] < Budget[w] /\ delivery'[w] = delivery[w] + 1
  /\ acked'[w] = acked[w]

Lose(w) ==
  /\ state[w] = "leased" /\ state'[w] \in {"queued", "dead_lettered"}
  /\ delivery'[w] = delivery[w] /\ acked'[w] = acked[w]

Acknowledge(w) ==
  /\ state[w] = "leased" /\ state'[w] \in {"queued", "completed", "failed", "dead_lettered"}
  /\ delivery'[w] = delivery[w]
  /\ acked'[w] = Append(acked[w], delivery[w])

Withdraw(w) ==
  /\ state[w] \in {"queued", "leased"} /\ state'[w] = "cancelled"
  /\ delivery'[w] = delivery[w] /\ acked'[w] = acked[w]

Step(w) ==
  Keeps(w) \/ Submit(w) \/ Deliver(w) \/ Lose(w) \/ Acknowledge(w) \/ Withdraw(w)

\* Items are independent: one step may be a step of several.
Next ==
  /\ state' \in [Works -> States]
  /\ delivery' \in [Works -> Nat]
  /\ acked' \in [Works -> Seq(Nat)]
  /\ \A w \in Works : Step(w)

Spec == Init /\ [][Next]_<<state, delivery, acked>>
=============================================================================
