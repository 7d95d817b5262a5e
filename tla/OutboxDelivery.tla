--------------------------- MODULE OutboxDelivery ---------------------------
(***************************************************************************)
(* What the transactional outbox promises to the producers of events,     *)
(* with leases, workers, retries and operators left out: every event's     *)
(* consequence is committed together with the record that it was          *)
(* delivered, a delivered event is never buried, and only a delivered      *)
(* event may be deleted.  Delivery is at least once: an event may be       *)
(* delivered again, and an operator may put a settled event back.          *)
(***************************************************************************)
EXTENDS Naturals

CONSTANT Events

VARIABLES
  state,      \* state[e]: where the event is in its life
  effects     \* effects[e]: how often its consequence has been committed

vars == <<state, effects>>

States == {"unborn", "queued", "delivered", "dead", "gone"}

TypeOK ==
  /\ state \in [Events -> States]
  /\ effects \in [Events -> Nat]

Init ==
  /\ state = [e \in Events |-> "unborn"]
  /\ effects = [e \in Events |-> 0]

Publish(e) ==
  /\ state[e] = "unborn"
  /\ state' = [state EXCEPT ![e] = "queued"]
  /\ UNCHANGED effects

Deliver(e) ==
  /\ state[e] \in {"queued", "delivered", "dead"}
  /\ state' = [state EXCEPT ![e] = "delivered"]
  /\ effects' = [effects EXCEPT ![e] = @ + 1]

Bury(e) ==
  /\ state[e] = "queued"
  /\ state' = [state EXCEPT ![e] = "dead"]
  /\ UNCHANGED effects

PutBack(e) ==
  /\ state[e] \in {"dead", "delivered"}
  /\ state' = [state EXCEPT ![e] = "queued"]
  /\ UNCHANGED effects

Expunge(e) ==
  /\ state[e] = "delivered"
  /\ state' = [state EXCEPT ![e] = "gone"]
  /\ UNCHANGED effects

Next == \E e \in Events :
  Publish(e) \/ Deliver(e) \/ Bury(e) \/ PutBack(e) \/ Expunge(e)

Spec == Init /\ [][Next]_vars

=============================================================================
