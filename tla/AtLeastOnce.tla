---------------------------- MODULE AtLeastOnce ----------------------------
(***************************************************************************)
(* What the queue and its dequeue service promise about each message: once *)
(* enqueued it is delivered to the gateway at least once before it is       *)
(* settled, a settled message is never delivered again, and it is delivered *)
(* again only when a delivery that was not settled has been taken back, as  *)
(* a crash does.  How often that happens is not said here.                  *)
(***************************************************************************)
EXTENDS Naturals

CONSTANT Messages

VARIABLES
  stage,       \* how far each message has come
  deliveries   \* how often each message was delivered to the gateway

vars == <<stage, deliveries>>

Init ==
  /\ stage = [m \in Messages |-> "New"]
  /\ deliveries = [m \in Messages |-> 0]

Advance(m, from, to) ==
  /\ stage[m] = from
  /\ stage' = [stage EXCEPT ![m] = to]

Enqueue(m) == Advance(m, "New", "Queued") /\ UNCHANGED deliveries

Deliver(m) ==
  /\ Advance(m, "Queued", "Delivered")
  /\ deliveries' = [deliveries EXCEPT ![m] = @ + 1]

Settle(m) == Advance(m, "Delivered", "Settled") /\ UNCHANGED deliveries

(* A crash takes every delivery back that is not settled.                  *)
TakeBack ==
  /\ stage' = [m \in Messages |->
                 IF stage[m] = "Delivered" THEN "Queued" ELSE stage[m]]
  /\ UNCHANGED deliveries

Next ==
  \/ \E m \in Messages : Enqueue(m) \/ Deliver(m) \/ Settle(m)
  \/ TakeBack

Spec == Init /\ [][Next]_vars
=============================================================================
