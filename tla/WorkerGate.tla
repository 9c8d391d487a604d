----------------------------- MODULE WorkerGate -----------------------------
(***************************************************************************)
(* What the calls of a dequeue service promise about its workers, without  *)
(* counters and event handles.  There is one gate.  A worker that sees a   *)
(* suspension asks to be held, is held at the gate, and leaves through it  *)
(* only while it is open.  The promise of Suspend is the weak one that     *)
(* DequeueSynchronizer keeps: every worker reached the gate, but one that  *)
(* was let through before it closed may be on its way out of it.           *)
(***************************************************************************)
CONSTANT Workers

VARIABLES
  mode,       \* where each worker is with respect to the gate
  open,       \* the gate is open
  stopping,   \* Terminate was called
  request     \* the call in progress, or "None"

vars == <<mode, open, stopping, request>>

Suspending == request \in {"New", "Suspend", "Settled"}

Init ==
  /\ mode = [w \in Workers |-> "Free"]
  /\ open = TRUE
  /\ stopping = FALSE
  /\ request = "New"

Move(w, from, to) ==
  /\ mode[w] = from
  /\ mode' = [mode EXCEPT ![w] = to]
  /\ UNCHANGED <<open, stopping, request>>

(* A worker decides to suspend only while a suspension is in progress.     *)
Ask(w) == Suspending /\ Move(w, "Free", "Asked")
Hold(w) == Move(w, "Asked", "Held")
Release(w) == open /\ Move(w, "Held", "Leaving")
Leave(w) == Move(w, "Leaving", "Free")
Stop(w) == stopping /\ Move(w, "Free", "Stopped")

Start ==
  /\ request = "None" /\ request' = "Start"
  /\ open' = TRUE
  /\ UNCHANGED <<mode, stopping>>

Suspend ==
  /\ request = "None" /\ request' = "Suspend"
  /\ UNCHANGED <<mode, open, stopping>>

Terminate ==
  /\ request = "None" /\ request' = "Terminate"
  /\ stopping' = TRUE
  /\ UNCHANGED <<mode, open>>

Close ==
  /\ request \in {"New", "Suspend"}
  /\ open' = FALSE
  /\ UNCHANGED <<mode, stopping, request>>

Settle ==
  /\ request \in {"New", "Suspend"} /\ request' = "Settled"
  /\ ~open
  /\ \A w \in Workers : mode[w] \in {"Held", "Leaving"}
  /\ UNCHANGED <<mode, open, stopping>>

Open ==
  /\ request = "Terminate"
  /\ open' = TRUE
  /\ UNCHANGED <<mode, stopping, request>>

(* A call returns when the workers are where it promises them to be.       *)
Return ==
  /\ \/ request = "Settled"
     \/ request = "Start" /\ \A w \in Workers : mode[w] \notin {"Held", "Leaving"}
     \/ request = "Terminate" /\ \A w \in Workers : mode[w] = "Stopped"
  /\ request' = "None"
  /\ UNCHANGED <<mode, open, stopping>>

Next ==
  \/ \E w \in Workers : Ask(w) \/ Hold(w) \/ Release(w) \/ Leave(w) \/ Stop(w)
  \/ Start \/ Suspend \/ Terminate \/ Close \/ Settle \/ Open \/ Return

Spec == Init /\ [][Next]_vars
=============================================================================
