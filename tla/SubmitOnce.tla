---------------------------- MODULE SubmitOnce ----------------------------
(***************************************************************************)
(* What the log database makes of the sending of a message: its key admits *)
(* one claim per reference, so a message is either sent directly, with one *)
(* submission at most, or put in the queue, never both, and what is        *)
(* recorded of a direct send is the answer the gateway gave.               *)
(***************************************************************************)
EXTENDS Naturals

CONSTANT Messages

VARIABLES
  claim,         \* who owns the reference of each message
  submissions,   \* how often the owner gave it to the gateway
  answer,        \* what the gateway said, "None" while it said nothing
  record         \* what the database says it said

vars == <<claim, submissions, answer, record>>

Init ==
  /\ claim = [m \in Messages |-> "Free"]
  /\ submissions = [m \in Messages |-> 0]
  /\ answer = [m \in Messages |-> "None"]
  /\ record = [m \in Messages |-> "None"]

(* A claim for a direct send may be lost as soon as it is made: nobody can  *)
(* make it again.                                                          *)
Claim(m) ==
  /\ claim[m] = "Free"
  /\ \E c \in {"Direct", "Closed", "Queue"} : claim' = [claim EXCEPT ![m] = c]
  /\ UNCHANGED <<submissions, answer, record>>

(* Without an answer the sender gives up.                                  *)
Submit(m) ==
  /\ claim[m] = "Direct" /\ submissions[m] = 0
  /\ submissions' = [submissions EXCEPT ![m] = 1]
  /\ \/ /\ \E a \in {"Submitted", "Failed"} : answer' = [answer EXCEPT ![m] = a]
        /\ UNCHANGED claim
     \/ /\ claim' = [claim EXCEPT ![m] = "Closed"]
        /\ UNCHANGED answer
  /\ UNCHANGED record

Record(m) ==
  /\ claim[m] = "Direct" /\ answer[m] # "None"
  /\ record' = [record EXCEPT ![m] = answer[m]]
  /\ claim' = [claim EXCEPT ![m] = "Closed"]
  /\ UNCHANGED <<submissions, answer>>

GiveUp(m) ==
  /\ claim[m] = "Direct"
  /\ claim' = [claim EXCEPT ![m] = "Closed"]
  /\ UNCHANGED <<submissions, answer, record>>

Next ==
  \E m \in Messages : Claim(m) \/ Submit(m) \/ Record(m) \/ GiveUp(m)

Spec == Init /\ [][Next]_vars
=============================================================================
