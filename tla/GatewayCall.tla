---------------------------- MODULE GatewayCall ----------------------------
(***************************************************************************)
(* What a gateway with sessions promises about each Send (the comment at   *)
(* src/Usms.Gateway.Providers.Clickatell.Soap/ClickatellProvider.cs:57-63):*)
(* the message is submitted a second time only because the answer to the   *)
(* first was a session error, never a third time, and the caller is told   *)
(* the last answer.  A Send may also throw.                                *)
(***************************************************************************)
EXTENDS Naturals

CONSTANT Callers   \* the threads that share the gateway

VARIABLES
  attempts,   \* how often the present Send of each caller was submitted
  answer,     \* the answer to its last submission, "None" while there is none
  result      \* what its last Send returned, or "Pending"

vars == <<attempts, answer, result>>

Init ==
  /\ attempts = [c \in Callers |-> 0]
  /\ answer = [c \in Callers |-> "None"]
  /\ result = [c \in Callers |-> "None"]

Begin(c) ==
  /\ result[c] # "Pending"
  /\ attempts' = [attempts EXCEPT ![c] = 0]
  /\ answer' = [answer EXCEPT ![c] = "None"]
  /\ result' = [result EXCEPT ![c] = "Pending"]

Submit(c) ==
  /\ result[c] = "Pending"
  /\ \/ attempts[c] = 0
     \/ attempts[c] = 1 /\ answer[c] = "SessionError"
  /\ attempts' = [attempts EXCEPT ![c] = @ + 1]
  /\ answer' = [answer EXCEPT ![c] = "None"]
  /\ UNCHANGED result

Answer(c) ==
  /\ attempts[c] > 0 /\ answer[c] = "None"
  /\ \E a \in {"Accepted", "Rejected", "SessionError"} :
       answer' = [answer EXCEPT ![c] = a]
  /\ UNCHANGED <<attempts, result>>

(* A session error is reported only if the retry met one, too.  Without a   *)
(* submission, in test mode, the message counts as accepted.                *)
Return(c) ==
  /\ result[c] = "Pending"
  /\ \/ /\ attempts[c] = 0 \/ answer[c] = "Accepted"
        /\ result' = [result EXCEPT ![c] = "Accepted"]
     \/ /\ \/ answer[c] = "Rejected"
           \/ answer[c] = "SessionError" /\ attempts[c] = 2
        /\ result' = [result EXCEPT ![c] = "Rejected"]
  /\ UNCHANGED <<attempts, answer>>

Throw(c) ==
  /\ result[c] = "Pending"
  /\ result' = [result EXCEPT ![c] = "Threw"]
  /\ UNCHANGED <<attempts, answer>>

Next ==
  \E c \in Callers : Begin(c) \/ Submit(c) \/ Answer(c) \/ Return(c) \/ Throw(c)

Spec == Init /\ [][Next]_vars
=============================================================================
