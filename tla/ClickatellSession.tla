------------------------- MODULE ClickatellSession -------------------------
(***************************************************************************)
(* The Clickatell gateway object and the threads that send through it.     *)
(* Smsc keeps one gateway per provider, so every worker and every thread   *)
(* that sends at once shares its fields.  SmsGateway.Send connects first,  *)
(* without a lock, if the gateway is not connected; the submission itself  *)
(* is made under a lock on the web service proxy and reconnects, inside    *)
(* the lock, when the service reports a session error.                     *)
(*                                                                         *)
(* The web service is external: auth issues a new session or refuses, and  *)
(* sendmsg may answer anything.  Sessions are numbered in the order in     *)
(* which they are issued, MaxSessions bounds their number (auth refuses    *)
(* from then on), and a proxy object is named after the thread that        *)
(* created it, because a thread creates at most one.                       *)
(***************************************************************************)
EXTENDS Naturals

CONSTANTS
  Callers,      \* the threads that send through the gateway
  None,         \* no proxy object
  MaxSessions   \* bound: sessions the service issues

ASSUME SessionAssumption == None \notin Callers /\ MaxSessions \in Nat

VARIABLES
  testMode,      \* Provider.TestMode
  isConnected,   \* IsConnected
  server,        \* _server, the proxy object
  sessionId,     \* _sessionId, 0 is the empty string
  issued,        \* the last session the service issued
  pc,            \* the next statement of each caller
  proxy,         \* the proxy each caller waits for or holds, by lock (_server)
  got,           \* the session in the answer to a caller's auth, until stored
  used,          \* the session of a caller's last sendmsg
  refreshing,    \* refresingSession
  attempts,      \* sendmsg calls of a caller's present Send
  answer,        \* the answer to the last of them
  result,        \* what the last Send returned, or "Pending"
  simulated,     \* history: a Connect ran in test mode, without a session
  raced          \* history: two callers were inside Connect at the same time

gatewayVars == <<testMode, isConnected, server, sessionId, issued, simulated>>
sendVars == <<refreshing, attempts, answer, result>>
sessionVars == <<testMode, isConnected, server, sessionId, issued, pc, proxy,
                 got, used, refreshing, attempts, answer, result,
                 simulated, raced>>

CallerStates ==
  {"Idle", "Connect", "CreateServer", "Auth", "StoreSession", "Connected",
   "TestMode", "Enter", "SendMsg", "Answer", "Retry", "Exit", "Status"}

ConnectStates ==
  {"Connect", "CreateServer", "Auth", "StoreSession", "Connected"}

(* A caller holds the lock from its Enter until it leaves the lock block,   *)
(* with a retry, with an answer or with an exception.                       *)
Holds(c) == proxy[c] # None /\ pc[c] # "Enter"

Connecting(c) == pc[c] \in ConnectStates

SessionInit ==
  /\ testMode \in BOOLEAN
  /\ isConnected = FALSE
  /\ server = None
  /\ sessionId = 0
  /\ issued = 0
  /\ pc = [c \in Callers |-> "Idle"]
  /\ proxy = [c \in Callers |-> None]
  /\ got = [c \in Callers |-> 0]
  /\ used = [c \in Callers |-> 0]
  /\ refreshing = [c \in Callers |-> FALSE]
  /\ attempts = [c \in Callers |-> 0]
  /\ answer = [c \in Callers |-> "None"]
  /\ result = [c \in Callers |-> "None"]
  /\ simulated = FALSE
  /\ raced = FALSE

-----------------------------------------------------------------------------
At(c, here, next) ==
  /\ pc[c] = here
  /\ pc' = [pc EXCEPT ![c] = next]

(* Two callers meet inside Connect when one goes in while another is there. *)
RememberRace(c) ==
  IF \E d \in Callers \ {c} : Connecting(d)
  THEN raced' = TRUE
  ELSE UNCHANGED raced

(* Plausible faults of the statements below, each the mutated form of the   *)
(* action it is named after; no action of this module uses them.            *)

Throw_KeepsLock(c) ==
  /\ pc' = [pc EXCEPT ![c] = "Idle"]
  /\ result' = [result EXCEPT ![c] = "Threw"]
  /\ UNCHANGED proxy

Connect_FlagFirst(c) ==
  /\ At(c, "Connect", IF testMode THEN "Connected"
                      ELSE IF server = None THEN "CreateServer" ELSE "Auth")
  /\ isConnected' = TRUE
  /\ simulated' = (simulated \/ testMode)
  /\ UNCHANGED <<testMode, server, sessionId, issued, proxy, got, used,
                 sendVars, raced>>

Connect_AlwaysCreates(c) ==
  /\ At(c, "Connect", IF testMode THEN "Connected" ELSE "CreateServer")
  /\ simulated' = (simulated \/ testMode)
  /\ UNCHANGED <<testMode, isConnected, server, sessionId, issued, proxy, got,
                 used, sendVars, raced>>

StoreSession_OnlyFirst(c) ==
  /\ At(c, "StoreSession", "Connected")
  /\ sessionId' = IF sessionId = 0 THEN got[c] ELSE sessionId
  /\ got' = [got EXCEPT ![c] = 0]
  /\ UNCHANGED <<testMode, isConnected, server, issued, simulated, proxy, used,
                 sendVars, raced>>

SessionError_AlwaysRetries(c) ==
  /\ At(c, "Answer", "Connect")
  /\ answer' = [answer EXCEPT ![c] = "SessionError"]
  /\ RememberRace(c)
  /\ UNCHANGED <<gatewayVars, proxy, got, used, refreshing, attempts, result>>

Retry_NotRefreshing(c) ==
  /\ At(c, "Retry", "TestMode")
  /\ proxy' = [proxy EXCEPT ![c] = None]
  /\ UNCHANGED <<gatewayVars, got, used, sendVars, raced>>

(* An exception leaves Send; lock is a try and finally.                     *)
Throw(c) ==
  /\ pc' = [pc EXCEPT ![c] = "Idle"]
  /\ proxy' = [proxy EXCEPT ![c] = None]
  /\ result' = [result EXCEPT ![c] = "Threw"]

(* SmsGateway.Send.  It goes into Connect if the gateway is not connected.  *)
Send(c) ==
  /\ At(c, "Idle", IF isConnected THEN "TestMode" ELSE "Connect")
  /\ refreshing' = [refreshing EXCEPT ![c] = FALSE]
  /\ attempts' = [attempts EXCEPT ![c] = 0]
  /\ answer' = [answer EXCEPT ![c] = "None"]
  /\ result' = [result EXCEPT ![c] = "Pending"]
  /\ IF isConnected THEN UNCHANGED raced ELSE RememberRace(c)
  /\ UNCHANGED <<gatewayVars, proxy, got, used>>

-----------------------------------------------------------------------------
(* Connect, called from SmsGateway.Send or from inside the lock.            *)

Connect(c) ==
  /\ At(c, "Connect", IF testMode THEN "Connected"
                      ELSE IF server = None THEN "CreateServer" ELSE "Auth")
  /\ simulated' = (simulated \/ testMode)
  /\ UNCHANGED <<testMode, isConnected, server, sessionId, issued, proxy, got,
                 used, sendVars, raced>>

CreateServer(c) ==
  /\ At(c, "CreateServer", "Auth")
  /\ server' = c
  /\ UNCHANGED <<testMode, isConnected, sessionId, issued, simulated, proxy,
                 got, used, sendVars, raced>>

Auth(c) ==
  /\ At(c, "Auth", "StoreSession")
  /\ issued < MaxSessions
  /\ issued' = issued + 1
  /\ got' = [got EXCEPT ![c] = issued + 1]
  /\ UNCHANGED <<testMode, isConnected, server, sessionId, simulated, proxy,
                 used, sendVars, raced>>

(* No answer, or one that does not match "OK:": match.Result throws.        *)
AuthFails(c) ==
  /\ pc[c] = "Auth"
  /\ Throw(c)
  /\ UNCHANGED <<gatewayVars, got, used, refreshing, attempts,
                 answer, raced>>

StoreSession(c) ==
  /\ At(c, "StoreSession", "Connected")
  /\ sessionId' = got[c]
  /\ got' = [got EXCEPT ![c] = 0]
  /\ UNCHANGED <<testMode, isConnected, server, issued, simulated, proxy, used,
                 sendVars, raced>>

Connected(c) ==
  /\ At(c, "Connected", IF proxy[c] = None THEN "TestMode" ELSE "Retry")
  /\ isConnected' = TRUE
  /\ UNCHANGED <<testMode, server, sessionId, issued, simulated, proxy,
                 got, used, sendVars, raced>>

-----------------------------------------------------------------------------
(* The private Send with its lock, its retry and its statuses.              *)

(* In test mode nothing is submitted; otherwise lock evaluates _server,     *)
(* and throws if there is none.                                             *)
TestMode(c) ==
  /\ pc[c] = "TestMode"
  /\ \/ /\ testMode \/ server # None
        /\ pc' = [pc EXCEPT ![c] = IF testMode THEN "Status" ELSE "Enter"]
        /\ proxy' = [proxy EXCEPT ![c] = IF testMode THEN None ELSE server]
        /\ UNCHANGED result
     \/ ~testMode /\ server = None /\ Throw(c)
  /\ UNCHANGED <<gatewayVars, got, used, refreshing, attempts,
                 answer, raced>>

Enter(c) ==
  /\ At(c, "Enter", "SendMsg")
  /\ \A d \in Callers : Holds(d) => proxy[d] # proxy[c]
  /\ UNCHANGED <<gatewayVars, proxy, got, used, sendVars, raced>>

SendMsg(c) ==
  /\ At(c, "SendMsg", "Answer")
  /\ used' = [used EXCEPT ![c] = sessionId]
  /\ attempts' = [attempts EXCEPT ![c] = @ + 1]
  /\ answer' = [answer EXCEPT ![c] = "None"]
  /\ UNCHANGED <<gatewayVars, proxy, got, refreshing, result, raced>>

(* The answer, one line per recipient or one for all of them.  A session    *)
(* error counts as one only if it is the single line, and is "Rejected"     *)
(* otherwise.                                                               *)
Reply(c, a) ==
  /\ answer' = [answer EXCEPT ![c] = a]
  /\ UNCHANGED <<gatewayVars, got, used, refreshing, attempts>>

SessionError(c) ==
  /\ At(c, "Answer", IF refreshing[c] THEN "Exit" ELSE "Connect")
  /\ Reply(c, "SessionError")
  /\ IF refreshing[c] THEN UNCHANGED raced ELSE RememberRace(c)
  /\ UNCHANGED <<proxy, result>>

OtherAnswer(c) ==
  /\ At(c, "Answer", "Exit")
  /\ \E a \in {"Accepted", "Rejected"} : Reply(c, a)
  /\ UNCHANGED <<proxy, result, raced>>

(* sendmsg throws (no connection, a fault, no answer).                      *)
SendMsgFails(c) ==
  /\ pc[c] = "Answer"
  /\ Throw(c)
  /\ UNCHANGED <<gatewayVars, got, used, refreshing, attempts,
                 answer, raced>>

(* The lock is left and Send calls itself, this time refreshing.            *)
Retry(c) ==
  /\ At(c, "Retry", "TestMode")
  /\ proxy' = [proxy EXCEPT ![c] = None]
  /\ refreshing' = [refreshing EXCEPT ![c] = TRUE]
  /\ UNCHANGED <<gatewayVars, got, used, attempts, answer, result,
                 raced>>

Exit(c) ==
  /\ At(c, "Exit", "Status")
  /\ proxy' = [proxy EXCEPT ![c] = None]
  /\ UNCHANGED <<gatewayVars, got, used, sendVars, raced>>

(* One status per recipient, read from the line with its index: an answer   *)
(* with fewer lines than recipients throws.                                 *)
Status(c) ==
  /\ pc[c] = "Status"
  /\ \/ /\ At(c, "Status", "Idle")
        /\ result' = [result EXCEPT ![c] =
             IF answer[c] \in {"None", "Accepted"} THEN "Accepted"
             ELSE "Rejected"]
        /\ UNCHANGED proxy
     \/ answer[c] # "None" /\ Throw(c)
  /\ UNCHANGED <<gatewayVars, got, used, refreshing, attempts,
                 answer, raced>>

(* The application chooses the mode of a provider before it sends.          *)
SetTestMode ==
  /\ \A c \in Callers : pc[c] = "Idle"
  /\ testMode' = ~testMode
  /\ UNCHANGED <<isConnected, server, sessionId, issued, simulated, pc, proxy,
                 got, used, sendVars, raced>>

-----------------------------------------------------------------------------
CallerStep(c) ==
  \/ Connect(c) \/ CreateServer(c) \/ Auth(c) \/ AuthFails(c)
  \/ StoreSession(c) \/ Connected(c)
  \/ TestMode(c) \/ Enter(c) \/ SendMsg(c) \/ SessionError(c)
  \/ OtherAnswer(c) \/ SendMsgFails(c) \/ Retry(c) \/ Exit(c) \/ Status(c)

SessionNext ==
  \/ \E c \in Callers : Send(c) \/ CallerStep(c)
  \/ SetTestMode

(* A thread inside Send runs on: auth and sendmsg answer or throw.  The     *)
(* lock is strongly fair, because a monitor wakes its waiters in turn.      *)
SessionFairness ==
  \A c \in Callers : WF_sessionVars(CallerStep(c)) /\ SF_sessionVars(Enter(c))

SessionSafetySpec == SessionInit /\ [][SessionNext]_sessionVars

SessionSpec == SessionSafetySpec /\ SessionFairness

-----------------------------------------------------------------------------
(* Properties.                                                              *)

(* Every variable keeps its type; sessions in use were issued.              *)
SessionTypeOK ==
  /\ testMode \in BOOLEAN /\ isConnected \in BOOLEAN
  /\ simulated \in BOOLEAN /\ raced \in BOOLEAN
  /\ server \in Callers \cup {None}
  /\ issued \in 0..MaxSessions
  /\ sessionId \in 0..issued
  /\ pc \in [Callers -> CallerStates]
  /\ proxy \in [Callers -> Callers \cup {None}]
  /\ got \in [Callers -> 0..issued]
  /\ used \in [Callers -> 0..issued]
  /\ refreshing \in [Callers -> BOOLEAN]
  /\ attempts \in [Callers -> 0..2]
  /\ answer \in [Callers -> {"None", "Accepted", "Rejected", "SessionError"}]
  /\ result \in
       [Callers -> {"None", "Pending", "Accepted", "Rejected", "Threw"}]

(* A gateway that says it is connected has a proxy and a session, whoever   *)
(* of the concurrent callers of Connect created the one and stored the      *)
(* other, and no message is submitted without them: unless it was connected *)
(* in test mode, which the next message in live mode finds out.             *)
ConnectedMeansUsable ==
  ~simulated =>
    /\ isConnected => server # None /\ sessionId # 0
    /\ \A c \in Callers : pc[c] \in {"Enter", "SendMsg"} => sessionId # 0

(* The lock keeps submissions apart, unless two callers met in Connect and  *)
(* replaced the object it locks.                                            *)
ExclusiveUnlessRaced ==
  ~raced => \A c, d \in Callers : Holds(c) /\ Holds(d) => c = d

NewSessionOnRetry(c) ==
  attempts[c] = 1 /\ attempts'[c] = 2 => used'[c] > used[c]

(* The retry is made "after reconnecting with a new session id"             *)
(* (ClickatellProvider.cs:65-68), one issued after the session that failed. *)
RetryUsesNewSession ==
  [][\A c \in Callers : NewSessionOnRetry(c)]_sessionVars

(* The same where no two callers ever met inside Connect.                   *)
RetryUsesNewSessionUnlessRaced ==
  [][~raced => \A c \in Callers : NewSessionOnRetry(c)]_sessionVars

(* How many statements a caller has before it at most until its Send is     *)
(* over: those of the reconnection and the retry are to come for whoever    *)
(* connects without the lock, or submits for the first time.                *)
StatementsToReturn ==
  [Connect |-> 12, CreateServer |-> 11, Auth |-> 10, StoreSession |-> 9,
   Connected |-> 8, Retry |-> 7, TestMode |-> 6, Enter |-> 5, SendMsg |-> 4,
   Answer |-> 3, Exit |-> 2, Status |-> 1, Idle |-> 0]

MayRetry(c) ==
  \/ Connecting(c) /\ proxy[c] = None
  \/ pc[c] \in {"TestMode", "Enter", "SendMsg", "Answer"} /\ ~refreshing[c]

Left(c) ==
  StatementsToReturn[pc[c]] + IF MayRetry(c) THEN 10 ELSE 0

(* Send calls Connect and itself again, but whatever the service answers    *)
(* and the other threads do meanwhile, each statement is one less to its    *)
(* return: no caller goes round connect and submit for a third time.        *)
SendCountsDown ==
  [][\A c \in Callers : pc[c] # "Idle" /\ pc'[c] # pc[c] =>
       Left(c)' < Left(c)]_sessionVars

Call == INSTANCE GatewayCall

(* Each Send submits once, or twice after a session error, and returns the  *)
(* last answer (ClickatellProvider.cs:57-63).                               *)
ImplementsGatewayCall == Call!Spec

(* Every Send returns or throws.                                            *)
SendReturns ==
  \A c \in Callers : result[c] = "Pending" ~> result[c] # "Pending"
=============================================================================
