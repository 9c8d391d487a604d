---------------------- MODULE ClickatellSessionProofs ----------------------
(* Proofs about ClickatellSession, for every set of callers and every       *)
(* number of sessions the service may issue.                                *)
EXTENDS ClickatellSession, TLAPS

Answered(c) ==
  \/ attempts[c] \in {1, 2} /\ answer[c] \in {"Accepted", "Rejected"}
  \/ attempts[c] = 2 /\ answer[c] = "SessionError"

(* Where a caller stands says what it holds and what it has submitted.      *)
BeforeSubmission(c) ==
  /\ attempts[c] = IF refreshing[c] THEN 1 ELSE 0
  /\ answer[c] = IF refreshing[c] THEN "SessionError" ELSE "None"

BeforeRetry(c) ==
  /\ ~refreshing[c]
  /\ attempts[c] = 1
  /\ answer[c] = "SessionError"

CallerAgrees(c) ==
  /\ pc[c] = "Idle" <=> result[c] # "Pending"
  /\ pc[c] \in {"Idle", "TestMode", "Status", "CreateServer"} => proxy[c] = None
  /\ pc[c] \in {"Enter", "SendMsg", "Answer", "Retry", "Exit"}
       => proxy[c] # None
  /\ pc[c] \in {"TestMode", "Enter", "SendMsg"} => BeforeSubmission(c)
  /\ Connecting(c) => IF proxy[c] = None
                      THEN BeforeSubmission(c) /\ ~refreshing[c]
                      ELSE BeforeRetry(c)
  /\ pc[c] = "Retry" => BeforeRetry(c)
  /\ pc[c] = "Answer" => /\ attempts[c] = IF refreshing[c] THEN 2 ELSE 1
                         /\ answer[c] = "None"
  /\ pc[c] = "Exit" => Answered(c)
  /\ pc[c] = "Status" => \/ Answered(c)
                         \/ attempts[c] = 0 /\ answer[c] = "None"
  /\ pc[c] = "StoreSession" => got[c] # 0
  /\ pc[c] \in {"Auth", "StoreSession"} \/ proxy[c] # None => server # None
  /\ testMode => /\ pc[c] \in {"Idle", "Connect", "Connected", "TestMode",
                            "Status"}
                 /\ proxy[c] = None
                 /\ pc[c] # "Idle" => attempts[c] = 0

CallersAgree == \A c \in Callers : CallerAgrees(c)

(* A proxy object is locked by one caller at a time.                        *)
LockAgrees ==
  \A c, d \in Callers :
    Holds(c) /\ Holds(d) /\ proxy[c] = proxy[d] => c = d

UsableAgrees ==
  ~simulated =>
    /\ isConnected => server # None /\ sessionId # 0
    /\ \A c \in Callers :
         pc[c] \in {"Connected", "TestMode", "Enter", "SendMsg", "Answer",
                   "Retry"}
           => server # None /\ sessionId # 0

(* Without a race the proxy is created once and sessions only grow newer.   *)
RaceAgrees ==
  ~raced =>
    /\ \A c, d \in Callers : Connecting(c) /\ Connecting(d) => c = d
    /\ \A c \in Callers :
         /\ pc[c] = "CreateServer" => server = None
         /\ proxy[c] \in {None, server}
         /\ used[c] <= sessionId
         /\ pc[c] = "StoreSession" => sessionId < got[c]
         /\ \/ pc[c] \in {"Connected", "Retry"} /\ proxy[c] # None
            \/ pc[c] \in {"TestMode", "Enter", "SendMsg"} /\ refreshing[c]
            => used[c] < sessionId

SessionInv ==
  /\ SessionTypeOK
  /\ CallersAgree
  /\ LockAgrees
  /\ UsableAgrees
  /\ RaceAgrees

USE SessionAssumption

(* The parts hold initially, when nobody sends.                             *)
LEMMA SessionInitInv == SessionInit => SessionInv
<1> SUFFICES ASSUME SessionInit PROVE SessionInv
  OBVIOUS
<1>1. SessionTypeOK
  <2>1. server \in Callers \cup {None} /\ pc \in [Callers -> CallerStates]
    BY DEF SessionInit, CallerStates
  <2>2. /\ testMode \in BOOLEAN /\ isConnected \in BOOLEAN
        /\ simulated \in BOOLEAN /\ raced \in BOOLEAN
    BY DEF SessionInit
  <2>3. issued \in 0..MaxSessions /\ sessionId \in 0..issued
    BY DEF SessionInit
  <2>4. /\ proxy \in [Callers -> Callers \cup {None}]
        /\ got \in [Callers -> 0..issued]
        /\ used \in [Callers -> 0..issued]
    BY DEF SessionInit
  <2>5. refreshing \in [Callers -> BOOLEAN]
    BY DEF SessionInit
  <2>6. /\ attempts \in [Callers -> 0..2]
        /\ answer \in [Callers ->
                         {"None", "Accepted", "Rejected", "SessionError"}]
        /\ result \in [Callers ->
                         {"None", "Pending", "Accepted", "Rejected", "Threw"}]
    BY DEF SessionInit
  <2>7. QED
    BY <2>1, <2>2, <2>3, <2>4, <2>5, <2>6 DEF SessionTypeOK
<1>2. CallersAgree
  BY DEF SessionInit, CallersAgree, CallerAgrees, Connecting, ConnectStates
<1>3. LockAgrees /\ UsableAgrees
  BY DEF SessionInit, LockAgrees, Holds, UsableAgrees
<1>4. RaceAgrees
  BY DEF SessionInit, RaceAgrees, Connecting, ConnectStates
<1>5. QED
  BY <1>1, <1>2, <1>3, <1>4 DEF SessionInv

(* Every variable keeps its type.                                           *)
LEMMA SessionTypeStep ==
  ASSUME SessionInv, [SessionNext]_sessionVars
  PROVE  SessionTypeOK'
<1> USE DEF SessionInv, SessionTypeOK, CallerStates
<1>1. ASSUME NEW c \in Callers, Send(c) PROVE SessionTypeOK'
  <2>1. raced' \in BOOLEAN
    BY <1>1 DEF Send, RememberRace
  <2>2. refreshing' \in [Callers -> BOOLEAN]
    BY <1>1 DEF Send
  <2>3. pc' \in [Callers -> CallerStates]
    BY <1>1 DEF Send, At
  <2>4. /\ attempts' \in [Callers -> 0..2]
        /\ answer' \in [Callers ->
                          {"None", "Accepted", "Rejected", "SessionError"}]
        /\ result' \in [Callers ->
                          {"None", "Pending", "Accepted", "Rejected", "Threw"}]
    BY <1>1 DEF Send
  <2>5. QED
    BY <1>1, <2>1, <2>2, <2>3, <2>4 DEF Send, gatewayVars
<1>2. ASSUME NEW c \in Callers, Connect(c) PROVE SessionTypeOK'
  BY <1>2 DEF Connect, At, sendVars
<1>3. ASSUME NEW c \in Callers, CreateServer(c) PROVE SessionTypeOK'
  BY <1>3 DEF CreateServer, At, sendVars
<1>15. ASSUME NEW c \in Callers, Auth(c) PROVE SessionTypeOK'
  BY <1>15 DEF Auth, At, sendVars
<1>4. ASSUME NEW c \in Callers, AuthFails(c) \/ SendMsgFails(c)
      PROVE  SessionTypeOK'
  BY <1>4 DEF AuthFails, SendMsgFails, Throw, gatewayVars
<1>5. ASSUME NEW c \in Callers, StoreSession(c) PROVE SessionTypeOK'
  BY <1>5 DEF StoreSession, At, sendVars
<1>16. ASSUME NEW c \in Callers, Connected(c) PROVE SessionTypeOK'
  BY <1>16 DEF Connected, At, sendVars
<1>6. ASSUME NEW c \in Callers, TestMode(c) PROVE SessionTypeOK'
  BY <1>6 DEF TestMode, Throw, gatewayVars
<1>7. ASSUME NEW c \in Callers, Enter(c) \/ Exit(c) PROVE SessionTypeOK'
  BY <1>7 DEF Enter, Exit, At, gatewayVars, sendVars
<1>8. ASSUME NEW c \in Callers, SendMsg(c) PROVE SessionTypeOK'
  <2>1. attempts[c] \in {0, 1}
    BY <1>8 DEF SendMsg, At, CallersAgree, CallerAgrees, BeforeSubmission
  <2>2. QED
    BY <1>8, <2>1 DEF SendMsg, At, gatewayVars
<1>9. ASSUME NEW c \in Callers, SessionError(c) \/ OtherAnswer(c)
      PROVE  SessionTypeOK'
  <2>1. CASE SessionError(c)
    BY <2>1 DEF SessionError, Reply, At, RememberRace, gatewayVars, Connecting
  <2>2. CASE OtherAnswer(c)
    BY <2>2 DEF OtherAnswer, Reply, At, RememberRace, gatewayVars, Connecting
  <2>3. QED
    BY <1>9, <2>1, <2>2
<1>10. ASSUME NEW c \in Callers, Retry(c) PROVE SessionTypeOK'
  BY <1>10 DEF Retry, At, gatewayVars
<1>11. ASSUME NEW c \in Callers, Status(c) PROVE SessionTypeOK'
  BY <1>11 DEF Status, Throw, At, gatewayVars
<1>12. CASE SetTestMode
  BY <1>12 DEF SetTestMode, sendVars
<1>13. CASE UNCHANGED sessionVars
  BY <1>13 DEF sessionVars
<1>14. QED
  BY <1>1, <1>2, <1>3, <1>4, <1>5, <1>6, <1>7, <1>8, <1>9, <1>10, <1>11,
     <1>12, <1>13, <1>15, <1>16 DEF SessionNext, CallerStep

(* Every step leaves every caller where its part of the invariant says.     *)
LEMMA CallerStepAgrees ==
  ASSUME SessionInv, [SessionNext]_sessionVars
  PROVE  CallersAgree'
<1> USE DEF SessionInv, SessionTypeOK, CallersAgree, CallerAgrees,
       BeforeSubmission, BeforeRetry, Answered, Connecting, ConnectStates
<1>1. ASSUME NEW c \in Callers, Send(c) PROVE CallersAgree'
  BY <1>1 DEF Send, At, gatewayVars
<1>2. ASSUME NEW c \in Callers, Connect(c) PROVE CallersAgree'
  BY <1>2 DEF Connect, At, sendVars, gatewayVars
<1>3. ASSUME NEW c \in Callers, CreateServer(c) PROVE CallersAgree'
  BY <1>3 DEF CreateServer, At, sendVars, gatewayVars
<1>4. ASSUME NEW c \in Callers, Auth(c) PROVE CallersAgree'
  BY <1>4 DEF Auth, At, sendVars, gatewayVars
<1>5. ASSUME NEW c \in Callers, AuthFails(c) PROVE CallersAgree'
  BY <1>5 DEF AuthFails, Throw, gatewayVars
<1>6. ASSUME NEW c \in Callers, StoreSession(c) PROVE CallersAgree'
  BY <1>6 DEF StoreSession, At, sendVars, gatewayVars
<1>7. ASSUME NEW c \in Callers, Connected(c) PROVE CallersAgree'
  BY <1>7 DEF Connected, At, sendVars, gatewayVars
<1>8. ASSUME NEW c \in Callers, TestMode(c) PROVE CallersAgree'
  BY <1>8 DEF TestMode, Throw, gatewayVars
<1>9. ASSUME NEW c \in Callers, Enter(c) PROVE CallersAgree'
  BY <1>9 DEF Enter, At, sendVars, gatewayVars
<1>10. ASSUME NEW c \in Callers, SendMsg(c) PROVE CallersAgree'
  BY <1>10 DEF SendMsg, At, gatewayVars
<1>11. ASSUME NEW c \in Callers, SessionError(c) PROVE CallersAgree'
  BY <1>11 DEF SessionError, Reply, At, gatewayVars
<1>12. ASSUME NEW c \in Callers, OtherAnswer(c) PROVE CallersAgree'
  BY <1>12 DEF OtherAnswer, Reply, At, gatewayVars
<1>13. ASSUME NEW c \in Callers, SendMsgFails(c) PROVE CallersAgree'
  BY <1>13 DEF SendMsgFails, Throw, gatewayVars
<1>14. ASSUME NEW c \in Callers, Retry(c) PROVE CallersAgree'
  BY <1>14 DEF Retry, At, gatewayVars
<1>15. ASSUME NEW c \in Callers, Exit(c) PROVE CallersAgree'
  BY <1>15 DEF Exit, At, sendVars, gatewayVars
<1>16. ASSUME NEW c \in Callers, Status(c) PROVE CallersAgree'
  BY <1>16 DEF Status, Throw, At, gatewayVars
<1>17. CASE SetTestMode
  BY <1>17 DEF SetTestMode, sendVars
<1>18. CASE UNCHANGED sessionVars
  BY <1>18 DEF sessionVars
<1>19. QED
    BY <1>1, <1>2, <1>3, <1>4, <1>5, <1>6, <1>7, <1>8, <1>9, <1>10, <1>11,
     <1>12, <1>13, <1>14, <1>15, <1>16, <1>17, <1>18 DEF SessionNext,
     CallerStep

(* A proxy object stays locked by one caller at a time.                     *)
LEMMA LockStep ==
  ASSUME SessionInv, [SessionNext]_sessionVars
  PROVE  LockAgrees'
<1> USE DEF SessionInv, SessionTypeOK, CallersAgree, CallerAgrees, LockAgrees,
       Holds, Connecting, ConnectStates
<1>1. ASSUME NEW c \in Callers, Send(c) PROVE LockAgrees'
  BY <1>1 DEF Send, At, gatewayVars
<1>2. ASSUME NEW c \in Callers, Connect(c) PROVE LockAgrees'
  BY <1>2 DEF Connect, At, sendVars, gatewayVars
<1>3. ASSUME NEW c \in Callers, CreateServer(c) PROVE LockAgrees'
  BY <1>3 DEF CreateServer, At, sendVars, gatewayVars
<1>4. ASSUME NEW c \in Callers, Auth(c) PROVE LockAgrees'
  BY <1>4 DEF Auth, At, sendVars, gatewayVars
<1>5. ASSUME NEW c \in Callers, AuthFails(c) PROVE LockAgrees'
  BY <1>5 DEF AuthFails, Throw, gatewayVars
<1>6. ASSUME NEW c \in Callers, StoreSession(c) PROVE LockAgrees'
  BY <1>6 DEF StoreSession, At, sendVars, gatewayVars
<1>7. ASSUME NEW c \in Callers, Connected(c) PROVE LockAgrees'
  BY <1>7 DEF Connected, At, sendVars, gatewayVars
<1>8. ASSUME NEW c \in Callers, TestMode(c) PROVE LockAgrees'
  BY <1>8 DEF TestMode, Throw, gatewayVars
<1>9. ASSUME NEW c \in Callers, Enter(c) PROVE LockAgrees'
  BY <1>9 DEF Enter, At, sendVars, gatewayVars
<1>10. ASSUME NEW c \in Callers, SendMsg(c) PROVE LockAgrees'
  BY <1>10 DEF SendMsg, At, gatewayVars
<1>11. ASSUME NEW c \in Callers, SessionError(c) PROVE LockAgrees'
  BY <1>11 DEF SessionError, Reply, At, gatewayVars
<1>12. ASSUME NEW c \in Callers, OtherAnswer(c) PROVE LockAgrees'
  BY <1>12 DEF OtherAnswer, Reply, At, gatewayVars
<1>13. ASSUME NEW c \in Callers, SendMsgFails(c) PROVE LockAgrees'
  BY <1>13 DEF SendMsgFails, Throw, gatewayVars
<1>14. ASSUME NEW c \in Callers, Retry(c) PROVE LockAgrees'
  BY <1>14 DEF Retry, At, gatewayVars
<1>15. ASSUME NEW c \in Callers, Exit(c) PROVE LockAgrees'
  BY <1>15 DEF Exit, At, sendVars, gatewayVars
<1>16. ASSUME NEW c \in Callers, Status(c) PROVE LockAgrees'
  BY <1>16 DEF Status, Throw, At, gatewayVars
<1>17. CASE SetTestMode
  BY <1>17 DEF SetTestMode, sendVars
<1>18. CASE UNCHANGED sessionVars
  BY <1>18 DEF sessionVars
<1>19. QED
    BY <1>1, <1>2, <1>3, <1>4, <1>5, <1>6, <1>7, <1>8, <1>9, <1>10, <1>11,
     <1>12, <1>13, <1>14, <1>15, <1>16, <1>17, <1>18 DEF SessionNext,
     CallerStep

(* Unless it was simulated, a connection has a proxy and a session.         *)
LEMMA UsableStep ==
  ASSUME SessionInv, [SessionNext]_sessionVars
  PROVE  UsableAgrees'
<1> USE DEF SessionInv, SessionTypeOK, CallersAgree, CallerAgrees, UsableAgrees
<1>1. ASSUME NEW c \in Callers, Send(c) PROVE UsableAgrees'
  BY <1>1 DEF Send, At, gatewayVars
<1>2. ASSUME NEW c \in Callers, Connect(c) PROVE UsableAgrees'
  BY <1>2 DEF Connect, At, sendVars, gatewayVars
<1>3. ASSUME NEW c \in Callers, CreateServer(c) PROVE UsableAgrees'
  BY <1>3 DEF CreateServer, At, sendVars, gatewayVars
<1>4. ASSUME NEW c \in Callers, Auth(c) PROVE UsableAgrees'
  BY <1>4 DEF Auth, At, sendVars, gatewayVars
<1>5. ASSUME NEW c \in Callers, AuthFails(c) PROVE UsableAgrees'
  BY <1>5 DEF AuthFails, Throw, gatewayVars
<1>6. ASSUME NEW c \in Callers, StoreSession(c) PROVE UsableAgrees'
  BY <1>6 DEF StoreSession, At, sendVars, gatewayVars
<1>7. ASSUME NEW c \in Callers, Connected(c) PROVE UsableAgrees'
  BY <1>7 DEF Connected, At, sendVars, gatewayVars
<1>8. ASSUME NEW c \in Callers, TestMode(c) PROVE UsableAgrees'
  BY <1>8 DEF TestMode, Throw, gatewayVars
<1>9. ASSUME NEW c \in Callers, Enter(c) PROVE UsableAgrees'
  BY <1>9 DEF Enter, At, sendVars, gatewayVars
<1>10. ASSUME NEW c \in Callers, SendMsg(c) PROVE UsableAgrees'
  BY <1>10 DEF SendMsg, At, gatewayVars
<1>11. ASSUME NEW c \in Callers, SessionError(c) PROVE UsableAgrees'
  BY <1>11 DEF SessionError, Reply, At, gatewayVars
<1>12. ASSUME NEW c \in Callers, OtherAnswer(c) PROVE UsableAgrees'
  BY <1>12 DEF OtherAnswer, Reply, At, gatewayVars
<1>13. ASSUME NEW c \in Callers, SendMsgFails(c) PROVE UsableAgrees'
  BY <1>13 DEF SendMsgFails, Throw, gatewayVars
<1>14. ASSUME NEW c \in Callers, Retry(c) PROVE UsableAgrees'
  BY <1>14 DEF Retry, At, gatewayVars
<1>15. ASSUME NEW c \in Callers, Exit(c) PROVE UsableAgrees'
  BY <1>15 DEF Exit, At, sendVars, gatewayVars
<1>16. ASSUME NEW c \in Callers, Status(c) PROVE UsableAgrees'
  BY <1>16 DEF Status, Throw, At, gatewayVars
<1>17. CASE SetTestMode
  BY <1>17 DEF SetTestMode, sendVars
<1>18. CASE UNCHANGED sessionVars
  BY <1>18 DEF sessionVars
<1>19. QED
    BY <1>1, <1>2, <1>3, <1>4, <1>5, <1>6, <1>7, <1>8, <1>9, <1>10, <1>11,
     <1>12, <1>13, <1>14, <1>15, <1>16, <1>17, <1>18 DEF SessionNext,
     CallerStep

(* Without a race Connect runs alone, and sessions only grow newer.         *)
LEMMA RaceStep ==
  ASSUME SessionInv, [SessionNext]_sessionVars
  PROVE  RaceAgrees'
<1> USE DEF SessionInv, SessionTypeOK, CallersAgree, CallerAgrees, RaceAgrees,
       RememberRace, Connecting, ConnectStates
<1>1. ASSUME NEW c \in Callers, Send(c) PROVE RaceAgrees'
  BY <1>1 DEF Send, At, gatewayVars
<1>2. ASSUME NEW c \in Callers, Connect(c) PROVE RaceAgrees'
  BY <1>2 DEF Connect, At, sendVars, gatewayVars
<1>3. ASSUME NEW c \in Callers, CreateServer(c) PROVE RaceAgrees'
  BY <1>3 DEF CreateServer, At, sendVars, gatewayVars
<1>4. ASSUME NEW c \in Callers, Auth(c) PROVE RaceAgrees'
  BY <1>4 DEF Auth, At, sendVars, gatewayVars
<1>5. ASSUME NEW c \in Callers, AuthFails(c) PROVE RaceAgrees'
  BY <1>5 DEF AuthFails, Throw, gatewayVars
<1>6. ASSUME NEW c \in Callers, StoreSession(c) PROVE RaceAgrees'
  BY <1>6 DEF StoreSession, At, sendVars, gatewayVars
<1>7. ASSUME NEW c \in Callers, Connected(c) PROVE RaceAgrees'
  BY <1>7 DEF Connected, At, sendVars, gatewayVars
<1>8. ASSUME NEW c \in Callers, TestMode(c) PROVE RaceAgrees'
  BY <1>8 DEF TestMode, Throw, gatewayVars
<1>9. ASSUME NEW c \in Callers, Enter(c) PROVE RaceAgrees'
  BY <1>9 DEF Enter, At, sendVars, gatewayVars
<1>10. ASSUME NEW c \in Callers, SendMsg(c) PROVE RaceAgrees'
  BY <1>10 DEF SendMsg, At, gatewayVars
<1>11. ASSUME NEW c \in Callers, SessionError(c) PROVE RaceAgrees'
  BY <1>11 DEF SessionError, Reply, At, gatewayVars
<1>12. ASSUME NEW c \in Callers, OtherAnswer(c) PROVE RaceAgrees'
  BY <1>12 DEF OtherAnswer, Reply, At, gatewayVars
<1>13. ASSUME NEW c \in Callers, SendMsgFails(c) PROVE RaceAgrees'
  BY <1>13 DEF SendMsgFails, Throw, gatewayVars
<1>14. ASSUME NEW c \in Callers, Retry(c) PROVE RaceAgrees'
  BY <1>14 DEF Retry, At, gatewayVars
<1>15. ASSUME NEW c \in Callers, Exit(c) PROVE RaceAgrees'
  BY <1>15 DEF Exit, At, sendVars, gatewayVars
<1>16. ASSUME NEW c \in Callers, Status(c) PROVE RaceAgrees'
  BY <1>16 DEF Status, Throw, At, gatewayVars
<1>17. CASE SetTestMode
  BY <1>17 DEF SetTestMode, sendVars
<1>18. CASE UNCHANGED sessionVars
  BY <1>18 DEF sessionVars
<1>19. QED
    BY <1>1, <1>2, <1>3, <1>4, <1>5, <1>6, <1>7, <1>8, <1>9, <1>10, <1>11,
     <1>12, <1>13, <1>14, <1>15, <1>16, <1>17, <1>18 DEF SessionNext,
     CallerStep

(* The invariant holds in every reachable state.                            *)
LEMMA SessionInvariant == SessionSafetySpec => []SessionInv
<1>1. SessionInv /\ [SessionNext]_sessionVars => SessionInv'
  <2> SUFFICES ASSUME SessionInv, [SessionNext]_sessionVars PROVE SessionInv'
    OBVIOUS
  <2>1. SessionTypeOK'
    BY SessionTypeStep
  <2>2. CallersAgree'
    BY CallerStepAgrees
  <2>3. LockAgrees' /\ UsableAgrees' /\ RaceAgrees'
    BY LockStep, UsableStep, RaceStep
  <2>4. QED
    BY <2>1, <2>2, <2>3 DEF SessionInv
<1>2. QED
  BY <1>1, SessionInitInv, PTL DEF SessionSafetySpec

(* Every variable keeps its type; sessions in use were issued.              *)
THEOREM SpecSessionTypeOK == SessionSafetySpec => []SessionTypeOK
<1>1. SessionInv => SessionTypeOK
  BY DEF SessionInv
<1>2. QED
  BY <1>1, SessionInvariant, PTL

(* Unless Connect ran in test mode, a connected gateway has a proxy and a   *)
(* session and nothing is submitted without them.                           *)
THEOREM SpecConnectedMeansUsable == SessionSafetySpec => []ConnectedMeansUsable
<1>1. SessionInv => ConnectedMeansUsable
  BY DEF SessionInv, UsableAgrees, ConnectedMeansUsable
<1>2. QED
  BY <1>1, SessionInvariant, PTL

(* Unless two callers met in Connect, one caller at a time is inside the    *)
(* lock of the private Send.                                                *)
THEOREM SpecExclusiveUnlessRaced == SessionSafetySpec => []ExclusiveUnlessRaced
<1>1. SessionInv => ExclusiveUnlessRaced
  BY DEF SessionInv, SessionTypeOK, LockAgrees, RaceAgrees, Holds,
     ExclusiveUnlessRaced
<1>2. QED
  BY <1>1, SessionInvariant, PTL

(* Unless two callers met in Connect, a retry is made with a session that   *)
(* was issued after the one that failed.                                    *)
THEOREM SpecRetryUsesNewSession ==
  SessionSafetySpec => RetryUsesNewSessionUnlessRaced
<1>1. ASSUME SessionInv, [SessionNext]_sessionVars, ~raced, NEW c \in Callers
      PROVE  NewSessionOnRetry(c)
  <2> USE DEF SessionInv, SessionTypeOK, NewSessionOnRetry
  <2>1. ASSUME NEW d \in Callers, SendMsg(d) PROVE NewSessionOnRetry(c)
    BY <1>1, <2>1 DEF SendMsg, At, CallersAgree, CallerAgrees,
       BeforeSubmission, RaceAgrees
  <2>2. ASSUME NEW d \in Callers, Send(d) PROVE NewSessionOnRetry(c)
    BY <1>1, <2>2 DEF Send
  <2>3. ASSUME UNCHANGED attempts PROVE NewSessionOnRetry(c)
    BY <1>1, <2>3
  <2>4. QED
    BY <1>1, <2>1, <2>2, <2>3 DEF SessionNext, CallerStep, sessionVars,
       sendVars, gatewayVars, Connect, CreateServer, Auth, AuthFails,
       StoreSession, Connected, TestMode, Enter, SessionError, OtherAnswer,
       Reply, SendMsgFails, Retry, Exit, Status, SetTestMode
<1>2. SessionInv /\ [SessionNext]_sessionVars =>
        (~raced => \A c \in Callers : NewSessionOnRetry(c))
  BY <1>1
<1>3. QED
  BY <1>2, SessionInvariant, PTL
     DEF SessionSafetySpec, RetryUsesNewSessionUnlessRaced

(* Each Send submits once, or twice after a session error, and returns the  *)
(* last answer: the gateway implements GatewayCall.                         *)
THEOREM SpecImplementsGatewayCall == SessionSafetySpec => ImplementsGatewayCall
<1>1. SessionInit => Call!Init
  BY DEF SessionInit, Call!Init
<1>2. SessionInv /\ [SessionNext]_sessionVars => [Call!Next]_Call!vars
  <2> SUFFICES ASSUME SessionInv, [SessionNext]_sessionVars
               PROVE  [Call!Next]_Call!vars
    OBVIOUS
  <2> USE DEF SessionInv, SessionTypeOK, CallersAgree, CallerAgrees
  <2>1. ASSUME NEW c \in Callers, Send(c) PROVE Call!Next
    <3>1. Call!Begin(c)
      BY <2>1 DEF Send, At, Call!Begin
    <3>2. QED
      BY <3>1 DEF Call!Next
  <2>2. ASSUME NEW c \in Callers, SendMsg(c) PROVE Call!Next
    <3>1. Call!Submit(c)
      BY <2>2 DEF SendMsg, At, BeforeSubmission, Call!Submit
    <3>2. QED
      BY <3>1 DEF Call!Next
  <2>3. ASSUME NEW c \in Callers, SessionError(c) PROVE Call!Next
    <3>1. Call!Answer(c)
      BY <2>3 DEF SessionError, Reply, At, Call!Answer
    <3>2. QED
      BY <3>1 DEF Call!Next
  <2>4. ASSUME NEW c \in Callers, OtherAnswer(c) PROVE Call!Next
    <3>1. PICK a \in {"Accepted", "Rejected"} : Reply(c, a)
      BY <2>4 DEF OtherAnswer
    <3>2. attempts[c] > 0 /\ answer[c] = "None"
      BY <2>4 DEF OtherAnswer, At
    <3>3. Call!Answer(c)
      BY <2>4, <3>1, <3>2 DEF OtherAnswer, Reply, Call!Answer
    <3>4. QED
      BY <3>3 DEF Call!Next
  <2>5. ASSUME NEW c \in Callers, Status(c) PROVE Call!Next
    <3>1. Call!Return(c) \/ Call!Throw(c)
      BY <2>5 DEF Status, At, Throw, Answered, Call!Return, Call!Throw
    <3>2. QED
      BY <3>1 DEF Call!Next
  <2>6. ASSUME NEW c \in Callers, AuthFails(c) PROVE Call!Next
    <3>1. Call!Throw(c)
      BY <2>6 DEF AuthFails, Throw, Call!Throw
    <3>2. QED
      BY <3>1 DEF Call!Next
  <2>7. ASSUME NEW c \in Callers, SendMsgFails(c) PROVE Call!Next
    <3>1. Call!Throw(c)
      BY <2>7 DEF SendMsgFails, Throw, Call!Throw
    <3>2. QED
      BY <3>1 DEF Call!Next
  <2>8. ASSUME NEW c \in Callers, TestMode(c) PROVE [Call!Next]_Call!vars
    <3>1. CASE UNCHANGED <<attempts, answer, result>>
      BY <3>1 DEF Call!vars
    <3>2. CASE Throw(c) /\ UNCHANGED <<attempts, answer>>
      BY <2>8, <3>2 DEF TestMode, Throw, Call!Throw, Call!Next
    <3>3. QED
      BY <2>8, <3>1, <3>2 DEF TestMode
  <2>9. ASSUME NEW c \in Callers,
             Connect(c) \/ CreateServer(c) \/ Auth(c) \/ StoreSession(c)
               \/ Connected(c) \/ Enter(c) \/ Retry(c) \/ Exit(c)
      PROVE  UNCHANGED Call!vars
    BY <2>9 DEF Connect, CreateServer, Auth, StoreSession, Connected, Enter,
       Retry, Exit, sendVars, Call!vars
  <2>10. SetTestMode \/ UNCHANGED sessionVars => UNCHANGED Call!vars
    BY DEF SetTestMode, sessionVars, sendVars, Call!vars
  <2>11. QED
    BY <2>1, <2>2, <2>3, <2>4, <2>5, <2>6, <2>7, <2>8, <2>9, <2>10 DEF
       SessionNext, CallerStep
<1>3. QED
  BY <1>1, <1>2, SessionInvariant, PTL
     DEF SessionSafetySpec, ImplementsGatewayCall, Call!Spec

-----------------------------------------------------------------------------
(* What a Send costs.                                                       *)

(* The entries of the table.                                                *)
LEMMA ReturnFacts ==
  /\ StatementsToReturn["Connect"] = 12
  /\ StatementsToReturn["CreateServer"] = 11
  /\ StatementsToReturn["Auth"] = 10
  /\ StatementsToReturn["StoreSession"] = 9
  /\ StatementsToReturn["Connected"] = 8
  /\ StatementsToReturn["Retry"] = 7
  /\ StatementsToReturn["TestMode"] = 6
  /\ StatementsToReturn["Enter"] = 5
  /\ StatementsToReturn["SendMsg"] = 4
  /\ StatementsToReturn["Answer"] = 3
  /\ StatementsToReturn["Exit"] = 2
  /\ StatementsToReturn["Status"] = 1
  /\ StatementsToReturn["Idle"] = 0
BY DEF StatementsToReturn

(* The statement of a caller that goes on, or that goes back to reconnect   *)
(* and may not do so again.                                                 *)
GoesOn(c) ==
  /\ StatementsToReturn[pc'[c]] < StatementsToReturn[pc[c]]
  /\ MayRetry(c)' => MayRetry(c)

GoesBack(c) ==
  /\ pc[c] = "Answer" /\ pc'[c] = "Connect"
  /\ MayRetry(c) /\ ~MayRetry(c)'

(* A caller goes back once, from a session error on its first submission.   *)
LEMMA CallerGoes ==
  ASSUME SessionInv, NEW c \in Callers, CallerStep(c)
  PROVE  GoesOn(c) \/ GoesBack(c)
<1> USE DEF SessionInv, SessionTypeOK, MayRetry, Connecting, ConnectStates
<1>1. CASE Connect(c)
  <2>1. /\ pc[c] = "Connect" /\ pc'[c] \in {"Connected", "CreateServer", "Auth"}
        /\ MayRetry(c)' => MayRetry(c)
    BY <1>1 DEF Connect, At
  <2>2. QED
    BY <2>1, ReturnFacts DEF GoesOn
<1>2. CASE CreateServer(c)
  <2>1. /\ pc[c] = "CreateServer" /\ pc'[c] = "Auth"
        /\ MayRetry(c)' => MayRetry(c)
    BY <1>2 DEF CreateServer, At
  <2>2. QED
    BY <2>1, ReturnFacts DEF GoesOn
<1>3. CASE Auth(c)
  <2>1. /\ pc[c] = "Auth" /\ pc'[c] = "StoreSession"
        /\ MayRetry(c)' => MayRetry(c)
    BY <1>3 DEF Auth, At
  <2>2. QED
    BY <2>1, ReturnFacts DEF GoesOn
<1>4. CASE AuthFails(c) \/ SendMsgFails(c)
  <2>1. pc[c] \in {"Auth", "Answer"} /\ pc'[c] = "Idle" /\ ~MayRetry(c)'
    BY <1>4 DEF AuthFails, SendMsgFails, Throw
  <2>2. QED
    BY <2>1, ReturnFacts DEF GoesOn
<1>5. CASE StoreSession(c)
  <2>1. /\ pc[c] = "StoreSession" /\ pc'[c] = "Connected"
        /\ MayRetry(c)' => MayRetry(c)
    BY <1>5 DEF StoreSession, At
  <2>2. QED
    BY <2>1, ReturnFacts DEF GoesOn
<1>6. CASE Connected(c)
  <2>1. pc[c] = "Connected" /\ pc'[c] \in {"TestMode", "Retry"}
    BY <1>6 DEF Connected, At
  <2>2. MayRetry(c)' => MayRetry(c)
    BY <1>6 DEF Connected, At
  <2>3. QED
    BY <2>1, <2>2, ReturnFacts DEF GoesOn
<1>7. CASE TestMode(c)
  <2>1. /\ pc[c] = "TestMode" /\ pc'[c] \in {"Status", "Enter", "Idle"}
        /\ MayRetry(c)' => MayRetry(c)
    BY <1>7 DEF TestMode, Throw
  <2>2. QED
    BY <2>1, ReturnFacts DEF GoesOn
<1>8. CASE Enter(c)
  <2>1. /\ pc[c] = "Enter" /\ pc'[c] = "SendMsg"
        /\ MayRetry(c)' => MayRetry(c)
    BY <1>8 DEF Enter, At, sendVars
  <2>2. QED
    BY <2>1, ReturnFacts DEF GoesOn
<1>9. CASE SendMsg(c)
  <2>1. /\ pc[c] = "SendMsg" /\ pc'[c] = "Answer"
        /\ MayRetry(c)' => MayRetry(c)
    BY <1>9 DEF SendMsg, At
  <2>2. QED
    BY <2>1, ReturnFacts DEF GoesOn
<1>10. CASE SessionError(c) /\ ~refreshing[c]
  <2>1. pc[c] = "Answer" /\ pc'[c] = "Connect" /\ MayRetry(c)
    BY <1>10 DEF SessionError, At
  <2>2. proxy'[c] = proxy[c] /\ proxy[c] # None
    BY <1>10, <2>1 DEF SessionError, CallersAgree, CallerAgrees
  <2>3. ~MayRetry(c)'
    BY <2>1, <2>2
  <2>4. QED
    BY <2>1, <2>3 DEF GoesBack
<1>11. CASE (SessionError(c) /\ refreshing[c]) \/ OtherAnswer(c)
  <2>1. pc[c] = "Answer" /\ pc'[c] = "Exit" /\ ~MayRetry(c)'
    BY <1>11 DEF SessionError, OtherAnswer, At
  <2>2. QED
    BY <2>1, ReturnFacts DEF GoesOn
<1>12. CASE Retry(c)
  <2>1. pc[c] = "Retry" /\ pc'[c] = "TestMode" /\ ~MayRetry(c)'
    BY <1>12 DEF Retry, At
  <2>2. QED
    BY <2>1, ReturnFacts DEF GoesOn
<1>13. CASE Exit(c)
  <2>1. pc[c] = "Exit" /\ pc'[c] = "Status" /\ ~MayRetry(c)'
    BY <1>13 DEF Exit, At
  <2>2. QED
    BY <2>1, ReturnFacts DEF GoesOn
<1>14. CASE Status(c)
  <2>1. pc[c] = "Status" /\ pc'[c] = "Idle" /\ ~MayRetry(c)'
    BY <1>14 DEF Status, At, Throw
  <2>2. QED
    BY <2>1, ReturnFacts DEF GoesOn
<1>15. QED
  BY <1>1, <1>2, <1>3, <1>4, <1>5, <1>6, <1>7, <1>8, <1>9, <1>10, <1>11,
     <1>12, <1>13, <1>14 DEF CallerStep

(* Going back costs nine statements and takes the ten of the retry away.    *)
LEMMA GoingCountsDown ==
  ASSUME SessionInv, SessionInv', NEW c \in Callers, GoesOn(c) \/ GoesBack(c)
  PROVE  Left(c)' < Left(c)
<1>1. \A s \in CallerStates : StatementsToReturn[s] \in Nat
  BY ReturnFacts DEF CallerStates
<1>2. pc[c] \in CallerStates /\ pc'[c] \in CallerStates
  BY DEF SessionInv, SessionTypeOK
<1>3. /\ StatementsToReturn[pc[c]] \in Nat
      /\ StatementsToReturn[pc'[c]] \in Nat
  BY <1>1, <1>2
<1>4. CASE GoesOn(c)
  BY <1>3, <1>4 DEF GoesOn, Left
<1>5. CASE GoesBack(c)
  <2>1. /\ StatementsToReturn[pc[c]] = 3
        /\ StatementsToReturn[pc'[c]] = 12
    BY <1>5, ReturnFacts DEF GoesBack
  <2>2. QED
    BY <1>5, <2>1 DEF GoesBack, Left
<1>6. QED
  BY <1>4, <1>5

(* Only its own statements change where a caller is.                        *)
LEMMA OwnStatement ==
  ASSUME SessionInv, [SessionNext]_sessionVars,
         NEW c \in Callers, pc[c] # "Idle", pc'[c] # pc[c]
  PROVE  CallerStep(c)
<1>1. ASSUME NEW d \in Callers, Send(d) PROVE FALSE
  BY <1>1 DEF Send, At, SessionInv, SessionTypeOK
<1>2. ASSUME NEW d \in Callers, CallerStep(d), d # c PROVE FALSE
  BY <1>2 DEF SessionInv, SessionTypeOK, CallerStep, At, Throw, Connect,
     CreateServer, Auth, AuthFails, StoreSession, Connected, TestMode, Enter,
     SendMsg, SessionError, OtherAnswer, SendMsgFails, Retry, Exit, Status
<1>3. ~(SetTestMode \/ UNCHANGED sessionVars)
  BY DEF SetTestMode, sessionVars
<1>4. QED
  BY <1>1, <1>2, <1>3 DEF SessionNext

(* Whatever the service answers and the other threads do, each statement of *)
(* a Send brings it nearer to its return.                                   *)
THEOREM SpecSendCountsDown == SessionSafetySpec => SendCountsDown
<1>1. SessionInv /\ SessionInv' /\ [SessionNext]_sessionVars =>
        [\A c \in Callers : pc[c] # "Idle" /\ pc'[c] # pc[c] =>
           Left(c)' < Left(c)]_sessionVars
  BY OwnStatement, CallerGoes, GoingCountsDown
<1>2. QED
  BY <1>1, SessionInvariant, PTL DEF SessionSafetySpec, SendCountsDown

(* A thread that waits for the lock waits for another whose Send is not     *)
(* over and has a statement to run: no exception keeps the lock, and nobody *)
(* waits while it holds one.                                                *)
THEOREM SpecLockHolderRuns ==
  SessionSafetySpec =>
    [](\A c, d \in Callers :
         pc[c] = "Enter" /\ Holds(d) /\ proxy[d] = proxy[c] =>
           /\ d # c
           /\ result[d] = "Pending"
           /\ pc[d] \notin {"Idle", "Enter"})
<1>1. ASSUME SessionInv, NEW c \in Callers, NEW d \in Callers,
             pc[c] = "Enter", Holds(d)
      PROVE  d # c /\ result[d] = "Pending" /\ pc[d] \notin {"Idle", "Enter"}
  BY <1>1 DEF SessionInv, CallersAgree, CallerAgrees, Holds
<1>2. SessionInv =>
        \A c, d \in Callers :
          pc[c] = "Enter" /\ Holds(d) /\ proxy[d] = proxy[c] =>
            /\ d # c
            /\ result[d] = "Pending"
            /\ pc[d] \notin {"Idle", "Enter"}
  BY <1>1
<1>3. QED
  BY <1>2, SessionInvariant, PTL
=============================================================================
