------------------------- MODULE SubmissionProofs -------------------------
(* Proofs about Submission, for every set of messages and all bounds.      *)
EXTENDS Submission, TLAPS

(* Where a direct send is says whether the message can be frozen and what   *)
(* was submitted.                                                          *)
CallAgrees(m) ==
  /\ pc[m] \in Sending => ~processed[m]
  /\ pc[m] \in {"NotifyAcceptance", "Submit"} => submissions[m] < MaxSends
  /\ pc[m] = "NotifySubmission" => answer[m] \in Answers

(* With the SQL log, a row is what entitles a send to call the gateway, and *)
(* a send is the only one to have its row.                                 *)
RowAgrees(m) ==
  sqlLog =>
    /\ pc[m] \in {"Submit", "NotifySubmission"} => row[m] = "Inserted"
    /\ pc[m] = "Submit" => submissions[m] = 0
    /\ row[m] \in {"Absent", "Queued"} =>
         submissions[m] = 0 /\ answer[m] = "None"
    /\ submissions[m] <= 1
    /\ submissions[m] = 0 => answer[m] = "None"
    /\ row[m] \in Answers => pc[m] \notin {"Submit", "NotifySubmission"}

(* The queue holds what has a row of the queue, and delivers nothing else.  *)
QueueAgrees(m) ==
  /\ stage[m] # "New" => row[m] = "Queued"
  /\ stage[m] = "New" => deliveries[m] = 0

ResentAgrees(m) ==
  submissions[m] = failures[m]
                   + (IF processed[m] \/ pc[m] = "NotifySubmission" THEN 1 ELSE 0)

FrozenAgrees(m) ==
  processed[m] => /\ answer[m] \in Answers
                  /\ sqlLog => row[m] = answer[m]

MessageInv(m) ==
  /\ CallAgrees(m)
  /\ RowAgrees(m)
  /\ QueueAgrees(m)
  /\ ResentAgrees(m)
  /\ FrozenAgrees(m)

SubmissionInv ==
  /\ TypeOK
  /\ \A m \in Messages : MessageInv(m)

USE SubmissionAssumption

USE DEF Answers, Sending

(* Init.                                                                    *)
LEMMA InitInv == Init => SubmissionInv
<1> SUFFICES ASSUME Init PROVE SubmissionInv
  OBVIOUS
<1>1. TypeOK
  BY DEF Init, TypeOK, Queue!Init, Senders, Recipients
<1>2. ASSUME NEW m \in Messages PROVE MessageInv(m)
  BY DEF Init, Queue!Init, MessageInv, CallAgrees, RowAgrees, QueueAgrees,
         ResentAgrees, FrozenAgrees
<1>3. QED
  BY <1>1, <1>2 DEF SubmissionInv

(* Whatever is normalised is a kind of text again, and of a recipient one   *)
(* of a recipient.                                                         *)
LEMMA NormalizedKinds ==
  /\ \A s \in Senders : NormalizeMobileNumber(s) \in Senders
  /\ \A r \in Recipients : NormalizeMobileNumber(r) \in Recipients
<1>1. /\ Unprefixed["PrefixedNumber"] = "Text"
      /\ Unprefixed["PrefixedLongNumber"] = "LongDigits"
      /\ Unprefixed["PrefixedText"] = "Text"
      /\ Unprefixed["PrefixedSymbols"] = "Symbols"
      /\ Unprefixed["TwicePrefixedNumber"] = "PrefixedNumber"
      /\ Unprefixed["Prefix"] = "Missing"
      /\ Unprefixed["TwoPrefixes"] = "Prefix"
  BY DEF Unprefixed
<1>2. DOMAIN Unprefixed =
        {"PrefixedNumber", "PrefixedLongNumber", "PrefixedText",
         "PrefixedSymbols", "TwicePrefixedNumber", "Prefix", "TwoPrefixes"}
  BY DEF Unprefixed
<1>3. QED
  BY <1>1, <1>2 DEF NormalizeMobileNumber, Senders, Recipients

(* Every variable keeps its type; the bound on submissions is one a send    *)
(* looked at when it began.                                                *)
LEMMA TypeStep ==
  ASSUME SubmissionInv, [Next]_vars
  PROVE  TypeOK'
<1> USE DEF TypeOK
<1>0. TypeOK /\ \A m \in Messages : CallAgrees(m) /\ ResentAgrees(m)
  BY DEF SubmissionInv, MessageInv
<1>1. ASSUME NEW m \in Messages, SetSender(m) PROVE TypeOK'
  BY <1>0, <1>1 DEF SetSender, configVars, queueVars
<1>2. ASSUME NEW m \in Messages, AddRecipient(m) PROVE TypeOK'
  BY <1>0, <1>2 DEF AddRecipient, configVars, queueVars, historyVars
<1>3. ASSUME NEW m \in Messages, SetProvider(m) PROVE TypeOK'
  BY <1>0, <1>3 DEF SetProvider, configVars, queueVars, historyVars
<1>4. ASSUME NEW m \in Messages, PreProcessSms(m)
      PROVE  /\ sender' \in [Messages -> Senders]
             /\ recipients' \in [Messages -> SUBSET Recipients]
             /\ refused' \in [Messages -> BOOLEAN]
  <2>1. sender' \in [Messages -> Senders]
    BY <1>0, <1>4, NormalizedKinds DEF PreProcessSms, VerifySender
  <2>2. Normalized(m) \subseteq Recipients
    BY <1>0, NormalizedKinds DEF Normalized
  <2>3. recipients' \in [Messages -> SUBSET Recipients]
    BY <1>0, <1>4, <2>2 DEF PreProcessSms, VerifyRecipients
  <2>4. (refused[m] \/ ~SenderPasses(m)) \in BOOLEAN
    BY <1>0 DEF SenderPasses
  <2>5. refused' \in [Messages -> BOOLEAN]
    BY <1>0, <1>4, <2>4 DEF PreProcessSms
  <2>6. QED
    BY <2>1, <2>3, <2>5
<1>5. ASSUME NEW m \in Messages, SendMultipleImmediate(m) PROVE TypeOK'
  <2>1. /\ sender' \in [Messages -> Senders]
        /\ recipients' \in [Messages -> SUBSET Recipients]
        /\ refused' \in [Messages -> BOOLEAN]
    BY <1>4, <1>5 DEF SendMultipleImmediate
  <2>2. /\ pc' \in [Messages -> Sending \cup {"Idle", "Enqueue"}]
        /\ provider' \in [Messages -> BOOLEAN]
    BY <1>0, <1>5 DEF SendMultipleImmediate, Goto
  <2>3. QED
    BY <1>0, <1>5, <2>1, <2>2
    DEF SendMultipleImmediate, configVars, queueVars
<1>6. ASSUME NEW m \in Messages, NotifyAcceptance(m) PROVE TypeOK'
  BY <1>0, <1>6
  DEF NotifyAcceptance, Goto, configVars, smsVars, queueVars, historyVars
<1>7. ASSUME NEW m \in Messages, Submit(m) PROVE TypeOK'
  <2>1. /\ submissions[m] + 1 \in 0..MaxSends
        /\ failures[m] + 1 \in 0..MaxSends
    BY <1>0, <1>7 DEF Submit, CallAgrees, ResentAgrees
  <2>2. QED
    BY <1>0, <1>7, <2>1 DEF Submit, Goto, configVars, smsVars, queueVars
<1>8. ASSUME NEW m \in Messages, NotifySubmission(m) PROVE TypeOK'
  <2>1. answer[m] \in Answers /\ failures[m] + 1 \in 0..MaxSends
    BY <1>0, <1>8 DEF NotifySubmission, CallAgrees, ResentAgrees
  <2>2. QED
    BY <1>0, <1>8, <2>1 DEF NotifySubmission, Goto, configVars, queueVars
<1>9. ASSUME NEW m \in Messages, Enqueue(m) PROVE TypeOK'
  <2>1. /\ sender' \in [Messages -> Senders]
        /\ recipients' \in [Messages -> SUBSET Recipients]
        /\ refused' \in [Messages -> BOOLEAN]
    BY <1>4, <1>9 DEF Enqueue
  <2>2. QED
    BY <1>0, <1>9, <2>1 DEF Enqueue, Goto, configVars, queueVars
<1>10. ASSUME NEW m \in Messages, EnqueueMessage(m) PROVE TypeOK'
  BY <1>0, <1>10
  DEF EnqueueMessage, Goto, Queue!Enqueue, Queue!Advance, configVars, smsVars,
      queueVars, historyVars
<1>11. ASSUME NEW m \in Messages, Forward(m) \/ DequeueCommit(m) PROVE TypeOK'
  BY <1>0, <1>11
  DEF Forward, DequeueCommit, Queue!Deliver, Queue!Settle, Queue!Advance,
      configVars, smsVars, historyVars
<1>12. ASSUME Crash PROVE TypeOK'
  BY <1>0, <1>12 DEF Crash, Queue!TakeBack, configVars, smsVars, historyVars
<1>13. ASSUME UNCHANGED vars PROVE TypeOK'
  BY <1>0, <1>13 DEF vars, configVars, smsVars, queueVars, historyVars
<1>14. QED
  BY <1>1, <1>2, <1>3, <1>5, <1>6, <1>7, <1>8, <1>9, <1>10, <1>11, <1>12, <1>13
  DEF Next, ApplicationStep

-----------------------------------------------------------------------------
(* What a step of one message leaves alone: the configuration and all that  *)
(* belongs to other messages.                                              *)
Kept(n) ==
  /\ pc'[n] = pc[n] /\ processed'[n] = processed[n] /\ answer'[n] = answer[n]
  /\ row'[n] = row[n] /\ stage'[n] = stage[n] /\ deliveries'[n] = deliveries[n]
  /\ submissions'[n] = submissions[n] /\ failures'[n] = failures[n]

(* A step of one message leaves the others alone.                           *)
LEMMA OthersKept ==
  ASSUME TypeOK, NEW m \in Messages, NEW n \in Messages, n # m,
         ApplicationStep(m) \/ Forward(m) \/ DequeueCommit(m)
  PROVE  Kept(n) /\ sqlLog' = sqlLog
<1> USE DEF TypeOK, Kept, configVars, smsVars, queueVars, historyVars, Goto
<1>1. CASE SetSender(m) \/ AddRecipient(m) \/ SetProvider(m)
  BY <1>1 DEF SetSender, AddRecipient, SetProvider
<1>2. CASE SendMultipleImmediate(m) \/ Enqueue(m)
  BY <1>2 DEF SendMultipleImmediate, Enqueue
<1>3. CASE NotifyAcceptance(m) \/ Submit(m) \/ NotifySubmission(m)
  BY <1>3 DEF NotifyAcceptance, Submit, NotifySubmission
<1>4. CASE EnqueueMessage(m) \/ Forward(m) \/ DequeueCommit(m)
  BY <1>4 DEF EnqueueMessage, Forward, DequeueCommit, Queue!Enqueue,
              Queue!Deliver, Queue!Settle, Queue!Advance
<1>5. QED
  BY <1>1, <1>2, <1>3, <1>4 DEF ApplicationStep

(* A message that a step leaves alone keeps its invariant.                  *)
LEMMA KeptInv ==
  ASSUME NEW n \in Messages, MessageInv(n), Kept(n), sqlLog' = sqlLog
  PROVE  MessageInv(n)'
BY DEF MessageInv, CallAgrees, RowAgrees, QueueAgrees, ResentAgrees,
       FrozenAgrees, Kept

(* A step of a message keeps what the invariant says of it.                 *)
LEMMA OwnStep ==
  ASSUME TypeOK, NEW m \in Messages, MessageInv(m),
         ApplicationStep(m) \/ Forward(m) \/ DequeueCommit(m)
  PROVE  MessageInv(m)'
<1> USE DEF TypeOK, MessageInv, CallAgrees, RowAgrees, QueueAgrees, ResentAgrees,
            FrozenAgrees, configVars, smsVars, queueVars, historyVars, Goto
<1>1. CASE SetSender(m) \/ AddRecipient(m) \/ SetProvider(m)
  BY <1>1, KeptInv DEF SetSender, AddRecipient, SetProvider, Kept
<1>2. CASE SendMultipleImmediate(m)
  BY <1>2 DEF SendMultipleImmediate, Passes
<1>3. CASE NotifyAcceptance(m)
  BY <1>3 DEF NotifyAcceptance
<1>4. CASE Submit(m)
  BY <1>4 DEF Submit
<1>5. CASE NotifySubmission(m)
  BY <1>5 DEF NotifySubmission
<1>6. CASE Enqueue(m)
  BY <1>6 DEF Enqueue
<1>7. CASE EnqueueMessage(m)
  BY <1>7 DEF EnqueueMessage, Queue!Enqueue, Queue!Advance
<1>8. CASE Forward(m) \/ DequeueCommit(m)
  BY <1>8 DEF Forward, DequeueCommit, Queue!Deliver, Queue!Settle, Queue!Advance
<1>9. QED
  BY <1>1, <1>2, <1>3, <1>4, <1>5, <1>6, <1>7, <1>8 DEF ApplicationStep

(* The inductive step.                                                      *)
LEMMA NextInv ==
  ASSUME SubmissionInv, [Next]_vars
  PROVE  SubmissionInv'
<1>1. TypeOK'
  BY TypeStep
<1>2. ASSUME NEW n \in Messages PROVE MessageInv(n)'
  <2>1. TypeOK /\ MessageInv(n)
    BY DEF SubmissionInv
  <2>2. CASE \E m \in Messages :
               ApplicationStep(m) \/ Forward(m) \/ DequeueCommit(m)
    <3>1. PICK m \in Messages :
            ApplicationStep(m) \/ Forward(m) \/ DequeueCommit(m)
      BY <2>2
    <3>2. CASE n = m
      BY <2>1, <3>1, <3>2, OwnStep
    <3>3. CASE n # m
      BY <2>1, <3>1, <3>3, OthersKept, KeptInv
    <3>4. QED
      BY <3>2, <3>3
  <2>3. CASE Crash
    BY <2>1, <2>3
    DEF Crash, Queue!TakeBack, TypeOK, MessageInv, CallAgrees, RowAgrees,
        QueueAgrees, ResentAgrees, FrozenAgrees, configVars, smsVars, historyVars
  <2>4. CASE UNCHANGED vars
    BY <2>1, <2>4, KeptInv
    DEF Kept, vars, configVars, smsVars, queueVars, historyVars
  <2>5. QED
    BY <2>2, <2>3, <2>4 DEF Next
<1>3. QED
  BY <1>1, <1>2 DEF SubmissionInv

(* The inductive invariant holds in every state.                            *)
LEMMA SpecInv == Spec => []SubmissionInv
BY InitInv, NextInv, PTL DEF Spec

-----------------------------------------------------------------------------
(* Every variable keeps its type; a message is never submitted more often   *)
(* than the bound says.                                                    *)
THEOREM SpecTypeOK == Spec => []TypeOK
<1>1. SubmissionInv => TypeOK
  BY DEF SubmissionInv
<1>2. QED
  BY <1>1, SpecInv, PTL

(* With the SQL log no message is submitted twice or by both ways           *)
(* (Smsc.cs:138, the log row before the gateway call).                     *)
THEOREM SpecOneWayToTheGateway == Spec => []OneWayToTheGateway
<1>1. SubmissionInv => OneWayToTheGateway
  BY DEF SubmissionInv, MessageInv, RowAgrees, QueueAgrees, OneWayToTheGateway,
         TypeOK
<1>2. QED
  BY <1>1, SpecInv, PTL

(* Each submission but the one in progress or the last is answered by an    *)
(* exception of the send it belongs to (Smsc.cs:141-148).                  *)
THEOREM SpecResentOnlyAfterException == Spec => []ResentOnlyAfterException
<1>1. SubmissionInv => ResentOnlyAfterException
  BY DEF SubmissionInv, MessageInv, ResentAgrees, ResentOnlyAfterException
<1>2. QED
  BY <1>1, SpecInv, PTL

(* A frozen message was answered, and the SQL log holds the answer          *)
(* (Smsc.cs:143-148).                                                      *)
THEOREM SpecFrozenMeansLogged == Spec => []FrozenMeansLogged
<1>1. SubmissionInv => FrozenMeansLogged
  BY DEF SubmissionInv, MessageInv, FrozenAgrees, FrozenMeansLogged
<1>2. QED
  BY <1>1, SpecInv, PTL

-----------------------------------------------------------------------------
(* A frozen message is in no call that changes it: a direct send begins     *)
(* only with a message that is not frozen, and an Enqueue ends without.     *)
FrozenStep(m) ==
  processed[m] =>
    /\ processed'[m]
    /\ recipients'[m] = recipients[m]
    /\ answer'[m] = answer[m]
    /\ submissions'[m] = submissions[m]
    /\ pc[m] = "Idle" => pc'[m] = "Idle"

(* A step of one message leaves the recipients of the others alone.         *)
LEMMA OthersRecipientsKept ==
  ASSUME TypeOK, NEW m \in Messages, NEW n \in Messages, n # m,
         ApplicationStep(m) \/ Forward(m) \/ DequeueCommit(m)
  PROVE  recipients'[n] = recipients[n]
<1> USE DEF TypeOK, smsVars
<1>1. CASE SetSender(m) \/ AddRecipient(m) \/ SetProvider(m)
  BY <1>1 DEF SetSender, AddRecipient, SetProvider
<1>2. CASE SendMultipleImmediate(m) \/ Enqueue(m)
  BY <1>2 DEF SendMultipleImmediate, Enqueue, PreProcessSms, VerifyRecipients
<1>3. CASE NotifyAcceptance(m) \/ Submit(m) \/ NotifySubmission(m)
  BY <1>3 DEF NotifyAcceptance, Submit, NotifySubmission
<1>4. CASE EnqueueMessage(m) \/ Forward(m) \/ DequeueCommit(m)
  BY <1>4 DEF EnqueueMessage, Forward, DequeueCommit
<1>5. QED
  BY <1>1, <1>2, <1>3, <1>4 DEF ApplicationStep

(* A step of a frozen message changes nothing of what was sent.             *)
LEMMA OwnFrozenStep ==
  ASSUME TypeOK, NEW m \in Messages, CallAgrees(m),
         ApplicationStep(m) \/ Forward(m) \/ DequeueCommit(m)
  PROVE  FrozenStep(m)
<1> USE DEF TypeOK, CallAgrees, FrozenStep, configVars, smsVars, queueVars,
            historyVars, Goto
<1>1. CASE SetSender(m) \/ AddRecipient(m) \/ SetProvider(m)
  BY <1>1 DEF SetSender, AddRecipient, SetProvider
<1>2. CASE SendMultipleImmediate(m) \/ Enqueue(m)
  BY <1>2 DEF SendMultipleImmediate, Enqueue, Passes, PreProcessSms
<1>3. CASE NotifyAcceptance(m) \/ Submit(m) \/ NotifySubmission(m)
  BY <1>3 DEF NotifyAcceptance, Submit, NotifySubmission
<1>4. CASE EnqueueMessage(m) \/ Forward(m) \/ DequeueCommit(m)
  BY <1>4 DEF EnqueueMessage, Forward, DequeueCommit
<1>5. QED
  BY <1>1, <1>2, <1>3, <1>4 DEF ApplicationStep

(* What SetProcessed froze stays as it was sent and is never sent again     *)
(* (Smsc.cs:148, 427-433; Sms.cs:45-51).                                    *)
THEOREM SpecFrozenForGood == Spec => FrozenForGood
<1>1. ASSUME SubmissionInv, Next, NEW n \in Messages
      PROVE  FrozenStep(n)
  <2>1. TypeOK /\ CallAgrees(n)
    BY <1>1 DEF SubmissionInv, MessageInv
  <2>2. CASE Crash
    BY <2>2 DEF Crash, FrozenStep, smsVars, historyVars
  <2>3. CASE \E m \in Messages :
               ApplicationStep(m) \/ Forward(m) \/ DequeueCommit(m)
    <3>1. PICK m \in Messages :
            ApplicationStep(m) \/ Forward(m) \/ DequeueCommit(m)
      BY <2>3
    <3>2. CASE n = m
      BY <2>1, <3>1, <3>2, OwnFrozenStep
    <3>3. CASE n # m
      <4>1. Kept(n) /\ recipients'[n] = recipients[n]
        BY <2>1, <3>1, <3>3, OthersKept, OthersRecipientsKept
      <4>2. QED
        BY <4>1 DEF Kept, FrozenStep
    <3>4. QED
      BY <3>2, <3>3
  <2>4. QED
    BY <1>1, <2>2, <2>3 DEF Next
<1>2. SubmissionInv /\ [Next]_vars =>
        [\A m \in Messages : processed[m] =>
           /\ processed'[m]
           /\ recipients'[m] = recipients[m]
           /\ answer'[m] = answer[m]
           /\ submissions'[m] = submissions[m]
           /\ pc[m] = "Idle" => pc'[m] = "Idle"]_vars
  BY <1>1 DEF FrozenStep
<1>3. QED
  BY <1>2, SpecInv, PTL DEF Spec, FrozenForGood

(* An answer is of a submission.                                            *)
AnswersAreOfSubmissions ==
  \A m \in Messages : answer[m] # "None" => submissions[m] > 0

(* It is kept: Submit counts a submission with the answer it takes.         *)
LEMMA AnswersStep ==
  ASSUME SubmissionInv, AnswersAreOfSubmissions, [Next]_vars
  PROVE  AnswersAreOfSubmissions'
<1>1. TypeOK
  BY DEF SubmissionInv
<1>2. ASSUME NEW n \in Messages
      PROVE  (answer[n] # "None" => submissions[n] > 0)'
  <2>1. answer[n] # "None" => submissions[n] > 0
    BY DEF AnswersAreOfSubmissions
  <2>2. CASE Crash \/ UNCHANGED vars
    BY <2>1, <2>2 DEF Crash, vars, historyVars
  <2>3. CASE Submit(n)
    BY <1>1, <2>1, <2>3 DEF Submit, TypeOK
  <2>4. CASE /\ ApplicationStep(n) \/ Forward(n) \/ DequeueCommit(n)
             /\ ~Submit(n)
    <3>1. UNCHANGED <<answer, submissions>>
      BY <2>4 DEF ApplicationStep, SetSender, AddRecipient, SetProvider,
         SendMultipleImmediate, NotifyAcceptance, NotifySubmission, Enqueue,
         EnqueueMessage, Forward, DequeueCommit, historyVars
    <3>2. QED
      BY <2>1, <3>1
  <2>5. ASSUME NEW m \in Messages, n # m,
               ApplicationStep(m) \/ Forward(m) \/ DequeueCommit(m)
        PROVE  (answer[n] # "None" => submissions[n] > 0)'
    BY <1>1, <2>1, <2>5, OthersKept DEF Kept
  <2>6. QED
    BY <2>2, <2>3, <2>4, <2>5 DEF Next
<1>3. QED
  BY <1>2 DEF AnswersAreOfSubmissions

(* Only an exception leaves a message that was answered unfrozen            *)
(* (Smsc.cs:141-148).                                                       *)
THEOREM SpecFrozenUnlessThrown == Spec => []FrozenUnlessThrown
<1>1. Init => AnswersAreOfSubmissions
  BY DEF Init, AnswersAreOfSubmissions
<1>2. SubmissionInv /\ AnswersAreOfSubmissions => FrozenUnlessThrown
  <2> SUFFICES ASSUME SubmissionInv, AnswersAreOfSubmissions,
                      NEW m \in Messages, pc[m] = "Idle",
                      answer[m] # "None", failures[m] = 0
               PROVE  processed[m]
    BY DEF FrozenUnlessThrown
  <2>1. submissions[m] \in Nat /\ submissions[m] > 0
    BY DEF SubmissionInv, TypeOK, AnswersAreOfSubmissions
  <2>2. ResentAgrees(m)
    BY DEF SubmissionInv, MessageInv
  <2>3. QED
    BY <2>1, <2>2 DEF ResentAgrees
<1>3. QED
  BY <1>1, <1>2, AnswersStep, SpecInv, PTL DEF Spec

-----------------------------------------------------------------------------
(* The values SubmitOnce sees of a message.                                *)
SubmissionsOf(m) == IF sqlLog THEN submissions[m] ELSE 0
AnswerOf(m) == IF sqlLog THEN answer[m] ELSE "None"

SameView(m) ==
  /\ ClaimOf(m)' = ClaimOf(m)
  /\ SubmissionsOf(m)' = SubmissionsOf(m)
  /\ AnswerOf(m)' = AnswerOf(m)
  /\ RecordOf(m)' = RecordOf(m)

(* What a step does to the message it is a step of, in the terms of         *)
(* SubmitOnce.                                                             *)
ClaimView(m) ==
  /\ ClaimOf(m) = "Free"
  /\ ClaimOf(m)' \in {"Direct", "Closed", "Queue"}
  /\ SubmissionsOf(m)' = SubmissionsOf(m)
  /\ AnswerOf(m)' = AnswerOf(m)
  /\ RecordOf(m)' = RecordOf(m)

SubmitView(m) ==
  /\ ClaimOf(m) = "Direct" /\ SubmissionsOf(m) = 0
  /\ SubmissionsOf(m)' = 1
  /\ \/ ClaimOf(m)' = ClaimOf(m) /\ AnswerOf(m)' \in Answers
     \/ ClaimOf(m)' = "Closed" /\ AnswerOf(m)' = AnswerOf(m)
  /\ RecordOf(m)' = RecordOf(m)

CloseView(m) ==
  /\ ClaimOf(m) = "Direct" /\ ClaimOf(m)' = "Closed"
  /\ SubmissionsOf(m)' = SubmissionsOf(m)
  /\ AnswerOf(m)' = AnswerOf(m)
  /\ \/ RecordOf(m)' = RecordOf(m)
     \/ AnswerOf(m) # "None" /\ RecordOf(m)' = AnswerOf(m)

(* Steps that are none of SubmitOnce's business.                           *)
LEMMA KeptSameView ==
  ASSUME NEW n \in Messages, Kept(n), sqlLog' = sqlLog
  PROVE  SameView(n)
BY DEF Kept, SameView, ClaimOf, SubmissionsOf, AnswerOf, RecordOf

(* A step of a message is one of SubmitOnce or leaves its view alone.       *)
LEMMA OwnView ==
  ASSUME TypeOK, NEW m \in Messages, MessageInv(m),
         ApplicationStep(m) \/ Forward(m) \/ DequeueCommit(m)
  PROVE  SameView(m) \/ ClaimView(m) \/ SubmitView(m) \/ CloseView(m)
<1> USE DEF TypeOK, ClaimOf, SubmissionsOf, AnswerOf, RecordOf, configVars, Goto
<1>1. CASE SetSender(m) \/ AddRecipient(m) \/ SetProvider(m)
  BY <1>1 DEF SetSender, AddRecipient, SetProvider, SameView, historyVars
<1>2. CASE SendMultipleImmediate(m) \/ Enqueue(m)
  BY <1>2 DEF SendMultipleImmediate, Enqueue, SameView
<1>3. CASE NotifyAcceptance(m)
  BY <1>3 DEF NotifyAcceptance, SameView, ClaimView, historyVars
<1>4. CASE Submit(m)
  BY <1>4 DEF Submit, MessageInv, RowAgrees, SameView, SubmitView, CloseView
<1>5. CASE NotifySubmission(m)
  BY <1>5 DEF NotifySubmission, MessageInv, RowAgrees, CallAgrees, SameView,
              CloseView
<1>6. CASE EnqueueMessage(m)
  BY <1>6 DEF EnqueueMessage, SameView, ClaimView, historyVars
<1>7. CASE Forward(m) \/ DequeueCommit(m)
  BY <1>7 DEF Forward, DequeueCommit, SameView, historyVars
<1>8. QED
  BY <1>1, <1>2, <1>3, <1>4, <1>5, <1>6, <1>7 DEF ApplicationStep

(* A step that changes the view of one message only is a step of            *)
(* SubmitOnce.                                                             *)
LEMMA ViewStep ==
  ASSUME NEW m \in Messages,
         \A n \in Messages \ {m} : SameView(n),
         SameView(m) \/ ClaimView(m) \/ SubmitView(m) \/ CloseView(m)
  PROVE  Abstract!Next \/ UNCHANGED Abstract!vars
<1>1. CASE SameView(m)
  <2>1. \A n \in Messages : SameView(n)
    BY <1>1
  <2>2. UNCHANGED Abstract!vars
    BY <2>1 DEF SameView, SubmissionsOf, AnswerOf, Abstract!vars
  <2>3. QED
    BY <2>2
<1>2. CASE ClaimView(m)
  <2>1. Abstract!Claim(m)
    BY <1>2 DEF ClaimView, SameView, SubmissionsOf, AnswerOf, Abstract!Claim
  <2>2. QED
    BY <2>1 DEF Abstract!Next
<1>3. CASE SubmitView(m)
  <2>1. Abstract!Submit(m)
    BY <1>3 DEF SubmitView, SameView, SubmissionsOf, AnswerOf, Abstract!Submit
  <2>2. QED
    BY <2>1 DEF Abstract!Next
<1>4. CASE CloseView(m)
  <2>1. CASE RecordOf(m)' = RecordOf(m)
    <3>1. Abstract!GiveUp(m)
      BY <1>4, <2>1 DEF CloseView, SameView, SubmissionsOf, AnswerOf,
                        Abstract!GiveUp
    <3>2. QED
      BY <3>1 DEF Abstract!Next
  <2>2. CASE AnswerOf(m) # "None" /\ RecordOf(m)' = AnswerOf(m)
    <3>1. Abstract!Record(m)
      BY <1>4, <2>2 DEF CloseView, SameView, SubmissionsOf, AnswerOf,
                        Abstract!Record
    <3>2. QED
      BY <3>1 DEF Abstract!Next
  <2>3. QED
    BY <1>4, <2>1, <2>2 DEF CloseView
<1>5. QED
  BY <1>1, <1>2, <1>3, <1>4

(* Every step is one of SubmitOnce or a stutter.                            *)
LEMMA NextAbstract ==
  ASSUME SubmissionInv, [Next]_vars
  PROVE  [Abstract!Next]_(Abstract!vars)
<1>1. TypeOK /\ \A m \in Messages : MessageInv(m)
  BY DEF SubmissionInv
<1>2. CASE \E m \in Messages :
             ApplicationStep(m) \/ Forward(m) \/ DequeueCommit(m)
  <2>1. PICK m \in Messages :
          ApplicationStep(m) \/ Forward(m) \/ DequeueCommit(m)
    BY <1>2
  <2>2. \A n \in Messages \ {m} : SameView(n)
    BY <1>1, <2>1, OthersKept, KeptSameView
  <2>3. QED
    BY <1>1, <2>1, <2>2, OwnView, ViewStep
<1>3. CASE Crash \/ UNCHANGED vars
  <2>1. UNCHANGED <<sqlLog, pc, answer, row, submissions>>
    BY <1>3 DEF Crash, vars, configVars, historyVars
  <2>2. UNCHANGED Abstract!vars
    BY <2>1 DEF Abstract!vars, ClaimOf, RecordOf
  <2>3. QED
    BY <2>2
<1>4. QED
  BY <1>2, <1>3 DEF Next

(* With the SQL log, direct sends and queue implement SubmitOnce: one claim *)
(* on each reference, one submission under it, and the answer recorded      *)
(* (Smsc.cs:138-148, 163).                                                 *)
THEOREM SpecImplementsSubmitOnce == Spec => ImplementsSubmitOnce
<1>1. Init => Abstract!Init
  BY DEF Init, Abstract!Init, ClaimOf, RecordOf
<1>2. QED
  BY <1>1, NextAbstract, SpecInv, PTL DEF Spec, ImplementsSubmitOnce,
                                          Abstract!Spec
=============================================================================
