---------------------------- MODULE Submission ----------------------------
(***************************************************************************)
(* An application sends a message at once or enqueues it, and may do so     *)
(* again whenever a call threw or returned (Smsc.SendMultipleImmediate,     *)
(* Smsc.Enqueue, Sms.VerifyMessage).  Meanwhile the dequeue service         *)
(* delivers what is in the queue; it is represented here by AtLeastOnce,    *)
(* the specification DequeueService implements.                            *)
(*                                                                         *)
(* A message object belongs to one thread, different messages to different  *)
(* threads.  Every call of a log handler, of the gateway and of the queue   *)
(* may throw, before or after it did its work.  The text logger is called   *)
(* before the SQL logger (LogProviders.xml); sqlLog says whether the latter *)
(* is configured.  The stored procedures are external: both insert a row    *)
(* under the message's reference, the primary key of SmsLog.                *)
(***************************************************************************)
EXTENDS Naturals

CONSTANTS
  Messages,        \* the message objects
  MaxSends,        \* bound: direct submissions of a message that may precede
                   \* another attempt
  MaxDeliveries    \* bound: deliveries of a message from the queue

ASSUME SubmissionAssumption == MaxSends \in Nat /\ MaxDeliveries \in Nat

VARIABLES
  sqlLog,        \* the SQL Server log provider is configured
  hasDefault,    \* so is a default SMS provider
  pc,            \* the call each message is in, and how far it is
  processed,     \* _processed
  sender,        \* the kind of text in Sender
  recipients,    \* the kinds of texts in _recipients
  provider,      \* Provider is set
  answer,        \* the last answer of the gateway to a direct send
  row,           \* the row of SmsLog with the message's reference
  stage,         \* how far the message has come in the queue
  deliveries,    \* how often the queue delivered it
  submissions,   \* history: how often a direct send gave it to the gateway
  failures,      \* history: direct sends that threw after they had done so
  refused        \* history: VerifySender refused the present Sender

configVars == <<sqlLog, hasDefault>>
smsVars == <<processed, sender, recipients, provider>>
queueVars == <<stage, deliveries>>
historyVars == <<submissions, failures, refused>>
vars == <<configVars, pc, smsVars, answer, row, queueVars, historyVars>>

Queue == INSTANCE AtLeastOnce

Answers == {"Submitted", "Failed"}

(* Where a direct send is, once the message is verified.                   *)
Sending == {"NotifyAcceptance", "Submit", "NotifySubmission"}

-----------------------------------------------------------------------------
(* Kinds of texts, by the two regular expressions.  Text matches the one    *)
(* for senders, up to 11 letters and digits, LongDigits is a mobile number  *)
(* without prefix that is too long for it, Symbols matches neither; Missing *)
(* is empty.  A prefix is "+" or "00"; a prefixed kind is what follows it.  *)
(* A mobile number of up to 11 digits is also a text.                      *)
Unprefixed ==
  [PrefixedNumber      |-> "Text",
   PrefixedLongNumber  |-> "LongDigits",
   PrefixedText        |-> "Text",
   PrefixedSymbols     |-> "Symbols",
   TwicePrefixedNumber |-> "PrefixedNumber",
   Prefix              |-> "Missing",
   TwoPrefixes         |-> "Prefix"]

(* NormalizeMobileNumber drops one prefix, and the punctuation: what is     *)
(* left may begin with a prefix again.                                     *)
NormalizeMobileNumber(s) == IF s \in DOMAIN Unprefixed THEN Unprefixed[s] ELSE s

(* Missing also stands for a message without body or application, which is  *)
(* refused at the same place.                                              *)
Senders == DOMAIN Unprefixed \cup {"Missing", "Text", "LongDigits", "Symbols"}

(* VerifySender assigns the normalised number before it tests it; a mobile  *)
(* number begins with no zero.                                             *)
VerifySender(m) ==
  sender' = [sender EXCEPT ![m] = NormalizeMobileNumber(@)]

SenderPasses(m) == sender[m] \in {"Text", "PrefixedNumber", "PrefixedLongNumber"}

(* A recipient need not be a number; Text stands for whatever has no prefix *)
(* and is not empty.                                                       *)
Recipients ==
  {"Text", "PrefixedNumber", "TwicePrefixedNumber",
   "Missing", "Prefix", "TwoPrefixes"}

Normalized(m) == {NormalizeMobileNumber(r) : r \in recipients[m]}

(* Every verification assigns what is left of the recipients once more, if  *)
(* it gets past the sender.                                                *)
VerifyRecipients(m) ==
  recipients' = [recipients EXCEPT ![m] = IF SenderPasses(m) THEN Normalized(m)
                                                            ELSE @]

RecipientsPass(m) == Normalized(m) # {} /\ "Missing" \notin Normalized(m)

(* A plausible fault: the flag is not looked at.  Nothing uses it.          *)
Passes_AlsoFrozen(m) == SenderPasses(m) /\ RecipientsPass(m)

(* PreProcessSms passes, and the effect it has whether or not it does.      *)
Passes(m) == ~processed[m] /\ SenderPasses(m) /\ RecipientsPass(m)

PreProcessSms(m) ==
  IF processed[m]
    THEN UNCHANGED <<sender, recipients, refused>>
    ELSE /\ VerifySender(m)
         /\ VerifyRecipients(m)
         /\ refused' = [refused EXCEPT ![m] = @ \/ ~SenderPasses(m)]

-----------------------------------------------------------------------------
Init ==
  /\ sqlLog \in BOOLEAN
  /\ hasDefault \in BOOLEAN
  /\ pc = [m \in Messages |-> "Idle"]
  /\ processed = [m \in Messages |-> FALSE]
  /\ sender = [m \in Messages |-> "Missing"]
  /\ recipients = [m \in Messages |-> {}]
  /\ provider = [m \in Messages |-> FALSE]
  /\ answer = [m \in Messages |-> "None"]
  /\ row = [m \in Messages |-> "Absent"]
  /\ submissions = [m \in Messages |-> 0]
  /\ failures = [m \in Messages |-> 0]
  /\ refused = [m \in Messages |-> FALSE]
  /\ Queue!Init

Goto(m, to) == pc' = [pc EXCEPT ![m] = to]

(* The application fills in the message.  AddRecipient throws once it is    *)
(* processed; Sender and Provider can always be set.                       *)
SetSender(m) ==
  /\ pc[m] = "Idle"
  /\ \E s \in Senders : sender' = [sender EXCEPT ![m] = s]
  /\ refused' = [refused EXCEPT ![m] = FALSE]
  /\ UNCHANGED <<configVars, pc, processed, recipients, provider, answer, row,
                 queueVars, submissions, failures>>

AddRecipient(m) ==
  /\ pc[m] = "Idle"
  /\ ~processed[m]
  /\ \E r \in Recipients : recipients' = [recipients EXCEPT ![m] = @ \cup {r}]
  /\ UNCHANGED <<configVars, pc, processed, sender, provider, answer, row,
                 queueVars, historyVars>>

SetProvider(m) ==
  /\ pc[m] = "Idle"
  /\ \E p \in BOOLEAN : provider' = [provider EXCEPT ![m] = p]
  /\ UNCHANGED <<configVars, pc, processed, sender, recipients, answer, row,
                 queueVars, historyVars>>

-----------------------------------------------------------------------------
(* Plausible faults: an insert that passes over an existing row, a gateway  *)
(* that is called again after an answer, a message that is not frozen, a    *)
(* failure logged as success, a message enqueued without a row.  No action  *)
(* of this module uses them.                                                *)

NotifyAcceptance_KeyIgnored(m) ==
  /\ pc[m] = "NotifyAcceptance"
  /\ row' = [row EXCEPT ![m] = IF sqlLog THEN "Inserted" ELSE @]
  /\ Goto(m, "Submit")
  /\ UNCHANGED <<configVars, smsVars, answer, queueVars, historyVars>>

Submit_Resubmits(m) ==
  /\ pc[m] = "Submit"
  /\ submissions' = [submissions EXCEPT ![m] = @ + 1]
  /\ \E a \in Answers : answer' = [answer EXCEPT ![m] = a]
  /\ \E to \in {"Submit", "NotifySubmission"} : Goto(m, to)
  /\ UNCHANGED <<configVars, smsVars, row, queueVars, failures, refused>>

NotifySubmission_Unfrozen(m) ==
  /\ pc[m] = "NotifySubmission"
  /\ row' = [row EXCEPT ![m] = IF sqlLog THEN answer[m] ELSE @]
  /\ Goto(m, "Idle")
  /\ UNCHANGED <<configVars, smsVars, answer, queueVars, historyVars>>

NotifySubmission_SuccessAssumed(m) ==
  /\ pc[m] = "NotifySubmission"
  /\ row' = [row EXCEPT ![m] = IF sqlLog THEN "Submitted" ELSE @]
  /\ processed' = [processed EXCEPT ![m] = TRUE]
  /\ Goto(m, "Idle")
  /\ UNCHANGED <<configVars, sender, recipients, provider, answer, queueVars,
                 historyVars>>

EnqueueMessage_NoRow(m) ==
  /\ pc[m] = "Enqueue"
  /\ Queue!Enqueue(m)
  /\ Goto(m, "Idle")
  /\ UNCHANGED <<configVars, smsVars, answer, row, historyVars>>

(* SendMultipleImmediate up to its first log event, or an exception.  The   *)
(* default provider is assigned to a message without one.  SendImmediate    *)
(* calls it for a message with one recipient and throws for another.        *)
SendMultipleImmediate(m) ==
  /\ pc[m] = "Idle"
  /\ submissions[m] < MaxSends
  /\ PreProcessSms(m)
  /\ IF Passes(m) /\ (provider[m] \/ hasDefault)
       THEN /\ Goto(m, "NotifyAcceptance")
            /\ provider' = [provider EXCEPT ![m] = TRUE]
       ELSE UNCHANGED <<pc, provider>>
  /\ UNCHANGED <<configVars, processed, answer, row, queueVars, submissions,
                 failures>>

(* The SQL logger inserts the row and throws if there is one already.  The  *)
(* call may also throw on the way, with or without a row inserted.          *)
NotifyAcceptance(m) ==
  /\ pc[m] = "NotifyAcceptance"
  /\ \/ /\ Goto(m, "Idle")
        /\ UNCHANGED row
     \/ /\ ~sqlLog
        /\ Goto(m, "Submit")
        /\ UNCHANGED row
     \/ /\ sqlLog
        /\ row[m] = "Absent"
        /\ row' = [row EXCEPT ![m] = "Inserted"]
        /\ \E to \in {"Submit", "Idle"} : Goto(m, to)
  /\ UNCHANGED <<configVars, smsVars, answer, queueVars, historyVars>>

(* The gateway is looked up and called.  An exception may come before the   *)
(* message is out (no such gateway, no connection) or after.                *)
Submit(m) ==
  /\ pc[m] = "Submit"
  /\ \/ /\ Goto(m, "Idle")
        /\ UNCHANGED <<submissions, failures, answer>>
     \/ /\ Goto(m, "NotifySubmission")
        /\ submissions' = [submissions EXCEPT ![m] = @ + 1]
        /\ \E a \in Answers : answer' = [answer EXCEPT ![m] = a]
        /\ UNCHANGED failures
     \/ /\ Goto(m, "Idle")
        /\ submissions' = [submissions EXCEPT ![m] = @ + 1]
        /\ failures' = [failures EXCEPT ![m] = @ + 1]
        /\ UNCHANGED answer
  /\ UNCHANGED <<configVars, smsVars, row, queueVars, refused>>

(* The log events of success or failure; the SQL logger writes the answer   *)
(* into the row.  Only if no handler throws is the message frozen.          *)
NotifySubmission(m) ==
  /\ pc[m] = "NotifySubmission"
  /\ Goto(m, "Idle")
  /\ \/ /\ row' = [row EXCEPT ![m] = IF sqlLog THEN answer[m] ELSE @]
        /\ processed' = [processed EXCEPT ![m] = TRUE]
        /\ UNCHANGED failures
     \/ /\ \/ UNCHANGED row
           \/ sqlLog /\ row' = [row EXCEPT ![m] = answer[m]]
        /\ failures' = [failures EXCEPT ![m] = @ + 1]
        /\ UNCHANGED processed
  /\ UNCHANGED <<configVars, sender, recipients, provider, answer, queueVars,
                 submissions, refused>>

(* Enqueue neither asks for a provider nor freezes the message.            *)
Enqueue(m) ==
  /\ pc[m] = "Idle"
  /\ PreProcessSms(m)
  /\ IF Passes(m) THEN Goto(m, "Enqueue") ELSE UNCHANGED pc
  /\ UNCHANGED <<configVars, processed, provider, answer, row, queueVars,
                 submissions, failures>>

(* SmsQueue_Enqueue inserts the row and queues the message in one           *)
(* transaction, or throws.  The enqueuement event that follows changes      *)
(* nothing here, even if it throws.                                        *)
EnqueueMessage(m) ==
  /\ pc[m] = "Enqueue"
  /\ Goto(m, "Idle")
  /\ \/ UNCHANGED <<row, queueVars>>
     \/ /\ row[m] = "Absent"
        /\ row' = [row EXCEPT ![m] = "Queued"]
        /\ Queue!Enqueue(m)
  /\ UNCHANGED <<configVars, smsVars, answer, historyVars>>

-----------------------------------------------------------------------------
(* The dequeue service forwards a copy of the message, without its provider *)
(* (SafeCast); without a default one Forward throws.                        *)
Forward(m) ==
  /\ hasDefault
  /\ deliveries[m] < MaxDeliveries
  /\ Queue!Deliver(m)
  /\ UNCHANGED <<configVars, pc, smsVars, answer, row, historyVars>>

DequeueCommit(m) ==
  /\ Queue!Settle(m)
  /\ UNCHANGED <<configVars, pc, smsVars, answer, row, historyVars>>

Crash ==
  /\ Queue!TakeBack
  /\ UNCHANGED <<configVars, pc, smsVars, answer, row, historyVars>>

ApplicationStep(m) ==
  \/ SetSender(m)             \/ AddRecipient(m)      \/ SetProvider(m)
  \/ SendMultipleImmediate(m) \/ NotifyAcceptance(m)  \/ Submit(m)
  \/ NotifySubmission(m)      \/ Enqueue(m)           \/ EnqueueMessage(m)

Next ==
  \/ \E m \in Messages : ApplicationStep(m) \/ Forward(m) \/ DequeueCommit(m)
  \/ Crash

Spec == Init /\ [][Next]_vars

-----------------------------------------------------------------------------
TypeOK ==
  /\ sqlLog \in BOOLEAN /\ hasDefault \in BOOLEAN
  /\ pc \in [Messages -> Sending \cup {"Idle", "Enqueue"}]
  /\ processed \in [Messages -> BOOLEAN]
  /\ sender \in [Messages -> Senders]
  /\ recipients \in [Messages -> SUBSET Recipients]
  /\ provider \in [Messages -> BOOLEAN]
  /\ answer \in [Messages -> Answers \cup {"None"}]
  /\ row \in [Messages -> Answers \cup {"Absent", "Inserted", "Queued"}]
  /\ stage \in [Messages -> {"New", "Queued", "Delivered", "Settled"}]
  /\ deliveries \in [Messages -> 0..MaxDeliveries]
  /\ submissions \in [Messages -> 0..MaxSends]
  /\ failures \in [Messages -> 0..MaxSends]
  /\ refused \in [Messages -> BOOLEAN]

(* With the SQL log, a message reaches the gateway by a direct send at most *)
(* once, and never both by a direct send and from the queue, however often  *)
(* its calls throw and are repeated.                                        *)
OneWayToTheGateway ==
  sqlLog => \A m \in Messages :
    /\ submissions[m] <= 1
    /\ submissions[m] = 0 \/ deliveries[m] = 0

(* Whatever is configured, a message is submitted again by a direct send    *)
(* only if every earlier send ended in an exception; the flag _processed    *)
(* ends the repetition for good.                                            *)
ResentOnlyAfterException ==
  \A m \in Messages :
    submissions[m] = failures[m]
                     + (IF processed[m] \/ pc[m] = "NotifySubmission" THEN 1 ELSE 0)

(* A frozen message is accounted for: the gateway answered, and with the    *)
(* SQL log the row under its reference holds this answer for good, whatever *)
(* Enqueue and the dequeue service do later.                                *)
FrozenMeansLogged ==
  \A m \in Messages :
    processed[m] => /\ answer[m] \in Answers
                    /\ sqlLog => row[m] = answer[m]

(* A frozen message stays as it was sent: whatever the application calls    *)
(* with it later, it has the same recipients and the same answer, and it is *)
(* neither sent directly again nor enqueued.                                *)
FrozenForGood ==
  [][\A m \in Messages : processed[m] =>
       /\ processed'[m]
       /\ recipients'[m] = recipients[m]
       /\ answer'[m] = answer[m]
       /\ submissions'[m] = submissions[m]
       /\ pc[m] = "Idle" => pc'[m] = "Idle"]_vars

(* The message that was answered and is not frozen met an exception: the    *)
(* only way to a message that the gateway took and that can be sent again.  *)
FrozenUnlessThrown ==
  \A m \in Messages :
    pc[m] = "Idle" /\ answer[m] # "None" /\ failures[m] = 0 => processed[m]

(* With the SQL log the direct sends and the queue implement SubmitOnce.    *)
(* Without it nothing is claimed and the mapping stays where it starts.     *)
ClaimOf(m) ==
  IF ~sqlLog \/ row[m] = "Absent" THEN "Free"
  ELSE IF row[m] = "Queued" THEN "Queue"
  ELSE IF pc[m] \in {"Submit", "NotifySubmission"} THEN "Direct"
  ELSE "Closed"

RecordOf(m) == IF sqlLog /\ row[m] \in Answers THEN row[m] ELSE "None"

Abstract == INSTANCE SubmitOnce WITH
  claim <- [m \in Messages |-> ClaimOf(m)],
  submissions <- [m \in Messages |-> IF sqlLog THEN submissions[m] ELSE 0],
  answer <- [m \in Messages |-> IF sqlLog THEN answer[m] ELSE "None"],
  record <- [m \in Messages |-> RecordOf(m)]

ImplementsSubmitOnce == Abstract!Spec

-----------------------------------------------------------------------------
(* src/Test.Usms.Gateway/Service/Test_SendSms.cs:106: after a message was   *)
(* sent its internal status is frozen.                                      *)
FrozenAfterSending ==
  \A m \in Messages :
    pc[m] = "Idle" /\ answer[m] = "Submitted" => processed[m]

(* src/Test.Usms.Gateway/Service/Test_NotWellFormedSms.cs:219: a sender     *)
(* that VerifySender refuses is refused; it does not become acceptable by   *)
(* sending the message again.                                               *)
RefusedSenderStaysRefused ==
  \A m \in Messages : pc[m] # "Idle" => ~refused[m]
=============================================================================
