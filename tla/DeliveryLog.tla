---------------------------- MODULE DeliveryLog ----------------------------
(***************************************************************************)
(* Messages on their way through a gateway, the delivery notifications that *)
(* come back for them, and the two logs in which they meet: the recipient   *)
(* rows of the SQL log and the lines of the text log (BaseSmsc's events,    *)
(* SqlServerLogProvider, SmsLog, TextLogger, the OnSend of the three        *)
(* gateways, ClickatellNotifierHandler, ClickatellNotifier, SmscNotifier).  *)
(*                                                                         *)
(* A thread sends one message; a request handles one notification after     *)
(* another.  What a thread still has to do for the log event it raised is   *)
(* its sequence of calls: one for every line of the text log and for every  *)
(* stored procedure, in the order of the handlers.  Each call is atomic (a  *)
(* lock, a statement of the database); what comes between two calls is not. *)
(* A direct send may throw anywhere, and a process may die anywhere: then   *)
(* a message of the queue comes back.                                       *)
(*                                                                         *)
(* The requests run in the web application's process; the senders run       *)
(* there, too, or in a process of their own, which reads the same           *)
(* configuration.  The stored procedures are external: insert creates a     *)
(* row per recipient, forwarded overwrites the row of one recipient, and a  *)
(* notification updates the row with the reference and recipient it names.  *)
(***************************************************************************)
EXTENDS Naturals, Sequences

CONSTANTS
  Messages,         \* the messages, each sent by a thread of its own
  Requests,         \* the threads that handle notifications
  RecipientCount,   \* recipients of each message
  HandlerLists,     \* what the configuration may load as log handlers
  MaxSends          \* bound: submissions of one message

Recipients == 1..RecipientCount

Threads == Messages \cup Requests

ASSUME DeliveryAssumption ==
  /\ Messages \cap Requests = {}
  /\ "Nobody" \notin Threads
  /\ RecipientCount \in Nat
  /\ MaxSends \in Nat
  /\ HandlerLists \subseteq
       {<<>>, <<"TextLogger">>, <<"SqlServerLogger">>,
        <<"TextLogger", "SqlServerLogger">>, <<"SqlServerLogger", "TextLogger">>}

VARIABLES
  handlers,     \* the log handlers, in the order they are called
  shared,       \* the senders run in the web application's process
  provider,     \* the provider of each message
  path,         \* whether it is sent directly or through the queue
  stage,        \* how far it has come
  todo,         \* the calls each thread has to make for its log event
  answer,       \* the last answer of the gateway, per recipient
  row,          \* the rows of SmsLogRecipient
  enqueued,     \* messages whose enqueuement is still to be logged
  owner,        \* the process that holds the text log's file
  lastHeader,   \* who wrote the last header line into it
  sends,        \* history: how often each message was given to its gateway
  accepted,     \* history: the recipients a gateway accepted
  misfiled,     \* history: an indented line followed another record
  overlapped    \* history: a line was written while a record was incomplete

configVars == <<handlers, shared, provider, path>>
messageVars == <<stage, answer, enqueued, sends, accepted>>
fileVars == <<lastHeader, misfiled, overlapped>>
vars == <<configVars, messageVars, todo, row, owner, fileVars>>

Providers == {"Fake", "Clickatell", "Aspsms"}
Paths == {"Direct", "Queue"}
Stages == {"New", "Send", "Unanswered", "Logging", "Done", "Stopped"}
Statuses == {"Absent", "Inserted", "Submitted", "AcceptanceFailure",
             "Delivered", "DeliveryFailure"}
References == {"Null", "Own", "Api"}

(* The senders' process, and the web application's.                        *)
Process(t) == IF shared \/ t \in Requests THEN "Web" ELSE "Service"

Processes == {"Service", "Web"}

Handles(name) == \E i \in DOMAIN handlers : handlers[i] = name

HasText == Handles("TextLogger")

HasSql == Handles("SqlServerLogger")

-----------------------------------------------------------------------------
(* What a gateway answers for a recipient: the status the log makes of it   *)
(* and the reference, the message's own or one of the provider's.          *)
Entry(status, reference) == [status |-> status, reference |-> reference]

NoEntry == Entry("None", "Null")

AnswerEntries ==
  {Entry(s, ref) : s \in {"Submitted", "AcceptanceFailure"},
                   ref \in {"Null", "Own", "Api"}}

(* The fake gateway refuses the recipients it is told to, and answers with  *)
(* the message's own reference.                                            *)
FakeAnswers ==
  [Recipients -> {Entry("Submitted", "Own"), Entry("AcceptanceFailure", "Own")}]

(* Clickatell names its own reference, none in test mode or in a response   *)
(* that CheckResponse does not recognise.                                  *)
ClickatellAnswers ==
  [Recipients -> {Entry("Submitted", "Api"), Entry("Submitted", "Null"),
                  Entry("AcceptanceFailure", "Null")}]

(* Aspsms accepts or refuses all of them and names no reference.           *)
AspsmsAnswers ==
  {[r \in Recipients |-> Entry(s, "Null")] : s \in {"Submitted",
                                                    "AcceptanceFailure"}}

OnSend(m) ==
  IF provider[m] = "Fake" THEN FakeAnswers
  ELSE IF provider[m] = "Clickatell" THEN ClickatellAnswers
  ELSE AspsmsAnswers

-----------------------------------------------------------------------------
(* The calls a log event makes: each handler is called in turn.            *)
Call(kind, m, r) == [kind |-> kind, message |-> m, recipient |-> r]

Calls == [kind : {"Line", "Indent", "Insert", "Forwarded", "Delivery",
                  "DeliveryFailure", "StatusUpdate"},
          message : Messages, recipient : 0..RecipientCount]

(* The indented lines of a record: a status per recipient, and the number   *)
(* of failures; the reference, and the error or notification.              *)
IndentedLines(event) ==
  IF event = "Submission" THEN RecipientCount
  ELSE IF event = "SubmissionFailure" THEN RecipientCount + 1
  ELSE IF event = "Delivery" THEN 1
  ELSE IF event \in {"DeliveryFailure", "StatusUpdate"} THEN 2
  ELSE 0

(* Plausible fault: the record ends with its header.                       *)
TextCalls_HeaderLast(event, m) ==
  [i \in 1..IndentedLines(event) |-> Call("Indent", m, 0)]
    \o <<Call("Line", m, 0)>>

TextCalls(event, m) ==
  <<Call("Line", m, 0)>>
    \o [i \in 1..IndentedLines(event) |-> Call("Indent", m, 0)]

(* Plausible fault: the loop over the recipients ends one early.           *)
SqlCalls_OffByOne(event, m, r) ==
  IF event = "Acceptance" THEN <<Call("Insert", m, 0)>>
  ELSE IF event \in {"Submission", "SubmissionFailure"}
    THEN [k \in 1..RecipientCount - 1 |-> Call("Forwarded", m, k)]
  ELSE <<Call(event, m, r)>>

(* Plausible fault: a failed submission is notified as a submission, too.   *)
SqlCalls_BothEvents(event, m, r) ==
  IF event = "Acceptance" THEN <<Call("Insert", m, 0)>>
  ELSE IF event = "SubmissionFailure"
    THEN [k \in Recipients |-> Call("Forwarded", m, k)]
           \o [k \in Recipients |-> Call("Forwarded", m, k)]
  ELSE IF event = "Submission"
    THEN [k \in Recipients |-> Call("Forwarded", m, k)]
  ELSE <<Call(event, m, r)>>

SqlCalls(event, m, r) ==
  IF event = "Acceptance" THEN <<Call("Insert", m, 0)>>
  ELSE IF event \in {"Submission", "SubmissionFailure"}
    THEN [k \in Recipients |-> Call("Forwarded", m, k)]
  ELSE <<Call(event, m, r)>>

HandlerCalls(handler, event, m, r) ==
  IF handler = "TextLogger" THEN TextCalls(event, m) ELSE SqlCalls(event, m, r)

EventCalls(event, m, r) ==
  IF handlers = <<>> THEN <<>>
  ELSE IF Len(handlers) = 1 THEN HandlerCalls(handlers[1], event, m, r)
  ELSE HandlerCalls(handlers[1], event, m, r)
         \o HandlerCalls(handlers[2], event, m, r)

Notify(t, event, m, r) == todo' = [todo EXCEPT ![t] = EventCalls(event, m, r)]

-----------------------------------------------------------------------------
Init ==
  /\ handlers \in HandlerLists
  /\ shared \in BOOLEAN
  /\ provider \in [Messages -> Providers]
  /\ path \in [Messages -> Paths]
  /\ stage = [m \in Messages |-> "New"]
  /\ todo = [t \in Threads |-> <<>>]
  /\ answer = [m \in Messages |-> [r \in Recipients |-> NoEntry]]
  /\ row = [m \in Messages |-> [r \in Recipients |-> Entry("Absent", "Null")]]
  /\ enqueued = {}
  /\ owner = "Nobody"
  /\ lastHeader = "Nobody"
  /\ sends = [m \in Messages |-> 0]
  /\ accepted = [m \in Messages |-> {}]
  /\ misfiled = FALSE
  /\ overlapped = FALSE

(* Plausible fault: the file is opened for several writers.                *)
Initialize_ShareWrite(p) == IF HasText THEN owner' = p ELSE UNCHANGED owner

(* The first service object of a process opens the file, which cuts it off, *)
(* and keeps it open.  Another process cannot construct one then: the       *)
(* constructor of the logger throws.                                       *)
Initialize(p) ==
  IF HasText THEN owner \in {"Nobody", p} /\ owner' = p ELSE UNCHANGED owner

(* SendMultipleImmediate, once the message is verified: the acceptance.    *)
Accept(m) ==
  /\ stage[m] = "New"
  /\ path[m] = "Direct"
  /\ Initialize(Process(m))
  /\ stage' = [stage EXCEPT ![m] = "Send"]
  /\ Notify(m, "Acceptance", m, 0)
  /\ UNCHANGED <<configVars, answer, enqueued, sends, accepted, row, fileVars>>

(* Enqueue: the procedure inserts the rows and makes the message available  *)
(* to the dequeue service, before the enqueuement is logged.               *)
Enqueue(m) ==
  /\ stage[m] = "New"
  /\ path[m] = "Queue"
  /\ Initialize(Process(m))
  /\ stage' = [stage EXCEPT ![m] = "Send"]
  /\ row' = [row EXCEPT ![m] = [r \in Recipients |-> Entry("Inserted", "Null")]]
  /\ enqueued' = enqueued \cup {m}
  /\ UNCHANGED <<configVars, answer, sends, accepted, todo, fileVars>>

(* A record is incomplete while a line of it is the next call.             *)
Incomplete(t) == todo[t] # <<>> /\ Head(todo[t]).kind = "Indent"

(* Only the text log has something to say of an enqueuement: one line.     *)
NotifyEnqueuement(m) ==
  /\ m \in enqueued
  /\ enqueued' = enqueued \ {m}
  /\ IF HasText
       THEN /\ lastHeader' = "Nobody"
            /\ overlapped' = (overlapped \/ \E t \in Threads : Incomplete(t))
       ELSE UNCHANGED <<lastHeader, overlapped>>
  /\ UNCHANGED <<configVars, stage, answer, sends, accepted, todo, row, owner,
                 misfiled>>

(* The gateway is called and answers, and the answer is notified; of a      *)
(* message from the queue by a service that may have been started anew.    *)
Send(m) ==
  /\ stage[m] = "Send"
  /\ todo[m] = <<>>
  /\ sends[m] < MaxSends
  /\ Initialize(Process(m))
  /\ sends' = [sends EXCEPT ![m] = @ + 1]
  /\ \E a \in OnSend(m) :
       /\ answer' = [answer EXCEPT ![m] = a]
       /\ accepted' = [accepted EXCEPT ![m] =
                         @ \cup {r \in Recipients : a[r].status = "Submitted"}]
       /\ IF \A r \in Recipients : a[r].status = "Submitted"
            THEN Notify(m, "Submission", m, 0)
            ELSE Notify(m, "SubmissionFailure", m, 0)
  /\ stage' = [stage EXCEPT ![m] = "Logging"]
  /\ UNCHANGED <<configVars, enqueued, row, fileVars>>

(* What a gateway may have accepted when its Send throws: the fake gateway  *)
(* parses its fail code first.                                             *)
AcceptedUnanswered(m) ==
  IF provider[m] = "Fake" THEN {{}} ELSE SUBSET Recipients

(* The gateway is called, accepts the message for some recipients, and its  *)
(* answer does not arrive or has too few lines.                            *)
SendFails(m) ==
  /\ stage[m] = "Send"
  /\ todo[m] = <<>>
  /\ sends[m] < MaxSends
  /\ Initialize(Process(m))
  /\ sends' = [sends EXCEPT ![m] = @ + 1]
  /\ \E some \in AcceptedUnanswered(m) :
       accepted' = [accepted EXCEPT ![m] = @ \cup some]
  /\ stage' = [stage EXCEPT ![m] = "Unanswered"]
  /\ UNCHANGED <<configVars, answer, enqueued, todo, row, fileVars>>

(* A direct send returns, a message from the queue is committed.           *)
Return(m) ==
  /\ stage[m] = "Logging"
  /\ todo[m] = <<>>
  /\ stage' = [stage EXCEPT ![m] = "Done"]
  /\ UNCHANGED <<configVars, answer, enqueued, sends, accepted, todo, row,
                 owner, fileVars>>

-----------------------------------------------------------------------------
(* ProcessNotification: the event of a notification code.  The codes above  *)
(* twelve stand for the ones the enumeration does not name.                *)
NotificationCodes == 1..13

NotificationEvent(code) ==
  IF code \in {1, 2, 8, 11} THEN "StatusUpdate"
  ELSE IF code \in {3, 4} THEN "Delivery"
  ELSE "DeliveryFailure"

(* ProcessRequest passes cliMsgId, which is the message's own reference, as *)
(* the reference of the provider.                                          *)
NotifiedReference == "Own"

(* A notification of a recipient that a gateway accepted, at any time, in   *)
(* any order and any number of times.  Aspsms sends none to this handler.   *)
(* A request constructs a notification service, which loads the log         *)
(* handlers.                                                               *)
ProcessRequest(q) ==
  /\ todo[q] = <<>>
  /\ Initialize(Process(q))
  /\ \E m \in Messages, code \in NotificationCodes : \E r \in accepted[m] :
       /\ provider[m] # "Aspsms"
       /\ Notify(q, NotificationEvent(code), m, r)
  /\ UNCHANGED <<configVars, messageVars, row, fileVars>>

-----------------------------------------------------------------------------
(* The next call of a thread.                                              *)
TakeCall(t, kinds) ==
  /\ todo[t] # <<>>
  /\ Head(todo[t]).kind \in kinds
  /\ todo' = [todo EXCEPT ![t] = Tail(@)]

OthersIncomplete(t) == \E u \in Threads \ {t} : Incomplete(u)

(* WriteLine and WriteIndented, each under the lock.                       *)
WriteLine(t) ==
  /\ TakeCall(t, {"Line"})
  /\ lastHeader' = t
  /\ overlapped' = (overlapped \/ OthersIncomplete(t))
  /\ UNCHANGED <<configVars, messageVars, row, owner, misfiled>>

WriteIndented(t) ==
  /\ TakeCall(t, {"Indent"})
  /\ misfiled' = (misfiled \/ lastHeader # t)
  /\ overlapped' = (overlapped \/ OthersIncomplete(t))
  /\ UNCHANGED <<configVars, messageVars, row, owner, lastHeader>>

Insert(t) ==
  /\ TakeCall(t, {"Insert"})
  /\ row' = [row EXCEPT ![Head(todo[t]).message] =
               [r \in Recipients |-> Entry("Inserted", "Null")]]
  /\ UNCHANGED <<configVars, messageVars, owner, fileVars>>

(* Plausible fault: the neighbouring member of the enumeration.            *)
Forwarded_Enqueued(t) ==
  LET m == Head(todo[t]).message
      r == Head(todo[t]).recipient
  IN  /\ TakeCall(t, {"Forwarded"})
      /\ row' = [row EXCEPT ![m][r] = Entry("Enqueued", answer[m][r].reference)]
      /\ UNCHANGED <<configVars, messageVars, owner, fileVars>>

(* Plausible fault: status[0] in place of status[count].                    *)
Forwarded_FirstAnswer(t) ==
  LET m == Head(todo[t]).message
      r == Head(todo[t]).recipient
  IN  /\ TakeCall(t, {"Forwarded"})
      /\ row' = [row EXCEPT ![m][r] = answer[m][1]]
      /\ UNCHANGED <<configVars, messageVars, owner, fileVars>>

(* SmsLog_Forwarded of one recipient.                                      *)
Forwarded(t) ==
  LET m == Head(todo[t]).message
      r == Head(todo[t]).recipient
  IN  /\ TakeCall(t, {"Forwarded"})
      /\ row' = [row EXCEPT ![m][r] = answer[m][r]]
      /\ UNCHANGED <<configVars, messageVars, owner, fileVars>>

(* What an update by a notification makes of a row's status: a status       *)
(* update leaves it.                                                       *)
NotificationKinds == {"Delivery", "DeliveryFailure", "StatusUpdate"}

NotifiedStatus(kind, old) ==
  IF kind = "Delivery" THEN "Delivered"
  ELSE IF kind = "DeliveryFailure" THEN "DeliveryFailure"
  ELSE old

(* The update of the row with the reference and the recipient, if any.     *)
Notified(t) ==
  LET c == Head(todo[t])
      m == c.message
      r == c.recipient
  IN  /\ TakeCall(t, NotificationKinds)
      /\ IF row[m][r].reference = NotifiedReference
           THEN row' = [row EXCEPT ![m][r].status = NotifiedStatus(c.kind, @)]
           ELSE UNCHANGED row
      /\ UNCHANGED <<configVars, messageVars, owner, fileVars>>

(* A log handler or the gateway throws: a direct send or a request ends.   *)
Throw(t) ==
  /\ \/ t \in Requests /\ todo[t] # <<>> /\ UNCHANGED stage
     \/ /\ t \in Messages
        /\ path[t] = "Direct"
        /\ stage[t] \in {"Send", "Unanswered", "Logging"}
        /\ stage' = [stage EXCEPT ![t] = "Stopped"]
  /\ todo' = [todo EXCEPT ![t] = <<>>]
  /\ UNCHANGED <<configVars, answer, enqueued, sends, accepted, row, owner,
                 fileVars>>

(* A process ends with all its threads, by itself or by an exception in a   *)
(* worker thread, and lets go of the file.  What it had taken from the      *)
(* queue comes back.                                                       *)
StageAfter(m) ==
  IF stage[m] \notin {"Send", "Unanswered", "Logging"} THEN stage[m]
  ELSE IF path[m] = "Queue" THEN "Send"
  ELSE "Stopped"

Die(p) ==
  /\ todo' = [t \in Threads |-> IF Process(t) = p THEN <<>> ELSE todo[t]]
  /\ stage' = [m \in Messages |->
                 IF Process(m) = p THEN StageAfter(m) ELSE stage[m]]
  /\ enqueued' = {m \in enqueued : Process(m) # p}
  /\ owner' = IF owner = p THEN "Nobody" ELSE owner
  /\ UNCHANGED <<configVars, answer, sends, accepted, row, fileVars>>

LogCall(t) ==
  \/ WriteLine(t) \/ WriteIndented(t)
  \/ Insert(t) \/ Forwarded(t) \/ Notified(t)

Next ==
  \/ \E m \in Messages : \/ Accept(m) \/ Enqueue(m) \/ NotifyEnqueuement(m)
                         \/ Send(m) \/ SendFails(m) \/ Return(m)
  \/ \E q \in Requests : ProcessRequest(q)
  \/ \E t \in Threads : LogCall(t) \/ Throw(t)
  \/ \E p \in Processes : Die(p)

Spec == Init /\ [][Next]_vars

-----------------------------------------------------------------------------
TypeOK ==
  /\ handlers \in HandlerLists
  /\ shared \in BOOLEAN
  /\ provider \in [Messages -> Providers]
  /\ path \in [Messages -> Paths]
  /\ stage \in [Messages -> Stages]
  /\ todo \in [Threads -> Seq(Calls)]
  /\ answer \in [Messages -> [Recipients -> AnswerEntries \cup {NoEntry}]]
  /\ row \in [Messages -> [Recipients -> [status : Statuses,
                                          reference : References]]]
  /\ enqueued \subseteq Messages
  /\ owner \in Processes \cup {"Nobody"}
  /\ lastHeader \in Threads \cup {"Nobody"}
  /\ sends \in [Messages -> 0..MaxSends]
  /\ accepted \in [Messages -> SUBSET Recipients]
  /\ misfiled \in BOOLEAN
  /\ overlapped \in BOOLEAN

Final == {"Delivered", "DeliveryFailure"}

(* When a send has returned or a message is committed, and the SQL log is   *)
(* configured, every recipient's row holds the reference of the last answer *)
(* and its status, or what was notified since: none was left out, and no    *)
(* notification before or after made one wrong.                            *)
CompleteLog ==
  \A m \in Messages, r \in Recipients :
    HasSql /\ stage[m] = "Done" =>
      /\ row[m][r].reference = answer[m][r].reference
      /\ row[m][r].status \in {answer[m][r].status} \cup Final

(* What was notified of a recipient is taken back only by a message that    *)
(* was submitted more than once: a notification that comes before the row   *)
(* is written finds no row, and is not overwritten later.                   *)
FinalUnlessResent ==
  [][\A m \in Messages, r \in Recipients :
       row[m][r].status \in Final /\ row'[m][r].status \notin Final
         => sends[m] > 1]_vars

(* The lines of a record follow its header unless two threads wrote at the  *)
(* same time: in no other way can a line end up below another header.      *)
LinesFollowHeader == misfiled => overlapped

(* A thread that has a line to write belongs to the process that holds the  *)
(* file: while the senders' own process runs, no notification gets as far   *)
(* as the log.                                                             *)
WritersHoldTheFile ==
  \A t \in Threads :
    HasText /\ todo[t] # <<>> => owner = Process(t)

(* The answer that is still to be recorded in a row.                       *)
IsDue(m, r) == \E i \in DOMAIN todo[m] : todo[m][i] = Call("Forwarded", m, r)

Due == [m \in Messages |-> [r \in Recipients |->
          IF IsDue(m, r) THEN answer[m][r] ELSE NoEntry]]

Recording == INSTANCE RecipientLog WITH due <- Due

(* The events, their handlers and the calls they make record every answer   *)
(* as RecipientLog says.                                                   *)
ImplementsRecipientLog == Recording!Spec

-----------------------------------------------------------------------------
(* src/Test.Usms.Gateway/Notifiers/HttpHandler_Clickatell.cs:24: after a    *)
(* message was sent, a notification of its delivery that comes through the  *)
(* handler sets the status in the database.  It is asked only of rows that  *)
(* hold a reference, once the send is over and if no handler throws.        *)
DeliverySetsStatus ==
  [][\A q \in Requests :
       LET c == Head(todo[q])
           m == c.message
           r == c.recipient
       IN  Notified(q) /\ c.kind = "Delivery"
             /\ stage[m] = "Done" /\ row[m][r].reference # "Null"
           => row'[m][r].status = "Delivered"]_vars
=============================================================================
