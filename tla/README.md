# unisms: a verification project in TLA+

unisms is an SMS gateway for .NET. An application builds an SMS and either sends
it at once through a provider (Clickatell, Aspsms, a fake one) or puts it in a
SQL Server queue; a dequeue service takes messages from the queue with several
worker threads and forwards them. Log providers (SQL Server, text file) record
what happens to each message, and a web handler turns the provider's delivery
notifications into log updates.

The modules here model the parts of the program in which threads, transactions,
processes and failures meet, and the two places where a plain function is hard to
get right: the readers of the configuration and a conversion of references. The reference for every definition is the C# source; the
stored procedures, SQL Server, the providers' web services and the operating
system's wait functions are not in the repository and are modelled only as far as
the code uses them.

## Inventory

| Part | Source | State | Operations | What is hard | What makes it correct |
|---|---|---|---|---|---|
| Worker threads | `Engine/DequeueSynchronizer.cs` | interlocked counter, `_suspending`, `_terminating`, one reset event, three events per worker | constructor, `ResumeWorkers`, `SuspendWorkers`, `TerminateWorkers`, `DequeueWorker`, `CheckSuspension` | flags and events are read and written without a lock | the rendezvous of each call; no lost wakeup; calls return |
| Dequeue service | `Engine/Smsc.cs` `Forward`, `Queuing.SqlServer/*` | queue, one connection and transaction per worker | `Enqueue`, `Dequeue`, `DequeueCommit`, `Forward`, `IsQueueEmpty` | several consumers; a crash between send and commit | nothing lost, duplicates only after a crash, nothing left locked |
| Immediate send | `Engine/Smsc.cs` `SendImmediate`, `SendMultipleImmediate` | processed flag of the message, log row, provider table | verify, choose provider, notify, send, notify, freeze | an exception between two of these steps and the retry after it | what the log says agrees with what was sent |
| Envelope | `Envelope/Sms.cs` | sender, recipients, recipient errors, processed flag | setters, `AddRecipient`, `VerifyMessage`, `SafeCast` | verification changes what it verifies | verifying twice; freezing |
| Provider session | `Clickatell.Soap/ClickatellProvider.cs`, `Gateway.Providers/SmsGateway.cs` | `IsConnected`, `_server`, `_sessionId` | `Connect`, `Disconnect`, `Send` with one retry on a session error | shared by all workers; the lock object is replaced by `Connect` | one retry at most; a session in use is valid |
| Other providers | `Aspsms`, `Fake` | none that lasts | `OnSend` | per-recipient status | success only if every recipient succeeded |
| Delivery notifications | `Gateway.Notification*`, `Engine/SmscNotifier.cs` | recipient rows of the log | confirmation, status update, failure | order and loss of notifications; matching of references | a notified delivery is set in the recipient's row; it stays there unless the message is sent again |
| SQL log | `Logging.SqlServer`, `Data.SqlServer` | `SmsLog`, `SmsLogRecipient` | insert, forwarded, delivery updates | rows are written outside the queue's transaction, one recipient at a time | a message is accounted for once; no recipient is left out |
| Text log | `Logging.Text/TextLogger.cs` | one file per process, kept open; static lock | one call per event | a record is written under several acquisitions of the lock; a second process cannot open the file | records are torn apart only by concurrent writers; nobody writes without the file |
| Configuration | `Engine/BaseSmsc.cs`, `Engine/Smsc.cs` readers | provider tables | read at construction | a forward-only reader moved by nested reads | every configured provider is loaded |
| Desktop client, web UI, packages | `DeskMessage`, `Usms.Web.UI*`, `packages` | forms, templates, third-party code | user interface | none of the program's own protocol | not modelled |

How they interact: the client thread calls the service (`Start`, `Suspend`,
`Terminate`), which calls the synchronizer; a worker calls its own dequeuer
(database), then the forwarder delegate (`Smsc.Forward`), which calls a gateway
object shared by all workers and then the log events. The enqueuing applications
and the notification handler are other threads or processes; they meet the
workers only in the database.

## Modules

| Module | Models | Correspondence |
|---|---|---|
| `DequeueSynchronizer` | the worker threads and the client thread | one action per statement that touches shared state; `pc[w]` is the worker's next statement, `ctl` the client's; an array of events is the set of the workers whose event is set |
| `WorkerGate` | abstract: what the calls promise about the workers | implemented by `DequeueSynchronizer` through `Mode` and `Request` |
| `DequeueService` | the same workers with the SQL Server queue, the forwarder, the log, crashes and restarts | extends `DequeueSynchronizer`; the four message actions are refined, the other actions leave the database alone |
| `AtLeastOnce` | abstract: what happens to each message | implemented by `DequeueService` through `Stage` |
| `ClickatellSession` | the Clickatell gateway object shared by several threads | one action per statement that touches `IsConnected`, `_server`, `_sessionId` or the lock; `pc[c]` is the next statement of thread `c` |
| `GatewayCall` | abstract: what one `Send` promises its caller | implemented by `ClickatellSession` with no mapping but the variables' names |
| `Submission` | a message that is sent, resent and enqueued while any call may throw, and delivered from the queue meanwhile | one action per call of a log handler, the gateway or the queue; the queue is an instance of `AtLeastOnce`, which `DequeueService` implements |
| `SubmitOnce` | abstract: what the key of the log makes of the sends of a message | implemented by `Submission` through `ClaimOf` and `RecordOf` |
| `DeliveryLog` | messages on their way through a gateway, the notifications that come back, and the two logs | one action per locked write of the text log, per stored procedure, per call of a gateway; `todo[t]` is what thread `t` still has to do for the log event it raised |
| `RecipientLog` | abstract: what the log promises of each recipient | implemented by `DeliveryLog` through `Due` |
| `ProviderConfiguration` | the three configuration files and the loops that read them | functions of the document; a reader is a position in the sequence of its nodes |
| `AspsmsProvider` | the number Aspsms gets for a reference | `ToInt` is the loop, in the width of an int |
| `DequeueSynchronizerProofs`, `DequeueServiceProofs`, `ClickatellSessionProofs`, `SubmissionProofs`, `DeliveryLogProofs` | theorems about the five modules and their proofs | |
| `LoopInduction` | induction over numbers, existence of recursive functions, what `FlattenSeq` returns | the next two rest on it |
| `ReaderProofs` | theorems about the three readers, for documents of any length | extends `ProviderConfiguration` |
| `InputProofs` | theorems about `ToInt` and about the inputs of the run `delivery` | extends `MCDeliveryLog` and `ReaderProofs` |
| `MCDequeueSynchronizer`, `MCDequeueService`, `MCClickatellSession`, `MCSubmission` | symmetry sets for TLC | |
| `MCDeliveryLog` | `DeliveryLog` with the handlers that `ProviderConfiguration` loads, and the inputs of the pure functions | a behaviour begins with one input or none |

Definitions named `X_Fault` (for example `Increment_Uncounted`) are plausible bugs
of the action `X`. No specification uses them: substituting one for its action
shows that the properties notice.

### DequeueSynchronizer

The client is one thread, as in the service and in the tests, and calls Start,
Suspend and Terminate in any order and any number of times, from the moment the
constructor has returned. `WaitAll` is a guard on a whole set of events, because
the wait function returns only when all the handles are signalled at the same
time. It accepts at most 64 handles, hence `WorkersAssumption`.

The two flags are plain fields. The model is sequentially consistent: each write
of a flag is followed, before the writer can block or return to a state in which
it matters, by a call into the kernel or an interlocked operation, and a worker
that reads an old `_suspending` is the same as one that read it a moment before it
was cleared, which the model allows (`CheckSuspension` and `Decrement` are separate
steps).

### DequeueService

The queue is a set: the order in which the receive procedure hands messages out is
not in the sources. A received message stays in the queue, locked by the worker's
transaction, until `Commit` removes it; when the process dies (`Die`) all locks and
threads are gone. Any exception in a worker thread ends a .NET process, so one
`Crash` action, enabled at any time, stands for every failure of the database, the
gateway or the log. One exception is no accident: a row of the queue names no
provider, so that `Forward` takes the default one, and without a default provider it
dereferences null (`ForwardThrows`). Every message is then a poison message: it kills
the process that receives it and waits for the next one. These deaths are not
bounded. `Restart` constructs the service anew, from configuration files that
somebody may have corrected meanwhile; `QueueDrains` therefore assumes a default
provider, and `PoisonKeepsQueue` says what happens without one.
`Send` and `NotifyOutcome` are separate because the log is written on a connection
of its own, outside the dequeuer's transaction. The gateway's answer is arbitrary;
`DequeueCommit(true)` follows whatever it was, as in the code: a message whose
submission failed is removed, and only the log knows.

### ClickatellSession

One gateway object serves all the threads of a process: the workers of the dequeue
service and every thread of an application that sends. `SmsGateway.Send` tests
`IsConnected` and calls `Connect` outside any lock; only the submission is made
under `lock (_server)`, and `_server` is a field that `Connect` assigns. A proxy is
named after the thread that created it: a thread creates at most one, because
`Connect` keeps a proxy that is there. Sessions are numbered in the order in which
the service issued them, up to the bound `MaxSessions`.

The service's answers are arbitrary: accepted, rejected, session error, or an
exception; so is the outcome of an authentication. `SetTestMode` is the assignment
of a provider's `TestMode` by an application, as the desktop client does before it
sends; it happens between Sends. Two variables are history: `simulated`
(the gateway was connected in test mode, without a session) and `raced` (two
threads were inside `Connect` at the same time). They separate what holds always
from what holds unless those two things happened. The answer stands for the list of
statuses of one message.

`Disconnect` is not modelled because nothing calls it.

### Submission

A message object belongs to the thread that fills it in, so that the messages are
independent but for the process that delivers the queue. Texts are kinds: which of
the two regular expressions a sender matches, before and after its prefix is
removed, and what a recipient is once normalised. Verification assigns what it
normalised, of the sender as of every recipient, and it is done again at every send: a
number loses one prefix each time (`Unprefixed`), so that one with two prefixes goes
elsewhere, or is refused, at the second send. A message without body or application
identifier is refused where one without sender is, and is not told apart from it.

Log handlers, gateway and queue are the places where a call may throw. Each such
action has an outcome for an exception before the work was done and, where that
makes a difference, one after it (an insert that was carried out but whose answer
was lost). The application repeats what it likes afterwards: the code neither
retries nor forbids it. Whether the SQL log and a default provider are configured
is chosen in the initial state.

That both stored procedures insert a row with the message's reference as its key
is taken from `Usms.Data.SqlServer/SmsLog.dbml`: `SmsLogId` is the primary key, both
procedures are given the reference, and the queue hands out rows of that table.

An application process that dies needs no action: its messages die with it, and a
new object has a new reference. A specification without fairness covers it.

### DeliveryLog

Here the rows of the recipients and the lines of the text log are looked at. A
thread sends one message, directly or through the queue; a request handles one
notification after another. Raising a log event gives a thread the sequence of calls
its handlers make, in their order: one for each line of the text log (`WriteLine` and
`WriteIndented` take the lock separately) and one for each stored procedure
(`SmsLog_Submitted` loops over the recipients). Each call is atomic, and anything may
come between two of them, also an exception (`Throw`) or the end of the process
(`Die`), which takes a message from the queue back to where it is sent again.

What the three gateways may answer is a set per provider: the fake one answers with
the message's own reference, Clickatell with its own or none, Aspsms with none and
for all recipients alike. `SendFails` covers an answer that does not arrive or has
fewer lines than recipients, after the gateway accepted some. A notification names a
recipient that a gateway has accepted, at any time from then on, in any order and any
number of times; its reference is the one that `ProcessRequest` passes. Requests run
in the web application's process. The senders run there as well (`shared`) or in a
process of their own with the same configuration; the first of the two processes to
construct a service opens the text log's file and keeps it.

Two variables are history: `misfiled` (a line was written below another record's
header) and `overlapped` (two threads wrote at the same time); so are `sends` and
`accepted`.

That a notification's procedure updates the row with its reference and recipient, and
that a status update leaves the status alone, is external: the procedures are not in
the repository.

### ProviderConfiguration and AspsmsProvider

The readers use a forward-only `XmlReader`. A document is the sequence of the nodes it
stops at, white space included, because `ReadToFollowing` moves before it looks and
passes over the element it stands on. `Table` is the loop over the providers, a recursive
function of the reader's position; `LogTable`, `SmsTable` and `QueueTable` give it the
entry that each of the three loops reads from a position and where that leaves the reader.
Each is compared, over all documents, with what the document says. The log handlers `DeliveryLog` starts from are the lists that
`LogTable` accepts.

`ToInt` adds the sixteen bytes of a reference, each shifted half a byte further; the
distance is taken modulo the width of an int, as C# does. The width is eight halves of
a byte whatever `Half`, the number of values of one half, is (16 in the program), so that
the wrap happens with small bytes, too.

## Runs

| Run | Question | Bounds |
|---|---|---|
| `sync` | counter, rendezvous of each call as the refinement of `WorkerGate`, where it can stop; what each wait counts down and of whom it expects it; do Start, Suspend and Terminate return | 3 workers; no other bound, the state space is finite |
| `service` | loss, duplicates, locks, a received message until its commit, poison messages, refinement of `AtLeastOnce`; does a running service with a default provider empty its queue | 2 workers, 2 messages, 1 crash, any number of deaths by a poison message |
| `session` | retries and what is returned (`GatewayCall`), usable connections, exclusive submissions, newer sessions, what each statement of a Send counts down, and does Send return | 2 threads, 3 sessions |
| `submission` | one way to the gateway, repetitions, what a frozen message is and stays, refinement of `SubmitOnce` | 1 message, 3 submissions, 2 deliveries |
| `delivery` | what becomes of a notified status, complete rows, torn records, the file's owner, refinement of `RecipientLog`; what the configuration readers make of a document; which references `ToInt` tells apart | 1 message, 2 recipients, 1 request, 2 submissions; documents of up to 3 providers; 4 values of half a byte |
| `suspended_idle`, `terminate_returns`, `before_start` | three things the tests assert that the code does not do | 1 or 2 workers |
| `session_retry` | does a retry use a newer session, as the comment says | 2 threads, 3 sessions |
| `submission_frozen`, `submission_refused` | two things the tests assert of a message | 2 messages, 2 submissions |
| `notified_delivered` | does a notification of a delivery set the status, as the test says | 1 message, 1 recipient, 1 submission |

Why the bounds are enough: the workers are interchangeable and every race found
needs at most two of them (one that slips through an event and one that holds a
`WaitAll` back); the third is there to let two different races overlap. Two
messages allow two workers to hold different messages and to compete for the last
one; a crash allows a message to be sent and delivered again, and poison messages
kill the process as often as it restarts. Two threads
are what a race in `Connect` takes, and three sessions let a session be lost, renewed
and overwritten. One message is enough in `submission` because messages share
nothing there; three submissions and two deliveries allow more than the one that
the properties permit. In `delivery` rows belong to one message each, so that one is
enough; two recipients let an exception fall between their rows, two submissions let a
second answer meet the notifications of the first, and the sender and a request are the
two writers that a torn record takes. Three providers are one more than the reader needs
to pass one over and take the settings of the next. Four values of half a byte make 16
values of a byte and an int of 16 bits. The theorems hold for every number of each, of
providers in a document and of values of half a byte, too.

`CHECK_DEADLOCK FALSE` is set because the dequeue service really can stop, when the
client and every worker wait for an event that is not set (`AllBlocked`).
`DeadlockShapes` says how that may come about: a `Suspend` after a `Terminate` waits for
events that exited workers never set, and a `Terminate` that loses its race
waits for a worker parked on a reset event. `WaitsAreForSomebody`, from which
`DeadlockShapes` follows, says the same from the other side: every other wait that goes on
is for a worker that has a statement to run. By `WaitsCountDown` each statement it runs is
one less; what is counted are the statements from the worker's `pc` to where the wait
expects the worker (`StatementsToHold`, `StatementsToRun`, `StatementsToExit`).

Fairness: weak fairness of each worker thread (the scheduler runs threads that
are not blocked, and database, gateway and log calls return or crash the process),
of the client thread while it is inside a call, and of the restart of the
process. Nothing obliges the client to make another call. In `ClickatellSession`:
weak fairness of each thread while it is inside `Send`, and strong fairness of
entering the lock, because a monitor queues the threads that wait for it. Nothing
obliges a thread to send again. `Submission` and `DeliveryLog` state no fairness: a gateway
need not notify, and an application need not send.

### What the runs found

1. **Suspend and the constructor return over running workers** (`suspended_idle`).
   `SuspendWorkers` sets `_suspending` before it resets the event. A worker that
   sees the flag in between signals "suspended", passes the still open event, and
   `WaitAll` returns before it has reset its signal. It then dequeues as if nothing
   had happened. `WorkerGate` states what remains true: it is on its way out of a
   gate that was open when it passed. Such a worker also spoils the count the tests assert
   after Start: if it read `_suspending` just before it was cleared, it decrements the
   counter after Start looked (`CounterAgrees` says whom the counter leaves out, and
   `StartReturns` that no later Start waits for it in vain).
2. **Terminate can wait for ever** (`terminate_returns`). If that worker has not
   decremented the counter when `TerminateWorkers` reads it, the event is not set,
   the worker parks and never exits. `TerminateReturns` gives the conditions under
   which Terminate does return.
3. **Messages are forwarded before Start** (`before_start`): the event is created
   set and the constructor starts the threads before it suspends them.
4. **A retry may use an older session** (`session_retry`). A first `Connect` runs
   outside the lock. If it is slow, the session it stores overwrites the one that a
   reconnect under the lock has just obtained, and the retry is made with it.
5. **A message that was sent is not always frozen** (`submission_frozen`).
   `SetProcessed` comes after the log events; if a handler throws, the application
   gets an exception for a message the gateway accepted. With the SQL log the key of
   its row then rejects a second send (`OneWayToTheGateway`), for good, even when the
   message never reached the gateway; without it the message is sent twice. Nothing but
   an exception does this (`FrozenUnlessThrown`), and what is frozen stays so
   (`FrozenForGood`).
6. **A refused sender is accepted the second time** (`submission_refused`).
   `VerifySender` assigns the number without its prefix before it tests it, and what
   is left may pass as a text. The other way round, a sender of twelve digits or
   more passes once and is refused when the send is repeated. Recipients are normalised
   again, too.
7. **Notifications of Clickatell set no status** (`notified_delivered`). The handler
   passes `cliMsgId`, the message's own reference, as `providerReference`; the row holds the
   reference that Clickatell answered with, so that the update finds no row. The test sends
   through the fake provider, for which the two references are the same. What the model
   requires of a notification is therefore only that a row without a reference cannot be
   meant (`RecipientLog`), not which reference is the right one.

Met while modelling, without a line of the repository to hold against them; the
properties state exactly what is left:

* A gateway that connected in test mode counts as connected, so that after test mode is
  switched off a Send locks a null proxy (`ConnectedMeansUsable`).
* Without a default provider the first queued message stops the service for good
  (`PoisonKeepsQueue`).
* While a service process holds the text log's file, the web application cannot construct
  its own service, and every notification fails before it is logged (`WritersHoldTheFile`).
* A message sent again after a crash resets a row that a notification has made final
  (`FinalUnlessResent`), and nobody notifies again.
* A log provider without settings makes the reader pass over the next provider and take its
  settings; the shipped `LogProviders.xml` is read correctly because the provider without
  settings comes last (`LogReaderExact`). The attribute `enabled` is read from the wrong
  node and never used. In a file without white space, first elements are passed over, and
  `default="1"` is not taken for true (`SmsReaderExact`).
* Aspsms may get one number for two references: bytes eight places apart fall on the same
  bits (`ToIntSeparates`).

## Proofs

Some theorems state a definition that no run checks, because what a run checks implies it.
`TerminatedMeansStopped`, `SuspendWaitsForMessages` and `ResumeLeavesNobodyParked` say of
the program's own state what `WorkerGate` says of the modes and `CounterAgrees` of the
counter; `DeadlockShapes` follows from `WaitsAreForSomebody`, and `FrozenUnlessThrown` from
`ResentOnlyAfterException` and the count of submissions. `TerminatingIsTheLastPass` is
what `TerminateReturns` rests on.

The first two modules are for every finite set of 1 to 64 workers, every set of messages and every
number of crashes, from `WorkersAssumption` and `ServiceAssumption`.

* `DequeueSynchronizerProofs`. The inductive invariant `IInv` adds to the types and
  the counter where each event stands from where its worker stands
  (`EventsAgree`) and where the flags stand from where the client stands
  (`ClientAgrees`); neither the rendezvous properties nor the exact counter are
  inductive without them. `CounterStep` is the cardinality argument: every
  decrement and increment moves exactly one worker out of or into `Counted`. From
  `IInv`: `TypeOK`, `CounterAgrees`, `TerminatedMeansStopped`,
  `SuspendWaitsForMessages`, `ResumeLeavesNobodyParked` and the refinement of
  `WorkerGate`. `DeadlockShapes` needs `WaitsAgree` beside it, that a Start waits with the
  gate open and that the running events are those of the workers outside the suspension
  section; from both it follows, too, that nothing blocks for good before Terminate is
  called (`SpecBlockedOnlyByTerminate`).

  The same two carry the argument for the liveness of the calls up to its last step. While
  the client waits, a statement of a worker brings that worker nearer to where the wait
  expects it, and disturbs no other (`SpecWaitsCountDown`); as long as the wait is not over,
  somebody is still expected and can run (`SpecWaitsAreForSomebody`), with the two
  exceptions of `DeadlockShapes`. After Terminate, nobody begins a second pass
  (`SpecTerminatingIsTheLastPass`). What is left to fairness is that the scheduler
  runs a thread that can run. The decrease is proved by cases on the worker's statement; the values of
  the tables are lemmas of their own (`ExitFacts`, `HoldFacts`, `RunFacts`).
* `DequeueServiceProofs`. Every step of the service is a step of the synchronizer
  or a death that puts it back into its initial state, so `IInv` carries over. On
  top, `ServiceInv` says what a worker's transaction, received message and status
  are at each statement (`TransactionsAgree`), that no two workers hold one message,
  and that a message that is queued and not delivered was sent at most `crashes`
  times (`SendsAgree`). From it: nothing removed unsent or unlogged, the bound on
  duplicates, no idle locks, the queue that poison leaves as it is, and the refinement of
  `AtLeastOnce`. `LogAgrees` adds that a worker about to commit finds its own status in
  the log, which `ReceivedUntilCommitted` needs. Four results are about no property of a
  run: without a crash, what has left the queue was sent exactly once
  (`ServiceSpecExactlyOnce`); Terminate and Suspend leave no message received and no
  transaction open (`ServiceSpecTerminatedFreesQueue`, `ServiceSpecSuspendFreesQueue`, the
  latter of the moment in which the wait returns, see finding 1); and the service with its
  crashes and restarts blocks for good only after Terminate
  (`ServiceSpecBlockedOnlyByTerminate`).
* `ClickatellSessionProofs`, for every set of threads and number of sessions.
  `SessionInv` adds to the types where each thread stands and what it has submitted
  (`CallersAgree`), that a proxy is locked by one thread (`LockAgrees`), which
  fields are set unless the gateway was connected in test mode (`UsableAgrees`), and
  how sessions grow as long as no two threads met in `Connect` (`RaceAgrees`). From
  it: usable connections, exclusive submissions, newer sessions for retries, and
  the refinement of `GatewayCall`. `SpecSendCountsDown` bounds the statements of a `Send`,
  its retry included, and `SpecLockHolderRuns` says that the lock a thread waits for is held
  by a thread that is still inside its Send and can go on; together they are `SendReturns` but for the
  fairness of scheduler and monitor.
* `SubmissionProofs`, for every set of messages and all bounds. `SubmissionInv` says of
  each message what its call has verified (`CallAgrees`), that with the SQL log the
  row is what entitles a send to call the gateway and what belongs to it alone
  (`RowAgrees`), and that the queue delivers only what has a row of the queue
  (`QueueAgrees`). `OneWayToTheGateway` is not inductive without them: the key alone
  does not say that nobody has submitted. A step changes what `SubmitOnce` sees of
  one message only (`OwnView`, `ViewStep`), from which the refinement follows. A frozen
  message is at rest, so that every statement but the first of a call leaves it alone, and
  the first one refuses it (`SpecFrozenForGood`). `FrozenUnlessThrown` needs, beside the
  invariant, that an answer comes only of a submission (`AnswersAreOfSubmissions`).

* `DeliveryLogProofs`, for every set of messages and requests and every number of
  recipients and submissions, from `DeliveryAssumption`. `DeliveryInv` says of each thread
  that its calls are its own, fit the handlers, and record no recipient twice
  (`CallsFit`); of each message what its stage says of those calls (`StageAgrees`), when
  its rows exist (`RowsAgree`), that an answer is recorded or still to be
  (`AnswerAgrees`), and that before the first answer no notification finds a row
  (`FirstAgrees`); and of the file that the last
  header belongs to the record being written unless writers overlapped (`FileAgrees`).
  `CompleteLog` and `FinalUnlessResent` speak of rows only and are not inductive: they need
  to know which calls are still to come. The lemmas on calls derive that from the
  event that gave a thread its calls. For the refinement of `RecipientLog`, each call changes the view
  of one message (`Due`), and a death or an exception gives up a set of them.

* `ReaderProofs`, for documents with any number of providers and no assumption but that
  they are documents (`DocumentOf`). A document is laid out in parts, one per provider
  (`Layout`). The loop reads a part well, when its entry is the one the document says and
  the reader is left right before the next provider, or badly, when the entry is another
  one or what follows is lost. By induction from the last provider to the first, the table
  is what the document says exactly if all parts are read well (`TableExact`); what remains
  is to say of one log or SMS provider when it is read well. `LogReadAsSaid`,
  `SmsReadAsSaid` and `QueueReadAsSaid` are equivalences: the theorems say also that every
  document they do not name is read wrongly.
* `InputProofs`, from `HalfAssumption` and `ConfigurationAssumption`. `ToInt` is the sum,
  modulo the range of an int, of what each byte is moved to (`ToIntSums`). A change of one
  summand changes every later sum (`OneDiffers`), so that two references with one byte
  different have the same number exactly if that byte is moved to the same value
  (`ShiftLeftSeparates`); when two bytes eight places apart change places, the sums in
  between are off by their difference and the rest is the same again (`TwoSwapped`). So
  `ToIntSeparates` holds for the 16 values of half a byte of the program, too, and for any
  reference. The same module shows that what the configuration loads as log handlers is
  what `DeliveryAssumption` says of `HandlerLists` (`LoadedHandlersAsAssumed`), and that
  the run's specification implements `DeliveryLog` (`RunImplementsDeliveryLog`).

A recursive function is a choice of one that meets its equation, of which nothing is known
until one is shown to exist. The library's induction theorems take an operator, which the
provers here cannot instantiate. `LoopInduction` therefore proves that a set of numbers that
is not empty has a least element (the inclusion of finite sets is well-founded), from it an
induction over a set, `Induction`, and from that the existence of a recursive function
whose calls reach its base (`RecursionExists`). The loops of the readers and of `ToInt` are
instances.

Only model-checked: the liveness properties (`StartReturns`, `SuspendReturns`,
`TerminateReturns`, `QueueDrains`, `SendReturns`), because fairness is beyond these provers.
Of the liveness of the calls and
of Send, the count that falls and the thread that can run are proved; `QueueDrains` is left to
TLC altogether. That the sessions, sends and crashes of a behaviour are bounded is
a matter of the runs: the theorems hold for every bound.

## Not modelled

The desktop client and the web UI show forms and generated pages; the one thing the
client does to the protocol, setting a provider's test mode, is in `ClickatellSession`. The
packages are third-party code. All the JavaScript of the repository is among it: jQuery,
jQuery UI and its validation plug-ins, MicrosoftAjax, MicrosoftMvc and modernizr, in
`packages` and copied into `Usms.Web.UI/Scripts`. The program itself is C#, and that is
what the modules translate.

The stored procedures, SQL Server, the providers' services, the reader of the XML files
and the wait functions are external, modelled as far as the code uses them.

Of modelled parts: `DequeueCommit(false)`, which no worker calls, and the use of a
dequeuer outside the service; `Disconnect`, which nothing calls; the loading of an
assembly by its name; the parsing of a notification request's fields, and the wording of
what is logged. The threads of `ClickatellSession` are any threads that send; that the
workers are such threads is not a module of its own, because the workers share nothing
with the gateway but their calls of `Send`.

## Order of the work

`DequeueSynchronizer` with `WorkerGate`, `DequeueService` with `AtLeastOnce`,
`ClickatellSession` with `GatewayCall`, `Submission` with `SubmitOnce`, then `DeliveryLog`
with `RecipientLog`, `ProviderConfiguration` and `AspsmsProvider`, each with its run
and its proofs. What a next step would take up: two requests at once
in `delivery` (too large for the present bounds), and liveness of the notifications, for
which the code gives no ground today.
