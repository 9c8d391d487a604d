-------------------------- MODULE DequeueService --------------------------
(***************************************************************************)
(* The dequeue service at work: the workers of DequeueSynchronizer take     *)
(* messages from the SQL Server queue in a transaction, forward them to the *)
(* gateway, log the outcome and commit (Smsc.cs, Dequeuer.cs, Queue.cs).    *)
(* The process may die at any moment: an exception in a worker thread is    *)
(* not handled and ends it.  SQL Server then rolls back its transactions,   *)
(* and the service is constructed again, from its configuration files.      *)
(*                                                                         *)
(* The stored procedures are not part of the sources.  They are modelled    *)
(* from how Dequeuer uses them: a receive locks one message that no other   *)
(* transaction has received, in no particular order; commit removes it and  *)
(* rollback makes it available again.                                       *)
(***************************************************************************)
EXTENDS DequeueSynchronizer

CONSTANTS
  Messages,     \* the messages the applications enqueue
  None,         \* no message, or no status
  MaxCrashes    \* bound: how often the process dies

(* What Send says of a message: the gateway accepted it or it did not.      *)
Outcomes == {"Submitted", "Failed"}

ASSUME ServiceAssumption ==
  /\ None \notin Messages \cup Outcomes
  /\ MaxCrashes \in Nat

VARIABLES
  pending,      \* the messages not enqueued yet
  queue,        \* the messages in the queue, received ones included
  connection,   \* the state of the connection of each worker's dequeuer
  received,     \* the message received in each worker's open transaction
  status,       \* the status Send returned, in the frame of each Forward
  sends,        \* how often each message was handed to its gateway
  logged,       \* the outcome the log holds for each message
  defaultProvider,  \* the configuration names a default SMS provider
  alive,        \* the process of the service runs
  crashes       \* how often it died of something else

dbVars == <<pending, queue, sends, logged>>
dequeuerVars == <<connection, received, status>>
processVars == <<defaultProvider, alive, crashes>>
serviceVars == <<vars, pending, queue, connection, received, status, sends,
                 logged, defaultProvider, alive, crashes>>

ConnectionStates == {"Closed", "Open", "Transaction"}

ServiceInit ==
  /\ Init
  /\ connection = [w \in Workers |-> "Closed"]
  /\ received = [w \in Workers |-> None]
  /\ status = [w \in Workers |-> None]
  /\ pending = Messages
  /\ queue = {}
  /\ sends = [m \in Messages |-> 0]
  /\ logged = [m \in Messages |-> None]
  /\ defaultProvider \in BOOLEAN
  /\ alive = TRUE
  /\ crashes = 0

-----------------------------------------------------------------------------
(* Messages some open transaction has received.                            *)
Locked == {received[w] : w \in Workers} \ {None}

(* An application enqueues a message; the insert is a transaction.          *)
Enqueue(m) ==
  /\ m \in pending
  /\ pending' = pending \ {m}
  /\ queue' = queue \cup {m}
  /\ UNCHANGED <<vars, dequeuerVars, sends, logged, processVars>>

(* Plausible faults: the receive outside the transaction, a receive of what *)
(* others hold, a commit that keeps the transaction, and one that rolls the *)
(* receive back.  No action of this module uses them.                       *)

DequeueMessage_AutoCommit(w) ==
  /\ DequeueSms(w)
  /\ \E m \in queue \ Locked : /\ received' = [received EXCEPT ![w] = m]
                              /\ queue' = queue \ {m}
  /\ connection' = [connection EXCEPT ![w] = "Transaction"]
  /\ UNCHANGED <<pending, sends, logged, status, processVars>>

DequeueMessage_IgnoresLocks(w) ==
  /\ DequeueSms(w)
  /\ \E m \in queue : received' = [received EXCEPT ![w] = m]
  /\ connection' = [connection EXCEPT ![w] = "Transaction"]
  /\ UNCHANGED <<dbVars, status, processVars>>

Commit_KeepsTransaction(w) ==
  /\ DequeueCommit(w)
  /\ queue' = queue \ {received[w]}
  /\ received' = [received EXCEPT ![w] = None]
  /\ status' = [status EXCEPT ![w] = None]
  /\ UNCHANGED <<connection, pending, sends, logged, processVars>>

Commit_RollsBack(w) ==
  /\ DequeueCommit(w)
  /\ received' = [received EXCEPT ![w] = None]
  /\ status' = [status EXCEPT ![w] = None]
  /\ connection' = [connection EXCEPT ![w] = "Closed"]
  /\ UNCHANGED <<dbVars, processVars>>

(* Dequeue opens the connection if it is closed, begins a transaction and   *)
(* receives a message.                                                      *)
DequeueMessage(w) ==
  /\ DequeueSms(w)
  /\ \E m \in queue \ Locked : received' = [received EXCEPT ![w] = m]
  /\ connection' = [connection EXCEPT ![w] = "Transaction"]
  /\ UNCHANGED <<dbVars, status, processVars>>

(* Nothing to receive: the transaction is rolled back and the connection    *)
(* stays open.                                                              *)
DequeueNothing(w) ==
  /\ queue \subseteq Locked
  /\ DequeueNull(w)
  /\ connection' = [connection EXCEPT ![w] = "Open"]
  /\ UNCHANGED <<dbVars, received, status, processVars>>

(* The gateway sends the message and says whether it was accepted.  A row   *)
(* of the queue names no provider: Forward takes the default one.           *)
Send(w) ==
  /\ pc[w] = "Forward"
  /\ status[w] = None
  /\ defaultProvider
  /\ \E outcome \in Outcomes : status' = [status EXCEPT ![w] = outcome]
  /\ sends' = [sends EXCEPT ![received[w]] = @ + 1]
  /\ UNCHANGED <<vars, connection, received, pending, queue, logged,
                 processVars>>

(* Forward notifies the log of the outcome, on a connection of its own, and *)
(* returns to the worker.                                                   *)
NotifyOutcome(w) ==
  /\ status[w] # None
  /\ Forward(w)
  /\ logged' = [logged EXCEPT ![received[w]] = status[w]]
  /\ UNCHANGED <<dequeuerVars, pending, queue, sends, processVars>>

(* DequeueCommit(true), whatever the outcome was: the message is removed    *)
(* and the connection closed.                                               *)
Commit(w) ==
  /\ DequeueCommit(w)
  /\ queue' = queue \ {received[w]}
  /\ received' = [received EXCEPT ![w] = None]
  /\ status' = [status EXCEPT ![w] = None]
  /\ connection' = [connection EXCEPT ![w] = "Closed"]
  /\ UNCHANGED <<pending, sends, logged, processVars>>

(* The synchronizer of the next process, as its constructor finds it.      *)
NewSynchronizer ==
  /\ runningWorkers' = TotalWorkers
  /\ terminating' = FALSE
  /\ suspending' = TRUE
  /\ suspendWorkersEvent' = TRUE
  /\ runningWorkerEvents' = {}
  /\ suspendedWorkerEvents' = {}
  /\ terminatingWorkerEvents' = {}
  /\ pc' = [w \in Workers |-> "Unstarted"]
  /\ ctl' = "Construct"
  /\ call' = "New"

(* The process dies: its threads and events are gone and the server rolls   *)
(* its transactions back.  What was sent and logged stays.                  *)
Die ==
  /\ alive
  /\ alive' = FALSE
  /\ NewSynchronizer
  /\ connection' = [w \in Workers |-> "Closed"]
  /\ received' = [w \in Workers |-> None]
  /\ status' = [w \in Workers |-> None]
  /\ UNCHANGED <<dbVars, defaultProvider>>

Crash ==
  /\ crashes < MaxCrashes
  /\ crashes' = crashes + 1
  /\ Die

(* Plausible fault: the exception of Forward is caught, and the worker goes *)
(* on to the commit.                                                       *)
ForwardThrows_Caught(w) ==
  /\ pc[w] = "Forward"
  /\ status[w] = None
  /\ ~defaultProvider
  /\ alive
  /\ Forward(w)
  /\ UNCHANGED <<dequeuerVars, dbVars, processVars>>

(* Without a default provider Forward dereferences null, after the message  *)
(* was received and before it is sent: the process dies of the message.     *)
ForwardThrows(w) ==
  /\ pc[w] = "Forward"
  /\ status[w] = None
  /\ ~defaultProvider
  /\ UNCHANGED crashes
  /\ Die

(* Somebody may have added the default provider meanwhile.                 *)
Restart ==
  /\ ~alive
  /\ alive' = TRUE
  /\ defaultProvider' \in {defaultProvider, TRUE}
  /\ UNCHANGED <<vars, dequeuerVars, dbVars, crashes>>

-----------------------------------------------------------------------------
ServiceWorkerStep(w) ==
  /\ alive
  /\ \/ LoopStep(w) /\ UNCHANGED <<dbVars, dequeuerVars, processVars>>
     \/ DequeueMessage(w) \/ DequeueNothing(w)
     \/ Send(w) \/ NotifyOutcome(w) \/ Commit(w)
     \/ ForwardThrows(w)

ServiceClientStep ==
  alive /\ ClientStep /\ UNCHANGED <<dbVars, dequeuerVars, processVars>>

ServiceNext ==
  \/ \E m \in Messages : Enqueue(m)
  \/ \E w \in Workers : ServiceWorkerStep(w)
  \/ ServiceClientStep
  \/ Crash
  \/ Restart

(* The threads as in DequeueSynchronizer; the service is started again.     *)
ServiceFairness ==
  /\ \A w \in Workers : WF_serviceVars(ServiceWorkerStep(w))
  /\ WF_serviceVars(ctl # "Ready" /\ ServiceClientStep)
  /\ WF_serviceVars(Restart)

ServiceSpec == ServiceInit /\ [][ServiceNext]_serviceVars /\ ServiceFairness

-----------------------------------------------------------------------------
ServiceTypeOK ==
  /\ TypeOK
  /\ pending \subseteq Messages
  /\ queue \subseteq Messages
  /\ connection \in [Workers -> ConnectionStates]
  /\ received \in [Workers -> Messages \cup {None}]
  /\ status \in [Workers -> Outcomes \cup {None}]
  /\ sends \in [Messages -> Nat]
  /\ logged \in [Messages -> Outcomes \cup {None}]
  /\ defaultProvider \in BOOLEAN
  /\ alive \in BOOLEAN
  /\ crashes \in 0..MaxCrashes

(* A message leaves the queue only after it was handed to the gateway and   *)
(* its outcome was logged: no crash, suspension or termination loses one.   *)
RemovedMeansForwardedAndLogged ==
  \A m \in Messages \ (pending \cup queue) :
    sends[m] > 0 /\ logged[m] # None

(* A message is sent again only because a crash took back the commit of an  *)
(* earlier send: at most once more than the process died.                   *)
SendsBoundedByCrashes == \A m \in Messages : sends[m] <= crashes + 1

(* A worker that is parked, leaving the loop or gone has no transaction     *)
(* open: no message stays locked while nobody works on it.                  *)
OnlyBusyWorkersLock ==
  \A w \in Workers :
    pc[w] \notin {"Forward", "DequeueCommit"} =>
      received[w] = None /\ connection[w] # "Transaction"

(* While the process lives a received message stays with its worker and in  *)
(* the queue, whatever the other workers, a Suspend or a Terminate do; it   *)
(* goes with the commit, and then the log holds the outcome of the very     *)
(* send that is committed, not of one before a crash or of another worker.  *)
ReceivedUntilCommitted ==
  [][alive /\ alive' =>
       \A w \in Workers : received[w] # None =>
         IF received'[w] = received[w]
         THEN received[w] \in queue'
         ELSE /\ pc[w] = "DequeueCommit" /\ received[w] \notin queue'
              /\ received'[w] = None /\ connection'[w] = "Closed"
              /\ logged[received[w]] = status[w]]_serviceVars

(* A message as AtLeastOnce sees it.                                       *)
Forwarded(m) == \E w \in Workers : received[w] = m /\ status[w] # None

Stage == [m \in Messages |-> IF m \in pending THEN "New"
                             ELSE IF m \notin queue THEN "Settled"
                             ELSE IF Forwarded(m) THEN "Delivered"
                             ELSE "Queued"]

Delivery == INSTANCE AtLeastOnce WITH stage <- Stage, deliveries <- sends

(* The service delivers at least once: no message is settled undelivered,   *)
(* two workers never handle one message at the same time, a settled message *)
(* never comes back, and only a crash makes a message be sent again.        *)
ImplementsAtLeastOnce == Delivery!Spec

(* Without a default provider every message kills the process that receives *)
(* it, and comes back: none is sent, none leaves the queue, none is lost.   *)
PoisonKeepsQueue ==
  [][~defaultProvider => queue \subseteq queue' /\ sends' = sends]_serviceVars

(* When the service runs with a default provider and the client leaves it   *)
(* so, every message that is in the queue is removed from it in the end, in *)
(* spite of what crashed and of how many lives it took before.              *)
Serving ==
  alive /\ defaultProvider /\ ctl = "Ready" /\ call = "Start" /\ ~terminating

QueueDrains ==
  <>[]Serving => \A m \in Messages : (m \in queue) ~> (m \notin queue)

IsQueueEmpty == queue = {}

(* Test_QueueProvider_SqlServer.cs, RunDequeuingThreads: the messages that  *)
(* were enqueued when the service was created are not all gone when its     *)
(* constructor returns, before Start.                                       *)
NotEmptyBeforeStart ==
  ctl = "Ready" /\ call = "New" /\ crashes = 0 /\ pending = {} => ~IsQueueEmpty
=============================================================================
