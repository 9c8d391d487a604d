----------------------- MODULE DequeueServiceProofs -----------------------
(* Proofs about DequeueService, for every set of workers and of messages    *)
(* and every number of crashes.                                             *)
EXTENDS DequeueService, DequeueSynchronizerProofs

Busy == {"Forward", "DequeueCommit"}

(* A worker's transaction, the message it received and the status of its    *)
(* send, from where the worker stands.                                      *)
TransactionsAgree ==
  \A w \in Workers :
    /\ pc[w] \in Busy => received[w] \in queue
    /\ pc[w] \notin Busy => /\ received[w] = None
                            /\ status[w] = None
                            /\ connection[w] # "Transaction"
    /\ status[w] # None => sends[received[w]] > 0 /\ defaultProvider
    /\ pc[w] = "DequeueCommit" => /\ status[w] # None
                                  /\ logged[received[w]] # None

OneWorkerPerMessage ==
  \A v, w \in Workers : received[v] = received[w] /\ received[v] # None => v = w

(* A delivery that is not taken back is one of at most crashes + 1.        *)
SendsAgree ==
  \A m \in pending \cup queue : ~Forwarded(m) => sends[m] <= crashes

ServiceInv ==
  /\ ServiceTypeOK
  /\ IInv
  /\ pending \cap queue = {}
  /\ TransactionsAgree
  /\ OneWorkerPerMessage
  /\ RemovedMeansForwardedAndLogged
  /\ SendsBoundedByCrashes
  /\ SendsAgree

USE WorkersAssumption, ServiceAssumption

(* The construction of the next process leaves the synchronizer in its      *)
(* initial state.                                                           *)
LEMMA NewSynchronizerIInv == NewSynchronizer => IInv'
<1>1. NewSynchronizer => Init'
  BY DEF NewSynchronizer, Init, TotalWorkers
<1>2. (Init => IInv)'
  BY InitIInv, PTL
<1>3. QED
  BY <1>1, <1>2

(* Every step of the service is a step of the synchronizer, a stutter of    *)
(* it, or the death of the process, which replaces it.                      *)
LEMMA ServiceStepSynchronizer ==
  ServiceNext => [Next]_vars \/ NewSynchronizer
BY DEF ServiceNext, Enqueue, ServiceWorkerStep, ServiceClientStep, Crash, Die,
   ForwardThrows, Restart, DequeueMessage, DequeueNothing, Send,
   NotifyOutcome, Commit, Next, WorkerStep, MessageStep

(* The invariant of the synchronizer is kept by the service.                *)
LEMMA ServiceIInvStep ==
  ASSUME IInv, [ServiceNext]_serviceVars
  PROVE  IInv'
<1>1. [Next]_vars \/ NewSynchronizer
  BY ServiceStepSynchronizer DEF serviceVars, vars
<1>2. QED
  BY <1>1, NextIInv, NewSynchronizerIInv

(* Init.                                                                    *)
LEMMA ServiceInitInv == ServiceInit => ServiceInv
<1> SUFFICES ASSUME ServiceInit PROVE ServiceInv
  OBVIOUS
<1>1. IInv
  BY InitIInv DEF ServiceInit
<1>2. ServiceTypeOK
  BY <1>1 DEF ServiceInit, ServiceTypeOK, IInv, ConnectionStates
<1>3. TransactionsAgree /\ OneWorkerPerMessage
  BY DEF ServiceInit, Init, TransactionsAgree, OneWorkerPerMessage, Busy
<1>4. /\ pending \cap queue = {}
      /\ RemovedMeansForwardedAndLogged
      /\ SendsBoundedByCrashes
      /\ SendsAgree
  BY DEF ServiceInit, RemovedMeansForwardedAndLogged, SendsBoundedByCrashes,
     SendsAgree
<1>5. QED
  BY <1>1, <1>2, <1>3, <1>4 DEF ServiceInv

-----------------------------------------------------------------------------
(* The steps of the loop and of the client thread leave the workers that    *)
(* are busy with a message where they are.                                  *)
LEMMA LoopStepKeepsBusy ==
  ASSUME pc \in [Workers -> WorkerStates], NEW w \in Workers, LoopStep(w)
  PROVE  \A v \in Workers : /\ pc'[v] \in Busy <=> pc[v] \in Busy
                            /\ pc'[v] = "DequeueCommit" <=> pc[v] = "DequeueCommit"
BY DEF Busy, LoopStep, Goto, CheckSuspension, Decrement, ResetRunning,
   SetSuspended, WaitOne, Increment, ResetSuspended, SetRunning, Sleep,
   LoopTest, ExitDecrement, SetTerminating

(* The client's steps move no worker that has a message.                    *)
LEMMA ClientStepKeepsBusy ==
  ASSUME pc \in [Workers -> WorkerStates], ClientStep
  PROVE  \A v \in Workers : /\ pc'[v] \in Busy <=> pc[v] \in Busy
                            /\ pc'[v] = "DequeueCommit" <=> pc[v] = "DequeueCommit"
BY DEF Busy, ClientStep, Goto, StartThread, SuspendWorkers, SuspendReset,
   SuspendWait, SuspendDone, ResumeWorkers, ResumeWait, TerminateWorkers,
   TerminateTest, TerminateWait

(* A step that changes neither the queue nor the busy workers.             *)
Quiet ==
  /\ UNCHANGED <<dbVars, dequeuerVars, crashes>>
  /\ defaultProvider => defaultProvider'
  /\ \A v \in Workers : /\ pc'[v] \in Busy <=> pc[v] \in Busy
                        /\ pc'[v] = "DequeueCommit" <=> pc[v] = "DequeueCommit"

(* Steps that leave the database and the messages alone.                    *)
LEMMA QuietSteps ==
  ASSUME ServiceInv,
         \/ \E w \in Workers : LoopStep(w) /\ UNCHANGED <<dbVars, dequeuerVars,
                                                          processVars>>
         \/ ServiceClientStep \/ Restart \/ UNCHANGED serviceVars
  PROVE  Quiet
<1>1. pc \in [Workers -> WorkerStates]
  BY DEF ServiceInv, ServiceTypeOK, TypeOK
<1>2. CASE \E w \in Workers : LoopStep(w) /\ UNCHANGED <<dbVars, dequeuerVars,
                                                         processVars>>
  BY <1>1, <1>2, LoopStepKeepsBusy DEF Quiet, processVars
<1>3. CASE ServiceClientStep
  BY <1>1, <1>3, ClientStepKeepsBusy DEF Quiet, processVars, ServiceClientStep
<1>4. CASE Restart \/ UNCHANGED serviceVars
  <2>1. defaultProvider => defaultProvider'
    BY <1>4, Zenon DEF Restart, serviceVars
  <2>2. UNCHANGED <<dbVars, dequeuerVars, crashes, pc>>
    BY <1>4 DEF Restart, serviceVars, vars, dbVars, dequeuerVars
  <2>3. QED
    BY <2>1, <2>2 DEF Quiet
<1>5. QED
  BY <1>2, <1>3, <1>4

(* The process dies, of a message that was not sent or of something else.  *)
Died ==
  /\ Die
  /\ \/ crashes' = crashes + 1
     \/ UNCHANGED crashes /\ ~defaultProvider

(* The actions of ServiceNext, the quiet ones together.                    *)
LEMMA ServiceCases ==
  ASSUME ServiceInv, [ServiceNext]_serviceVars
  PROVE  \/ Quiet
         \/ \E m \in Messages : Enqueue(m)
         \/ \E w \in Workers : \/ DequeueMessage(w) \/ DequeueNothing(w)
                               \/ Send(w) \/ NotifyOutcome(w) \/ Commit(w)
         \/ Died
<1>1. Crash => Died
  BY DEF Crash, Died
<1>2. \A w \in Workers : ForwardThrows(w) => Died
  BY DEF ForwardThrows, Died
<1>3. QED
  BY <1>1, <1>2, QuietSteps DEF ServiceNext, ServiceWorkerStep

(* Types.                                                                   *)
LEMMA ServiceTypeStep ==
  ASSUME ServiceInv, [ServiceNext]_serviceVars
  PROVE  ServiceTypeOK'
<1>1. TypeOK'
  BY ServiceIInvStep DEF ServiceInv, IInv
<1> USE DEF ServiceInv, ServiceTypeOK, ConnectionStates, Outcomes, dbVars,
            dequeuerVars, processVars, serviceVars
<1>2. alive' \in BOOLEAN /\ crashes' \in 0..MaxCrashes
      /\ defaultProvider' \in BOOLEAN
  <2>1. CASE Crash
    <3>1. crashes \in 0..MaxCrashes /\ MaxCrashes \in Nat
      OBVIOUS
    <3>2. crashes < MaxCrashes /\ crashes' = crashes + 1
      BY <2>1 DEF Crash
    <3>3. alive' \in BOOLEAN /\ defaultProvider' = defaultProvider
      BY <2>1, Zenon DEF Crash, Die
    <3>4. QED
      BY <3>1, <3>2, <3>3
  <2>2. ASSUME NEW w \in Workers, ForwardThrows(w)
        PROVE  alive' \in BOOLEAN /\ UNCHANGED <<crashes, defaultProvider>>
    BY <2>2, Zenon DEF ForwardThrows, Die
  <2>3. CASE Restart
    <3>1. crashes' = crashes
      BY <2>3 DEF Restart
    <3>2. alive' \in BOOLEAN /\ defaultProvider' \in BOOLEAN
      BY <2>3, Zenon DEF Restart
    <3>3. QED
      BY <3>1, <3>2
  <2>4. ServiceNext \/ UNCHANGED serviceVars
          => \/ Crash \/ Restart \/ UNCHANGED processVars
             \/ \E w \in Workers : ForwardThrows(w)
    BY DEF ServiceNext, Enqueue, ServiceWorkerStep, ServiceClientStep,
       DequeueMessage, DequeueNothing, Send, NotifyOutcome, Commit
  <2>5. QED
    BY <2>1, <2>2, <2>3, <2>4
<1>3. pending' \subseteq Messages /\ queue' \subseteq Messages
  BY DEF ServiceNext, Enqueue, ServiceWorkerStep, ServiceClientStep, Crash,
     Die, ForwardThrows, Restart, DequeueMessage, DequeueNothing, Send,
     NotifyOutcome, Commit
<1>4. /\ connection' \in [Workers -> ConnectionStates]
      /\ received' \in [Workers -> Messages \cup {None}]
      /\ status' \in [Workers -> Outcomes \cup {None}]
  <2>1. CASE Died
    BY <2>1 DEF Died, Die
  <2>2. CASE Quiet
    BY <2>2 DEF Quiet
  <2>3. ASSUME NEW m \in Messages, Enqueue(m)
        PROVE  UNCHANGED dequeuerVars
    BY <2>3 DEF Enqueue
  <2>4. ASSUME NEW w \in Workers,
               \/ DequeueMessage(w) \/ DequeueNothing(w) \/ Send(w)
               \/ NotifyOutcome(w) \/ Commit(w)
        PROVE  /\ connection' \in [Workers -> ConnectionStates]
               /\ received' \in [Workers -> Messages \cup {None}]
               /\ status' \in [Workers -> Outcomes \cup {None}]
    BY <2>4 DEF DequeueMessage, DequeueNothing, Send, NotifyOutcome, Commit
  <2>5. QED
    BY <2>1, <2>2, <2>3, <2>4, ServiceCases
<1>5. /\ sends' \in [Messages -> Nat]
      /\ logged' \in [Messages -> Outcomes \cup {None}]
  <2>1. ASSUME NEW w \in Workers, Send(w)
        PROVE  sends' \in [Messages -> Nat] /\ logged' = logged
    <3>1. received[w] \in Messages
      BY <2>1 DEF Send, TransactionsAgree, Busy
    <3>2. QED
      BY <2>1, <3>1 DEF Send
  <2>2. ASSUME NEW w \in Workers, NotifyOutcome(w)
        PROVE  /\ sends' = sends
               /\ logged' \in [Messages -> Outcomes \cup {None}]
    BY <2>2 DEF NotifyOutcome
  <2>3. ASSUME NEW w \in Workers,
               DequeueMessage(w) \/ DequeueNothing(w) \/ Commit(w)
        PROVE  UNCHANGED <<sends, logged>>
    BY <2>3 DEF DequeueMessage, DequeueNothing, Commit
  <2>4. Quiet \/ Died \/ (\E m \in Messages : Enqueue(m))
          => UNCHANGED <<sends, logged>>
    BY DEF Quiet, Died, Die, Enqueue
  <2>5. QED
    BY <2>1, <2>2, <2>3, <2>4, ServiceCases
<1>6. QED
  BY <1>1, <1>2, <1>3, <1>4, <1>5

(* Transactions: a message is received by at most one worker, is in the     *)
(* queue while it is, and its send and its log precede the commit.          *)
LEMMA TransactionStep ==
  ASSUME ServiceInv, [ServiceNext]_serviceVars
  PROVE  TransactionsAgree' /\ OneWorkerPerMessage' /\ (pending \cap queue = {})'
<1> USE DEF ServiceInv, ServiceTypeOK, TypeOK, TransactionsAgree, Busy,
            OneWorkerPerMessage, dbVars, dequeuerVars, processVars, vars
<1>1. CASE Quiet
  BY <1>1 DEF Quiet
<1>2. ASSUME NEW m \in Messages, Enqueue(m)
      PROVE  TransactionsAgree' /\ OneWorkerPerMessage'
             /\ (pending \cap queue = {})'
  BY <1>2 DEF Enqueue
<1>3. ASSUME NEW w \in Workers, DequeueMessage(w)
      PROVE  TransactionsAgree' /\ OneWorkerPerMessage'
             /\ (pending \cap queue = {})'
  BY <1>3 DEF DequeueMessage, DequeueSms, Goto, Locked
<1>4. ASSUME NEW w \in Workers, DequeueNothing(w)
      PROVE  TransactionsAgree' /\ OneWorkerPerMessage'
             /\ (pending \cap queue = {})'
  BY <1>4 DEF DequeueNothing, DequeueNull, Goto
<1>5. ASSUME NEW w \in Workers, Send(w)
      PROVE  TransactionsAgree' /\ OneWorkerPerMessage'
             /\ (pending \cap queue = {})'
  BY <1>5 DEF Send, Outcomes
<1>6. ASSUME NEW w \in Workers, NotifyOutcome(w)
      PROVE  TransactionsAgree' /\ OneWorkerPerMessage'
             /\ (pending \cap queue = {})'
  BY <1>6 DEF NotifyOutcome, Forward, Goto
<1>7. ASSUME NEW w \in Workers, Commit(w)
      PROVE  TransactionsAgree' /\ OneWorkerPerMessage'
             /\ (pending \cap queue = {})'
  BY <1>7 DEF Commit, DequeueCommit, Goto
<1>8. CASE Died
  BY <1>8 DEF Died, Die, NewSynchronizer
<1>9. QED
  BY <1>1, <1>2, <1>3, <1>4, <1>5, <1>6, <1>7, <1>8, ServiceCases

(* A message leaves the queue only by the commit of the worker that sent    *)
(* and logged it.                                                           *)
LEMMA RemovedStep ==
  ASSUME ServiceInv, [ServiceNext]_serviceVars
  PROVE  RemovedMeansForwardedAndLogged'
<1> USE DEF ServiceInv, ServiceTypeOK, TypeOK, TransactionsAgree, Busy,
            RemovedMeansForwardedAndLogged, dbVars, dequeuerVars, processVars
<1>1. CASE Quiet
  BY <1>1 DEF Quiet
<1>2. ASSUME NEW m \in Messages, Enqueue(m)
      PROVE  RemovedMeansForwardedAndLogged'
  BY <1>2 DEF Enqueue
<1>3. ASSUME NEW w \in Workers, DequeueMessage(w) \/ DequeueNothing(w)
      PROVE  RemovedMeansForwardedAndLogged'
  BY <1>3 DEF DequeueMessage, DequeueNothing
<1>4. ASSUME NEW w \in Workers, Send(w)
      PROVE  RemovedMeansForwardedAndLogged'
  BY <1>4 DEF Send
<1>5. ASSUME NEW w \in Workers, NotifyOutcome(w)
      PROVE  RemovedMeansForwardedAndLogged'
  BY <1>5 DEF NotifyOutcome
<1>6. ASSUME NEW w \in Workers, Commit(w)
      PROVE  RemovedMeansForwardedAndLogged'
  <2>1. pc[w] = "DequeueCommit"
    BY <1>6 DEF Commit, DequeueCommit, Goto
  <2>2. sends[received[w]] > 0 /\ logged[received[w]] # None
    BY <2>1
  <2>3. QED
    BY <1>6, <2>2 DEF Commit
<1>7. CASE Died
  BY <1>7 DEF Died, Die
<1>8. QED
  BY <1>1, <1>2, <1>3, <1>4, <1>5, <1>6, <1>7, ServiceCases

(* A send is a delivery of a message that is queued, and those are at most  *)
(* as many as the crashes before: a crash is what makes a message queued    *)
(* again after it was delivered.  A process that dies for want of a default *)
(* provider has delivered nothing.                                          *)
LEMMA SendsStep ==
  ASSUME ServiceInv, [ServiceNext]_serviceVars
  PROVE  SendsAgree' /\ SendsBoundedByCrashes'
<1> USE DEF ServiceInv, ServiceTypeOK, TypeOK, SendsAgree,
            SendsBoundedByCrashes, Forwarded, dbVars, dequeuerVars, processVars
<1>1. CASE Quiet
  BY <1>1 DEF Quiet
<1>2. ASSUME NEW m \in Messages, Enqueue(m)
      PROVE  SendsAgree' /\ SendsBoundedByCrashes'
  BY <1>2 DEF Enqueue
<1>3. ASSUME NEW w \in Workers, DequeueMessage(w) \/ DequeueNothing(w)
      PROVE  SendsAgree' /\ SendsBoundedByCrashes'
  <2>1. /\ UNCHANGED <<pending, queue, sends, status, crashes>>
        /\ pc[w] \notin Busy
        /\ \A v \in Workers \ {w} : received'[v] = received[v]
    BY <1>3 DEF DequeueMessage, DequeueNothing, DequeueSms, DequeueNull, Goto,
       Busy
  <2>2. status[w] = None
    BY <2>1 DEF TransactionsAgree
  <2>3. \A m \in Messages : Forwarded(m)' <=> Forwarded(m)
    BY <2>1, <2>2
  <2>4. QED
    BY <2>1, <2>3
<1>4. ASSUME NEW w \in Workers, Send(w)
      PROVE  SendsAgree' /\ SendsBoundedByCrashes'
  <2>1. received[w] \in queue /\ status[w] = None /\ pc[w] = "Forward"
    BY <1>4 DEF Send, TransactionsAgree, Busy
  <2>2. ~Forwarded(received[w])
    BY <2>1 DEF OneWorkerPerMessage
  <2>3. sends[received[w]] <= crashes
    BY <2>1, <2>2
  <2>4. sends' = [sends EXCEPT ![received[w]] = @ + 1]
        /\ UNCHANGED <<pending, queue, received, crashes>>
    BY <1>4 DEF Send
  <2>5. Forwarded(received[w])'
    BY <1>4, <2>4 DEF Send, Outcomes
  <2>6. \A m \in Messages : Forwarded(m) => Forwarded(m)'
    BY <1>4, <2>1, <2>4 DEF Send
  <2>7. sends'[received[w]] = sends[received[w]] + 1
        /\ \A m \in Messages \ {received[w]} : sends'[m] = sends[m]
    BY <2>1, <2>4
  <2>8. sends[received[w]] \in Nat /\ crashes \in Nat
    BY <2>1
  <2>9. SendsAgree'
    <3>1. ASSUME NEW m \in pending' \cup queue', ~Forwarded(m)'
          PROVE  sends'[m] <= crashes'
      <4>1. m \in (pending \cup queue) \ {received[w]} /\ ~Forwarded(m)
        BY <2>4, <2>5, <2>6, <3>1
      <4>2. QED
        BY <2>4, <2>7, <4>1
    <3>2. QED
      BY <3>1
  <2>10. SendsBoundedByCrashes'
    BY <2>3, <2>4, <2>7, <2>8
  <2>11. QED
    BY <2>9, <2>10
<1>5. ASSUME NEW w \in Workers, NotifyOutcome(w)
      PROVE  SendsAgree' /\ SendsBoundedByCrashes'
  BY <1>5 DEF NotifyOutcome
<1>6. ASSUME NEW w \in Workers, Commit(w)
      PROVE  SendsAgree' /\ SendsBoundedByCrashes'
  <2>1. /\ UNCHANGED <<pending, sends, crashes>>
        /\ queue' = queue \ {received[w]}
        /\ \A v \in Workers \ {w} : received'[v] = received[v]
                                    /\ status'[v] = status[v]
    BY <1>6 DEF Commit
  <2>2. \A m \in Messages \ {received[w]} : Forwarded(m) => Forwarded(m)'
    BY <2>1
  <2>3. received[w] \notin pending \cup queue'
    BY <1>6, <2>1 DEF Commit, DequeueCommit, Goto, TransactionsAgree, Busy
  <2>4. QED
    BY <2>1, <2>2, <2>3
<1>7. CASE Died
  <2>1. UNCHANGED <<pending, queue, sends>>
    BY <1>7 DEF Died, Die
  <2>2. crashes \in Nat /\ \A m \in Messages : sends[m] \in Nat
    OBVIOUS
  <2>3. CASE crashes' = crashes + 1
    <3>1. SendsBoundedByCrashes' /\ \A m \in pending \cup queue : sends'[m] <= crashes'
      BY <2>1, <2>2, <2>3
    <3>2. QED
      BY <2>1, <3>1
  <2>4. CASE UNCHANGED crashes /\ ~defaultProvider
    <3>1. \A m \in Messages : ~Forwarded(m)
      BY <2>4 DEF TransactionsAgree
    <3>2. QED
      BY <2>1, <2>4, <3>1
  <2>5. QED
    BY <1>7, <2>3, <2>4 DEF Died
<1>8. QED
  BY <1>1, <1>2, <1>3, <1>4, <1>5, <1>6, <1>7, ServiceCases

(* The inductive invariant holds in every state.                            *)
THEOREM ServiceSpecInv == ServiceSpec => []ServiceInv
<1>1. ServiceInv /\ [ServiceNext]_serviceVars => ServiceInv'
  BY ServiceIInvStep, ServiceTypeStep, TransactionStep, RemovedStep, SendsStep
  DEF ServiceInv
<1>2. QED
  BY <1>1, ServiceInitInv, PTL DEF ServiceSpec

-----------------------------------------------------------------------------
(* Every variable of the service keeps its type.                           *)
THEOREM ServiceSpecTypeOK == ServiceSpec => []ServiceTypeOK
BY ServiceSpecInv, PTL DEF ServiceInv

(* No message is removed from the queue before it was sent and logged.     *)
THEOREM ServiceSpecRemoved == ServiceSpec => []RemovedMeansForwardedAndLogged
BY ServiceSpecInv, PTL DEF ServiceInv

(* Every message is sent at most once more than the process died.          *)
THEOREM ServiceSpecSends == ServiceSpec => []SendsBoundedByCrashes
BY ServiceSpecInv, PTL DEF ServiceInv

(* A worker that handles no message has no transaction open.               *)
THEOREM ServiceSpecLocks == ServiceSpec => []OnlyBusyWorkersLock
<1>1. ServiceInv => OnlyBusyWorkersLock
  BY DEF ServiceInv, TransactionsAgree, OnlyBusyWorkersLock, Busy
<1>2. QED
  BY <1>1, ServiceSpecInv, PTL

(* Without a default provider nothing is sent and nothing leaves the queue. *)
THEOREM ServiceSpecPoison == ServiceSpec => PoisonKeepsQueue
<1>1. ASSUME ServiceInv, [ServiceNext]_serviceVars, ~defaultProvider
      PROVE  queue \subseteq queue' /\ sends' = sends
  <2>1. ASSUME NEW w \in Workers
        PROVE  ~Send(w) /\ ~Commit(w)
    <3>1. status[w] = None /\ pc[w] # "DequeueCommit"
      BY <1>1 DEF ServiceInv, TransactionsAgree
    <3>2. QED
      BY <1>1, <3>1 DEF Send, Commit, DequeueCommit, Goto
  <2>2. ASSUME NEW w \in Workers,
               DequeueMessage(w) \/ DequeueNothing(w) \/ NotifyOutcome(w)
        PROVE  UNCHANGED <<queue, sends>>
    BY <2>2 DEF DequeueMessage, DequeueNothing, NotifyOutcome, dbVars
  <2>3. Quiet \/ Died => UNCHANGED <<queue, sends>>
    BY DEF Quiet, Died, Die, dbVars
  <2>4. ASSUME NEW m \in Messages, Enqueue(m)
        PROVE  queue \subseteq queue' /\ sends' = sends
    BY <2>4 DEF Enqueue
  <2>5. QED
    BY <1>1, <2>1, <2>2, <2>3, <2>4, ServiceCases
<1>2. QED
  BY <1>1, ServiceSpecInv, PTL DEF ServiceSpec, PoisonKeepsQueue

-----------------------------------------------------------------------------
(* What a commit removes, and what the calls of the client find.            *)

(* Between its log and its commit a worker's message has the outcome of     *)
(* that worker's send in the log.                                           *)
LogAgrees ==
  \A w \in Workers :
    pc[w] = "DequeueCommit" => logged[received[w]] = status[w]

(* No other worker has the message, so none logs another outcome of it.     *)
LEMMA LogStep ==
  ASSUME ServiceInv, LogAgrees, [ServiceNext]_serviceVars
  PROVE  LogAgrees'
<1> USE DEF ServiceInv, ServiceTypeOK, TypeOK, LogAgrees, dbVars,
            dequeuerVars, processVars, vars
<1>1. CASE Quiet
  BY <1>1 DEF Quiet
<1>2. ASSUME NEW m \in Messages, Enqueue(m) PROVE LogAgrees'
  BY <1>2 DEF Enqueue
<1>3. ASSUME NEW w \in Workers, DequeueMessage(w) \/ DequeueNothing(w)
      PROVE  LogAgrees'
  BY <1>3 DEF DequeueMessage, DequeueNothing, DequeueSms, DequeueNull, Goto
<1>4. ASSUME NEW w \in Workers, Send(w) PROVE LogAgrees'
  BY <1>4 DEF Send
<1>5. ASSUME NEW w \in Workers, NotifyOutcome(w) PROVE LogAgrees'
  <2>1. /\ pc[w] = "Forward" /\ pc' = [pc EXCEPT ![w] = "DequeueCommit"]
        /\ UNCHANGED <<received, status>>
        /\ logged' = [logged EXCEPT ![received[w]] = status[w]]
    BY <1>5 DEF NotifyOutcome, Forward, Goto
  <2>2. received[w] \in Messages
    BY <2>1 DEF TransactionsAgree, Busy
  <2>3. logged'[received'[w]] = status'[w]
    BY <2>1, <2>2
  <2>4. ASSUME NEW v \in Workers \ {w}, pc'[v] = "DequeueCommit"
        PROVE  logged'[received'[v]] = status'[v]
    <3>1. pc[v] = "DequeueCommit" /\ logged[received[v]] = status[v]
      BY <2>1, <2>4
    <3>2. received[v] \in Messages /\ received[v] # None
      BY <3>1, ServiceAssumption DEF TransactionsAgree, Busy
    <3>3. received[v] # received[w]
      BY <2>4, <3>2 DEF OneWorkerPerMessage
    <3>4. QED
      BY <2>1, <2>2, <3>1, <3>2, <3>3
  <2>5. ASSUME NEW v \in Workers, pc'[v] = "DequeueCommit"
        PROVE  logged'[received'[v]] = status'[v]
    <3>1. CASE v = w
      BY <2>3, <3>1
    <3>2. CASE v # w
      BY <2>4, <2>5, <3>2
    <3>3. QED
      BY <3>1, <3>2
  <2>6. QED
    BY <2>5
<1>6. ASSUME NEW w \in Workers, Commit(w) PROVE LogAgrees'
  BY <1>6 DEF Commit, DequeueCommit, Goto
<1>7. CASE Died
  BY <1>7 DEF Died, Die, NewSynchronizer
<1>8. QED
  BY <1>1, <1>2, <1>3, <1>4, <1>5, <1>6, <1>7, ServiceCases

(* It holds in every state.                                                 *)
LEMMA ServiceSpecLogAgrees == ServiceSpec => []LogAgrees
<1>1. ServiceInit => LogAgrees
  BY DEF ServiceInit, Init, LogAgrees
<1>2. QED
  BY <1>1, LogStep, ServiceSpecInv, PTL DEF ServiceSpec

(* What a step does to the message of a worker while the process lives.     *)
Stays(w) ==
  received[w] # None =>
    IF received'[w] = received[w]
    THEN received[w] \in queue'
    ELSE /\ pc[w] = "DequeueCommit" /\ received[w] \notin queue'
         /\ received'[w] = None /\ connection'[w] = "Closed"
         /\ logged[received[w]] = status[w]

(* A received message stays with its worker and in the queue until that     *)
(* worker commits, and the log then holds the outcome of that worker's send *)
(* (Smsc.cs:173-195, Dequeuer.cs:46-60).                                    *)
THEOREM ServiceSpecReceivedUntilCommitted ==
  ServiceSpec => ReceivedUntilCommitted
<1>1. ASSUME ServiceInv, LogAgrees, [ServiceNext]_serviceVars, alive, alive',
             NEW v \in Workers
      PROVE  Stays(v)
  <2> USE <1>1 DEF ServiceInv, ServiceTypeOK, TypeOK, Stays, dbVars,
                   dequeuerVars, processVars
  <2>1. received[v] # None => received[v] \in queue
    BY DEF TransactionsAgree
  <2>2. CASE Quiet
    BY <2>1, <2>2 DEF Quiet
  <2>3. ASSUME NEW m \in Messages, Enqueue(m) PROVE Stays(v)
    BY <2>1, <2>3 DEF Enqueue
  <2>4. ASSUME NEW w \in Workers, DequeueMessage(w) \/ DequeueNothing(w)
        PROVE  Stays(v)
    <3>1. pc[w] = "Dequeue" /\ UNCHANGED queue
          /\ \A u \in Workers \ {w} : received'[u] = received[u]
      BY <2>4 DEF DequeueMessage, DequeueNothing, DequeueSms, DequeueNull,
         Goto
    <3>2. received[w] = None
      BY <3>1 DEF TransactionsAgree, Busy
    <3>3. QED
      BY <2>1, <3>1, <3>2
  <2>5. ASSUME NEW w \in Workers, Send(w) \/ NotifyOutcome(w)
        PROVE  Stays(v)
    BY <2>1, <2>5 DEF Send, NotifyOutcome
  <2>6. ASSUME NEW w \in Workers, Commit(w) PROVE Stays(v)
    <3>1. /\ pc[w] = "DequeueCommit" /\ queue' = queue \ {received[w]}
          /\ received' = [received EXCEPT ![w] = None]
          /\ connection' = [connection EXCEPT ![w] = "Closed"]
      BY <2>6 DEF Commit, DequeueCommit, Goto
    <3>2. CASE v = w
      <4>1. received'[v] = None /\ connection'[v] = "Closed"
        BY <3>1, <3>2
      <4>2. logged[received[v]] = status[v] /\ received[v] \notin queue'
        BY <3>1, <3>2 DEF LogAgrees
      <4>3. QED
        BY <3>1, <3>2, <4>1, <4>2
    <3>3. CASE v # w
      <4>1. received'[v] = received[v]
        BY <3>1, <3>3
      <4>2. received[v] # None => received[v] # received[w]
        BY <3>3 DEF OneWorkerPerMessage
      <4>3. QED
        BY <2>1, <3>1, <4>1, <4>2
    <3>4. QED
      BY <3>2, <3>3
  <2>7. ~Died
    BY DEF Died, Die
  <2>8. QED
    BY <2>2, <2>3, <2>4, <2>5, <2>6, <2>7, ServiceCases
<1>2. ServiceInv /\ LogAgrees /\ [ServiceNext]_serviceVars =>
        [alive /\ alive' =>
           \A w \in Workers : received[w] # None =>
             IF received'[w] = received[w]
             THEN received[w] \in queue'
             ELSE /\ pc[w] = "DequeueCommit" /\ received[w] \notin queue'
                  /\ received'[w] = None /\ connection'[w] = "Closed"
                  /\ logged[received[w]] = status[w]]_serviceVars
  BY <1>1 DEF Stays
<1>3. QED
  BY <1>2, ServiceSpecInv, ServiceSpecLogAgrees, PTL
     DEF ServiceSpec, ReceivedUntilCommitted

(* A message that has left the queue of a service that never crashed was    *)
(* sent exactly once.                                                       *)
THEOREM ServiceSpecExactlyOnce ==
  ServiceSpec =>
    [](crashes = 0 => \A m \in Messages \ (pending \cup queue) : sends[m] = 1)
<1>1. ASSUME ServiceInv, crashes = 0,
             NEW m \in Messages \ (pending \cup queue)
      PROVE  sends[m] = 1
  <2>1. sends[m] \in Nat /\ sends[m] > 0 /\ sends[m] <= 1
    BY <1>1 DEF ServiceInv, ServiceTypeOK, RemovedMeansForwardedAndLogged,
       SendsBoundedByCrashes
  <2>2. QED
    BY <2>1
<1>2. ServiceInv =>
        (crashes = 0 =>
           \A m \in Messages \ (pending \cup queue) : sends[m] = 1)
  BY <1>1
<1>3. QED
  BY <1>2, ServiceSpecInv, PTL

(* When Terminate has returned no worker has a message or a transaction:    *)
(* every message of the queue is there for the next service.                *)
THEOREM ServiceSpecTerminatedFreesQueue ==
  ServiceSpec =>
    [](ctl = "Ready" /\ call = "Terminate" =>
         \A w \in Workers : received[w] = None /\ connection[w] # "Transaction")
<1>1. ASSUME ServiceInv, ctl = "Ready", call = "Terminate", NEW w \in Workers
      PROVE  received[w] = None /\ connection[w] # "Transaction"
  <2>1. pc[w] = "Exited"
    BY <1>1 DEF ServiceInv, IInv, EventsAgree, ClientAgrees
  <2>2. QED
    BY <1>1, <2>1 DEF ServiceInv, TransactionsAgree, Busy
<1>2. ServiceInv =>
        (ctl = "Ready" /\ call = "Terminate" =>
           \A w \in Workers :
             received[w] = None /\ connection[w] # "Transaction")
  BY <1>1
<1>3. QED
  BY <1>2, ServiceSpecInv, PTL

(* When the WaitAll of SuspendWorkers returns no message is received and    *)
(* not committed: what is in the queue then was not taken by any worker.    *)
THEOREM ServiceSpecSuspendFreesQueue ==
  ServiceSpec =>
    [][SuspendWait =>
         \A w \in Workers :
           received[w] = None /\ connection[w] # "Transaction"]_serviceVars
<1>1. ASSUME ServiceInv, SuspendWait, NEW w \in Workers
      PROVE  received[w] = None /\ connection[w] # "Transaction"
  <2>1. pc[w] \notin Busy
    BY <1>1 DEF SuspendWait, ServiceInv, IInv, EventsAgree, Busy
  <2>2. QED
    BY <1>1, <2>1 DEF ServiceInv, TransactionsAgree
<1>2. ServiceInv =>
        (SuspendWait =>
           \A w \in Workers :
             received[w] = None /\ connection[w] # "Transaction")
  BY <1>1
<1>3. QED
  BY <1>2, ServiceSpecInv, PTL DEF ServiceSpec

(* What the waits of the client rely on holds in the service as well: the   *)
(* next process starts from the state of a new synchronizer.                *)
LEMMA ServiceSpecWaitsAgree == ServiceSpec => []WaitsAgree
<1>1. Init => WaitsAgree
  BY DEF Init, WaitsAgree
<1>2. ServiceInit => WaitsAgree
  BY <1>1 DEF ServiceInit
<1>3. NewSynchronizer => WaitsAgree'
  BY DEF NewSynchronizer, WaitsAgree
<1>4. ServiceInv /\ WaitsAgree /\ [ServiceNext]_serviceVars => WaitsAgree'
  <2> SUFFICES ASSUME ServiceInv, WaitsAgree, [ServiceNext]_serviceVars
               PROVE  WaitsAgree'
    OBVIOUS
  <2>1. [Next]_vars \/ NewSynchronizer
    BY ServiceStepSynchronizer DEF serviceVars, vars
  <2>2. QED
    BY <2>1, <1>3, WaitsAgreeStep DEF ServiceInv
<1>5. QED
  BY <1>2, <1>4, ServiceSpecInv, PTL DEF ServiceSpec

(* The threads of the service, too, can all be blocked only after Terminate *)
(* was called: no crash and no restart brings them to it.                   *)
THEOREM ServiceSpecBlockedOnlyByTerminate ==
  ServiceSpec => [](AllBlocked => terminating)
<1>1. IInv /\ WaitsAgree => (AllBlocked => terminating)
  BY BlockedMeansTerminating
<1>2. ServiceInv => IInv
  BY DEF ServiceInv
<1>3. QED
  BY <1>1, <1>2, ServiceSpecInv, ServiceSpecWaitsAgree, PTL

-----------------------------------------------------------------------------
(* The refinement of AtLeastOnce.                                          *)

StageOf(m) == IF m \in pending THEN "New"
              ELSE IF m \notin queue THEN "Settled"
              ELSE IF Forwarded(m) THEN "Delivered"
              ELSE "Queued"

(* Stage, message by message.                                               *)
LEMMA StageIsStageOf == Stage = [m \in Messages |-> StageOf(m)]
BY DEF Stage, StageOf

(* A step that moves one message from one stage to another.                *)
LEMMA StageStep ==
  ASSUME NEW m \in Messages, NEW from, NEW to,
         StageOf(m) = from, StageOf(m)' = to,
         \A n \in Messages \ {m} : StageOf(n)' = StageOf(n)
  PROVE  Delivery!Advance(m, from, to)
<1>1. Stage' = [n \in Messages |-> StageOf(n)']
  BY DEF Stage, StageOf
<1>2. Stage[m] = from
  BY StageIsStageOf
<1>3. Stage' = [Stage EXCEPT ![m] = to]
  BY <1>1, StageIsStageOf
<1>4. QED
  BY <1>2, <1>3 DEF Delivery!Advance

(* A step that changes no stage is a stutter of AtLeastOnce.                *)
LEMMA StageStutter ==
  ASSUME \A n \in Messages : StageOf(n)' = StageOf(n), UNCHANGED sends
  PROVE  UNCHANGED Delivery!vars
BY DEF Stage, StageOf, Delivery!vars

(* A worker that is not busy has sent nothing, so what it receives next is  *)
(* queued; the receive itself moves no message.                             *)
LEMMA ReceiveKeepsForwarded ==
  ASSUME ServiceInv, NEW w \in Workers, DequeueMessage(w) \/ DequeueNothing(w)
  PROVE  /\ UNCHANGED <<pending, queue, sends>>
         /\ \A m \in Messages : Forwarded(m)' <=> Forwarded(m)
<1>1. /\ UNCHANGED <<pending, queue, sends, status>>
      /\ pc[w] \notin Busy
      /\ \A v \in Workers \ {w} : received'[v] = received[v]
  BY DEF DequeueMessage, DequeueNothing, DequeueSms, DequeueNull, Goto, Busy,
     ServiceInv, ServiceTypeOK, dbVars
<1>2. status[w] = None
  BY <1>1 DEF ServiceInv, TransactionsAgree
<1>3. QED
  BY <1>1, <1>2 DEF Forwarded

(* Each action moves at most one message, and a death takes back what was   *)
(* delivered and not committed.                                             *)
LEMMA DeliveryStep ==
  ASSUME ServiceInv, [ServiceNext]_serviceVars
  PROVE  [Delivery!Next]_(Delivery!vars)
<1> USE DEF ServiceInv, ServiceTypeOK, TypeOK, dbVars, dequeuerVars,
            processVars
<1>1. CASE Quiet
  BY <1>1, StageStutter DEF Quiet, StageOf, Forwarded
<1>2. ASSUME NEW m \in Messages, Enqueue(m)
      PROVE  Delivery!Next
  <2>1. ~Forwarded(m)
    BY <1>2 DEF Enqueue, Forwarded, TransactionsAgree, Busy
  <2>2. \A n \in Messages : Forwarded(n)' <=> Forwarded(n)
    BY <1>2 DEF Enqueue, Forwarded
  <2>3. StageOf(m) = "New" /\ StageOf(m)' = "Queued"
    BY <1>2, <2>1, <2>2 DEF Enqueue, StageOf
  <2>4. \A n \in Messages \ {m} : StageOf(n)' = StageOf(n)
    BY <1>2, <2>2 DEF Enqueue, StageOf
  <2>5. Delivery!Enqueue(m)
    BY <1>2, <2>3, <2>4, StageStep DEF Enqueue, Delivery!Enqueue
  <2>6. QED
    BY <2>5 DEF Delivery!Next
<1>3. ASSUME NEW w \in Workers, DequeueMessage(w) \/ DequeueNothing(w)
      PROVE  UNCHANGED Delivery!vars
  BY <1>3, ReceiveKeepsForwarded, StageStutter DEF StageOf
<1>4. ASSUME NEW w \in Workers, Send(w)
      PROVE  Delivery!Next
  <2>0. PICK m \in Messages : m = received[w]
    BY <1>4 DEF Send, TransactionsAgree, Busy
  <2>1. received[w] = m /\ m \in queue /\ m \notin pending /\ status[w] = None
    BY <1>4, <2>0 DEF Send, TransactionsAgree, Busy
  <2>2. ~Forwarded(m)
    BY <2>1 DEF Forwarded, OneWorkerPerMessage
  <2>3. UNCHANGED <<pending, queue, received>>
        /\ sends' = [sends EXCEPT ![m] = @ + 1]
        /\ status'[w] \in Outcomes
        /\ \A v \in Workers \ {w} : status'[v] = status[v]
    BY <1>4, <2>1 DEF Send, Outcomes
  <2>4. \E v \in Workers : received'[v] = m /\ status'[v] # None
    BY <2>1, <2>3
  <2>5. StageOf(m) = "Queued" /\ StageOf(m)' = "Delivered"
    BY <2>1, <2>2, <2>3, <2>4 DEF StageOf, Forwarded
  <2>6. \A n \in Messages \ {m} : StageOf(n)' = StageOf(n)
    BY <2>1, <2>3 DEF StageOf, Forwarded
  <2>7. Delivery!Advance(m, "Queued", "Delivered")
    BY <2>1, <2>5, <2>6, StageStep
  <2>8. Delivery!Deliver(m)
    BY <2>3, <2>7 DEF Delivery!Deliver
  <2>9. QED
    BY <2>1, <2>8 DEF Delivery!Next
<1>5. ASSUME NEW w \in Workers, NotifyOutcome(w)
      PROVE  UNCHANGED Delivery!vars
  BY <1>5, StageStutter DEF NotifyOutcome, StageOf, Forwarded
<1>6. ASSUME NEW w \in Workers, Commit(w)
      PROVE  Delivery!Next
  <2>0. PICK m \in Messages : m = received[w]
    BY <1>6 DEF Commit, DequeueCommit, Goto, TransactionsAgree, Busy
  <2>1. received[w] = m /\ m \in queue /\ m \notin pending /\ status[w] # None
    BY <1>6, <2>0 DEF Commit, DequeueCommit, Goto, TransactionsAgree, Busy
  <2>2. /\ UNCHANGED <<pending, sends>>
        /\ queue' = queue \ {m}
        /\ \A v \in Workers \ {w} : received'[v] = received[v]
                                    /\ status'[v] = status[v]
        /\ received'[w] = None
    BY <1>6, <2>1 DEF Commit
  <2>3. StageOf(m) = "Delivered" /\ StageOf(m)' = "Settled"
    BY <2>1, <2>2 DEF StageOf, Forwarded
  <2>4. ASSUME NEW n \in Messages \ {m}
        PROVE  StageOf(n)' = StageOf(n)
    <3>1. n # None /\ n # m /\ n \in Messages
      OBVIOUS
    <3>2. \A v \in Workers : received'[v] = n /\ status'[v] # None
                           <=> received[v] = n /\ status[v] # None
      BY <2>1, <2>2, <3>1
    <3>3. Forwarded(n)' <=> Forwarded(n)
      BY <3>2 DEF Forwarded
    <3>4. n \in queue' <=> n \in queue
      BY <2>2
    <3>5. QED
      BY <2>2, <3>3, <3>4 DEF StageOf
  <2>5. Delivery!Settle(m)
    BY <2>1, <2>2, <2>3, <2>4, StageStep DEF Delivery!Settle
  <2>6. QED
    BY <2>1, <2>5 DEF Delivery!Next
<1>7. CASE Died
  <2>1. UNCHANGED <<pending, queue, sends>>
        /\ \A v \in Workers : status'[v] = None
    BY <1>7 DEF Died, Die
  <2>2. \A m \in Messages :
          StageOf(m)' = IF StageOf(m) = "Delivered" THEN "Queued"
                                                    ELSE StageOf(m)
    BY <2>1 DEF StageOf, Forwarded
  <2>3. Stage' = [m \in Messages |->
                    IF Stage[m] = "Delivered" THEN "Queued" ELSE Stage[m]]
    BY <2>2, StageIsStageOf DEF Stage, StageOf
  <2>4. QED
    BY <2>1, <2>3 DEF Delivery!TakeBack, Delivery!Next
<1>8. QED
  BY <1>1, <1>2, <1>3, <1>4, <1>5, <1>6, <1>7, ServiceCases

(* The dequeue service delivers every message at least once, and again only *)
(* after a crash.                                                           *)
THEOREM ServiceImplementsAtLeastOnce == ServiceSpec => ImplementsAtLeastOnce
<1>1. ServiceInit => Delivery!Init
  BY DEF ServiceInit, Delivery!Init, Stage
<1>2. ServiceInv /\ [ServiceNext]_serviceVars => [Delivery!Next]_(Delivery!vars)
  BY DeliveryStep
<1>3. QED
  BY <1>1, <1>2, ServiceSpecInv, PTL
  DEF ServiceSpec, ImplementsAtLeastOnce, Delivery!Spec
=============================================================================
