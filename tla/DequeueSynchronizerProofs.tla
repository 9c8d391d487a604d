-------------------- MODULE DequeueSynchronizerProofs --------------------
(* Proofs about DequeueSynchronizer, for every finite set of workers.      *)
EXTENDS DequeueSynchronizer, FiniteSetTheorems, TLAPS

(* Where each event handle stands, from where its worker stands.           *)
EventsAgree ==
  /\ suspendedWorkerEvents =
       {w \in Workers : pc[w] \in {"WaitOne", "Increment", "ResetSuspended"}}
  /\ terminatingWorkerEvents = {w \in Workers : pc[w] = "Exited"}
  /\ \A w \in runningWorkerEvents :
       pc[w] \notin {"SetSuspended", "WaitOne", "Increment", "ResetSuspended",
                     "SetRunning"}

(* Where the flags stand, from where the client thread stands.             *)
ClientAgrees ==
  /\ suspending <=> ctl \in {"Construct", "SuspendReset", "SuspendWait",
                             "SuspendDone"}
  /\ ctl = "Construct" => call = "New"
  /\ ctl \in {"SuspendReset", "SuspendWait", "SuspendDone"} =>
       call \in {"New", "Suspend"}
  /\ ctl = "ResumeWait" => call \in {"Start", "Terminate"}
  /\ ctl \in {"TerminateTest", "ResumeSet", "TerminateWait"} =>
       call = "Terminate"
  /\ ctl = "SuspendWait" => ~suspendWorkersEvent
  /\ ctl = "Ready" /\ call = "Terminate" => terminatingWorkerEvents = Workers
  /\ \A w \in Workers :
       pc[w] \in {"ExitDecrement", "SetTerminating", "Exited"} => terminating

IInv == TypeOK /\ CounterAgrees /\ EventsAgree /\ ClientAgrees

USE WorkersAssumption DEF MaxWaitHandles

(* A set of workers is finite and no larger than TotalWorkers.             *)
LEMMA WorkersFinite ==
  ASSUME NEW S, S \subseteq Workers
  PROVE  IsFiniteSet(S) /\ Cardinality(S) \in 0..TotalWorkers
<1>1. IsFiniteSet(S) /\ Cardinality(S) <= Cardinality(Workers)
  BY FS_Subset
<1>2. Cardinality(S) \in Nat /\ Cardinality(Workers) \in Nat
  BY <1>1, FS_CardinalityType
<1>3. QED
  BY <1>1, <1>2 DEF TotalWorkers

(* A worker that moves between two statements that are counted alike       *)
(* leaves the counted workers as they are.                                 *)
LEMMA MoveKeepsCounted ==
  ASSUME pc \in [Workers -> WorkerStates],
         NEW w \in Workers, NEW STATE from, NEW STATE to, Goto(w, from, to),
         from \in NotCountedStates <=> to \in NotCountedStates
  PROVE  Counted' = Counted
BY DEF Counted, Goto, NotCountedStates

(* A decrement is where a worker leaves the counted workers.               *)
LEMMA MoveOutOfCounted ==
  ASSUME pc \in [Workers -> WorkerStates],
         NEW w \in Workers, NEW STATE from, NEW STATE to, Goto(w, from, to),
         from \notin NotCountedStates, to \in NotCountedStates
  PROVE  Cardinality(Counted') = Cardinality(Counted) - 1
<1>1. Counted' = Counted \ {w} /\ w \in Counted
  BY DEF Counted, Goto, NotCountedStates
<1>2. IsFiniteSet(Counted)
  BY WorkersFinite DEF Counted
<1>3. QED
  BY <1>1, <1>2, FS_RemoveElement

(* The increment is where a worker comes back to the counted workers.      *)
LEMMA MoveIntoCounted ==
  ASSUME pc \in [Workers -> WorkerStates],
         NEW w \in Workers, NEW STATE from, NEW STATE to, Goto(w, from, to),
         from \in NotCountedStates, to \notin NotCountedStates
  PROVE  Cardinality(Counted') = Cardinality(Counted) + 1
<1>1. Counted' = Counted \cup {w} /\ w \notin Counted
  BY DEF Counted, Goto, NotCountedStates
<1>2. IsFiniteSet(Counted)
  BY WorkersFinite DEF Counted
<1>3. QED
  BY <1>1, <1>2, FS_AddElement

(* The steps that move a worker and leave the counter alone.               *)
QuietStep(w) ==
  \/ CheckSuspension(w) \/ ResetRunning(w) \/ SetSuspended(w) \/ WaitOne(w)
  \/ ResetSuspended(w) \/ SetRunning(w) \/ DequeueSms(w) \/ DequeueNull(w)
  \/ Forward(w) \/ DequeueCommit(w) \/ Sleep(w) \/ LoopTest(w)
  \/ SetTerminating(w) \/ StartThread(w)

(* The counter follows the counted workers through every step.             *)
LEMMA CounterStep ==
  ASSUME pc \in [Workers -> WorkerStates], runningWorkers \in Int,
         CounterAgrees, [Next]_vars
  PROVE  CounterAgrees'
<1> USE DEF CounterAgrees
<1>1. ASSUME NEW w \in Workers, QuietStep(w)
      PROVE  CounterAgrees'
  <2>1. runningWorkers' = runningWorkers
    BY <1>1 DEF QuietStep, CheckSuspension, ResetRunning, SetSuspended,
       WaitOne, ResetSuspended, SetRunning, DequeueSms, DequeueNull, Forward,
       DequeueCommit, Sleep, LoopTest, SetTerminating, StartThread, sharedVars
  <2>2. Counted' = Counted
    BY <1>1, MoveKeepsCounted DEF QuietStep, CheckSuspension, ResetRunning,
       SetSuspended, WaitOne, ResetSuspended, SetRunning, DequeueSms,
       DequeueNull, Forward, DequeueCommit, Sleep, LoopTest, SetTerminating,
       StartThread, NotCountedStates
  <2>3. QED
    BY <2>1, <2>2
<1>2. ASSUME NEW w \in Workers, Decrement(w)
      PROVE  CounterAgrees'
  BY <1>2, MoveOutOfCounted DEF Decrement, NotCountedStates
<1>3. ASSUME NEW w \in Workers, ExitDecrement(w)
      PROVE  CounterAgrees'
  BY <1>3, MoveOutOfCounted DEF ExitDecrement, NotCountedStates
<1>4. ASSUME NEW w \in Workers, Increment(w)
      PROVE  CounterAgrees'
  BY <1>4, MoveIntoCounted DEF Increment, NotCountedStates
<1>5. ASSUME UNCHANGED <<runningWorkers, pc>>
      PROVE  CounterAgrees'
  BY <1>5 DEF Counted
<1>6. SuspendWorkers \/ SuspendReset \/ SuspendWait \/ SuspendDone
      \/ ResumeWorkers \/ ResumeWait \/ TerminateWorkers \/ TerminateTest
      \/ TerminateWait \/ UNCHANGED vars => UNCHANGED <<runningWorkers, pc>>
  BY DEF SuspendWorkers, SuspendReset, SuspendWait, SuspendDone,
     ResumeWorkers, ResumeWait, TerminateWorkers, TerminateTest,
     TerminateWait, sharedVars, vars
<1>7. QED
  BY <1>1, <1>2, <1>3, <1>4, <1>5, <1>6
  DEF Next, ClientStep, MessageStep, LoopStep, WorkerStep, QuietStep

-----------------------------------------------------------------------------
(* The initial state: every worker is counted, no event of a worker is set. *)
LEMMA InitIInv == Init => IInv
<1> SUFFICES ASSUME Init PROVE IInv
  OBVIOUS
<1>1. Counted = Workers
  BY DEF Init, Counted, NotCountedStates
<1>2. runningWorkers \in 0..TotalWorkers /\ CounterAgrees
  BY <1>1, WorkersFinite DEF Init, CounterAgrees, TotalWorkers
<1>3. TypeOK
  BY <1>2 DEF Init, TypeOK, WorkerStates, ClientStates, Calls
<1>4. EventsAgree /\ ClientAgrees
  BY DEF Init, EventsAgree, ClientAgrees
<1>5. QED
  BY <1>2, <1>3, <1>4 DEF IInv

(* Every step keeps the types, the counter's apart.                        *)
LEMMA TypeStep ==
  ASSUME TypeOK, [Next]_vars
  PROVE  /\ <<terminating, suspending, suspendWorkersEvent>>' \in
                BOOLEAN \X BOOLEAN \X BOOLEAN
         /\ runningWorkerEvents' \subseteq Workers
         /\ suspendedWorkerEvents' \subseteq Workers
         /\ terminatingWorkerEvents' \subseteq Workers
         /\ pc' \in [Workers -> WorkerStates]
         /\ ctl' \in ClientStates
         /\ call' \in Calls
<1> USE DEF TypeOK, WorkerStates, ClientStates, Calls, sharedVars, clientVars
<1>1. ASSUME NEW w \in Workers, WorkerStep(w) \/ StartThread(w)
      PROVE  pc' \in [Workers -> WorkerStates]
  BY <1>1 DEF MessageStep, LoopStep, WorkerStep, StartThread, Goto, CheckSuspension, Decrement,
     ResetRunning, SetSuspended, WaitOne, Increment, ResetSuspended,
     SetRunning, DequeueSms, DequeueNull, Forward, DequeueCommit, Sleep,
     LoopTest, ExitDecrement, SetTerminating
<1>2. ASSUME NEW w \in Workers, WorkerStep(w) \/ StartThread(w)
      PROVE  /\ UNCHANGED <<terminating, suspending, suspendWorkersEvent,
                            ctl, call>>
             /\ runningWorkerEvents' \subseteq Workers
             /\ suspendedWorkerEvents' \subseteq Workers
             /\ terminatingWorkerEvents' \subseteq Workers
  BY <1>2 DEF MessageStep, LoopStep, WorkerStep, StartThread, CheckSuspension, Decrement,
     ResetRunning, SetSuspended, WaitOne, Increment, ResetSuspended,
     SetRunning, DequeueSms, DequeueNull, Forward, DequeueCommit, Sleep,
     LoopTest, ExitDecrement, SetTerminating
<1>3. CASE SuspendWorkers \/ SuspendReset \/ SuspendWait \/ SuspendDone
  BY <1>3 DEF SuspendWorkers, SuspendReset, SuspendWait, SuspendDone
<1>4. CASE ResumeWorkers \/ ResumeWait
  BY <1>4 DEF ResumeWorkers, ResumeWait
<1>5. CASE TerminateWorkers \/ TerminateTest \/ TerminateWait
  BY <1>5 DEF TerminateWorkers, TerminateTest, TerminateWait
<1>6. CASE UNCHANGED vars
  BY <1>6 DEF vars
<1>7. QED
  BY <1>1, <1>2, <1>3, <1>4, <1>5, <1>6 DEF Next, ClientStep

(* The event handles follow the workers: the steps that set or reset one    *)
(* move exactly that worker into or out of the statements it stands for.    *)
LEMMA EventsStep ==
  ASSUME TypeOK, EventsAgree, [Next]_vars
  PROVE  EventsAgree'
<1> USE DEF TypeOK, EventsAgree, sharedVars
<1>1. ASSUME NEW w \in Workers, SetSuspended(w) \/ ResetSuspended(w)
      PROVE  EventsAgree'
  BY <1>1 DEF SetSuspended, ResetSuspended, Goto
<1>2. ASSUME NEW w \in Workers, SetRunning(w) \/ ResetRunning(w)
      PROVE  EventsAgree'
  BY <1>2 DEF SetRunning, ResetRunning, Goto
<1>3. ASSUME NEW w \in Workers, SetTerminating(w)
      PROVE  EventsAgree'
  BY <1>3 DEF SetTerminating, Goto
<1>4. ASSUME NEW w \in Workers, WaitOne(w) \/ Increment(w)
      PROVE  EventsAgree'
  BY <1>4 DEF WaitOne, Increment, Goto
<1>5. ASSUME NEW w \in Workers,
             \/ CheckSuspension(w) \/ Decrement(w) \/ DequeueSms(w)
             \/ DequeueNull(w) \/ Forward(w) \/ DequeueCommit(w) \/ Sleep(w)
             \/ LoopTest(w) \/ ExitDecrement(w) \/ StartThread(w)
      PROVE  EventsAgree'
  BY <1>5 DEF CheckSuspension, Decrement, DequeueSms, DequeueNull, Forward,
     DequeueCommit, Sleep, LoopTest, ExitDecrement, StartThread, Goto
<1>6. CASE UNCHANGED <<runningWorkerEvents, suspendedWorkerEvents,
                       terminatingWorkerEvents, pc>>
  BY <1>6
<1>7. \/ SuspendWorkers \/ SuspendReset \/ SuspendWait \/ SuspendDone
      \/ ResumeWorkers \/ ResumeWait \/ TerminateWorkers \/ TerminateTest
      \/ TerminateWait \/ UNCHANGED vars
      => UNCHANGED <<runningWorkerEvents, suspendedWorkerEvents,
                     terminatingWorkerEvents, pc>>
  BY DEF SuspendWorkers, SuspendReset, SuspendWait, SuspendDone,
     ResumeWorkers, ResumeWait, TerminateWorkers, TerminateTest,
     TerminateWait, vars
<1>8. QED
  BY <1>1, <1>2, <1>3, <1>4, <1>5, <1>6, <1>7 DEF Next, ClientStep, MessageStep, LoopStep, WorkerStep

(* The flags follow the client thread; a worker leaves its loop only after  *)
(* _terminating was set, and a terminating event is never reset.            *)
LEMMA ClientAgreesStep ==
  ASSUME TypeOK, EventsAgree, ClientAgrees, [Next]_vars
  PROVE  ClientAgrees'
<1> USE DEF TypeOK, ClientAgrees, sharedVars, clientVars
<1>1. ASSUME NEW w \in Workers,
             \/ CheckSuspension(w) \/ Decrement(w) \/ ResetRunning(w)
             \/ SetSuspended(w) \/ WaitOne(w) \/ Increment(w)
             \/ ResetSuspended(w) \/ SetRunning(w) \/ DequeueSms(w)
             \/ DequeueNull(w) \/ Forward(w) \/ DequeueCommit(w) \/ Sleep(w)
             \/ StartThread(w)
      PROVE  ClientAgrees'
  BY <1>1 DEF CheckSuspension, Decrement, ResetRunning, SetSuspended, WaitOne,
     Increment, ResetSuspended, SetRunning, DequeueSms, DequeueNull, Forward,
     DequeueCommit, Sleep, StartThread, Goto
<1>2. ASSUME NEW w \in Workers, LoopTest(w) \/ ExitDecrement(w)
      PROVE  ClientAgrees'
  BY <1>2 DEF LoopTest, ExitDecrement, Goto
<1>3. ASSUME NEW w \in Workers, SetTerminating(w)
      PROVE  ClientAgrees'
  BY <1>3 DEF SetTerminating, Goto
<1>4. CASE SuspendWorkers \/ SuspendReset \/ SuspendWait \/ SuspendDone
  BY <1>4 DEF SuspendWorkers, SuspendReset, SuspendWait, SuspendDone
<1>5. CASE ResumeWorkers \/ ResumeWait
  BY <1>5 DEF ResumeWorkers, ResumeWait
<1>6. CASE TerminateWorkers \/ TerminateTest \/ TerminateWait
  BY <1>6 DEF TerminateWorkers, TerminateTest, TerminateWait
<1>7. CASE UNCHANGED vars
  BY <1>7 DEF vars
<1>8. QED
  BY <1>1, <1>2, <1>3, <1>4, <1>5, <1>6, <1>7 DEF Next, ClientStep, MessageStep, LoopStep, WorkerStep

(* The four parts together are inductive.                                  *)
LEMMA NextIInv == IInv /\ [Next]_vars => IInv'
<1> SUFFICES ASSUME IInv, [Next]_vars PROVE IInv'
  OBVIOUS
<1>1. EventsAgree' /\ ClientAgrees'
  BY EventsStep, ClientAgreesStep DEF IInv
<1>2. CounterAgrees'
  <2>1. pc \in [Workers -> WorkerStates] /\ runningWorkers \in Int
    BY DEF IInv, TypeOK, TotalWorkers
  <2>2. QED
    BY <2>1, CounterStep DEF IInv
<1>3. Cardinality(Counted') \in 0..TotalWorkers
  BY WorkersFinite DEF Counted
<1>4. TypeOK'
  BY <1>2, <1>3, TypeStep DEF IInv, TypeOK, CounterAgrees, TotalWorkers
<1>5. QED
  BY <1>1, <1>2, <1>4 DEF IInv

(* The inductive invariant holds in every state.                            *)
THEOREM SpecIInv == Spec => []IInv
BY InitIInv, NextIInv, PTL DEF Spec

-----------------------------------------------------------------------------
(* Every variable keeps its type; the counter stays between 0 and           *)
(* TotalWorkers.                                                            *)
THEOREM SpecTypeOK == Spec => []TypeOK
BY SpecIInv, PTL DEF IInv

(* RunningWorkers counts exactly the workers outside the suspension section *)
(* that have not begun to exit.                                             *)
THEOREM SpecCounterAgrees == Spec => []CounterAgrees
BY SpecIInv, PTL DEF IInv

(* When Terminate has returned every worker has exited and RunningWorkers   *)
(* is 0.                                                                    *)
THEOREM SpecTerminatedMeansStopped == Spec => []TerminatedMeansStopped
<1>1. IInv => TerminatedMeansStopped
  <2> SUFFICES ASSUME IInv, ctl = "Ready", call = "Terminate"
               PROVE  /\ \A w \in Workers : pc[w] = "Exited"
                      /\ runningWorkers = 0
    BY DEF TerminatedMeansStopped
  <2>1. \A w \in Workers : pc[w] = "Exited"
    BY DEF IInv, EventsAgree, ClientAgrees
  <2>2. Counted = {}
    BY <2>1 DEF Counted, NotCountedStates
  <2>3. runningWorkers = 0
    BY <2>2, FS_EmptySet DEF IInv, CounterAgrees
  <2>4. QED
    BY <2>1, <2>3
<1>2. QED
  BY <1>1, SpecIInv, PTL

(* SuspendWorkers never returns from its WaitAll over a message that some   *)
(* worker is still handling.                                                *)
THEOREM SpecSuspendWaitsForMessages == Spec => SuspendWaitsForMessages
<1>1. IInv /\ [Next]_vars =>
        [SuspendWait => \A w \in Workers : pc[w] \notin
           {"Dequeue", "Forward", "DequeueCommit"}]_vars
  BY DEF IInv, EventsAgree, SuspendWait
<1>2. QED
  BY <1>1, SpecIInv, PTL DEF Spec, SuspendWaitsForMessages

(* ResumeWorkers never returns while a worker is parked at the reset event  *)
(* or on its way out of the suspension section.                             *)
THEOREM SpecResumeLeavesNobodyParked == Spec => ResumeLeavesNobodyParked
<1>1. IInv /\ [Next]_vars =>
        [ResumeWait => \A w \in Workers : pc[w] \notin
           {"WaitOne", "Increment", "ResetSuspended", "SetRunning"}]_vars
  BY DEF IInv, EventsAgree, ResumeWait
<1>2. QED
  BY <1>1, SpecIInv, PTL DEF Spec, ResumeLeavesNobodyParked

-----------------------------------------------------------------------------
(* Where the service can stop for good.                                    *)

(* The workers that are not inside the suspension section.                 *)
Outside == {w \in Workers :
              pc[w] \notin {"Unstarted", "SetSuspended", "WaitOne",
                           "Increment", "ResetSuspended", "SetRunning"}}

(* The constructor suspends the workers when all of them were started; a   *)
(* Start waits with the gate open; a Terminate has set its flag; and from  *)
(* the end of the constructor on, when every worker has been through the   *)
(* suspension section, the running events are exactly those of the workers *)
(* outside of it.                                                          *)
WaitsAgree ==
  /\ ctl # "Construct" => \A w \in Workers : pc[w] # "Unstarted"
  /\ ctl = "ResumeWait" => suspendWorkersEvent
  /\ call = "Terminate" => terminating
  /\ call # "New" \/ ctl \in {"SuspendDone", "Ready"} =>
       runningWorkerEvents = Outside

(* With the inductive invariant, every step keeps it.                       *)
LEMMA WaitsAgreeStep ==
  ASSUME IInv, WaitsAgree, [Next]_vars
  PROVE  WaitsAgree'
<1> USE DEF IInv, TypeOK, WaitsAgree, Outside, sharedVars, clientVars
<1>1. ASSUME NEW w \in Workers,
             \/ CheckSuspension(w) \/ Decrement(w) \/ WaitOne(w)
             \/ Increment(w) \/ DequeueSms(w) \/ DequeueNull(w) \/ Forward(w)
             \/ DequeueCommit(w) \/ Sleep(w) \/ LoopTest(w)
             \/ ExitDecrement(w) \/ SetTerminating(w)
      PROVE  WaitsAgree'
  BY <1>1 DEF CheckSuspension, Decrement, WaitOne, Increment, DequeueSms,
     DequeueNull, Forward, DequeueCommit, Sleep, LoopTest, ExitDecrement,
     SetTerminating, Goto
<1>2. ASSUME NEW w \in Workers, ResetRunning(w) \/ SetRunning(w)
      PROVE  WaitsAgree'
  BY <1>2 DEF ResetRunning, SetRunning, Goto
<1>3. ASSUME NEW w \in Workers, SetSuspended(w) \/ ResetSuspended(w)
      PROVE  WaitsAgree'
  BY <1>3 DEF SetSuspended, ResetSuspended, Goto
<1>4. ASSUME NEW w \in Workers, StartThread(w)
      PROVE  WaitsAgree'
  BY <1>4 DEF StartThread, Goto, ClientAgrees
<1>5. CASE SuspendWorkers \/ SuspendReset \/ SuspendDone
  BY <1>5 DEF SuspendWorkers, SuspendReset, SuspendDone, ClientAgrees
<1>6. CASE SuspendWait
  <2>1. \A w \in Workers :
          pc[w] \in {"WaitOne", "Increment", "ResetSuspended"}
    BY <1>6 DEF SuspendWait, EventsAgree
  <2>2. Outside = {} /\ runningWorkerEvents = {}
    BY <2>1 DEF EventsAgree
  <2>3. QED
    BY <1>6, <2>1, <2>2 DEF SuspendWait
<1>7. CASE ResumeWorkers \/ ResumeWait
  BY <1>7 DEF ResumeWorkers, ResumeWait, ClientAgrees
<1>8. CASE TerminateWorkers \/ TerminateTest \/ TerminateWait
  BY <1>8 DEF TerminateWorkers, TerminateTest, TerminateWait, ClientAgrees
<1>9. CASE UNCHANGED vars
  BY <1>9 DEF vars
<1>10. QED
  BY <1>1, <1>2, <1>3, <1>4, <1>5, <1>6, <1>7, <1>8, <1>9
  DEF Next, ClientStep, MessageStep, LoopStep, WorkerStep

(* It holds in every state.                                                 *)
THEOREM SpecWaitsAgree == Spec => []WaitsAgree
<1>1. Init => WaitsAgree
  BY DEF Init, WaitsAgree
<1>2. IInv /\ WaitsAgree /\ [Next]_vars => WaitsAgree'
  BY WaitsAgreeStep
<1>3. QED
  BY <1>1, <1>2, SpecIInv, PTL DEF Spec

(* The waits in which everything stops: only a Suspend over a worker that  *)
(* has exited, and a Terminate behind a reset event.  A Start is not among *)
(* them, because its workers pass the open gate and signal.                *)
LEMMA BlockedShapes ==
  ASSUME IInv, WaitsAgree
  PROVE  DeadlockShapes
<1> SUFFICES ASSUME AllBlocked
             PROVE  \/ ctl = "SuspendWait" /\ (\E w \in Workers : pc[w] = "Exited")
                    \/ /\ ctl = "TerminateWait"
                       /\ ~suspendWorkersEvent
                       /\ \A w \in Workers : pc[w] \in {"WaitOne", "Exited"}
  BY DEF DeadlockShapes
<1> USE DEF IInv, TypeOK, AllBlocked, WorkerBlocked
<1>1. ctl # "Construct" /\ \A w \in Workers : pc[w] \in {"WaitOne", "Exited"}
  BY DEF ClientBlocked, WaitsAgree
<1>2. CASE ctl = "SuspendWait" /\ suspendedWorkerEvents # Workers
  BY <1>1, <1>2 DEF EventsAgree
<1>3. CASE ctl = "ResumeWait" /\ runningWorkerEvents # Workers
  <2>1. \A w \in Workers : pc[w] = "Exited"
    BY <1>1, <1>3 DEF WaitsAgree
  <2>2. runningWorkerEvents = Outside
    BY <1>3 DEF WaitsAgree, ClientAgrees
  <2>3. QED
    BY <1>3, <2>1, <2>2 DEF Outside
<1>4. CASE ctl = "TerminateWait" /\ terminatingWorkerEvents # Workers
  <2>1. \E w \in Workers : pc[w] # "Exited"
    BY <1>4 DEF EventsAgree
  <2>2. QED
    BY <1>1, <1>4, <2>1
<1>5. QED
  BY <1>2, <1>3, <1>4 DEF ClientBlocked

(* The service stops for good in two ways only: in a Suspend after a       *)
(* Terminate, whose exited workers signal no more, and in a Terminate that *)
(* read the counter before a worker parked at the reset event.             *)
THEOREM SpecDeadlockShapes == Spec => []DeadlockShapes
<1>1. IInv /\ WaitsAgree => DeadlockShapes
  BY BlockedShapes
<1>2. QED
  BY <1>1, SpecIInv, SpecWaitsAgree, PTL

(* A blocked service has exited workers or a Terminate in its wait.         *)
LEMMA BlockedMeansTerminating ==
  ASSUME IInv, WaitsAgree, AllBlocked
  PROVE  terminating
<1>1. CASE \E w \in Workers : pc[w] = "Exited"
  BY <1>1 DEF IInv, ClientAgrees
<1>2. CASE ctl = "TerminateWait"
  BY <1>2 DEF IInv, ClientAgrees, WaitsAgree
<1>3. QED
  BY <1>1, <1>2, BlockedShapes DEF DeadlockShapes

(* No deadlock without Terminate: while TerminateWorkers has not been      *)
(* called some thread always has a statement to run, whatever Start and    *)
(* Suspend were called before.                                             *)
THEOREM SpecBlockedOnlyByTerminate == Spec => [](AllBlocked => terminating)
<1>1. IInv /\ WaitsAgree => (AllBlocked => terminating)
  BY BlockedMeansTerminating
<1>2. QED
  BY <1>1, SpecIInv, SpecWaitsAgree, PTL

-----------------------------------------------------------------------------
(* What a wait costs.  Fairness apart, this is why the calls return: the    *)
(* statements that a wait still expects of the workers are counted, every   *)
(* statement that a worker runs brings the count of that worker down, and   *)
(* as long as the wait goes on somebody's count is not zero.                *)

(* The entries of the table of a Terminate.                                *)
LEMMA ExitFacts ==
  /\ StatementsToExit["CheckSuspension"] = 14 /\ StatementsToExit["Decrement"] = 13
  /\ StatementsToExit["ResetRunning"] = 12 /\ StatementsToExit["SetSuspended"] = 11
  /\ StatementsToExit["WaitOne"] = 10 /\ StatementsToExit["Increment"] = 9
  /\ StatementsToExit["ResetSuspended"] = 8 /\ StatementsToExit["SetRunning"] = 7
  /\ StatementsToExit["Dequeue"] = 6 /\ StatementsToExit["Forward"] = 5
  /\ StatementsToExit["DequeueCommit"] = 4 /\ StatementsToExit["Sleep"] = 4
  /\ StatementsToExit["LoopTest"] = 3 /\ StatementsToExit["ExitDecrement"] = 2
  /\ StatementsToExit["SetTerminating"] = 1 /\ StatementsToExit["Exited"] = 0
BY DEF StatementsToExit

(* The entries of the table of a Suspend.                                  *)
LEMMA HoldFacts ==
  /\ StatementsToHold["CheckSuspension"] = 4 /\ StatementsToHold["Decrement"] = 3
  /\ StatementsToHold["ResetRunning"] = 2 /\ StatementsToHold["SetSuspended"] = 1
  /\ StatementsToHold["WaitOne"] = 0 /\ StatementsToHold["Increment"] = 11
  /\ StatementsToHold["ResetSuspended"] = 10 /\ StatementsToHold["SetRunning"] = 9
  /\ StatementsToHold["Dequeue"] = 8 /\ StatementsToHold["Forward"] = 7
  /\ StatementsToHold["DequeueCommit"] = 6 /\ StatementsToHold["Sleep"] = 6
  /\ StatementsToHold["LoopTest"] = 5 /\ StatementsToHold["ExitDecrement"] = 2
  /\ StatementsToHold["SetTerminating"] = 1 /\ StatementsToHold["Exited"] = 0
BY DEF StatementsToHold

(* The entries of the table of a Start.                                    *)
LEMMA RunFacts ==
  /\ StatementsToRun["Decrement"] = 7
  /\ StatementsToRun["ResetRunning"] = 6 /\ StatementsToRun["SetSuspended"] = 5
  /\ StatementsToRun["WaitOne"] = 4 /\ StatementsToRun["Increment"] = 3
  /\ StatementsToRun["ResetSuspended"] = 2 /\ StatementsToRun["SetRunning"] = 1
  /\ \A s \in {"CheckSuspension", "Dequeue", "Forward", "DequeueCommit",
               "Sleep", "LoopTest", "ExitDecrement", "SetTerminating",
               "Exited", "Unstarted"} : StatementsToRun[s] = 0
BY ExitFacts DEF StatementsToRun, WorkerStates

(* The worker whose step changes where a worker is.                        *)
LEMMA MoverMoves ==
  ASSUME IInv, NEW w \in Workers, WorkerStep(w),
         NEW v \in Workers, pc'[v] # pc[v]
  PROVE  v = w
BY DEF IInv, TypeOK, WorkerStep, LoopStep, MessageStep, CheckSuspension,
   Decrement, ResetRunning, SetSuspended, WaitOne, Increment, ResetSuspended,
   SetRunning, DequeueSms, DequeueNull, Forward, DequeueCommit, Sleep, LoopTest,
   ExitDecrement, SetTerminating, Goto

(* From each statement of DequeueWorker and CheckSuspension to the next,   *)
(* with the flag that decides where there are two.                         *)
LEMMA Moves ==
  ASSUME IInv, NEW w \in Workers, WorkerStep(w)
  PROVE  \/ pc[w] = "CheckSuspension" /\ pc'[w] = "Decrement" /\ suspending
         \/ pc[w] = "CheckSuspension" /\ pc'[w] = "Dequeue" /\ ~suspending
         \/ pc[w] = "Decrement" /\ pc'[w] = "ResetRunning"
         \/ pc[w] = "ResetRunning" /\ pc'[w] = "SetSuspended"
         \/ pc[w] = "SetSuspended" /\ pc'[w] = "WaitOne"
         \/ pc[w] = "WaitOne" /\ pc'[w] = "Increment" /\ suspendWorkersEvent
         \/ pc[w] = "Increment" /\ pc'[w] = "ResetSuspended"
         \/ pc[w] = "ResetSuspended" /\ pc'[w] = "SetRunning"
         \/ pc[w] = "SetRunning" /\ pc'[w] = "Dequeue"
         \/ pc[w] = "Dequeue" /\ pc'[w] \in {"Forward", "Sleep"}
         \/ pc[w] = "Forward" /\ pc'[w] = "DequeueCommit"
         \/ pc[w] \in {"DequeueCommit", "Sleep"} /\ pc'[w] = "LoopTest"
         \/ pc[w] = "LoopTest" /\ pc'[w] = "ExitDecrement" /\ terminating
         \/ pc[w] = "LoopTest" /\ pc'[w] = "CheckSuspension" /\ ~terminating
         \/ pc[w] = "ExitDecrement" /\ pc'[w] = "SetTerminating"
         \/ pc[w] = "SetTerminating" /\ pc'[w] = "Exited"
<1> USE DEF IInv, TypeOK, Goto
<1>1. CASE CheckSuspension(w)
  BY <1>1 DEF CheckSuspension
<1>2. CASE Decrement(w) \/ ResetRunning(w) \/ SetSuspended(w)
  BY <1>2 DEF Decrement, ResetRunning, SetSuspended
<1>3. CASE WaitOne(w) \/ Increment(w) \/ ResetSuspended(w) \/ SetRunning(w)
  BY <1>3 DEF WaitOne, Increment, ResetSuspended, SetRunning
<1>4. CASE MessageStep(w)
  BY <1>4 DEF MessageStep, DequeueSms, DequeueNull, Forward, DequeueCommit
<1>5. CASE LoopTest(w)
  BY <1>5 DEF LoopTest
<1>6. CASE Sleep(w) \/ ExitDecrement(w) \/ SetTerminating(w)
  BY <1>6 DEF Sleep, ExitDecrement, SetTerminating
<1>7. QED
  BY <1>1, <1>2, <1>3, <1>4, <1>5, <1>6 DEF WorkerStep, LoopStep

(* Once Terminate was called, a statement brings its worker nearer to the  *)
(* end of its loop.                                                        *)
LEMMA WorkerPasses ==
  ASSUME IInv, NEW w \in Workers, WorkerStep(w), terminating
  PROVE  StatementsToExit[pc'[w]] < StatementsToExit[pc[w]]
BY Moves, ExitFacts

(* While SuspendWorkers waits, _suspending is set and the event is reset:  *)
(* a statement brings its worker nearer to WaitOne, which it does not pass. *)
LEMMA WorkerComesToHold ==
  ASSUME IInv, NEW w \in Workers, WorkerStep(w), ctl = "SuspendWait"
  PROVE  StatementsToHold[pc'[w]] < StatementsToHold[pc[w]]
<1>1. suspending /\ ~suspendWorkersEvent
  BY DEF IInv, ClientAgrees
<1>2. QED
  BY <1>1, Moves, HoldFacts

(* While ResumeWorkers waits, _suspending is clear: a statement brings its *)
(* worker nearer to the end of CheckSuspension, and it does not go in again. *)
LEMMA WorkerComesToRun ==
  ASSUME IInv, NEW w \in Workers, WorkerStep(w), ctl = "ResumeWait"
  PROVE  \/ StatementsToRun[pc'[w]] < StatementsToRun[pc[w]]
         \/ StatementsToRun[pc'[w]] = 0
<1>1. ~suspending
  BY DEF IInv, ClientAgrees
<1>2. QED
  BY <1>1, Moves, RunFacts

(* The tables are counts, 0 only where the wait expects nothing more.      *)
LEMMA NotUnstartedRuns ==
  ASSUME NEW s \in WorkerStates, s # "Unstarted"
  PROVE  /\ StatementsToExit[s] \in 0..14 /\ StatementsToHold[s] \in 0..11
         /\ StatementsToRun[s] \in 0..7
         /\ StatementsToExit[s] = 0 => s = "Exited"
         /\ StatementsToHold[s] = 0 => s \in {"WaitOne", "Exited"}
BY ExitFacts, HoldFacts, RunFacts DEF WorkerStates

(* After Terminate was called no worker goes round its loop, or through a  *)
(* suspension, again: every statement brings it nearer to its exit.        *)
THEOREM SpecTerminatingIsTheLastPass == Spec => TerminatingIsTheLastPass
<1>1. ASSUME IInv, [Next]_vars, terminating,
             NEW w \in Workers, pc'[w] # pc[w]
      PROVE  StatementsToExit[pc'[w]] < StatementsToExit[pc[w]]
  <2>1. CASE \E v \in Workers : WorkerStep(v)
    BY <1>1, <2>1, MoverMoves, WorkerPasses
  <2>2. CASE \E v \in Workers : StartThread(v)
    <3>1. pc[w] = "Unstarted" /\ pc'[w] = "CheckSuspension"
      BY <1>1, <2>2 DEF StartThread, Goto, IInv, TypeOK
    <3>2. StatementsToExit["Unstarted"] = 15
      BY DEF StatementsToExit
    <3>3. QED
      BY <3>1, <3>2, ExitFacts
  <2>3. CASE UNCHANGED pc
    BY <1>1, <2>3
  <2>4. QED
    BY <1>1, <2>1, <2>2, <2>3 DEF Next, ClientStep, SuspendWorkers,
       SuspendReset, SuspendWait, SuspendDone, ResumeWorkers, ResumeWait,
       TerminateWorkers, TerminateTest, TerminateWait, vars
<1>2. IInv /\ [Next]_vars =>
        [terminating =>
           \A w \in Workers : pc'[w] # pc[w] =>
             StatementsToExit[pc'[w]] < StatementsToExit[pc[w]]]_vars
  BY <1>1
<1>3. QED
  BY <1>2, SpecIInv, PTL DEF Spec, TerminatingIsTheLastPass

(* While the client waits on, only workers move.                           *)
LEMMA WaitingStep ==
  ASSUME IInv, WaitsAgree, [Next]_vars, ctl' = ctl, ctl \in Waits
  PROVE  UNCHANGED pc \/ \E v \in Workers : WorkerStep(v)
BY DEF Next, ClientStep, StartThread, SuspendWorkers, SuspendReset,
   SuspendWait, SuspendDone, ResumeWorkers, ResumeWait, TerminateWorkers,
   TerminateTest, TerminateWait, vars, Waits

(* While the client waits in Suspend, Start or Terminate, every statement  *)
(* of a worker brings that worker nearer to where the wait expects it.     *)
THEOREM SpecWaitsCountDown == Spec => WaitsCountDown
<1>1. ASSUME IInv, WaitsAgree, [Next]_vars, ctl' = ctl, ctl \in Waits,
             NEW w \in Workers
      PROVE  ComesNearer(w)
  <2>1. CASE pc'[w] = pc[w]
    BY <2>1 DEF ComesNearer
  <2>2. CASE WorkerStep(w)
    <3>1. CASE ctl = "SuspendWait"
      <4>1. Remaining(w)' < Remaining(w)
        BY <1>1, <2>2, <3>1, WorkerComesToHold DEF Remaining
      <4>2. QED
        BY <4>1 DEF ComesNearer
    <3>2. CASE ctl = "ResumeWait"
      <4>1. Remaining(w)' < Remaining(w) \/ Remaining(w)' = 0
        BY <1>1, <2>2, <3>2, WorkerComesToRun DEF Remaining
      <4>2. QED
        BY <4>1 DEF ComesNearer
    <3>3. CASE ctl = "TerminateWait"
      <4>1. terminating
        BY <1>1, <3>3 DEF IInv, ClientAgrees, WaitsAgree
      <4>2. Remaining(w)' < Remaining(w)
        BY <1>1, <2>2, <3>3, <4>1, WorkerPasses DEF Remaining
      <4>3. QED
        BY <4>2 DEF ComesNearer
    <3>4. QED
      BY <1>1, <3>1, <3>2, <3>3 DEF Waits
  <2>3. QED
    BY <1>1, <2>1, <2>2, WaitingStep, MoverMoves
<1>2. IInv /\ WaitsAgree /\ [Next]_vars =>
        [ctl' = ctl /\ ctl \in Waits =>
           \A w \in Workers : ComesNearer(w)]_vars
  BY <1>1
<1>3. QED
  BY <1>2, SpecIInv, SpecWaitsAgree, PTL DEF Spec, WaitsCountDown

(* A wait that is not over still expects a statement of some worker, or of *)
(* one that has exited; and that worker can run, unless it is parked at    *)
(* the event that a Terminate left reset.                                  *)
THEOREM SpecWaitsAreForSomebody == Spec => []WaitsAreForSomebody
<1>1. ASSUME IInv, WaitsAgree, ctl \in Waits
      PROVE  /\ ClientBlocked => \/ \E w \in Workers : Remaining(w) > 0
                                 \/ /\ ctl = "SuspendWait"
                                    /\ \E w \in Workers : pc[w] = "Exited"
             /\ \A w \in Workers :
                  Remaining(w) > 0 /\ WorkerBlocked(w) =>
                    /\ ctl = "TerminateWait" /\ pc[w] = "WaitOne"
                    /\ ~suspendWorkersEvent
  <2>1. \A w \in Workers : pc[w] \in WorkerStates /\ pc[w] # "Unstarted"
    BY <1>1 DEF IInv, TypeOK, WaitsAgree, Waits
  <2>2. CASE ctl = "SuspendWait"
    <3>1. \A w \in Workers : Remaining(w) = StatementsToHold[pc[w]]
      BY <2>2 DEF Remaining
    <3>2. ASSUME suspendedWorkerEvents # Workers,
                 NEW w \in Workers, pc[w] # "WaitOne", pc[w] # "Exited"
          PROVE  Remaining(w) > 0
      BY <2>1, <3>1, <3>2, NotUnstartedRuns
    <3>3. ClientBlocked => \E w \in Workers : pc[w] # "WaitOne"
      BY <1>1, <2>2 DEF ClientBlocked, IInv, TypeOK, EventsAgree
    <3>4. \A w \in Workers : WorkerBlocked(w) => pc[w] \in {"WaitOne", "Exited"}
      BY <2>1 DEF WorkerBlocked
    <3>5. \A w \in Workers : WorkerBlocked(w) => Remaining(w) = 0
      BY <3>1, <3>4, HoldFacts
    <3>6. ClientBlocked => suspendedWorkerEvents # Workers
      BY <2>2 DEF ClientBlocked
    <3>7. QED
      BY <2>2, <3>2, <3>3, <3>5, <3>6
  <2>3. CASE ctl = "ResumeWait"
    <3>1. \A w \in Workers : Remaining(w) = StatementsToRun[pc[w]]
      BY <2>3 DEF Remaining
    <3>2. ClientBlocked => \E w \in Workers : w \notin Outside
      BY <1>1, <2>3 DEF ClientBlocked, IInv, TypeOK, ClientAgrees, WaitsAgree
    <3>3. ASSUME NEW w \in Workers, w \notin Outside
          PROVE  Remaining(w) > 0
      BY <2>1, <3>1, <3>3, RunFacts DEF Outside
    <3>4. \A w \in Workers : WorkerBlocked(w) => pc[w] = "Exited"
      BY <1>1, <2>1, <2>3 DEF WorkerBlocked, WaitsAgree
    <3>5. \A w \in Workers : WorkerBlocked(w) => Remaining(w) = 0
      BY <3>1, <3>4, RunFacts
    <3>6. QED
      BY <3>2, <3>3, <3>5
  <2>4. CASE ctl = "TerminateWait"
    <3>1. \A w \in Workers : Remaining(w) = StatementsToExit[pc[w]]
      BY <2>4 DEF Remaining
    <3>2. ASSUME NEW w \in Workers, pc[w] # "Exited"
          PROVE  Remaining(w) > 0
      BY <2>1, <3>1, <3>2, NotUnstartedRuns
    <3>3. ClientBlocked => \E w \in Workers : pc[w] # "Exited"
      BY <1>1, <2>4 DEF ClientBlocked, IInv, TypeOK, EventsAgree
    <3>4. \A w \in Workers : pc[w] = "Exited" => Remaining(w) = 0
      BY <3>1, ExitFacts
    <3>5. \A w \in Workers :
            WorkerBlocked(w) => \/ pc[w] = "Exited"
                                \/ pc[w] = "WaitOne" /\ ~suspendWorkersEvent
      BY <2>1 DEF WorkerBlocked
    <3>6. ASSUME NEW w \in Workers, Remaining(w) > 0, WorkerBlocked(w)
          PROVE  pc[w] = "WaitOne" /\ ~suspendWorkersEvent
      BY <3>4, <3>5, <3>6
    <3>7. QED
      BY <2>4, <3>2, <3>3, <3>6
  <2>5. QED
    BY <1>1, <2>2, <2>3, <2>4 DEF Waits
<1>2. IInv /\ WaitsAgree => WaitsAreForSomebody
  BY <1>1 DEF WaitsAreForSomebody
<1>3. QED
  BY <1>2, SpecIInv, SpecWaitsAgree, PTL

-----------------------------------------------------------------------------
(* The refinement of WorkerGate.                                           *)

(* A worker's step changes the mode of that worker only.                   *)
LEMMA ModeStep ==
  ASSUME pc \in [Workers -> WorkerStates],
         NEW w \in Workers, NEW STATE from, NEW STATE to, Goto(w, from, to)
  PROVE  /\ Mode[w] = GateMode(from)
         /\ Mode' = [Mode EXCEPT ![w] = GateMode(to)]
BY DEF Mode, Goto, GateMode

(* The initial states map to those of WorkerGate.                           *)
LEMMA GateInit == Init => Gate!Init
BY DEF Init, Gate!Init, Mode, GateMode, Request

(* A worker's step is a step of the worker through the gate, or a stutter   *)
(* of it: a suspension is decided only while _suspending is set, which is   *)
(* while a suspension is in progress, and a worker leaves the event only    *)
(* while it is set.                                                         *)
LEMMA GateWorkerStep ==
  ASSUME IInv, NEW w \in Workers, WorkerStep(w) \/ StartThread(w)
  PROVE  [Gate!Next]_(Gate!vars)
<1>1. pc \in [Workers -> WorkerStates]
  BY DEF IInv, TypeOK
<1>2. UNCHANGED <<suspendWorkersEvent, terminating, ctl, call>>
  BY DEF MessageStep, LoopStep, WorkerStep, StartThread, CheckSuspension, Decrement,
     ResetRunning, SetSuspended, WaitOne, Increment, ResetSuspended,
     SetRunning, DequeueSms, DequeueNull, Forward, DequeueCommit, Sleep,
     LoopTest, ExitDecrement, SetTerminating, sharedVars, clientVars
<1>3. UNCHANGED <<suspendWorkersEvent, terminating, Request>>
  BY <1>2 DEF Request
<1>4. ASSUME Mode' = Mode
      PROVE  [Gate!Next]_(Gate!vars)
  BY <1>3, <1>4 DEF Gate!vars
<1>5. CASE CheckSuspension(w) /\ suspending
  <2>1. Mode[w] = "Free" /\ Mode' = [Mode EXCEPT ![w] = "Asked"]
    BY <1>1, <1>5, ModeStep DEF CheckSuspension, GateMode
  <2>2. Request \in {"New", "Suspend", "Settled"}
    BY <1>5 DEF IInv, ClientAgrees, Request
  <2>3. Gate!Ask(w)
    BY <1>3, <2>1, <2>2 DEF Gate!Ask, Gate!Move, Gate!Suspending
  <2>4. QED
    BY <2>3 DEF Gate!Next
<1>6. CASE SetSuspended(w)
  <2>1. Mode[w] = "Asked" /\ Mode' = [Mode EXCEPT ![w] = "Held"]
    BY <1>1, <1>6, ModeStep DEF SetSuspended, GateMode
  <2>2. QED
    BY <1>3, <2>1 DEF Gate!Hold, Gate!Move, Gate!Next
<1>7. CASE WaitOne(w)
  <2>1. Mode[w] = "Held" /\ Mode' = [Mode EXCEPT ![w] = "Leaving"]
    BY <1>1, <1>7, ModeStep DEF WaitOne, GateMode
  <2>2. QED
    BY <1>3, <1>7, <2>1 DEF Gate!Release, Gate!Move, Gate!Next, WaitOne
<1>8. CASE ResetSuspended(w)
  <2>1. Mode[w] = "Leaving" /\ Mode' = [Mode EXCEPT ![w] = "Free"]
    BY <1>1, <1>8, ModeStep DEF ResetSuspended, GateMode
  <2>2. QED
    BY <1>3, <2>1 DEF Gate!Leave, Gate!Move, Gate!Next
<1>9. CASE SetTerminating(w)
  <2>1. Mode[w] = "Free" /\ Mode' = [Mode EXCEPT ![w] = "Stopped"]
    BY <1>1, <1>9, ModeStep DEF SetTerminating, GateMode
  <2>2. terminating
    BY <1>9 DEF IInv, ClientAgrees, SetTerminating, Goto
  <2>3. QED
    BY <1>3, <2>1, <2>2 DEF Gate!Stop, Gate!Move, Gate!Next
<1>10. CASE \/ CheckSuspension(w) /\ ~suspending
            \/ DequeueSms(w) \/ DequeueNull(w) \/ Forward(w)
            \/ DequeueCommit(w) \/ Sleep(w) \/ LoopTest(w)
            \/ ExitDecrement(w) \/ SetRunning(w) \/ StartThread(w)
  <2>1. Mode' = Mode
    BY <1>1, <1>10 DEF Mode, GateMode, Goto, CheckSuspension, DequeueSms,
       DequeueNull, Forward, DequeueCommit, Sleep, LoopTest, ExitDecrement,
       SetRunning, StartThread
  <2>2. QED
    BY <1>4, <2>1
<1>11. CASE Decrement(w) \/ ResetRunning(w) \/ Increment(w)
  <2>1. Mode' = Mode
    BY <1>1, <1>11 DEF Mode, GateMode, Goto, Decrement, ResetRunning,
       Increment
  <2>2. QED
    BY <1>4, <2>1
<1>12. QED
  BY <1>5, <1>6, <1>7, <1>8, <1>9, <1>10, <1>11 DEF MessageStep, LoopStep, WorkerStep

(* A step of the client thread is the call, the closing or opening of the   *)
(* gate or the return that WorkerGate has for it.                           *)
LEMMA GateClientStep ==
  ASSUME IInv,
         \/ SuspendWorkers \/ SuspendReset \/ SuspendWait \/ SuspendDone
         \/ ResumeWorkers \/ ResumeWait
         \/ TerminateWorkers \/ TerminateTest \/ TerminateWait
  PROVE  [Gate!Next]_(Gate!vars)
<1>1. UNCHANGED Mode
  BY DEF SuspendWorkers, SuspendReset, SuspendWait, SuspendDone,
     ResumeWorkers, ResumeWait, TerminateWorkers, TerminateTest,
     TerminateWait, Mode
<1> USE <1>1 DEF IInv, ClientAgrees, Request, sharedVars, Gate!Next, Gate!vars
<1>2. CASE SuspendWorkers
  BY <1>2 DEF SuspendWorkers, Gate!Suspend
<1>3. CASE SuspendReset
  BY <1>3 DEF SuspendReset, Gate!Close
<1>4. CASE SuspendWait
  <2>1. \A w \in Workers : Mode[w] \in {"Held", "Leaving"}
    BY <1>4 DEF SuspendWait, EventsAgree, Mode, GateMode
  <2>2. QED
    BY <1>4, <2>1 DEF SuspendWait, Gate!Settle
<1>5. CASE SuspendDone
  BY <1>5 DEF SuspendDone, Gate!Return
<1>6. CASE ResumeWorkers
  BY <1>6 DEF ResumeWorkers, Gate!Start, Gate!Open
<1>7. CASE ResumeWait
  <2>1. \A w \in Workers : Mode[w] \notin {"Held", "Leaving"}
    BY <1>7 DEF ResumeWait, EventsAgree, Mode, GateMode
  <2>2. QED
    BY <1>7, <2>1 DEF ResumeWait, Gate!Return
<1>8. CASE TerminateWorkers
  BY <1>8 DEF TerminateWorkers, Gate!Terminate
<1>9. CASE TerminateTest
  BY <1>9 DEF TerminateTest
<1>10. CASE TerminateWait
  <2>1. \A w \in Workers : Mode[w] = "Stopped"
    BY <1>10 DEF TerminateWait, EventsAgree, Mode, GateMode
  <2>2. QED
    BY <1>10, <2>1 DEF TerminateWait, Gate!Return
<1>11. QED
  BY <1>2, <1>3, <1>4, <1>5, <1>6, <1>7, <1>8, <1>9, <1>10

(* DequeueSynchronizer implements the abstract gate.                        *)
THEOREM SpecImplementsGate == Spec => ImplementsGate
<1>1. IInv /\ [Next]_vars => [Gate!Next]_(Gate!vars)
  <2> SUFFICES ASSUME IInv, [Next]_vars PROVE [Gate!Next]_(Gate!vars)
    OBVIOUS
  <2>1. CASE UNCHANGED vars
    BY <2>1 DEF vars, Gate!vars, Mode, Request
  <2>2. CASE Next
    BY <2>2, GateWorkerStep, GateClientStep DEF Next, ClientStep
  <2>3. QED
    BY <2>1, <2>2
<1>2. QED
  BY <1>1, GateInit, SpecIInv, PTL DEF Spec, ImplementsGate, Gate!Spec
=============================================================================
