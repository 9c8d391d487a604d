------------------------ MODULE DequeueSynchronizer ------------------------
(***************************************************************************)
(* The worker threads of the dequeue service and the one client thread     *)
(* that constructs, starts, suspends and terminates them                   *)
(* (src/Usms.Gateway/Engine/DequeueSynchronizer.cs).                       *)
(*                                                                         *)
(* One action is one statement that reads or writes shared state: a field, *)
(* an interlocked counter or an event handle.  An array of event handles   *)
(* is the set of the workers whose event is signalled, so Set adds the     *)
(* worker, Reset removes it and WaitAll waits for the set to be Workers.   *)
(* What a worker does with a message is left to DequeueService: here a     *)
(* dequeue finds a message or it does not.                                 *)
(***************************************************************************)
EXTENDS Integers, FiniteSets

CONSTANT Workers        \* the worker threads

(* WaitHandle.WaitAll takes between 1 and 64 handles and throws otherwise. *)
MaxWaitHandles == 64

ASSUME WorkersAssumption ==
  /\ IsFiniteSet(Workers)
  /\ Cardinality(Workers) \in 1..MaxWaitHandles

VARIABLES
  runningWorkers,           \* the interlocked counter behind RunningWorkers
  terminating,              \* Terminate was called
  suspending,               \* a SuspendWorkers has not finished
  suspendWorkersEvent,      \* manual reset event the suspended workers wait on
  runningWorkerEvents,      \* the workers whose running event is set
  suspendedWorkerEvents,    \* the workers whose suspended event is set
  terminatingWorkerEvents,  \* the workers whose terminating event is set
  pc,                       \* the next statement of each worker
  ctl,                      \* the next statement of the client thread
  call                      \* the call the client is in, or completed last

sharedVars == <<runningWorkers, terminating, suspending, suspendWorkersEvent,
                runningWorkerEvents, suspendedWorkerEvents,
                terminatingWorkerEvents>>
clientVars == <<ctl, call>>
vars == <<runningWorkers, terminating, suspending, suspendWorkersEvent,
          runningWorkerEvents, suspendedWorkerEvents, terminatingWorkerEvents,
          pc, ctl, call>>

TotalWorkers == Cardinality(Workers)

WorkerStates ==
  {"Unstarted", "CheckSuspension", "Decrement", "ResetRunning",
   "SetSuspended", "WaitOne", "Increment", "ResetSuspended", "SetRunning",
   "Dequeue", "Forward", "DequeueCommit", "Sleep", "LoopTest",
   "ExitDecrement", "SetTerminating", "Exited"}

ClientStates ==
  {"Construct", "SuspendReset", "SuspendWait", "SuspendDone", "Ready",
   "ResumeSet", "ResumeWait", "TerminateTest", "TerminateWait"}

(* "New" is the constructor, which ends with a SuspendWorkers. *)
Calls == {"New", "Start", "Suspend", "Terminate"}

Init ==
  /\ runningWorkers = TotalWorkers
  /\ terminating = FALSE
  /\ suspending = TRUE
  /\ suspendWorkersEvent = TRUE
  /\ runningWorkerEvents = {}
  /\ suspendedWorkerEvents = {}
  /\ terminatingWorkerEvents = {}
  /\ pc = [w \in Workers |-> "Unstarted"]
  /\ ctl = "Construct"
  /\ call = "New"

-----------------------------------------------------------------------------
(* The worker thread: DequeueWorker and the CheckSuspension it calls.      *)

Goto(w, from, to) ==
  /\ pc[w] = from
  /\ pc' = [pc EXCEPT ![w] = to]

(* Plausible faults of the statements below, each the mutated form of the   *)
(* action it is named after; no action of this module uses them.            *)

Decrement_Uncounted(w) ==
  Goto(w, "Decrement", "ResetRunning") /\ UNCHANGED <<sharedVars, clientVars>>

Increment_Uncounted(w) ==
  Goto(w, "Increment", "ResetSuspended")
  /\ UNCHANGED <<sharedVars, clientVars>>

ResetSuspended_Skipped(w) ==
  Goto(w, "ResetSuspended", "SetRunning")
  /\ UNCHANGED <<sharedVars, clientVars>>

LoopTest_Inverted(w) ==
  Goto(w, "LoopTest", IF terminating THEN "CheckSuspension" ELSE "ExitDecrement")
  /\ UNCHANGED <<sharedVars, clientVars>>

SuspendReset_Skipped ==
  /\ ctl = "SuspendReset" /\ ctl' = "SuspendWait"
  /\ UNCHANGED <<sharedVars, pc, call>>

SuspendDone_KeepsFlag ==
  /\ ctl = "SuspendDone" /\ ctl' = "Ready"
  /\ UNCHANGED <<sharedVars, pc, call>>

ResumeWorkers_NoSet ==
  /\ \/ ctl = "Ready" /\ call' = "Start"
     \/ ctl = "ResumeSet" /\ call' = "Terminate"
  /\ ctl' = "ResumeWait"
  /\ UNCHANGED <<sharedVars, pc>>

TerminateTest_NeverResumes ==
  /\ ctl = "TerminateTest" /\ ctl' = "TerminateWait"
  /\ UNCHANGED <<sharedVars, pc, call>>

CheckSuspension(w) ==
  /\ Goto(w, "CheckSuspension", IF suspending THEN "Decrement" ELSE "Dequeue")
  /\ UNCHANGED <<sharedVars, clientVars>>

Decrement(w) ==
  /\ Goto(w, "Decrement", "ResetRunning")
  /\ runningWorkers' = runningWorkers - 1
  /\ UNCHANGED <<terminating, suspending, suspendWorkersEvent,
                 runningWorkerEvents, suspendedWorkerEvents,
                 terminatingWorkerEvents, clientVars>>

ResetRunning(w) ==
  /\ Goto(w, "ResetRunning", "SetSuspended")
  /\ runningWorkerEvents' = runningWorkerEvents \ {w}
  /\ UNCHANGED <<runningWorkers, terminating, suspending, suspendWorkersEvent,
                 suspendedWorkerEvents, terminatingWorkerEvents, clientVars>>

SetSuspended(w) ==
  /\ Goto(w, "SetSuspended", "WaitOne")
  /\ suspendedWorkerEvents' = suspendedWorkerEvents \cup {w}
  /\ UNCHANGED <<runningWorkers, terminating, suspending, suspendWorkersEvent,
                 runningWorkerEvents, terminatingWorkerEvents, clientVars>>

WaitOne(w) ==
  /\ suspendWorkersEvent
  /\ Goto(w, "WaitOne", "Increment")
  /\ UNCHANGED <<sharedVars, clientVars>>

Increment(w) ==
  /\ Goto(w, "Increment", "ResetSuspended")
  /\ runningWorkers' = runningWorkers + 1
  /\ UNCHANGED <<terminating, suspending, suspendWorkersEvent,
                 runningWorkerEvents, suspendedWorkerEvents,
                 terminatingWorkerEvents, clientVars>>

ResetSuspended(w) ==
  /\ Goto(w, "ResetSuspended", "SetRunning")
  /\ suspendedWorkerEvents' = suspendedWorkerEvents \ {w}
  /\ UNCHANGED <<runningWorkers, terminating, suspending, suspendWorkersEvent,
                 runningWorkerEvents, terminatingWorkerEvents, clientVars>>

SetRunning(w) ==
  /\ Goto(w, "SetRunning", "Dequeue")
  /\ runningWorkerEvents' = runningWorkerEvents \cup {w}
  /\ UNCHANGED <<runningWorkers, terminating, suspending, suspendWorkersEvent,
                 suspendedWorkerEvents, terminatingWorkerEvents, clientVars>>

(* Dequeue returned a message. *)
DequeueSms(w) ==
  /\ Goto(w, "Dequeue", "Forward")
  /\ UNCHANGED <<sharedVars, clientVars>>

(* Dequeue returned null. *)
DequeueNull(w) ==
  /\ Goto(w, "Dequeue", "Sleep")
  /\ UNCHANGED <<sharedVars, clientVars>>

Forward(w) ==
  /\ Goto(w, "Forward", "DequeueCommit")
  /\ UNCHANGED <<sharedVars, clientVars>>

DequeueCommit(w) ==
  /\ Goto(w, "DequeueCommit", "LoopTest")
  /\ UNCHANGED <<sharedVars, clientVars>>

Sleep(w) ==
  /\ Goto(w, "Sleep", "LoopTest")
  /\ UNCHANGED <<sharedVars, clientVars>>

LoopTest(w) ==
  /\ Goto(w, "LoopTest",
          IF terminating THEN "ExitDecrement" ELSE "CheckSuspension")
  /\ UNCHANGED <<sharedVars, clientVars>>

ExitDecrement(w) ==
  /\ Goto(w, "ExitDecrement", "SetTerminating")
  /\ runningWorkers' = runningWorkers - 1
  /\ UNCHANGED <<terminating, suspending, suspendWorkersEvent,
                 runningWorkerEvents, suspendedWorkerEvents,
                 terminatingWorkerEvents, clientVars>>

SetTerminating(w) ==
  /\ Goto(w, "SetTerminating", "Exited")
  /\ terminatingWorkerEvents' = terminatingWorkerEvents \cup {w}
  /\ UNCHANGED <<runningWorkers, terminating, suspending, suspendWorkersEvent,
                 runningWorkerEvents, suspendedWorkerEvents, clientVars>>

-----------------------------------------------------------------------------
(* The client thread.  A call starts with its first statement, from Ready. *)

(* The constructor's loop: the thread starts while the constructor goes on. *)
StartThread(w) ==
  /\ ctl = "Construct"
  /\ Goto(w, "Unstarted", "CheckSuspension")
  /\ UNCHANGED <<sharedVars, clientVars>>

(* _suspending = true, called by the client or at the end of the constructor. *)
SuspendWorkers ==
  /\ \/ ctl = "Ready" /\ call' = "Suspend"
     \/ ctl = "Construct" /\ (\A w \in Workers : pc[w] # "Unstarted")
                          /\ call' = "New"
  /\ ctl' = "SuspendReset"
  /\ suspending' = TRUE
  /\ UNCHANGED <<runningWorkers, terminating, suspendWorkersEvent,
                 runningWorkerEvents, suspendedWorkerEvents,
                 terminatingWorkerEvents, pc>>

SuspendReset ==
  /\ ctl = "SuspendReset"
  /\ ctl' = "SuspendWait"
  /\ suspendWorkersEvent' = FALSE
  /\ UNCHANGED <<runningWorkers, terminating, suspending, runningWorkerEvents,
                 suspendedWorkerEvents, terminatingWorkerEvents, pc, call>>

SuspendWait ==
  /\ ctl = "SuspendWait"
  /\ suspendedWorkerEvents = Workers
  /\ ctl' = "SuspendDone"
  /\ UNCHANGED <<sharedVars, pc, call>>

SuspendDone ==
  /\ ctl = "SuspendDone"
  /\ ctl' = "Ready"
  /\ suspending' = FALSE
  /\ UNCHANGED <<runningWorkers, terminating, suspendWorkersEvent,
                 runningWorkerEvents, suspendedWorkerEvents,
                 terminatingWorkerEvents, pc, call>>

(* The event is set by a Start of the client, or inside TerminateWorkers. *)
ResumeWorkers ==
  /\ \/ ctl = "Ready" /\ call' = "Start"
     \/ ctl = "ResumeSet" /\ call' = "Terminate"
  /\ ctl' = "ResumeWait"
  /\ suspendWorkersEvent' = TRUE
  /\ UNCHANGED <<runningWorkers, terminating, suspending, runningWorkerEvents,
                 suspendedWorkerEvents, terminatingWorkerEvents, pc>>

ResumeWait ==
  /\ ctl = "ResumeWait"
  /\ runningWorkerEvents = Workers
  /\ ctl' = IF call = "Terminate" THEN "TerminateWait" ELSE "Ready"
  /\ UNCHANGED <<sharedVars, pc, call>>

TerminateWorkers ==
  /\ ctl = "Ready"
  /\ call' = "Terminate"
  /\ ctl' = "TerminateTest"
  /\ terminating' = TRUE
  /\ UNCHANGED <<runningWorkers, suspending, suspendWorkersEvent,
                 runningWorkerEvents, suspendedWorkerEvents,
                 terminatingWorkerEvents, pc>>

TerminateTest ==
  /\ ctl = "TerminateTest"
  /\ ctl' = IF runningWorkers < TotalWorkers THEN "ResumeSet"
                                             ELSE "TerminateWait"
  /\ UNCHANGED <<sharedVars, pc, call>>

TerminateWait ==
  /\ ctl = "TerminateWait"
  /\ terminatingWorkerEvents = Workers
  /\ ctl' = "Ready"
  /\ UNCHANGED <<sharedVars, pc, call>>

-----------------------------------------------------------------------------
(* What a worker does with its dequeuer and the forwarder. *)
MessageStep(w) ==
  DequeueSms(w) \/ DequeueNull(w) \/ Forward(w) \/ DequeueCommit(w)

(* The rest of the worker's loop. *)
LoopStep(w) ==
  \/ CheckSuspension(w) \/ Decrement(w) \/ ResetRunning(w) \/ SetSuspended(w)
  \/ WaitOne(w) \/ Increment(w) \/ ResetSuspended(w) \/ SetRunning(w)
  \/ Sleep(w) \/ LoopTest(w) \/ ExitDecrement(w) \/ SetTerminating(w)

WorkerStep(w) == MessageStep(w) \/ LoopStep(w)

ClientStep ==
  \/ \E w \in Workers : StartThread(w)
  \/ SuspendWorkers \/ SuspendReset \/ SuspendWait \/ SuspendDone
  \/ ResumeWorkers \/ ResumeWait
  \/ TerminateWorkers \/ TerminateTest \/ TerminateWait

Next == ClientStep \/ \E w \in Workers : WorkerStep(w)

(* The scheduler runs every thread that is not blocked, and every call a    *)
(* worker makes returns.  The client finishes a call it has begun, but it   *)
(* need not make another.                                                   *)
Fairness ==
  /\ \A w \in Workers : WF_vars(WorkerStep(w))
  /\ WF_vars(ctl # "Ready" /\ ClientStep)

Spec == Init /\ [][Next]_vars /\ Fairness

-----------------------------------------------------------------------------
TypeOK ==
  /\ runningWorkers \in 0..TotalWorkers
  /\ terminating \in BOOLEAN
  /\ suspending \in BOOLEAN
  /\ suspendWorkersEvent \in BOOLEAN
  /\ runningWorkerEvents \subseteq Workers
  /\ suspendedWorkerEvents \subseteq Workers
  /\ terminatingWorkerEvents \subseteq Workers
  /\ pc \in [Workers -> WorkerStates]
  /\ ctl \in ClientStates
  /\ call \in Calls

(* The workers the counter does not count: between Decrement and Increment  *)
(* of CheckSuspension, or past the decrement at the end of DequeueWorker.   *)
NotCountedStates == {"ResetRunning", "SetSuspended", "WaitOne", "Increment",
                     "SetTerminating", "Exited"}

Counted == {w \in Workers : pc[w] \notin NotCountedStates}

(* RunningWorkers is exactly the number of workers outside the suspension   *)
(* section and not past their last decrement, whatever the interleaving of  *)
(* the decrements of CheckSuspension and of the exit.                       *)
CounterAgrees == runningWorkers = Cardinality(Counted)

(* When Terminate has returned no thread runs: every worker has left        *)
(* DequeueWorker, and RunningWorkers is 0 as the tests expect.              *)
TerminatedMeansStopped ==
  ctl = "Ready" /\ call = "Terminate" =>
    /\ \A w \in Workers : pc[w] = "Exited"
    /\ runningWorkers = 0

(* While a worker handles a message its suspended event is reset, so the    *)
(* WaitAll of SuspendWorkers never returns over a message in progress: at   *)
(* that instant no worker is between its Dequeue and its DequeueCommit.     *)
SuspendWaitsForMessages ==
  [][SuspendWait => \A w \in Workers : pc[w] \notin {"Dequeue", "Forward",
                                                     "DequeueCommit"}]_vars

(* No wakeup is lost: when ResumeWorkers returns no worker is still blocked *)
(* on the event of an earlier suspension, nor on its way out of it.         *)
ResumeLeavesNobodyParked ==
  [][ResumeWait => \A w \in Workers :
       pc[w] \notin {"WaitOne", "Increment", "ResetSuspended", "SetRunning"}]_vars

(* The abstract gate: the modes of the workers and the call in progress.   *)
GateMode(state) ==
  IF state \in {"Decrement", "ResetRunning", "SetSuspended"} THEN "Asked"
  ELSE IF state = "WaitOne" THEN "Held"
  ELSE IF state \in {"Increment", "ResetSuspended"} THEN "Leaving"
  ELSE IF state = "Exited" THEN "Stopped"
  ELSE "Free"

Mode == [w \in Workers |-> GateMode(pc[w])]

Request == IF ctl = "Ready" THEN "None"
           ELSE IF ctl = "SuspendDone" THEN "Settled"
           ELSE call

Gate == INSTANCE WorkerGate WITH
          mode <- Mode,
          open <- suspendWorkersEvent,
          stopping <- terminating,
          request <- Request

(* The events, flags and counters implement the gate: a worker suspends     *)
(* only for a suspension in progress when it looked, passes the gate only   *)
(* while it is open, stops only after Terminate, and every call returns     *)
(* with the workers where WorkerGate promises them to be.                   *)
ImplementsGate == Gate!Spec

(* Every Start returns: once the event is set the running events of all the *)
(* workers come to be set together.                                         *)
StartReturns == (ctl = "ResumeWait") ~> (ctl # "ResumeWait")

(* Every Suspend, the constructor's included, returns, unless Terminate was *)
(* called before it: exited workers never set their suspended event again.  *)
SuspendReturns ==
  (ctl = "SuspendReset" /\ ~terminating) ~> (ctl = "Ready")

(* A worker that took a decision on a _suspending that has been cleared     *)
(* since: nothing has been counted or signalled of its suspension yet.      *)
Stale(w) == pc[w] = "Decrement" /\ ~suspending

(* Terminate returns if the event is set, if a worker is parked or certain  *)
(* to park (so that the counter stays below its total until it is read), or *)
(* if no worker is about to suspend on a stale _suspending.                 *)
TerminateReturns ==
  (/\ ctl = "TerminateTest"
   /\ \/ suspendWorkersEvent
      \/ \E w \in Workers : pc[w] \in {"ResetRunning", "SetSuspended",
                                       "WaitOne"}
      \/ \A w \in Workers : ~Stale(w)) ~> (ctl = "Ready")

(* The threads that have no statement to run: not started, past the last    *)
(* one, or blocked in a wait whose events do not let it through.            *)
WorkerBlocked(w) ==
  \/ pc[w] \in {"Unstarted", "Exited"}
  \/ pc[w] = "WaitOne" /\ ~suspendWorkersEvent

ClientBlocked ==
  \/ ctl = "SuspendWait" /\ suspendedWorkerEvents # Workers
  \/ ctl = "ResumeWait" /\ runningWorkerEvents # Workers
  \/ ctl = "TerminateWait" /\ terminatingWorkerEvents # Workers

AllBlocked == ClientBlocked /\ \A w \in Workers : WorkerBlocked(w)

(* The whole service can stop for good only in two ways: a Suspend that     *)
(* follows a Terminate, or a Terminate that found every worker counted as   *)
(* running and then lost one to the reset event.  ResumeWorkers is never    *)
(* part of a deadlock.                                                      *)
DeadlockShapes ==
  AllBlocked =>
    \/ ctl = "SuspendWait" /\ (\E w \in Workers : pc[w] = "Exited")
    \/ /\ ctl = "TerminateWait"
       /\ ~suspendWorkersEvent
       /\ \A w \in Workers : pc[w] \in {"WaitOne", "Exited"}

(* How many statements a worker runs before it has exited, once Terminate   *)
(* was called; before it is held at the reset event, or has exited, once    *)
(* the event is reset; and before it runs again, once the event is set.     *)
StatementsToExit ==
  [Unstarted |-> 15, CheckSuspension |-> 14, Decrement |-> 13,
   ResetRunning |-> 12, SetSuspended |-> 11, WaitOne |-> 10, Increment |-> 9,
   ResetSuspended |-> 8, SetRunning |-> 7, Dequeue |-> 6, Forward |-> 5,
   DequeueCommit |-> 4, Sleep |-> 4, LoopTest |-> 3, ExitDecrement |-> 2,
   SetTerminating |-> 1, Exited |-> 0]

StatementsToHold ==
  [Unstarted |-> 12, Increment |-> 11, ResetSuspended |-> 10, SetRunning |-> 9,
   Dequeue |-> 8, Forward |-> 7, DequeueCommit |-> 6, Sleep |-> 6,
   LoopTest |-> 5, CheckSuspension |-> 4, Decrement |-> 3, ResetRunning |-> 2,
   SetSuspended |-> 1, WaitOne |-> 0, ExitDecrement |-> 2,
   SetTerminating |-> 1, Exited |-> 0]

StatementsToRun ==
  [s \in WorkerStates |->
     IF s \in {"Decrement", "ResetRunning", "SetSuspended", "WaitOne",
               "Increment", "ResetSuspended", "SetRunning"}
     THEN StatementsToExit[s] - 6 ELSE 0]

Waits == {"SuspendWait", "ResumeWait", "TerminateWait"}

(* What the wait that the client is in still expects of a worker.           *)
Remaining(w) ==
  IF ctl = "SuspendWait" THEN StatementsToHold[pc[w]]
  ELSE IF ctl = "ResumeWait" THEN StatementsToRun[pc[w]]
  ELSE StatementsToExit[pc[w]]

(* A statement of the worker brings it nearer to where the wait expects it  *)
(* to be, or it is there already.                                          *)
ComesNearer(w) ==
  \/ pc'[w] = pc[w]
  \/ Remaining(w)' < Remaining(w)
  \/ Remaining(w)' = 0

(* While the client waits in a call, every statement that a worker runs     *)
(* helps: nobody goes round its loop, or through the suspension section,    *)
(* once more at the expense of the call.                                    *)
WaitsCountDown ==
  [][ctl' = ctl /\ ctl \in Waits =>
       \A w \in Workers : ComesNearer(w)]_vars

(* A wait that goes on expects something of a worker (or is a Suspend after *)
(* a Terminate, which expects it of one that has exited), and a worker of   *)
(* which it expects something is blocked only in a Terminate that left the  *)
(* event reset.  With WaitsCountDown: a wait ends, but for these two, as    *)
(* soon as the scheduler has run every worker often enough.                 *)
WaitsAreForSomebody ==
  ctl \in Waits =>
    /\ ClientBlocked => \/ \E w \in Workers : Remaining(w) > 0
                        \/ /\ ctl = "SuspendWait"
                           /\ \E w \in Workers : pc[w] = "Exited"
    /\ \A w \in Workers :
         Remaining(w) > 0 /\ WorkerBlocked(w) =>
           ctl = "TerminateWait" /\ pc[w] = "WaitOne" /\ ~suspendWorkersEvent

(* After Terminate was called no worker runs a statement twice: it finishes *)
(* the message it has, or takes at most one more if it was suspended or     *)
(* about to look for one.                                                   *)
TerminatingIsTheLastPass ==
  [][terminating =>
       \A w \in Workers : pc'[w] # pc[w] =>
         StatementsToExit[pc'[w]] < StatementsToExit[pc[w]]]_vars

(* What the tests say of the calls; the races of SuspendWorkers break them. *)

(* Test_DequeueSynchronizer.cs: after the constructor and after every       *)
(* SuspendWorkers, RunningWorkers is 0.                                     *)
SuspendedMeansIdle ==
  ctl = "Ready" /\ call \in {"New", "Suspend"} => runningWorkers = 0

(* Test_DequeueSynchronizer.cs: TerminateWorkers returns after any sequence *)
(* of completed calls.                                                      *)
TerminateAlwaysReturns == (ctl = "TerminateTest") ~> (ctl = "Ready")
=============================================================================
