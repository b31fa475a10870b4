-------------------------- MODULE EventThreadsClient --------------------------
(***************************************************************************)
(* The event thread under any caller: the GUI thread of main.c starts it,  *)
(* sends events, waits for it (wait_event_thread) and finishes it, in any  *)
(* order its own control flow allows. There is one caller: every           *)
(* event_thread_send of the program runs on the GUI thread.                *)
(***************************************************************************)
EXTENDS EventThreads

CONSTANT MaxSends   \* bound on the events sent over a behaviour

ASSUME MaxSendsAssumption == MaxSends \in Nat

VARIABLES
  mpc,        \* where the GUI thread is: "free", "waiting", "joining"
  accepted,   \* history: the events the queue took, in order
  handled,    \* history: the events the worker is done with, in order
  refused,    \* history: how many events were lost to a full queue
  exitSent,   \* history: the exit event of the running finish was taken
  waitFrom,   \* history: Len(accepted) when the last wait began
  waitBusy    \* history: how many events were handled when the last wait
              \* began, with the one whose function was running

clientVars == <<evVars, mpc, accepted, handled, refused, exitSent, waitFrom, waitBusy>>

history == <<accepted, handled, refused, exitSent, waitFrom, waitBusy>>

ClientTypeOK ==
  /\ EvTypeOK
  /\ mpc \in {"free", "waiting", "joining"}
  /\ accepted \in Seq(Event)
  /\ handled \in Seq(Event)
  /\ refused \in Nat
  /\ exitSent \in BOOLEAN
  /\ waitFrom \in Nat
  /\ waitBusy \in Nat

ClientInit ==
  /\ EvInit
  /\ mpc = "free"
  /\ accepted = <<>>
  /\ handled = <<>>
  /\ refused = 0
  /\ exitSent = FALSE
  /\ waitFrom = 0
  /\ waitBusy = 0

-----------------------------------------------------------------------------
(* The program starts the thread once, in main; a further start is allowed *)
(* while there are sends left.                                             *)
Start ==
  /\ mpc = "free"
  /\ Len(accepted) + refused < MaxSends
  /\ event_threads_init
  /\ UNCHANGED <<mpc, history>>

Record(e) ==
  IF CanSend
  THEN accepted' = Append(accepted, e) /\ UNCHANGED refused
  ELSE refused' = refused + 1 /\ UNCHANGED accepted

(* A send of the GUI thread; it never sends outside init .. finish.        *)
Send(f) ==
  /\ mpc = "free" /\ init = 1
  /\ Len(accepted) + refused < MaxSends
  /\ event_thread_send(Call(f))
  /\ Record(Call(f))
  /\ UNCHANGED <<mpc, handled, exitSent, waitFrom, waitBusy>>

WaitBegin ==
  /\ mpc = "free" /\ init = 1
  /\ mpc' = "waiting"
  /\ waitFrom' = Len(accepted)
  /\ waitBusy' = Len(handled) + (IF wpc = "run" THEN 1 ELSE 0)
  /\ UNCHANGED <<evVars, accepted, handled, refused, exitSent>>

WaitEnd ==
  /\ mpc = "waiting"
  /\ wait_returns
  /\ mpc' = "free"
  /\ UNCHANGED <<evVars, history>>

(* event_threads_finish: send 0x666 without reading the result, then block *)
(* in sysThreadJoin.                                                       *)
FinishThread ==
  /\ mpc = "free" /\ init = 1
  /\ event_thread_send(Exit)
  /\ Record(Exit)
  /\ exitSent' = CanSend
  /\ mpc' = "joining"
  /\ UNCHANGED <<handled, waitFrom, waitBusy>>

Joined ==
  /\ mpc = "joining"
  /\ JoinAndDestroy
  /\ mpc' = "free"
  /\ exitSent' = FALSE
  /\ UNCHANGED <<accepted, handled, refused, waitFrom, waitBusy>>

Client ==
  \/ Start
  \/ \E f \in Funcs \cup {NULL} : Send(f)
  \/ WaitBegin
  \/ WaitEnd
  \/ FinishThread
  \/ Joined

-----------------------------------------------------------------------------
WorkerReceive ==
  /\ Receive
  /\ handled' = IF Head(evQ) = Exit THEN Append(handled, Exit) ELSE handled
  /\ UNCHANGED <<mpc, accepted, refused, exitSent, waitFrom, waitBusy>>

(* A null event is handled by being taken; any other by running its func.  *)
WorkerDispatch ==
  /\ Dispatch
  /\ handled' = IF event.func = NULL THEN Append(handled, event) ELSE handled
  /\ UNCHANGED <<mpc, accepted, refused, exitSent, waitFrom, waitBusy>>

WorkerReturn ==
  /\ Return
  /\ handled' = Append(handled, event)
  /\ UNCHANGED <<mpc, accepted, refused, exitSent, waitFrom, waitBusy>>

WorkerClear ==
  /\ Clear
  /\ UNCHANGED <<mpc, history>>

Worker == WorkerReceive \/ WorkerDispatch \/ WorkerReturn \/ WorkerClear

ClientNext == Client \/ Worker

(* The worker is a kernel thread, so it keeps running while it can, and so *)
(* does the GUI thread inside wait_event_thread and sysThreadJoin. Nothing *)
(* obliges the GUI thread to start, send, wait or finish.                  *)
ClientFairness == WF_clientVars(Worker) /\ WF_clientVars(WaitEnd) /\ WF_clientVars(Joined)

ClientSpec == ClientInit /\ [][ClientNext]_clientVars /\ ClientFairness

-----------------------------------------------------------------------------
(* PROPERTIES                                                              *)

(* Every event the queue took is handled once, in order: no event is       *)
(* lost, run twice or overtaken, through the queue, the worker's hands and *)
(* the destruction of the queue in event_threads_finish.                   *)
ExactlyOnceInOrder == accepted = handled \o InHand \o evQ

(* wait_event_thread does wait for the function that is running when it is *)
(* called. This is all it can promise: see WaitIsABarrier.                 *)
WaitCoversTheRunningFunc == [][WaitEnd => Len(handled) >= waitBusy]_clientVars

(* What the callers' comment "wait previous event thread function"         *)
(* (main.c:794, 5918, 5982) says: when wait_event_thread returns, every    *)
(* function sent before the call has run. It does not hold: the event may  *)
(* be queued, or received and the flag not yet raised.                     *)
WaitIsABarrier == [][WaitEnd => Len(handled) >= waitFrom]_clientVars

(* A running thread works off its queue: an accepted event is handled.     *)
EveryAcceptedIsHandled ==
  \A n \in 1 .. 2 * MaxSends :
    (Len(accepted) >= n) ~> (Len(handled) >= n)

(* wait_event_thread, which polls the flag without taking part in the      *)
(* queue, is not starved by a worker that sets and clears it.              *)
WaitReturns == (mpc = "waiting") ~> (mpc = "free")

(* event_threads_finish returns once its exit event was accepted; when the *)
(* queue was full the event is lost and sysThreadJoin blocks for ever.     *)
FinishReturns == (mpc = "joining" /\ exitSent) ~> (mpc = "free")

(* Event thread and caller never stand still for each other: the queue is  *)
(* worked off and both blocking calls return.                              *)
NobodyWaitsForEver == EveryAcceptedIsHandled /\ WaitReturns /\ FinishReturns

(* The detailed thread implements the abstract job service.                *)
JS == INSTANCE JobService WITH
        Job <- Event, Capacity <- QueueSize + 1,
        pending <- InHand \o evQ, done <- handled

ImplementsJobService == JS!JsSpec
=============================================================================
