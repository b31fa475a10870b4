---------------------------- MODULE EventThreads ----------------------------
(***************************************************************************)
(* source/event_threads.c: one worker thread fed by a bounded event queue. *)
(* This module holds the state of the component and its operations; the    *)
(* modules that extend it decide who calls the operations and when         *)
(* (EventThreadsClient: any order; IsoWriter, ArchiveCopy, ...: the code   *)
(* of one caller).                                                         *)
(*                                                                         *)
(* An event is [code |-> ..., func |-> ...]: code is data_1 ("call" for    *)
(* 0x555, "exit" for 0x666), func is data_2 with its argument data_3, or   *)
(* NULL.                                                                   *)
(***************************************************************************)
EXTENDS Naturals, Sequences

CONSTANTS
  QueueSize,   \* 16, the fourth argument of sysEventQueueCreate
  Funcs,       \* what event_thread_send can be asked to call
  NULL         \* the null function of event_thread_send(0x555, 0, 0)

ASSUME QueueSizeAssumption == QueueSize \in Nat \ {0}
ASSUME NullAssumption == NULL \notin Funcs

VARIABLES
  init,                   \* the static flag of event_threads_init
  evQ,                    \* evQ_sd: accepted events, in order
  event_thread_working,   \* the volatile flag the clients poll
  wpc,                    \* where Event_thread is
  event                   \* event_sd, the event in the worker's hands

evVars == <<init, evQ, event_thread_working, wpc, event>>

Event == [code : {"call"}, func : Funcs \cup {NULL}]
           \cup [code : {"exit"}, func : {NULL}]

Call(f) == [code |-> "call", func |-> f]
Exit == [code |-> "exit", func |-> NULL]

(* "off": no thread; "receive": in sysEventQueueReceive; "dispatch": an    *)
(* event was taken out of the queue and event_thread_working is not set    *)
(* yet; "run": inside func; "clear": func has returned.                    *)
WorkerPlaces == {"off", "receive", "dispatch", "run", "clear", "exited"}

EvTypeOK ==
  /\ init \in {0, 1}
  /\ evQ \in Seq(Event)
  /\ Len(evQ) <= QueueSize
  /\ event_thread_working \in {0, 1}
  /\ wpc \in WorkerPlaces
  /\ event \in Event

EvInit ==
  /\ init = 0
  /\ evQ = <<>>
  /\ event_thread_working = 0
  /\ wpc = "off"
  /\ event = Exit

(* The state event_threads_init leaves, for the modules whose caller runs  *)
(* between event_threads_init and event_threads_finish.                    *)
EvStarted ==
  /\ init = 1
  /\ evQ = <<>>
  /\ event_thread_working = 0
  /\ wpc = "receive"
  /\ event = Exit

-----------------------------------------------------------------------------
(* event_threads_init: create the queue, connect the port, start the       *)
(* thread. A second call returns at once.                                  *)
event_threads_init ==
  /\ init = 0
  /\ init' = 1
  /\ evQ' = <<>>
  /\ wpc' = "receive"
  /\ UNCHANGED <<event_thread_working, event>>

(* sysEventPortSend refuses an event when the queue is full.               *)
CanSend == Len(evQ) < QueueSize

(* event_thread_send: no caller reads the result, so a refused event is    *)
(* lost without a trace.                                                   *)
event_thread_send(e) ==
  /\ evQ' = IF CanSend THEN Append(evQ, e) ELSE evQ
  /\ UNCHANGED <<init, event_thread_working, wpc, event>>

(* wait_event_thread leaves its loop on the first poll that reads zero.    *)
wait_returns == event_thread_working = 0

DestroyWithoutJoin ==     \* mutant
  /\ init = 1
  /\ wpc = "receive"
  /\ wpc' = "off"
  /\ init' = 0
  /\ evQ' = <<>>
  /\ UNCHANGED <<event_thread_working, event>>

(* event_threads_finish after the exit event: join, destroy, init = 0.     *)
JoinAndDestroy ==
  /\ init = 1
  /\ wpc = "exited"
  /\ wpc' = "off"
  /\ init' = 0
  /\ evQ' = <<>>
  /\ UNCHANGED <<event_thread_working, event>>

-----------------------------------------------------------------------------
(* Event_thread, one action per step another thread can see.               *)
Receive ==
  /\ wpc = "receive"
  /\ evQ # <<>>
  /\ event' = Head(evQ)
  /\ evQ' = Tail(evQ)
  /\ wpc' = IF Head(evQ).code = "exit" THEN "exited" ELSE "dispatch"
  /\ UNCHANGED <<init, event_thread_working>>

DispatchUnmarked ==     \* mutant
  /\ wpc = "dispatch"
  /\ wpc' = IF event.func = NULL THEN "clear" ELSE "run"
  /\ UNCHANGED <<init, evQ, event_thread_working, event>>

(* event_thread_working = 1; func = data_2: a null func is not called.     *)
Dispatch ==
  /\ wpc = "dispatch"
  /\ event_thread_working' = 1
  /\ wpc' = IF event.func = NULL THEN "clear" ELSE "run"
  /\ UNCHANGED <<init, evQ, event>>

(* func returns. What func does is the business of the module that         *)
(* extends this one, which conjoins it.                                    *)
Return ==
  /\ wpc = "run"
  /\ wpc' = "clear"
  /\ UNCHANGED <<init, evQ, event_thread_working, event>>

ClearAndBreak ==     \* mutant
  /\ wpc = "clear"
  /\ event_thread_working' = 0
  /\ wpc' = "exited"
  /\ UNCHANGED <<init, evQ, event>>

Clear ==
  /\ wpc = "clear"
  /\ event_thread_working' = 0
  /\ wpc' = "receive"
  /\ UNCHANGED <<init, evQ, event>>

(* The event the worker has taken and not finished with.                   *)
InHand == IF wpc \in {"dispatch", "run"} THEN <<event>> ELSE <<>>

=============================================================================
