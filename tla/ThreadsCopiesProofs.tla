------------------------ MODULE ThreadsCopiesProofs -------------------------
(***************************************************************************)
(* Theorems about three components: what EventThreadsClient promises for   *)
(* every queue size, every set of functions and every bound on the sends;  *)
(* about the drivers around the fast-copy engine (GameCopies), for all     *)
(* sets of games and devices and any number of tasks; and about the engine *)
(* (FastCopy), for all directories, sizes of files, fragments, buffers and *)
(* parts, and batches.                                                     *)
(***************************************************************************)
EXTENDS EventThreadsClient, GameCopies, FastCopy, SequenceTheorems,
        WellFoundedInduction, TLAPS

(***************************************************************************)
(* THE EVENT THREAD                                                        *)
(***************************************************************************)

-----------------------------------------------------------------------------
(* Facts about sequences.                                                  *)

(* A nonempty sequence is its head followed by its tail.                   *)
LEMMA HeadThenTail ==
  ASSUME NEW S, NEW s \in Seq(S), s # <<>>
  PROVE  s = <<Head(s)>> \o Tail(s)
<1> DEFINE t == <<Head(s)>> \o Tail(s)
<1>1. /\ Head(s) \in S /\ Tail(s) \in Seq(S) /\ Len(Tail(s)) = Len(s) - 1
      /\ \A i \in 1 .. Len(Tail(s)) : Tail(s)[i] = s[i+1]
  BY HeadTailProperties
<1>2. <<Head(s)>> \in Seq(S) /\ Len(<<Head(s)>>) = 1 /\ <<Head(s)>>[1] = Head(s)
  BY <1>1
<1>3. /\ t \in Seq(S)
      /\ Len(t) = 1 + Len(Tail(s))
      /\ \A i \in 1 .. 1 + Len(Tail(s)) :
           t[i] = IF i <= 1 THEN <<Head(s)>>[i] ELSE Tail(s)[i - 1]
  BY <1>1, <1>2, ConcatProperties
<1>4. Len(s) \in Nat /\ Len(s) # 0 /\ Head(s) = s[1]
  BY EmptySeq
<1>5. \A i \in 1 .. Len(s) : s[i] = t[i]
  BY <1>1, <1>2, <1>3, <1>4
<1> QED
  BY <1>1, <1>3, <1>4, <1>5, SeqEqual

(* An element put before a sequence is its head.                           *)
LEMMA HeadTailOfConcat ==
  ASSUME NEW S, NEW e \in S, NEW t \in Seq(S), NEW c, c = <<e>> \o t
  PROVE  c # <<>> /\ Head(c) = e /\ Tail(c) = t
<1>1. <<e>> \in Seq(S) /\ Len(<<e>>) = 1 /\ <<e>>[1] = e
  OBVIOUS
<1>2. /\ c \in Seq(S) /\ Len(c) = 1 + Len(t) /\ Len(t) \in Nat
      /\ \A i \in 1 .. 1 + Len(t) : c[i] = IF i <= 1 THEN <<e>>[i] ELSE t[i - 1]
  BY <1>1, ConcatProperties, LenProperties
<1>3. c # <<>> /\ Head(c) = c[1] /\ c[1] = e
  BY <1>1, <1>2, EmptySeq
<1>4. PICK u \in Seq(S) : u = Tail(c)
  BY <1>2, <1>3, HeadTailProperties
<1>5. Len(u) = Len(t) /\ \A i \in 1 .. Len(u) : u[i] = c[i+1]
  BY <1>2, <1>3, <1>4, HeadTailProperties
<1>6. \A i \in 1 .. Len(u) : u[i] = t[i]
  <2> SUFFICES ASSUME NEW i \in 1 .. Len(u) PROVE u[i] = t[i]
    OBVIOUS
  <2>1. u[i] = c[i+1]
    BY <1>5
  <2>2. i + 1 \in 1 .. 1 + Len(t) /\ ~(i + 1 <= 1) /\ (i + 1) - 1 = i
    BY <1>2, <1>5
  <2>3. c[i+1] = IF i + 1 <= 1 THEN <<e>>[i+1] ELSE t[(i+1) - 1]
    BY <1>2, <2>2
  <2> QED
    BY <2>1, <2>2, <2>3
<1>7. u = t
  BY <1>5, <1>6, SeqEqual
<1> QED
  BY <1>3, <1>4, <1>7

(* Appending an element concatenates a sequence of length one.             *)
LEMMA AppendOne ==
  ASSUME NEW S, NEW s \in Seq(S), NEW e \in S
  PROVE  /\ Append(s, e) \in Seq(S)
         /\ Len(Append(s, e)) = Len(s) + 1
         /\ Append(s, e) = s \o <<e>>
BY SMT

-----------------------------------------------------------------------------
(* The inductive invariant: beside the types, what ties the worker's place *)
(* to the flag, the event in its hands and the life of the queue, and that *)
(* the exit event is the last one the queue ever takes.                    *)
FlagShowsTheWorker ==
  (event_thread_working = 1) <=> (wpc \in {"run", "clear"})

QueueLives ==
  /\ (wpc = "off") <=> (init = 0)
  /\ init = 0 => evQ = <<>> /\ mpc = "free"

CallInHand ==
  /\ wpc \in {"dispatch", "run"} => event.code = "call"
  /\ wpc = "run" => event.func # NULL

ExitIsLast ==
  /\ \A i \in 1 .. Len(evQ) : evQ[i] = Exit => i = Len(evQ) /\ mpc = "joining"
  /\ wpc = "exited" => evQ = <<>> /\ mpc = "joining"

WaitBound ==
  mpc = "waiting" => waitBusy <= Len(handled) + (IF wpc = "run" THEN 1 ELSE 0)

Control ==
  /\ FlagShowsTheWorker
  /\ QueueLives
  /\ CallInHand
  /\ ExitIsLast

IInv ==
  /\ ClientTypeOK
  /\ Control
  /\ ExactlyOnceInOrder
  /\ WaitBound

LEMMA EventFacts ==
  /\ Exit \in Event
  /\ \A f \in Funcs \cup {NULL} : Call(f) \in Event /\ Call(f) # Exit
  /\ \A e \in Event : e.code = "exit" <=> e = Exit
  /\ \A e \in Event : e.code \in {"call", "exit"}
BY DEF Event, Exit, Call

LEMMA InitIInv == ClientInit => IInv
<1> SUFFICES ASSUME ClientInit PROVE IInv
  OBVIOUS
<1>1. <<>> \in Seq(Event) /\ Len(<<>>) = 0 /\ <<>> \o <<>> = <<>>
  BY EmptySeq, ConcatEmptySeq
<1>2. ClientTypeOK
  <2>1. Exit \in Event /\ 0 <= QueueSize
    BY EventFacts, QueueSizeAssumption
  <2>2. evQ \in Seq(Event) /\ Len(evQ) <= QueueSize /\ event \in Event
    BY <1>1, <2>1 DEF ClientInit, EvInit
  <2>3. accepted \in Seq(Event) /\ handled \in Seq(Event)
    BY <1>1 DEF ClientInit
  <2> QED
    BY <2>2, <2>3 DEF ClientInit, EvInit, ClientTypeOK, EvTypeOK, WorkerPlaces
<1>3. Control
  BY <1>1 DEF ClientInit, EvInit, Control, FlagShowsTheWorker, QueueLives, CallInHand, ExitIsLast
<1>4. ExactlyOnceInOrder
  BY <1>1 DEF ClientInit, EvInit, ExactlyOnceInOrder, InHand
<1>5. WaitBound
  BY DEF ClientInit, WaitBound
<1> QED
  BY <1>2, <1>3, <1>4, <1>5 DEF IInv

(* One send, of a call or of the exit event.                               *)
LEMMA SendKeepsOrder ==
  ASSUME NEW e \in Event, IInv, event_thread_send(e), Record(e), UNCHANGED handled
  PROVE  /\ evQ' \in Seq(Event) /\ Len(evQ') <= QueueSize
         /\ accepted' \in Seq(Event) /\ refused' \in Nat
         /\ ExactlyOnceInOrder'
<1> USE DEF IInv, ClientTypeOK, EvTypeOK
<1>1. CASE ~CanSend
  <2>1. UNCHANGED <<evQ, accepted, wpc, event>> /\ refused' = refused + 1
    BY <1>1 DEF event_thread_send, Record
  <2>2. ExactlyOnceInOrder'
    BY <2>1 DEF ExactlyOnceInOrder, InHand
  <2> QED
    BY <2>1, <2>2
<1>2. CASE CanSend
  <2>1. evQ' = Append(evQ, e) /\ accepted' = Append(accepted, e) /\ refused' = refused
    BY <1>2 DEF event_thread_send, Record
  <2>2. evQ' \in Seq(Event) /\ Len(evQ') = Len(evQ) + 1 /\ accepted' \in Seq(Event)
    BY <2>1
  <2>3. Len(evQ') <= QueueSize
    BY <1>2, <2>2, QueueSizeAssumption DEF CanSend
  <2>4. /\ InHand \in Seq(Event) /\ InHand' = InHand
        /\ handled \o InHand \in Seq(Event) /\ evQ \in Seq(Event) /\ e \in Event
    <3>1. InHand \in Seq(Event) /\ InHand' = InHand
      BY DEF event_thread_send, InHand
    <3>2. handled \o InHand \in Seq(Event)
      BY <3>1, ConcatProperties
    <3> QED
      BY <3>1, <3>2
  <2>5. Append(accepted, e) = (handled \o InHand) \o evQ'
    <3> DEFINE before == handled \o InHand
    <3>1. accepted = before \o evQ /\ before \in Seq(Event)
      BY <2>4 DEF ExactlyOnceInOrder
    <3> HIDE DEF before
    <3>2. <<e>> \in Seq(Event)
      BY <2>4
    <3>3. Append(accepted, e) = (before \o evQ) \o <<e>>
      BY <2>4, <3>1, AppendOne
    <3>4. evQ' = evQ \o <<e>>
      BY <2>1, <2>4, AppendOne
    <3>5. (before \o evQ) \o <<e>> = before \o (evQ \o <<e>>)
      <4> DEFINE last == <<e>>
      <4>1. last \in Seq(Event) /\ evQ \in Seq(Event) /\ before \in Seq(Event)
        BY <2>4, <3>1, <3>2
      <4> HIDE DEF last
      <4>2. (before \o evQ) \o last = before \o (evQ \o last)
        BY SMTT(30), <4>1, ConcatAssociative
      <4> QED
        BY <4>2 DEF last
    <3>6. Append(accepted, e) = before \o evQ'
      BY <3>3, <3>4, <3>5
    <3> QED
      BY <3>6 DEF before
  <2> QED
    BY <2>1, <2>2, <2>3, <2>4, <2>5 DEF ExactlyOnceInOrder
<1> QED
  BY <1>1, <1>2

LEMMA NextIInv == IInv /\ [ClientNext]_clientVars => IInv'
<1> SUFFICES ASSUME IInv, [ClientNext]_clientVars PROVE IInv'
  OBVIOUS
<1> USE DEF IInv, ClientTypeOK, EvTypeOK
<1>1. CASE Start
  <2>1. <<>> \in Seq(Event) /\ Len(<<>>) = 0
    BY EmptySeq
  <2>2. ClientTypeOK' /\ Control' /\ WaitBound'
    BY <1>1, <2>1, QueueSizeAssumption
       DEF Start, event_threads_init, history, WorkerPlaces, Control,
           FlagShowsTheWorker, QueueLives, CallInHand, ExitIsLast, WaitBound
  <2>3. ExactlyOnceInOrder'
    BY <1>1 DEF Start, event_threads_init, history, ExactlyOnceInOrder, InHand,
                Control, QueueLives
  <2> QED
    BY <2>2, <2>3
<1>2. ASSUME NEW f \in Funcs \cup {NULL}, Send(f) PROVE IInv'
  <2>1. Call(f) \in Event /\ Call(f) # Exit
    BY EventFacts
  <2>2. evQ' \in Seq(Event) /\ Len(evQ') <= QueueSize /\ accepted' \in Seq(Event)
        /\ refused' \in Nat /\ ExactlyOnceInOrder'
    BY <1>2, <2>1, SendKeepsOrder DEF Send
  <2>3. ClientTypeOK'
    BY <1>2, <2>2 DEF Send, event_thread_send
  <2>4. \A i \in 1 .. Len(evQ') : evQ'[i] # Exit
    BY <1>2, <2>1 DEF Send, event_thread_send, Control, ExitIsLast
  <2>5. Control'
    BY <1>2, <2>4 DEF Send, event_thread_send, Control, FlagShowsTheWorker,
                      QueueLives, CallInHand, ExitIsLast
  <2>6. WaitBound'
    BY <1>2 DEF Send, event_thread_send, WaitBound
  <2> QED
    BY <2>2, <2>3, <2>5, <2>6
<1>3. CASE WaitBegin
  BY <1>3 DEF WaitBegin, evVars, Control, FlagShowsTheWorker, QueueLives, CallInHand,
              ExitIsLast, ExactlyOnceInOrder, InHand, WaitBound
<1>4. CASE WaitEnd
  BY <1>4 DEF WaitEnd, evVars, history, Control, FlagShowsTheWorker, QueueLives,
              CallInHand, ExitIsLast, ExactlyOnceInOrder, InHand, WaitBound
<1>5. CASE FinishThread
  <2>1. evQ' \in Seq(Event) /\ Len(evQ') <= QueueSize /\ accepted' \in Seq(Event)
        /\ refused' \in Nat /\ ExactlyOnceInOrder'
    BY <1>5, EventFacts, SendKeepsOrder DEF FinishThread
  <2>2. ClientTypeOK'
    BY <1>5, <2>1 DEF FinishThread, event_thread_send, CanSend
  <2>3. \A i \in 1 .. Len(evQ') : evQ'[i] = Exit => i = Len(evQ') /\ mpc' = "joining"
    BY <1>5 DEF FinishThread, event_thread_send, Control, ExitIsLast
  <2>4. Control'
    BY <1>5, <2>3 DEF FinishThread, event_thread_send, Control, FlagShowsTheWorker,
                      QueueLives, CallInHand, ExitIsLast
  <2>5. WaitBound'
    BY <1>5 DEF FinishThread, WaitBound
  <2> QED
    BY <2>1, <2>2, <2>4, <2>5
<1>6. CASE Joined
  <2>1. evQ = <<>> /\ evQ' = <<>> /\ InHand = <<>> /\ InHand' = <<>>
    BY <1>6 DEF Joined, JoinAndDestroy, Control, ExitIsLast, InHand
  <2>2. ExactlyOnceInOrder'
    BY <1>6, <2>1 DEF Joined, ExactlyOnceInOrder
  <2>3. /\ init' = 0 /\ wpc' = "off" /\ mpc' = "free" /\ exitSent' = FALSE
        /\ wpc = "exited" /\ evQ' = evQ
        /\ UNCHANGED <<event_thread_working, event, accepted, handled, refused,
                       waitFrom, waitBusy>>
    BY <1>6, <2>1 DEF Joined, JoinAndDestroy
  <2>4. ClientTypeOK'
    BY <2>3 DEF WorkerPlaces
  <2>5. Control'
    BY <2>1, <2>3, EmptySeq DEF Control, FlagShowsTheWorker, QueueLives, CallInHand, ExitIsLast
  <2>6. WaitBound'
    BY <2>3 DEF WaitBound
  <2> QED
    BY <2>2, <2>4, <2>5, <2>6
<1>7. CASE WorkerReceive
  <2>1. /\ wpc = "receive" /\ event' = Head(evQ) /\ evQ' = Tail(evQ) /\ evQ # <<>>
        /\ UNCHANGED <<init, event_thread_working, mpc, accepted, refused, exitSent,
                       waitFrom, waitBusy>>
    BY <1>7 DEF WorkerReceive, Receive
  <2>2. /\ event' \in Event /\ evQ' \in Seq(Event) /\ event' = evQ[1]
        /\ Len(evQ) \in Nat \ {0} /\ Len(evQ') = Len(evQ) - 1
        /\ \A i \in 1 .. Len(evQ') : evQ'[i] = evQ[i+1]
    BY <2>1, HeadTailProperties, EmptySeq
  <2>3. /\ wpc' = IF event' = Exit THEN "exited" ELSE "dispatch"
        /\ handled' = IF event' = Exit THEN Append(handled, Exit) ELSE handled
    <3>1. event'.code = "exit" <=> event' = Exit
      BY <2>2, EventFacts
    <3>2. /\ wpc' = IF event'.code = "exit" THEN "exited" ELSE "dispatch"
          /\ handled' = IF event' = Exit THEN Append(handled, Exit) ELSE handled
      BY <1>7, <2>1 DEF WorkerReceive, Receive
    <3> QED
      BY <3>1, <3>2
  <2>4. handled' \in Seq(Event) /\ Len(handled') >= Len(handled) /\ Len(handled) \in Nat
    <3>1. /\ Append(handled, Exit) \in Seq(Event)
          /\ Len(Append(handled, Exit)) = Len(handled) + 1
      BY EventFacts, AppendOne
    <3>2. Len(handled) \in Nat
      OBVIOUS
    <3> QED
      BY <2>3, <3>1, <3>2
  <2>5. ClientTypeOK'
    <3>1. Len(evQ') <= QueueSize
      BY <2>2, QueueSizeAssumption
    <3> QED
      BY <2>1, <2>2, <2>3, <2>4, <3>1 DEF WorkerPlaces
  <2>6. WaitBound'
    BY <2>1, <2>3, <2>4 DEF WaitBound
  <2>8. Control'
    <3>1. FlagShowsTheWorker' /\ QueueLives'
      BY <2>1, <2>3 DEF Control, FlagShowsTheWorker, QueueLives
    <3>2. CallInHand'
      <4>1. event' # Exit => event'.code = "call"
        BY <2>2, EventFacts
      <4> QED
        BY <2>3, <4>1 DEF CallInHand
    <3>3. event' = Exit => Len(evQ) = 1 /\ mpc = "joining"
      <4>1. 1 \in 1 .. Len(evQ)
        BY <2>2
      <4> QED
        BY <2>2, <4>1 DEF Control, ExitIsLast
    <3>4. Len(evQ) = 1 => evQ' = <<>>
      BY <2>2, EmptySeq
    <3>5. \A i \in 1 .. Len(evQ') : evQ'[i] = Exit => i = Len(evQ') /\ mpc = "joining"
      BY <2>2 DEF Control, ExitIsLast
    <3>6. ExitIsLast'
      BY <2>1, <2>3, <3>3, <3>4, <3>5 DEF ExitIsLast
    <3> QED
      BY <3>1, <3>2, <3>6 DEF Control
  <2>7. ExactlyOnceInOrder'
    <3>1. <<event'>> \in Seq(Event) /\ evQ = <<event'>> \o evQ'
      BY <2>1, <2>2, HeadThenTail
    <3>2. accepted = handled \o evQ
      <4>1. InHand = <<>> /\ handled \o <<>> = handled
        BY <2>1, ConcatEmptySeq DEF InHand
      <4> QED
        BY <4>1 DEF ExactlyOnceInOrder
    <3>3. accepted = (handled \o <<event'>>) \o evQ'
      <4>1. (handled \o <<event'>>) \o evQ' = handled \o (<<event'>> \o evQ')
        BY <2>2, <3>1, ConcatAssociative
      <4> QED
        BY <3>1, <3>2, <4>1
    <3>4. handled' \o InHand' = handled \o <<event'>>
      <4>1. CASE event' = Exit
        <5>1. handled' = handled \o <<event'>> /\ InHand' = <<>>
          BY <2>3, <4>1, EventFacts, AppendOne DEF InHand
        <5> QED
          BY <2>4, <5>1, ConcatEmptySeq
      <4>2. CASE event' # Exit
        BY <2>3, <4>2 DEF InHand
      <4> QED
        BY <4>1, <4>2
    <3> QED
      BY <2>1, <3>3, <3>4 DEF ExactlyOnceInOrder
  <2> QED
    BY <2>5, <2>6, <2>7, <2>8
<1>8. CASE WorkerDispatch \/ WorkerReturn
  <2>1. /\ wpc \in {"dispatch", "run"} /\ wpc' \in {"run", "clear"}
        /\ handled' = IF wpc' = "clear" THEN Append(handled, event) ELSE handled
        /\ UNCHANGED <<init, evQ, event, mpc, accepted, refused, exitSent, waitFrom, waitBusy>>
    BY <1>8 DEF WorkerDispatch, WorkerReturn, Dispatch, Return
  <2>2. /\ handled' \in Seq(Event) /\ Len(handled) \in Nat
        /\ wpc' = "clear" => Len(handled') = Len(handled) + 1
        /\ wpc' # "clear" => handled' = handled /\ wpc = "dispatch"
    <3>1. /\ Append(handled, event) \in Seq(Event)
          /\ Len(Append(handled, event)) = Len(handled) + 1 /\ Len(handled) \in Nat
      BY AppendOne
    <3>2. wpc' # "clear" => wpc = "dispatch"
      BY <1>8, <2>1 DEF WorkerDispatch, WorkerReturn, Dispatch, Return
    <3> QED
      BY <2>1, <3>1, <3>2
  <2>3. event_thread_working' = 1
    BY <1>8 DEF WorkerDispatch, WorkerReturn, Dispatch, Return, Control, FlagShowsTheWorker
  <2>4. ClientTypeOK'
    BY <2>1, <2>2, <2>3 DEF WorkerPlaces
  <2>5. WaitBound'
    <3>1. CASE wpc' = "clear"
      BY <2>1, <2>2, <3>1 DEF WaitBound
    <3>2. CASE wpc' # "clear"
      BY <2>1, <2>2, <3>2 DEF WaitBound
    <3> QED
      BY <3>1, <3>2
  <2>6. wpc' = "run" => event.func # NULL
    BY <1>8 DEF WorkerDispatch, WorkerReturn, Dispatch, Return
  <2>7. Control'
    BY <2>1, <2>3, <2>6 DEF Control, FlagShowsTheWorker, QueueLives, CallInHand, ExitIsLast
  <2>8. handled' \o InHand' = handled \o InHand
    <3>1. CASE wpc' = "clear"
      <4>1. InHand = <<event>> /\ InHand' = <<>> /\ handled' = Append(handled, event)
        BY <2>1, <3>1 DEF InHand
      <4>2. Append(handled, event) = handled \o <<event>>
        BY AppendOne
      <4>3. handled' \o <<>> = handled'
        BY <2>2, ConcatEmptySeq
      <4> QED
        BY <4>1, <4>2, <4>3, Zenon
    <3>2. CASE wpc' = "run"
      BY <2>1, <3>2 DEF InHand
    <3> QED
      BY <2>1, <3>1, <3>2
  <2>9. ExactlyOnceInOrder'
    BY <2>1, <2>8 DEF ExactlyOnceInOrder
  <2> QED
    BY <2>4, <2>5, <2>7, <2>9
<1>9. CASE WorkerClear
  BY <1>9 DEF WorkerClear, Clear, history, WorkerPlaces, Control, FlagShowsTheWorker, QueueLives,
              CallInHand, ExitIsLast, ExactlyOnceInOrder, InHand, WaitBound
<1>10. CASE UNCHANGED clientVars
  BY <1>10 DEF clientVars, evVars, Control, FlagShowsTheWorker, QueueLives, CallInHand,
               ExitIsLast, ExactlyOnceInOrder, InHand, WaitBound
<1> QED
  BY <1>1, <1>2, <1>3, <1>4, <1>5, <1>6, <1>7, <1>8, <1>9, <1>10
     DEF ClientNext, Client, Worker

-----------------------------------------------------------------------------
(* IInv holds in every reachable state.                                    *)
THEOREM Invariance == ClientSpec => []IInv
BY InitIInv, NextIInv, PTL DEF ClientSpec

(* Type correctness: among others, the queue never exceeds its size.       *)
THEOREM TypeCorrect == ClientSpec => []ClientTypeOK
BY Invariance, PTL DEF IInv

(* Every accepted event is handled exactly once and in order, through a    *)
(* shutdown and a restart as well.                                         *)
THEOREM ExactlyOnce == ClientSpec => []ExactlyOnceInOrder
BY Invariance, PTL DEF IInv

(* wait_event_thread waits for the function running when it was called.    *)
THEOREM WaitCovers == ClientSpec => WaitCoversTheRunningFunc
<1>1. IInv /\ [ClientNext]_clientVars => [WaitEnd => Len(handled) >= waitBusy]_clientVars
  BY DEF IInv, ClientTypeOK, Control, FlagShowsTheWorker, WaitBound, WaitEnd, wait_returns
<1> QED
  BY <1>1, Invariance, PTL DEF ClientSpec, WaitCoversTheRunningFunc

-----------------------------------------------------------------------------
(* The thread implements JobService: what is pending there is the event in *)
(* the worker's hands followed by the queue.                               *)
Backlog == InHand \o evQ

LEMMA BacklogFacts ==
  ASSUME IInv
  PROVE  /\ InHand \in Seq(Event) /\ Len(InHand) <= 1 /\ Backlog \in Seq(Event)
         /\ Len(Backlog) = Len(InHand) + Len(evQ)
<1> USE DEF IInv, ClientTypeOK, EvTypeOK
<1>1. InHand \in Seq(Event) /\ Len(InHand) <= 1
  BY DEF InHand
<1> QED
  BY <1>1, ConcatProperties DEF Backlog

LEMMA SendSubmits ==
  ASSUME NEW e \in Event, IInv, event_thread_send(e), UNCHANGED handled
  PROVE  \/ JS!Submit(e)
         \/ UNCHANGED <<Backlog, handled>>
<1> USE DEF IInv, ClientTypeOK, EvTypeOK
<1>1. InHand' = InHand
  BY DEF event_thread_send, InHand
<1>2. CASE ~CanSend
  BY <1>1, <1>2 DEF event_thread_send, Backlog
<1>3. CASE CanSend
  <2>1. evQ' = Append(evQ, e) /\ evQ \in Seq(Event) /\ <<e>> \in Seq(Event)
    BY <1>3 DEF event_thread_send
  <2>2. Len(Backlog) < QueueSize + 1
    BY <1>3, BacklogFacts, QueueSizeAssumption DEF CanSend
  <2>3. Append(Backlog, e) = (InHand \o evQ) \o <<e>>
    BY BacklogFacts, AppendOne DEF Backlog
  <2>4. evQ' = evQ \o <<e>>
    BY <2>1, AppendOne
  <2>5. (InHand \o evQ) \o <<e>> = InHand \o (evQ \o <<e>>)
    <3> DEFINE hand == InHand
    <3>1. hand \in Seq(Event)
      BY BacklogFacts
    <3> HIDE DEF hand
    <3>2. (hand \o evQ) \o <<e>> = hand \o (evQ \o <<e>>)
      BY SMTT(30), <2>1, <3>1, ConcatAssociative
    <3> QED
      BY <3>2 DEF hand
  <2>6. Backlog' = Append(Backlog, e)
    BY <1>1, <2>3, <2>4, <2>5 DEF Backlog
  <2> QED
    BY <2>2, <2>6 DEF JS!Submit, Backlog
<1> QED
  BY <1>2, <1>3

LEMMA NextImplements == IInv /\ [ClientNext]_clientVars => [JS!JsNext]_(JS!jsVars)
<1> SUFFICES ASSUME IInv, [ClientNext]_clientVars PROVE [JS!JsNext]_(JS!jsVars)
  OBVIOUS
<1> USE DEF IInv, ClientTypeOK, EvTypeOK
<1>a. UNCHANGED <<Backlog, handled>> => UNCHANGED JS!jsVars
  BY DEF JS!jsVars, Backlog
<1>b. \A e \in Event : JS!Submit(e) => JS!JsNext
  BY DEF JS!JsNext
<1>1. CASE Start
  <2>1. InHand = <<>> /\ InHand' = <<>> /\ evQ = <<>> /\ evQ' = <<>>
    BY <1>1 DEF Start, event_threads_init, Control, QueueLives, InHand
  <2> QED
    BY <1>1, <1>a, <2>1 DEF Start, history, Backlog
<1>2. ASSUME NEW f \in Funcs \cup {NULL}, Send(f) PROVE [JS!JsNext]_(JS!jsVars)
  BY <1>2, <1>a, <1>b, EventFacts, SendSubmits DEF Send
<1>3. CASE WaitBegin \/ WaitEnd \/ WorkerClear
  <2>1. UNCHANGED <<InHand, evQ, handled>>
    BY <1>3 DEF WaitBegin, WaitEnd, WorkerClear, Clear, history, evVars, InHand
  <2> QED
    BY <1>a, <2>1 DEF Backlog
<1>4. CASE FinishThread
  BY <1>4, <1>a, <1>b, EventFacts, SendSubmits DEF FinishThread
<1>5. CASE Joined
  <2>1. InHand = <<>> /\ InHand' = <<>> /\ evQ = <<>> /\ evQ' = <<>>
    BY <1>5 DEF Joined, JoinAndDestroy, Control, ExitIsLast, InHand
  <2> QED
    BY <1>5, <1>a, <2>1 DEF Joined, Backlog
<1>6. CASE WorkerReceive
  <2>1. wpc = "receive" /\ evQ # <<>> /\ event' = Head(evQ) /\ evQ' = Tail(evQ)
    BY <1>6 DEF WorkerReceive, Receive
  <2>2. Head(evQ) \in Event /\ evQ' \in Seq(Event)
    BY <2>1, HeadTailProperties
  <2>3. Backlog = evQ
    BY <2>1, ConcatEmptySeq DEF InHand, Backlog
  <2>4. CASE event' = Exit
    <3>1. handled' = Append(handled, Head(evQ)) /\ wpc' = "exited"
      BY <1>6, <2>1, <2>4, EventFacts DEF WorkerReceive, Receive, Exit
    <3>2. Backlog' = evQ'
      BY <2>2, <3>1, ConcatEmptySeq DEF InHand, Backlog
    <3>3. JS!Handle
      BY <2>1, <2>3, <3>1, <3>2 DEF JS!Handle, Backlog
    <3> QED
      BY <3>3 DEF JS!JsNext
  <2>5. CASE event' # Exit
    <3>1. event'.code # "exit"
      BY <2>1, <2>2, <2>5, EventFacts
    <3>2. handled' = handled /\ wpc' = "dispatch"
      BY <1>6, <2>1, <2>5, <3>1 DEF WorkerReceive, Receive
    <3>3. evQ = <<event'>> \o evQ'
      BY <2>1, HeadThenTail
    <3>4. Backlog' = evQ
      BY <3>2, <3>3 DEF InHand, Backlog
    <3> QED
      BY <1>a, <2>3, <3>2, <3>4
  <2> QED
    BY <2>4, <2>5
<1>7. CASE WorkerDispatch \/ WorkerReturn
  <2>1. /\ wpc \in {"dispatch", "run"} /\ wpc' \in {"run", "clear"}
        /\ handled' = IF wpc' = "clear" THEN Append(handled, event) ELSE handled
        /\ UNCHANGED <<event, evQ>>
    BY <1>7 DEF WorkerDispatch, WorkerReturn, Dispatch, Return
  <2>2. CASE wpc' = "run"
    BY <1>a, <2>1, <2>2 DEF InHand, Backlog
  <2>3. CASE wpc' = "clear"
    <3>1. Backlog = <<event>> \o evQ /\ Backlog' = <<>> \o evQ
      BY <2>1, <2>3 DEF InHand, Backlog
    <3>2. <<>> \o evQ = evQ /\ <<event>> \in Seq(Event)
      BY ConcatEmptySeq
    <3>3. Backlog # <<>> /\ Head(Backlog) = event /\ Tail(Backlog) = Backlog'
      BY <3>1, <3>2, HeadTailOfConcat
    <3>4. JS!Handle
      BY <2>1, <2>3, <3>3 DEF JS!Handle, Backlog
    <3> QED
      BY <3>4 DEF JS!JsNext
  <2> QED
    BY <2>1, <2>2, <2>3
<1>8. CASE UNCHANGED clientVars
  BY <1>8, <1>a DEF clientVars, evVars, InHand, Backlog
<1> QED
  BY <1>1, <1>2, <1>3, <1>4, <1>5, <1>6, <1>7, <1>8 DEF ClientNext, Client, Worker

(* The event thread implements the abstract job service.                   *)
THEOREM Refinement == ClientSpec => ImplementsJobService
<1>1. ClientInit => JS!JsInit
  <2>1. <<>> \o <<>> = <<>>
    BY EmptySeq, ConcatEmptySeq
  <2> QED
    BY <2>1 DEF ClientInit, EvInit, InHand, JS!JsInit
<1> QED
  BY <1>1, NextImplements, Invariance, PTL DEF ClientSpec, ImplementsJobService, JS!JsSpec

(***************************************************************************)
(* THE DRIVERS AROUND THE FAST-COPY ENGINE                                 *)
(***************************************************************************)

-----------------------------------------------------------------------------
(* Where a driver is, its task is one of its kind; a copy goes to another  *)
(* device than it comes from.                                              *)
CopyPlaces == {"count", "where", "copy", "copying", "rename", "aborted"}
TargetPlaces == {"copy", "copying", "rename", "aborted"}
FolderPlaces == {"sure", "test", "cache", "caching"}
DiscPlaces == {"disc", "dumping"}
Discs == {Disc(g) : g \in Games}

TaskInv ==
  /\ gcpc \in {"idle"} \cup CopyPlaces \cup FolderPlaces \cup DiscPlaces
  /\ gcpc \in CopyPlaces =>
       task \in [op : {"copy"}, from : Folder \cup Discs, to : Folder \cup Discs, split : BOOLEAN]
  /\ gcpc \in FolderPlaces => task \in [op : {"delete", "test", "cache"}, from : Folder]
  /\ gcpc \in DiscPlaces => task \in [op : {"dump"}, game : Psx, disc : {1, 2}]
  /\ gcpc \in TargetPlaces => To \in Folder /\ To.game = From.game /\ To.dev # From.dev

(* The original of a copy is there, and the copy is begun; at its end it is *)
(* whole, or to blame, or about to be marked.                              *)
GameInv ==
  /\ gcpc \in CopyPlaces /\ From \in Folder => held[From] # "none"
  /\ gcpc = "copying" => held[To] = "part" /\ (From \notin Folder \/ held[From] = "part" => From.game \in killed)
  /\ gcpc = "rename" => held[To] = "whole" \/ To \in odd.folders \/ (task.split /\ To.dev # "hdd")
  /\ gcpc = "aborted" => held[To] \in {"none", "part"}

(* The parts of NothingHalfIsPlain, at every place: what a driver has in   *)
(* hand is the one exception.                                              *)
FolderInHand(f) == gcpc \in TargetPlaces /\ f = To
CacheInHand(g) == gcpc = "caching" /\ g = From.game
ImageInHand(i) == gcpc = "dumping" /\ i = <<task.game, Disc_>>

FoldersInv ==
  \A f \in Folder \ odd.folders :
    f.name.marks = 0 /\ ~FolderInHand(f) => held[f] \in {"none", "whole"}
CachesInv ==
  \A g \in Games \ odd.caches : cache[g].paths /\ ~CacheInHand(g) => cache[g].files = "whole"
ImagesInv ==
  \A i \in Psx \X {1, 2} : i \notin odd.images /\ ~ImageInHand(i) => images[i] # "part"

(* What was changed is read again, unless forgotten; a dump says so only   *)
(* at its end.                                                             *)
Dumping == IF gcpc \in DiscPlaces THEN {"hdd"} ELSE {}
ChangedInv ==
  /\ changed \subseteq forcedevices \cup lost \cup Dumping
  /\ gcpc \in TargetPlaces => To.dev \in forcedevices

GcInv ==
  /\ GcTypeOK /\ TaskInv /\ GameInv
  /\ FoldersInv /\ CachesInv /\ ImagesInv
  /\ NoGameIsLost /\ ChangedInv

-----------------------------------------------------------------------------
(* What the state is made of.                                              *)

OddType == [folders : SUBSET Folder, caches : SUBSET Games, images : SUBSET (Psx \X {1, 2})]

\* The fields of a folder; a disc is not a folder.
LEMMA FolderFields ==
  /\ \A f \in Folder : f.dev \in Devices /\ f.game \in Games /\ f.name \in Name
  /\ \A g \in Games : Disc(g).dev = "bdvd" /\ Disc(g).game = g /\ Disc(g).name = Plain /\ Disc(g) \notin Folder
  /\ "bdvd" \notin Devices /\ Plain \in Name
  /\ \A d \in Devices, g \in Games, n \in Name : [dev |-> d, game |-> g, name |-> n] \in Folder
  /\ \A n \in Name : n.base \in {"id", "mangled"} /\ n.marks \in 0 .. 2
<1>1. "bdvd" \notin Devices
  BY GamesAssumption DEF Devices
<1>2. Plain \in Name
  BY DEF Plain, Name
<1>3. \A f \in Folder : f.dev \in Devices /\ f.game \in Games /\ f.name \in Name
  BY DEF Folder
<1>4. \A g \in Games : Disc(g).dev = "bdvd" /\ Disc(g).game = g /\ Disc(g).name = Plain
  BY DEF Disc
<1>5. \A d \in Devices, g \in Games, n \in Name : [dev |-> d, game |-> g, name |-> n] \in Folder
  BY DEF Folder
<1>6. \A n \in Name : n.base \in {"id", "mangled"} /\ n.marks \in 0 .. 2
  BY DEF Name
<1> QED
  BY <1>1, <1>2, <1>3, <1>4, <1>5, <1>6

\* The names that are made of names.
LEMMA Names ==
  ASSUME NEW n \in Name
  PROVE  /\ Stripped(n) \in Name /\ Marked(n) \in Name /\ MarkedOnce(n) \in Name /\ Tested(n) \in Name
         /\ Marked(n).marks # 0 /\ MarkedOnce(n).marks # 0
         /\ Tested(n).marks = 0 <=> n.marks = 0
  BY DEF Name, Stripped, Marked, MarkedOnce, Tested

\* A folder changes, and no other.
LEMMA SetsAt ==
  ASSUME GcTypeOK, NEW f \in Folder, NEW c \in Contents, NEW blame \in BOOLEAN, Sets(f, c, blame)
  PROVE  /\ held' \in [Folder -> Contents] /\ \A x \in Folder : held'[x] = IF x = f THEN c ELSE held[x]
         /\ odd'.folders = (IF blame THEN odd.folders \cup {f} ELSE odd.folders \ {f})
         /\ odd'.caches = odd.caches /\ odd'.images = odd.images /\ odd' \in OddType
         /\ changed' = changed \cup {f.dev} /\ changed' \subseteq Devices
<1>1. held \in [Folder -> Contents] /\ odd \in OddType /\ changed \subseteq Devices
  BY DEF GcTypeOK, OddType
<1>2. held' = [held EXCEPT ![f] = c] /\ changed' = changed \cup {f.dev}
  BY DEF Sets
<1>3. odd' = [odd EXCEPT !.folders = IF blame THEN @ \cup {f} ELSE @ \ {f}]
  BY DEF Sets
<1>4. /\ odd'.folders = (IF blame THEN odd.folders \cup {f} ELSE odd.folders \ {f})
      /\ odd'.caches = odd.caches /\ odd'.images = odd.images /\ odd' \in OddType
  BY <1>1, <1>3 DEF OddType
<1> QED
  BY <1>1, <1>2, <1>4, FolderFields

\* A folder is renamed: it takes its contents and its blame along; or it is
\* not, and then it is to blame.
Renamed(f, to) ==
  /\ held' \in [Folder -> Contents] /\ odd' \in OddType
  /\ odd'.caches = odd.caches /\ odd'.images = odd.images
  /\ \/ /\ to # f /\ held[f] # "none" /\ held[to] = "none"
        /\ \A x \in Folder : held'[x] = IF x = f THEN "none" ELSE IF x = to THEN held[f] ELSE held[x]
        /\ odd'.folders = (odd.folders \ {f, to}) \cup (IF f \in odd.folders THEN {to} ELSE {})
        /\ changed' = changed \cup {f.dev}
     \/ /\ held' = held /\ changed' = changed
        /\ odd'.folders = IF to = f THEN odd.folders ELSE odd.folders \cup {f}

\* What Renames does to the folders.
LEMMA RenamesAt ==
  ASSUME GcTypeOK, NEW f \in Folder, NEW n \in Name, NEW wrong, Renames(f, n, wrong)
  PROVE  \E to \in Folder : to.game = f.game /\ to.dev = f.dev /\ to.name = n /\ Renamed(f, to)
<1> DEFINE to == [f EXCEPT !.name = n]
<1>1. held \in [Folder -> Contents] /\ odd \in OddType
  BY DEF GcTypeOK, OddType
<1>2. to \in Folder /\ to.game = f.game /\ to.dev = f.dev /\ to.name = n
  BY DEF Folder
<1>3. CASE /\ to # f /\ ~wrong /\ held[f] # "none" /\ held[to] = "none"
           /\ held' = [held EXCEPT ![f] = "none", ![to] = held[f]]
           /\ odd' = [odd EXCEPT !.folders = (@ \ {f, to}) \cup (IF f \in @ THEN {to} ELSE {})]
           /\ changed' = changed \cup {f.dev}
  <2> HIDE DEF to
  <2>1. /\ held' \in [Folder -> Contents]
        /\ \A x \in Folder : held'[x] = IF x = f THEN "none" ELSE IF x = to THEN held[f] ELSE held[x]
    BY <1>1, <1>2, <1>3 DEF Contents
  <2>2. /\ odd' \in OddType /\ odd'.caches = odd.caches /\ odd'.images = odd.images
        /\ odd'.folders = (odd.folders \ {f, to}) \cup (IF f \in odd.folders THEN {to} ELSE {})
    BY <1>1, <1>2, <1>3 DEF OddType
  <2> QED
    BY <1>2, <1>3, <2>1, <2>2 DEF to, Renamed
<1>4. CASE /\ odd' = [odd EXCEPT !.folders = IF to = f THEN @ ELSE @ \cup {f}]
           /\ UNCHANGED <<held, changed>>
  <2> HIDE DEF to
  <2>1. /\ odd' \in OddType /\ odd'.caches = odd.caches /\ odd'.images = odd.images
        /\ odd'.folders = IF to = f THEN odd.folders ELSE odd.folders \cup {f}
    BY <1>1, <1>4 DEF OddType
  <2> QED
    BY <1>1, <1>2, <1>4, <2>1 DEF to, Renamed
<1> QED
  BY <1>3, <1>4 DEF Renames

\* A cache changes, and no other.
LEMMA SetsCacheAt ==
  ASSUME GcTypeOK, NEW g \in Games, NEW c \in [files : {"none", "part", "whole"}, paths : BOOLEAN],
         NEW blame \in BOOLEAN, SetsCache(g, c, blame)
  PROVE  /\ cache' \in [Games -> [files : {"none", "part", "whole"}, paths : BOOLEAN]]
         /\ \A x \in Games : cache'[x] = IF x = g THEN c ELSE cache[x]
         /\ odd'.caches = (IF blame THEN odd.caches \cup {g} ELSE odd.caches \ {g})
         /\ odd'.folders = odd.folders /\ odd'.images = odd.images /\ odd' \in OddType
         /\ UNCHANGED <<held, images, changed, killed>>
  BY DEF GcTypeOK, OddType, SetsCache

\* An image changes, and no other.
LEMMA SetsImageAt ==
  ASSUME GcTypeOK, task.game \in Psx, NEW k \in {1, 2}, NEW c \in {"none", "part", "whole"},
         NEW blame \in BOOLEAN, SetsImage(k, c, blame)
  PROVE  /\ images' \in [Psx \X {1, 2} -> {"none", "part", "whole"}]
         /\ \A i \in Psx \X {1, 2} : images'[i] = IF i = <<task.game, k>> THEN c ELSE images[i]
         /\ odd'.images = (IF blame THEN odd.images \cup {<<task.game, k>>} ELSE odd.images \ {<<task.game, k>>})
         /\ odd'.folders = odd.folders /\ odd'.caches = odd.caches /\ odd' \in OddType
         /\ changed' = changed \cup {"hdd"} /\ UNCHANGED <<held, cache, killed>>
<1> DEFINE i == <<task.game, k>>
<1>1. i \in Psx \X {1, 2}
  OBVIOUS
<1>2. /\ images' = [images EXCEPT ![i] = c]
      /\ odd' = [odd EXCEPT !.images = IF blame THEN @ \cup {i} ELSE @ \ {i}]
      /\ changed' = changed \cup {"hdd"} /\ UNCHANGED <<held, cache, killed>>
  BY DEF SetsImage
<1>3. images \in [Psx \X {1, 2} -> {"none", "part", "whole"}] /\ odd \in OddType
  BY DEF GcTypeOK, OddType
<1> HIDE DEF i
<1>4. /\ odd'.images = (IF blame THEN odd.images \cup {i} ELSE odd.images \ {i})
      /\ odd'.folders = odd.folders /\ odd'.caches = odd.caches /\ odd' \in OddType
  BY <1>1, <1>2, <1>3 DEF OddType
<1>5. /\ images' \in [Psx \X {1, 2} -> {"none", "part", "whole"}]
      /\ \A x \in Psx \X {1, 2} : images'[x] = IF x = i THEN c ELSE images[x]
  BY <1>1, <1>2, <1>3
<1> QED
  BY <1>2, <1>4, <1>5 DEF i

-----------------------------------------------------------------------------
(* The steps that leave the disks alone.                                   *)

\* A step that leaves the disks alone while nothing on them is in hand.
LEMMA DisksKept ==
  ASSUME GcInv, KeepDisks, gcpc \in {"idle", "count", "where", "cache", "disc"}
  PROVE  FoldersInv' /\ CachesInv' /\ ImagesInv' /\ NoGameIsLost'
<1>1. ~(gcpc \in TargetPlaces) /\ gcpc # "caching" /\ gcpc # "dumping"
  BY DEF TargetPlaces
<1>2. FoldersInv /\ CachesInv /\ ImagesInv /\ NoGameIsLost /\ UNCHANGED <<held, cache, images, odd, killed>>
  BY DEF GcInv, KeepDisks
<1>3. FoldersInv'
  BY <1>1, <1>2 DEF FoldersInv, FolderInHand
<1>4. CachesInv'
  BY <1>1, <1>2 DEF CachesInv, CacheInHand, CacheInHand
<1>5. ImagesInv'
  BY <1>1, <1>2 DEF ImagesInv, ImageInHand, Disc_, ImageInHand
<1>6. NoGameIsLost'
  BY <1>2 DEF NoGameIsLost
<1> QED
  BY <1>3, <1>4, <1>5, <1>6

\* A copy is chosen, from a folder ...
LEMMA SelectCopyInv ==
  ASSUME GcInv, NEW f \in Folder, SelectCopy(f)
  PROVE  GcInv'
<1>1. GcTypeOK /\ TaskInv /\ GameInv /\ FoldersInv /\ CachesInv /\ ImagesInv /\ NoGameIsLost /\ ChangedInv
  BY DEF GcInv
<1>2. GcTypeOK'
  BY <1>1, GamesAssumption DEF GcTypeOK, At, Goes, KeepDisks, Starts, SelectCopy
<1>3. TaskInv'
  BY <1>1 DEF TaskInv, At, Goes, KeepDisks, Starts, From, To, CopyPlaces, TargetPlaces,
     FolderPlaces, DiscPlaces, SelectCopy
<1>4. GameInv'
  BY <1>1, FolderFields DEF GameInv, At, Goes, KeepDisks, Starts, From, To, CopyPlaces,
     TargetPlaces, FolderPlaces, DiscPlaces, SelectCopy, TaskInv
<1>5. FoldersInv' /\ CachesInv' /\ ImagesInv' /\ NoGameIsLost'
  BY <1>1, DisksKept DEF At, Goes, KeepDisks, Starts, SelectCopy
<1>6. ChangedInv'
  BY <1>1 DEF ChangedInv, Dumping, At, Goes, KeepDisks, Starts, From, To, CopyPlaces,
     TargetPlaces, FolderPlaces, DiscPlaces, SelectCopy, TaskInv
<1> QED
  BY <1>2, <1>3, <1>4, <1>5, <1>6 DEF GcInv

\* ... or from the disc; ...
LEMMA SelectDiscInv ==
  ASSUME GcInv, NEW g \in Inserted, SelectDisc(g)
  PROVE  GcInv'
<1>1. GcTypeOK /\ TaskInv /\ GameInv /\ FoldersInv /\ CachesInv /\ ImagesInv /\ NoGameIsLost /\ ChangedInv
  BY DEF GcInv
<1>2. GcTypeOK'
  BY <1>1, FolderFields, GamesAssumption DEF GcTypeOK, At, Goes, KeepDisks, Starts, SelectDisc
<1>3. TaskInv'
  BY <1>1, FolderFields, GamesAssumption DEF TaskInv, At, Goes, KeepDisks, Starts, From, To,
     CopyPlaces, TargetPlaces, FolderPlaces, DiscPlaces, SelectDisc, Discs
<1>4. GameInv'
  BY <1>1, FolderFields, GamesAssumption DEF GameInv, At, Goes, KeepDisks, Starts, From, To,
     CopyPlaces, TargetPlaces, FolderPlaces, DiscPlaces, SelectDisc, Discs, TaskInv
<1>5. FoldersInv' /\ CachesInv' /\ ImagesInv' /\ NoGameIsLost'
  BY <1>1, FolderFields, GamesAssumption, DisksKept DEF At, Goes, KeepDisks, Starts, SelectDisc
<1>6. ChangedInv'
  BY <1>1, FolderFields, GamesAssumption DEF ChangedInv, Dumping, At, Goes, KeepDisks, Starts,
     From, To, CopyPlaces, TargetPlaces, FolderPlaces, DiscPlaces, SelectDisc, Discs, TaskInv
<1> QED
  BY <1>2, <1>3, <1>4, <1>5, <1>6 DEF GcInv

\* ... a deletion, ...
LEMMA SelectDeleteInv ==
  ASSUME GcInv, NEW f \in Folder, SelectDelete(f)
  PROVE  GcInv'
<1>1. GcTypeOK /\ TaskInv /\ GameInv /\ FoldersInv /\ CachesInv /\ ImagesInv /\ NoGameIsLost /\ ChangedInv
  BY DEF GcInv
<1>2. GcTypeOK'
  BY <1>1, GamesAssumption DEF GcTypeOK, At, Goes, KeepDisks, Starts, SelectDelete
<1>3. TaskInv'
  BY <1>1 DEF TaskInv, At, Goes, KeepDisks, Starts, From, To, CopyPlaces, TargetPlaces,
     FolderPlaces, DiscPlaces, SelectDelete
<1>4. GameInv'
  BY <1>1 DEF GameInv, At, Goes, KeepDisks, Starts, From, To, CopyPlaces, TargetPlaces,
     FolderPlaces, DiscPlaces, SelectDelete, TaskInv
<1>5. FoldersInv' /\ CachesInv' /\ ImagesInv' /\ NoGameIsLost'
  BY <1>1, DisksKept DEF At, Goes, KeepDisks, Starts, SelectDelete
<1>6. ChangedInv'
  BY <1>1 DEF ChangedInv, Dumping, At, Goes, KeepDisks, Starts, From, To, CopyPlaces,
     TargetPlaces, FolderPlaces, DiscPlaces, SelectDelete, TaskInv
<1> QED
  BY <1>2, <1>3, <1>4, <1>5, <1>6 DEF GcInv

\* ... a test, ...
LEMMA SelectTestInv ==
  ASSUME GcInv, NEW f \in Folder, SelectTest(f)
  PROVE  GcInv'
<1>1. GcTypeOK /\ TaskInv /\ GameInv /\ FoldersInv /\ CachesInv /\ ImagesInv /\ NoGameIsLost /\ ChangedInv
  BY DEF GcInv
<1>2. GcTypeOK'
  BY <1>1, GamesAssumption DEF GcTypeOK, At, Goes, KeepDisks, Starts, SelectTest
<1>3. TaskInv'
  BY <1>1 DEF TaskInv, At, Goes, KeepDisks, Starts, From, To, CopyPlaces, TargetPlaces,
     FolderPlaces, DiscPlaces, SelectTest
<1>4. GameInv'
  BY <1>1 DEF GameInv, At, Goes, KeepDisks, Starts, From, To, CopyPlaces, TargetPlaces,
     FolderPlaces, DiscPlaces, SelectTest, TaskInv
<1>5. FoldersInv' /\ CachesInv' /\ ImagesInv' /\ NoGameIsLost'
  BY <1>1, DisksKept DEF At, Goes, KeepDisks, Starts, SelectTest
<1>6. ChangedInv'
  BY <1>1 DEF ChangedInv, Dumping, At, Goes, KeepDisks, Starts, From, To, CopyPlaces,
     TargetPlaces, FolderPlaces, DiscPlaces, SelectTest, TaskInv
<1> QED
  BY <1>2, <1>3, <1>4, <1>5, <1>6 DEF GcInv

\* ... a cache ...
LEMMA SelectCacheInv ==
  ASSUME GcInv, NEW f \in Folder, SelectCache(f)
  PROVE  GcInv'
<1>1. GcTypeOK /\ TaskInv /\ GameInv /\ FoldersInv /\ CachesInv /\ ImagesInv /\ NoGameIsLost /\ ChangedInv
  BY DEF GcInv
<1>2. GcTypeOK'
  BY <1>1, GamesAssumption DEF GcTypeOK, At, Goes, KeepDisks, Starts, SelectCache
<1>3. TaskInv'
  BY <1>1 DEF TaskInv, At, Goes, KeepDisks, Starts, From, To, CopyPlaces, TargetPlaces,
     FolderPlaces, DiscPlaces, SelectCache
<1>4. GameInv'
  BY <1>1 DEF GameInv, At, Goes, KeepDisks, Starts, From, To, CopyPlaces, TargetPlaces,
     FolderPlaces, DiscPlaces, SelectCache, TaskInv
<1>5. FoldersInv' /\ CachesInv' /\ ImagesInv' /\ NoGameIsLost'
  BY <1>1, DisksKept DEF At, Goes, KeepDisks, Starts, SelectCache
<1>6. ChangedInv'
  BY <1>1 DEF ChangedInv, Dumping, At, Goes, KeepDisks, Starts, From, To, CopyPlaces,
     TargetPlaces, FolderPlaces, DiscPlaces, SelectCache, TaskInv
<1> QED
  BY <1>2, <1>3, <1>4, <1>5, <1>6 DEF GcInv

\* ... or a dump.
LEMMA SelectDumpInv ==
  ASSUME GcInv, NEW g \in Psx, SelectDump(g)
  PROVE  GcInv'
<1>1. GcTypeOK /\ TaskInv /\ GameInv /\ FoldersInv /\ CachesInv /\ ImagesInv /\ NoGameIsLost /\ ChangedInv
  BY DEF GcInv
<1>2. GcTypeOK'
  BY <1>1, GamesAssumption DEF GcTypeOK, At, Goes, KeepDisks, Starts, SelectDump
<1>3. TaskInv'
  BY <1>1 DEF TaskInv, At, Goes, KeepDisks, Starts, From, To, CopyPlaces, TargetPlaces,
     FolderPlaces, DiscPlaces, SelectDump
<1>4. GameInv'
  BY <1>1 DEF GameInv, At, Goes, KeepDisks, Starts, From, To, CopyPlaces, TargetPlaces,
     FolderPlaces, DiscPlaces, SelectDump, TaskInv
<1>5. FoldersInv' /\ CachesInv' /\ ImagesInv' /\ NoGameIsLost'
  BY <1>1, DisksKept DEF At, Goes, KeepDisks, Starts, SelectDump
<1>6. ChangedInv'
  BY <1>1 DEF ChangedInv, Dumping, At, Goes, KeepDisks, Starts, From, To, CopyPlaces,
     TargetPlaces, FolderPlaces, DiscPlaces, SelectDump, TaskInv
<1> QED
  BY <1>2, <1>3, <1>4, <1>5, <1>6 DEF GcInv

\* The files are counted.
LEMMA CountInv ==
  ASSUME GcInv, Count
  PROVE  GcInv'
<1>1. GcTypeOK /\ TaskInv /\ GameInv /\ FoldersInv /\ CachesInv /\ ImagesInv /\ NoGameIsLost /\ ChangedInv
  BY DEF GcInv
<1>2. GcTypeOK'
  BY <1>1, GamesAssumption DEF GcTypeOK, Devices, At, Goes, Returns, KeepDisks, KeepForce, Forces,
     NoTask, From, Count
<1>3. TaskInv'
  BY <1>1 DEF TaskInv, At, Goes, Returns, KeepDisks, KeepForce, Forces, NoTask, From, To,
     CopyPlaces, TargetPlaces, FolderPlaces, DiscPlaces, Count
<1>4. GameInv'
  BY <1>1 DEF GameInv, At, Goes, Returns, KeepDisks, KeepForce, Forces, NoTask, From, To,
     CopyPlaces, TargetPlaces, FolderPlaces, DiscPlaces, Count, TaskInv
<1>5. FoldersInv' /\ CachesInv' /\ ImagesInv' /\ NoGameIsLost'
  BY <1>1, DisksKept DEF At, Goes, Returns, KeepDisks, KeepForce, Forces, NoTask, From, Count
<1>6. ChangedInv'
  BY <1>1 DEF ChangedInv, Dumping, At, Goes, Returns, KeepDisks, KeepForce, Forces, NoTask, From,
     To, CopyPlaces, TargetPlaces, FolderPlaces, DiscPlaces, Count, TaskInv
<1> QED
  BY <1>2, <1>3, <1>4, <1>5, <1>6 DEF GcInv

\* The device has no room, ...
LEMMA NoRoomInv ==
  ASSUME GcInv, NoRoom
  PROVE  GcInv'
<1>1. GcTypeOK /\ TaskInv /\ GameInv /\ FoldersInv /\ CachesInv /\ ImagesInv /\ NoGameIsLost /\ ChangedInv
  BY DEF GcInv
<1>2. /\ gcpc = "where" /\ gcpc' = "idle" /\ task' = NoTask /\ UNCHANGED <<held, cache, images, odd, changed, killed, tasks>>
      /\ forcedevices' \subseteq Devices /\ lost' \subseteq Devices
      /\ forcedevices \cup lost \subseteq forcedevices' \cup lost'
  <2>1. PICK d \in Offered : IF From.dev = "bdvd" THEN Forces({d}) ELSE KeepForce
    BY DEF NoRoom
  <2>2. d \in Devices
    BY DEF Offered, Devices
  <2> QED
    BY <1>1, <2>1, <2>2 DEF NoRoom, GcTypeOK, At, Goes, Returns, KeepDisks, KeepForce, Forces
<1>3. GcTypeOK'
  BY <1>1, <1>2, GamesAssumption DEF GcTypeOK, NoTask
<1>4. TaskInv'
  BY <1>1, <1>2 DEF TaskInv, NoTask, From, To, CopyPlaces, TargetPlaces, FolderPlaces, DiscPlaces
<1>5. GameInv'
  BY <1>1, <1>2 DEF GameInv, NoTask, From, To, CopyPlaces, TargetPlaces, FolderPlaces, DiscPlaces,
     TaskInv
<1>6. FoldersInv' /\ CachesInv' /\ ImagesInv' /\ NoGameIsLost'
  BY <1>1, <1>2, DisksKept DEF At, Goes, Returns, KeepDisks, KeepForce, Forces, NoTask, From, NoRoom
<1>7. ChangedInv'
  BY <1>1, <1>2 DEF ChangedInv, Dumping, NoTask, From, To, CopyPlaces, TargetPlaces, FolderPlaces,
     DiscPlaces, TaskInv
<1> QED
  BY <1>3, <1>4, <1>5, <1>6, <1>7 DEF GcInv

\* ... or the user says no to each.
LEMMA NoDeviceInv ==
  ASSUME GcInv, NoDevice
  PROVE  GcInv'
<1>1. GcTypeOK /\ TaskInv /\ GameInv /\ FoldersInv /\ CachesInv /\ ImagesInv /\ NoGameIsLost /\ ChangedInv
  BY DEF GcInv
<1>2. GcTypeOK'
  BY <1>1, GamesAssumption DEF GcTypeOK, At, Goes, Returns, KeepDisks, Forces, NoTask, NoDevice,
     Devices
<1>3. TaskInv'
  BY <1>1 DEF TaskInv, At, Goes, Returns, KeepDisks, Forces, NoTask, From, To, CopyPlaces,
     TargetPlaces, FolderPlaces, DiscPlaces, NoDevice
<1>4. GameInv'
  BY <1>1 DEF GameInv, At, Goes, Returns, KeepDisks, Forces, NoTask, From, To, CopyPlaces,
     TargetPlaces, FolderPlaces, DiscPlaces, NoDevice, TaskInv
<1>5. FoldersInv' /\ CachesInv' /\ ImagesInv' /\ NoGameIsLost'
  BY <1>1, DisksKept DEF At, Goes, Returns, KeepDisks, Forces, NoTask, NoDevice
<1>6. ChangedInv'
  BY <1>1 DEF ChangedInv, Dumping, At, Goes, Returns, KeepDisks, Forces, NoTask, From, To,
     CopyPlaces, TargetPlaces, FolderPlaces, DiscPlaces, NoDevice, TaskInv
<1> QED
  BY <1>2, <1>3, <1>4, <1>5, <1>6 DEF GcInv

\* The disc is not a game.
LEMMA NoGameDiscInv ==
  ASSUME GcInv, At("where"), NEW d \in Offered, NoGameDisc(d)
  PROVE  GcInv'
<1>1. GcTypeOK /\ TaskInv /\ GameInv /\ FoldersInv /\ CachesInv /\ ImagesInv /\ NoGameIsLost /\ ChangedInv
  BY DEF GcInv
<1>2. d \in Devices
  BY <1>1 DEF Offered, Devices
<1>3. GcTypeOK'
  BY <1>1, <1>2, GamesAssumption DEF GcTypeOK, At, Goes, Returns, KeepDisks, Forces, NoTask, From,
     NoGameDisc
<1>4. TaskInv'
  BY <1>1, <1>2 DEF TaskInv, At, Goes, Returns, KeepDisks, Forces, NoTask, From, To, CopyPlaces,
     TargetPlaces, FolderPlaces, DiscPlaces, NoGameDisc
<1>5. GameInv'
  BY <1>1, <1>2 DEF GameInv, At, Goes, Returns, KeepDisks, Forces, NoTask, From, To, CopyPlaces,
     TargetPlaces, FolderPlaces, DiscPlaces, NoGameDisc, TaskInv
<1>6. FoldersInv' /\ CachesInv' /\ ImagesInv' /\ NoGameIsLost'
  BY <1>1, <1>2, DisksKept DEF At, Goes, Returns, KeepDisks, Forces, NoTask, From, NoGameDisc
<1>7. ChangedInv'
  BY <1>1, <1>2 DEF ChangedInv, Dumping, At, Goes, Returns, KeepDisks, Forces, NoTask, From, To,
     CopyPlaces, TargetPlaces, FolderPlaces, DiscPlaces, NoGameDisc, TaskInv
<1> QED
  BY <1>3, <1>4, <1>5, <1>6, <1>7 DEF GcInv

\* The copy is given up.
LEMMA CopyAbortedInv ==
  ASSUME GcInv, CopyAborted
  PROVE  GcInv'
<1>1. GcTypeOK /\ TaskInv /\ GameInv /\ FoldersInv /\ CachesInv /\ ImagesInv /\ NoGameIsLost /\ ChangedInv
  BY DEF GcInv
<1>2. GcTypeOK'
  BY <1>1, GamesAssumption DEF GcTypeOK, At, Goes, KeepDisks, KeepForce, To, CopyAborted
<1>3. TaskInv'
  BY <1>1 DEF TaskInv, At, Goes, KeepDisks, KeepForce, From, To, CopyPlaces, TargetPlaces,
     FolderPlaces, DiscPlaces, CopyAborted
<1>4. GameInv'
  BY <1>1 DEF GameInv, At, Goes, KeepDisks, KeepForce, From, To, CopyPlaces, TargetPlaces,
     FolderPlaces, DiscPlaces, CopyAborted, TaskInv
<1>5. FoldersInv' /\ CachesInv' /\ ImagesInv' /\ NoGameIsLost'
  <2>1. /\ gcpc \in {"copy", "copying"} /\ gcpc' = "aborted"
        /\ UNCHANGED <<held, cache, images, odd, killed, task>>
    BY DEF CopyAborted, At, Goes, KeepDisks
  <2> QED
    BY <1>1, <2>1 DEF FoldersInv, FolderInHand, TargetPlaces, CachesInv, CacheInHand, ImagesInv, ImageInHand,
       NoGameIsLost, From, To
<1>6. ChangedInv'
  BY <1>1 DEF ChangedInv, Dumping, At, Goes, KeepDisks, KeepForce, From, To, CopyPlaces,
     TargetPlaces, FolderPlaces, DiscPlaces, CopyAborted, TaskInv
<1> QED
  BY <1>2, <1>3, <1>4, <1>5, <1>6 DEF GcInv

\* The copy needs no mark.
LEMMA RenameNothingInv ==
  ASSUME GcInv, RenameNothing
  PROVE  GcInv'
<1>1. GcTypeOK /\ TaskInv /\ GameInv /\ FoldersInv /\ CachesInv /\ ImagesInv /\ NoGameIsLost /\ ChangedInv
  BY DEF GcInv
<1>2. GcTypeOK'
  BY <1>1, GamesAssumption DEF GcTypeOK, At, Goes, Returns, KeepDisks, KeepForce, NoTask,
     RenameNothing
<1>3. TaskInv'
  BY <1>1 DEF TaskInv, At, Goes, Returns, KeepDisks, KeepForce, NoTask, From, To, CopyPlaces,
     TargetPlaces, FolderPlaces, DiscPlaces, RenameNothing
<1>4. GameInv'
  BY <1>1 DEF GameInv, At, Goes, Returns, KeepDisks, KeepForce, NoTask, From, To, CopyPlaces,
     TargetPlaces, FolderPlaces, DiscPlaces, RenameNothing, TaskInv
<1>5. FoldersInv' /\ CachesInv' /\ ImagesInv' /\ NoGameIsLost'
  <2>1. /\ gcpc = "rename" /\ gcpc' = "idle" /\ ~task.split
        /\ UNCHANGED <<held, cache, images, odd, killed>>
    BY DEF RenameNothing, At, Goes, Returns, KeepDisks
  <2>2. held[To] = "whole" \/ To \in odd.folders
    BY <1>1, <2>1 DEF GameInv
  <2> QED
    BY <1>1, <2>1, <2>2 DEF FoldersInv, FolderInHand, TargetPlaces, CachesInv, CacheInHand, ImagesInv,
       ImageInHand, NoGameIsLost, To
<1>6. ChangedInv'
  BY <1>1 DEF ChangedInv, Dumping, At, Goes, Returns, KeepDisks, KeepForce, NoTask, From, To,
     CopyPlaces, TargetPlaces, FolderPlaces, DiscPlaces, RenameNothing, TaskInv
<1> QED
  BY <1>2, <1>3, <1>4, <1>5, <1>6 DEF GcInv

\* Nothing was copied.
LEMMA NothingToDeleteInv ==
  ASSUME GcInv, NothingToDelete
  PROVE  GcInv'
<1>1. GcTypeOK /\ TaskInv /\ GameInv /\ FoldersInv /\ CachesInv /\ ImagesInv /\ NoGameIsLost /\ ChangedInv
  BY DEF GcInv
<1>2. GcTypeOK'
  BY <1>1, GamesAssumption DEF GcTypeOK, At, Goes, Returns, KeepDisks, KeepForce, NoTask, To,
     NothingToDelete
<1>3. TaskInv'
  BY <1>1 DEF TaskInv, At, Goes, Returns, KeepDisks, KeepForce, NoTask, From, To, CopyPlaces,
     TargetPlaces, FolderPlaces, DiscPlaces, NothingToDelete
<1>4. GameInv'
  BY <1>1 DEF GameInv, At, Goes, Returns, KeepDisks, KeepForce, NoTask, From, To, CopyPlaces,
     TargetPlaces, FolderPlaces, DiscPlaces, NothingToDelete, TaskInv
<1>5. FoldersInv' /\ CachesInv' /\ ImagesInv' /\ NoGameIsLost'
  <2>1. /\ gcpc = "aborted" /\ gcpc' = "idle" /\ held[To] = "none"
        /\ UNCHANGED <<held, cache, images, odd, killed>>
    BY DEF NothingToDelete, At, Goes, Returns, KeepDisks
  <2> QED
    BY <1>1, <2>1 DEF FoldersInv, FolderInHand, TargetPlaces, CachesInv, CacheInHand, ImagesInv,
       ImageInHand, NoGameIsLost, To
<1>6. ChangedInv'
  BY <1>1 DEF ChangedInv, Dumping, At, Goes, Returns, KeepDisks, KeepForce, NoTask, From, To,
     CopyPlaces, TargetPlaces, FolderPlaces, DiscPlaces, NothingToDelete, TaskInv
<1> QED
  BY <1>2, <1>3, <1>4, <1>5, <1>6 DEF GcInv

\* No cache is made.
LEMMA CacheRefusedInv ==
  ASSUME GcInv, CacheRefused
  PROVE  GcInv'
<1>1. GcTypeOK /\ TaskInv /\ GameInv /\ FoldersInv /\ CachesInv /\ ImagesInv /\ NoGameIsLost /\ ChangedInv
  BY DEF GcInv
<1>2. GcTypeOK'
  BY <1>1, GamesAssumption DEF GcTypeOK, At, Goes, Returns, KeepDisks, KeepForce, NoTask,
     CacheRefused
<1>3. TaskInv'
  BY <1>1 DEF TaskInv, At, Goes, Returns, KeepDisks, KeepForce, NoTask, From, To, CopyPlaces,
     TargetPlaces, FolderPlaces, DiscPlaces, CacheRefused
<1>4. GameInv'
  BY <1>1 DEF GameInv, At, Goes, Returns, KeepDisks, KeepForce, NoTask, From, To, CopyPlaces,
     TargetPlaces, FolderPlaces, DiscPlaces, CacheRefused, TaskInv
<1>5. FoldersInv' /\ CachesInv' /\ ImagesInv' /\ NoGameIsLost'
  BY <1>1, DisksKept DEF At, Goes, Returns, KeepDisks, KeepForce, NoTask, CacheRefused
<1>6. ChangedInv'
  BY <1>1 DEF ChangedInv, Dumping, At, Goes, Returns, KeepDisks, KeepForce, NoTask, From, To,
     CopyPlaces, TargetPlaces, FolderPlaces, DiscPlaces, CacheRefused, TaskInv
<1> QED
  BY <1>2, <1>3, <1>4, <1>5, <1>6 DEF GcInv

\* The next disc is asked for.
LEMMA AskDiscInv ==
  ASSUME GcInv, AskDisc
  PROVE  GcInv'
<1>1. GcTypeOK /\ TaskInv /\ GameInv /\ FoldersInv /\ CachesInv /\ ImagesInv /\ NoGameIsLost /\ ChangedInv
  BY DEF GcInv
<1>2. GcTypeOK'
  BY <1>1, GamesAssumption DEF GcTypeOK, At, Goes, Returns, KeepDisks, KeepForce, Forces, NoTask,
     AskDisc, DumpEnds, Disc_, Devices
<1>3. TaskInv'
  BY <1>1 DEF TaskInv, At, Goes, Returns, KeepDisks, KeepForce, Forces, NoTask, From, To,
     CopyPlaces, TargetPlaces, FolderPlaces, DiscPlaces, AskDisc, DumpEnds, Disc_
<1>4. GameInv'
  BY <1>1 DEF GameInv, At, Goes, Returns, KeepDisks, KeepForce, Forces, NoTask, From, To,
     CopyPlaces, TargetPlaces, FolderPlaces, DiscPlaces, AskDisc, DumpEnds, Disc_, TaskInv
<1>5. FoldersInv' /\ CachesInv' /\ ImagesInv' /\ NoGameIsLost'
  BY <1>1, DisksKept DEF At, Goes, KeepDisks, KeepForce, AskDisc
<1>6. ChangedInv'
  BY <1>1 DEF ChangedInv, Dumping, At, Goes, Returns, KeepDisks, KeepForce, Forces, NoTask, From,
     To, CopyPlaces, TargetPlaces, FolderPlaces, DiscPlaces, AskDisc, DumpEnds, Disc_, TaskInv
<1> QED
  BY <1>2, <1>3, <1>4, <1>5, <1>6 DEF GcInv

\* The main loop reads a device again.
LEMMA RefreshInv ==
  ASSUME GcInv, NEW d \in Devices, Refresh(d)
  PROVE  GcInv'
<1>1. GcTypeOK /\ TaskInv /\ GameInv /\ FoldersInv /\ CachesInv /\ ImagesInv /\ NoGameIsLost /\ ChangedInv
  BY DEF GcInv
<1>2. GcTypeOK'
  BY <1>1, GamesAssumption DEF GcTypeOK, At, Refresh
<1>3. TaskInv'
  BY <1>1 DEF TaskInv, At, From, To, CopyPlaces, TargetPlaces, FolderPlaces, DiscPlaces, Refresh
<1>4. GameInv'
  BY <1>1 DEF GameInv, At, From, To, CopyPlaces, TargetPlaces, FolderPlaces, DiscPlaces, Refresh,
     TaskInv
<1>5. FoldersInv'
  BY <1>1 DEF FoldersInv, FolderInHand, TargetPlaces, At, To, Refresh
<1>6. CachesInv'
  BY <1>1 DEF CachesInv, CacheInHand, At, Refresh
<1>7. ImagesInv'
  BY <1>1 DEF ImagesInv, ImageInHand, Disc_, At, Refresh
<1>8. NoGameIsLost'
  BY <1>1 DEF NoGameIsLost, At, Refresh
<1>9. ChangedInv'
  BY <1>1 DEF ChangedInv, Dumping, At, From, To, CopyPlaces, TargetPlaces, FolderPlaces,
     DiscPlaces, Refresh, TaskInv
<1> QED
  BY <1>2, <1>3, <1>4, <1>5, <1>6, <1>7, <1>8, <1>9 DEF GcInv

\* The machine is switched off.
LEMMA StopInv ==
  ASSUME GcInv, Stop
  PROVE  GcInv'
<1>1. GcTypeOK /\ TaskInv /\ GameInv /\ FoldersInv /\ CachesInv /\ ImagesInv /\ NoGameIsLost /\ ChangedInv
  BY DEF GcInv
<1>2. CopyInHand <=> gcpc \in TargetPlaces
  BY DEF CopyInHand, TargetPlaces
<1>3. /\ odd' = [folders |-> odd.folders \cup HalfCopied, caches |-> odd.caches \cup HalfCached,
                 images |-> odd.images \cup HalfDumped]
      /\ odd \in OddType
  BY <1>1 DEF Stop, GcTypeOK, OddType
<1>4. /\ HalfCopied \subseteq Folder
      /\ gcpc \in TargetPlaces => held[To] \in {"none", "whole"} \/ To \in HalfCopied
  <2>1. gcpc \in TargetPlaces => To \in Folder
    BY <1>1 DEF TaskInv
  <2>2. gcpc \in TargetPlaces => held[To] \in {"none", "whole"} \/ held[To] \in {"part", "split"}
    BY <1>1, <2>1 DEF GcTypeOK, Contents
  <2> QED
    BY <1>2, <2>1, <2>2 DEF HalfCopied
<1>5. /\ HalfCached \subseteq Games
      /\ gcpc = "caching" => ~cache[From.game].paths \/ From.game \in HalfCached
  <2>1. gcpc = "caching" => From \in Folder
    <3>1. gcpc = "caching" => task \in [op : {"delete", "test", "cache"}, from : Folder]
      BY <1>1 DEF TaskInv, FolderPlaces
    <3> QED
      BY <3>1 DEF From
  <2>2. gcpc = "caching" => From.game \in Games
    BY <2>1, FolderFields
  <2> QED
    BY <2>2 DEF HalfCached, At, CacheOf
<1>6. /\ HalfDumped \subseteq Psx \X {1, 2}
      /\ gcpc = "dumping" => <<task.game, Disc_>> \in HalfDumped
  <2>1. gcpc = "dumping" => task \in [op : {"dump"}, game : Psx, disc : {1, 2}]
    BY <1>1 DEF TaskInv, DiscPlaces
  <2>2. gcpc = "dumping" => task.game \in Psx /\ Disc_ \in {1, 2}
    BY <2>1 DEF Disc_
  <2> QED
    BY <2>2 DEF HalfDumped, At
<1>7. /\ odd' \in OddType
      /\ odd'.folders = odd.folders \cup HalfCopied /\ odd'.caches = odd.caches \cup HalfCached
      /\ odd'.images = odd.images \cup HalfDumped
  BY <1>3, <1>4, <1>5, <1>6 DEF OddType
<1>8. /\ gcpc' = "idle" /\ forcedevices' = {} /\ lost' = {} /\ changed' = {}
      /\ UNCHANGED <<held, cache, images, killed, tasks>>
  BY DEF Stop, Returns, Goes
<1>9. GcTypeOK'
  BY <1>1, <1>7, <1>8, GamesAssumption DEF GcTypeOK, OddType
<1>10. TaskInv'
  BY <1>1, <1>8 DEF TaskInv, From, To, CopyPlaces, TargetPlaces, FolderPlaces, DiscPlaces
<1>11. GameInv'
  BY <1>8 DEF GameInv, CopyPlaces
<1>12. FoldersInv'
  BY <1>1, <1>4, <1>7, <1>8 DEF FoldersInv, FolderInHand
<1>13. CachesInv'
  BY <1>1, <1>5, <1>7, <1>8 DEF CachesInv, CacheInHand
<1>14. ImagesInv'
  BY <1>1, <1>6, <1>7, <1>8 DEF ImagesInv, ImageInHand
<1>15. NoGameIsLost'
  BY <1>1, <1>8 DEF NoGameIsLost
<1>16. ChangedInv'
  BY <1>8 DEF ChangedInv, Dumping, DiscPlaces, TargetPlaces
<1> QED
  BY <1>9, <1>10, <1>11, <1>12, <1>13, <1>14, <1>15, <1>16 DEF GcInv
-----------------------------------------------------------------------------
(* The steps of a copy.                                                    *)

\* What the drivers know of the folders of a copy.
LEMMA CopyFolders ==
  ASSUME GcInv, gcpc \in TargetPlaces
  PROVE  /\ To \in Folder /\ To.game = From.game /\ To.game \in Games /\ To.dev \in Devices /\ To.name \in Name
         /\ From # To /\ To.dev \in forcedevices
         /\ task \in [op : {"copy"}, from : Folder \cup Discs, to : Folder \cup Discs, split : BOOLEAN]
         /\ From \in Folder => held[From] # "none" /\ From.dev # "bdvd"
         /\ From.name \in Name
<1>1. TaskInv /\ GameInv /\ ChangedInv
  BY DEF GcInv
<1>2. /\ To \in Folder /\ To.game = From.game /\ To.dev # From.dev
      /\ task \in [op : {"copy"}, from : Folder \cup Discs, to : Folder \cup Discs, split : BOOLEAN]
  BY <1>1 DEF TaskInv, TargetPlaces, CopyPlaces
<1>3. From \in Folder => held[From] # "none"
  BY <1>1 DEF GameInv, TargetPlaces, CopyPlaces
<1>4. From \in Folder \cup Discs
  BY <1>2 DEF From
<1> QED
  BY <1>1, <1>2, <1>3, <1>4, FolderFields DEF ChangedInv, Discs

\* The folder of the copy is made, or is there.
LEMMA MakesFolderInv ==
  ASSUME GcInv, At("where"), NEW d \in Offered, MakesFolder(d)
  PROVE  GcInv'
<1>1. GcTypeOK /\ TaskInv /\ GameInv /\ FoldersInv /\ CachesInv /\ ImagesInv /\ NoGameIsLost /\ ChangedInv
  BY DEF GcInv
<1> DEFINE t == Target(d)
<1>2. d \in Devices /\ d # From.dev
  BY FolderFields, GamesAssumption DEF Offered, Devices
<1>3. /\ task \in [op : {"copy"}, from : Folder \cup Discs, to : Folder \cup Discs, split : BOOLEAN]
      /\ From \in Folder \cup Discs /\ From.name \in Name /\ From.game \in Games
  <2>1. task \in [op : {"copy"}, from : Folder \cup Discs, to : Folder \cup Discs, split : BOOLEAN]
    BY <1>1 DEF TaskInv, At, CopyPlaces
  <2>2. From \in Folder \cup Discs
    BY <2>1 DEF From
  <2> QED
    BY <2>1, <2>2, FolderFields DEF Discs
<1>4. t \in Folder /\ t.dev = d /\ t.game = From.game
  <2>1. NameAt(d) \in Name
    BY <1>3, Names DEF NameAt
  <2> QED
    BY <1>2, <1>3, <2>1, FolderFields DEF Target
<1> HIDE DEF t
<1>5. /\ task' = [task EXCEPT !.to = t] /\ gcpc = "where" /\ gcpc' = "copy" /\ UNCHANGED <<cache, images, killed, tasks>>
      /\ forcedevices' = {d} /\ lost' = lost \cup (forcedevices \ {d})
  BY DEF MakesFolder, t, At, Goes, Forces, OnlyHeld
<1>6. /\ task' \in [op : {"copy"}, from : Folder \cup Discs, to : Folder \cup Discs, split : BOOLEAN]
      /\ task'.to = t /\ task'.from = From
  BY <1>3, <1>4, <1>5 DEF From
<1>7. \/ UNCHANGED <<held, odd, changed>>
      \/ /\ held[t] = "none"
         /\ held' \in [Folder -> Contents] /\ \A x \in Folder : held'[x] = IF x = t THEN "part" ELSE held[x]
         /\ odd'.folders = odd.folders \ {t}
         /\ odd'.caches = odd.caches /\ odd'.images = odd.images /\ odd' \in OddType
         /\ changed' = changed \cup {t.dev} /\ changed' \subseteq Devices
  <2>1. CASE held[t] = "none" /\ Sets(t, "part", FALSE)
    BY <1>1, <1>4, <2>1, SetsAt DEF Contents
  <2> QED
    BY <2>1 DEF MakesFolder, t
<1>8. GcTypeOK'
  BY <1>1, <1>2, <1>3, <1>4, <1>5, <1>6, <1>7, GamesAssumption DEF GcTypeOK, At, From, OddType
<1>9. TaskInv'
  BY <1>1, <1>2, <1>3, <1>4, <1>5, <1>6, <1>7 DEF TaskInv, At, From, To, CopyPlaces, TargetPlaces,
     FolderPlaces, DiscPlaces, OddType
<1>10. GameInv'
  BY <1>1, <1>2, <1>3, <1>4, <1>5, <1>6, <1>7 DEF GameInv, At, From, To, CopyPlaces, TargetPlaces,
     FolderPlaces, DiscPlaces, OddType, TaskInv
<1>11. FoldersInv'
  BY <1>1, <1>2, <1>3, <1>4, <1>5, <1>6, <1>7 DEF FoldersInv, FolderInHand, TargetPlaces, At, From, To, OddType
<1>12. CachesInv'
  BY <1>1, <1>2, <1>3, <1>4, <1>5, <1>6, <1>7 DEF CachesInv, CacheInHand, At, From, OddType
<1>13. ImagesInv'
  BY <1>1, <1>2, <1>3, <1>4, <1>5, <1>6, <1>7 DEF ImagesInv, ImageInHand, Disc_, At, From, OddType
<1>14. NoGameIsLost'
  BY <1>1, <1>2, <1>3, <1>4, <1>5, <1>6, <1>7 DEF NoGameIsLost, At, From, OddType
<1>15. ChangedInv'
  BY <1>1, <1>2, <1>3, <1>4, <1>5, <1>6, <1>7 DEF ChangedInv, Dumping, At, From, To, CopyPlaces,
     TargetPlaces, FolderPlaces, DiscPlaces, OddType, TaskInv
<1> QED
  BY <1>8, <1>9, <1>10, <1>11, <1>12, <1>13, <1>14, <1>15 DEF GcInv

\* The copy begins and overwrites what is there.
LEMMA CopyBeginsInv ==
  ASSUME GcInv, CopyBegins
  PROVE  GcInv'
<1>1. GcTypeOK /\ TaskInv /\ GameInv /\ FoldersInv /\ CachesInv /\ ImagesInv /\ NoGameIsLost /\ ChangedInv
  BY DEF GcInv
<1>2. /\ To \in Folder /\ To.game = From.game /\ To.game \in Games /\ To.dev \in Devices /\ To.name \in Name
      /\ From # To /\ To.dev \in forcedevices
      /\ task \in [op : {"copy"}, from : Folder \cup Discs, to : Folder \cup Discs, split : BOOLEAN]
      /\ From \in Folder => held[From] # "none" /\ From.dev # "bdvd"
      /\ From.name \in Name
  BY CopyFolders DEF CopyBegins, At, TargetPlaces
<1>3. /\ gcpc = "copy" /\ gcpc' = "copying" /\ UNCHANGED <<cache, images, task, forcedevices, lost, tasks>>
  BY DEF CopyBegins, At, Goes, KeepForce, OnlyHeld
<1>4. /\ held' \in [Folder -> Contents] /\ \A x \in Folder : held'[x] = IF x = To THEN "part" ELSE held[x]
      /\ odd'.folders = odd.folders \ {To}
      /\ odd'.caches = odd.caches /\ odd'.images = odd.images /\ odd' \in OddType
      /\ changed' = changed \cup {To.dev} /\ changed' \subseteq Devices
  BY <1>1, <1>2, SetsAt DEF CopyBegins, Contents
<1>5. /\ killed \subseteq killed' /\ killed' \subseteq Games
      /\ From \notin Folder \/ held[From] = "part" => From.game \in killed'
  <2>1. killed' = IF Source = "part" \/ From.dev = "bdvd" THEN killed \cup {From.game} ELSE killed
    BY DEF CopyBegins
  <2>2. From \notin Folder => From.dev = "bdvd"
    BY <1>2, FolderFields DEF Discs, From
  <2> QED
    BY <1>1, <1>2, <2>1, <2>2 DEF Source, GcTypeOK
<1>6. GcTypeOK'
  BY <1>1, <1>2, <1>3, <1>4, <1>5, GamesAssumption DEF GcTypeOK, From, To, OddType
<1>7. TaskInv'
  BY <1>1, <1>2, <1>3, <1>4, <1>5 DEF TaskInv, From, To, CopyPlaces, TargetPlaces, FolderPlaces,
     DiscPlaces, OddType
<1>8. GameInv'
  BY <1>1, <1>2, <1>3, <1>4, <1>5 DEF GameInv, From, To, CopyPlaces, TargetPlaces, FolderPlaces,
     DiscPlaces, OddType, TaskInv
<1>9. FoldersInv'
  BY <1>1, <1>2, <1>3, <1>4, <1>5 DEF FoldersInv, FolderInHand, TargetPlaces, From, To, OddType
<1>10. CachesInv'
  BY <1>1, <1>2, <1>3, <1>4, <1>5 DEF CachesInv, CacheInHand, From, To, OddType
<1>11. ImagesInv'
  BY <1>1, <1>2, <1>3, <1>4, <1>5 DEF ImagesInv, ImageInHand, Disc_, From, To, OddType
<1>12. NoGameIsLost'
  <2>1. SUFFICES ASSUME NEW g \in Games, g \notin killed'
                 PROVE  \E f \in Folder : f.game = g /\ held'[f] \in {"split", "whole"}
    BY DEF NoGameIsLost
  <2>2. PICK f \in Folder : f.game = g /\ held[f] \in {"split", "whole"}
    BY <1>1, <1>5, <2>1 DEF NoGameIsLost
  <2>3. CASE f = To
    <3>1. From \in Folder /\ held[From] \notin {"none", "part"} /\ From.game = g
      BY <1>2, <1>5, <2>1, <2>2, <2>3
    <3>2. held[From] \in Contents
      BY <1>1, <3>1 DEF GcTypeOK
    <3> QED
      BY <1>2, <1>4, <3>1, <3>2 DEF Contents
  <2> QED
    BY <1>4, <2>2, <2>3
<1>13. ChangedInv'
  BY <1>1, <1>2, <1>3, <1>4, <1>5 DEF ChangedInv, Dumping, From, To, CopyPlaces, TargetPlaces,
     FolderPlaces, DiscPlaces, OddType, TaskInv
<1> QED
  BY <1>6, <1>7, <1>8, <1>9, <1>10, <1>11, <1>12, <1>13 DEF GcInv

\* The copy ends, whole or in parts.
LEMMA CopyEndsInv ==
  ASSUME GcInv, CopyEnds
  PROVE  GcInv'
<1>1. GcTypeOK /\ TaskInv /\ GameInv /\ FoldersInv /\ CachesInv /\ ImagesInv /\ NoGameIsLost /\ ChangedInv
  BY DEF GcInv
<1>2. /\ To \in Folder /\ To.game = From.game /\ To.game \in Games /\ To.dev \in Devices /\ To.name \in Name
      /\ From # To /\ To.dev \in forcedevices
      /\ task \in [op : {"copy"}, from : Folder \cup Discs, to : Folder \cup Discs, split : BOOLEAN]
      /\ From \in Folder => held[From] # "none" /\ From.dev # "bdvd"
      /\ From.name \in Name
  BY CopyFolders DEF CopyEnds, At, TargetPlaces
<1>3. /\ gcpc = "copying" /\ gcpc' = "rename" /\ UNCHANGED <<cache, images, forcedevices, lost, tasks, killed>>
      /\ task' = [task EXCEPT !.split = copy_is_split]
  BY DEF CopyEnds, At, Goes, KeepForce, OnlyHeld
<1>4. /\ copy_is_split \in BOOLEAN /\ Inherits \in BOOLEAN /\ CopyOf \in Contents
      /\ Splits => copy_is_split /\ To.dev # "hdd"
  BY GamesAssumption DEF copy_is_split, HasMark, Splits, Inherits, CopyOf, Contents
<1>5. /\ task' \in [op : {"copy"}, from : Folder \cup Discs, to : Folder \cup Discs, split : BOOLEAN]
      /\ task'.to = To /\ task'.from = From /\ task'.split = copy_is_split
  BY <1>2, <1>3, <1>4 DEF From, To
<1>6. /\ held' \in [Folder -> Contents] /\ \A x \in Folder : held'[x] = IF x = To THEN CopyOf ELSE held[x]
      /\ odd'.folders = (IF Inherits THEN odd.folders \cup {To} ELSE odd.folders \ {To})
      /\ odd'.caches = odd.caches /\ odd'.images = odd.images /\ odd' \in OddType
      /\ changed' = changed \cup {To.dev} /\ changed' \subseteq Devices
  BY <1>1, <1>2, <1>4, SetsAt DEF CopyEnds
<1>7. held[To] = "part" /\ (~Inherits /\ ~Splits => CopyOf = "whole")
  BY <1>1, <1>3 DEF GameInv, CopyOf, Inherits
<1>8. GcTypeOK'
  BY <1>1, <1>2, <1>3, <1>4, <1>5, <1>6, <1>7, GamesAssumption DEF GcTypeOK, From, To, OddType
<1>9. TaskInv'
  BY <1>1, <1>2, <1>3, <1>4, <1>5, <1>6, <1>7 DEF TaskInv, From, To, CopyPlaces, TargetPlaces,
     FolderPlaces, DiscPlaces, OddType
<1>10. GameInv'
  BY <1>1, <1>2, <1>3, <1>4, <1>5, <1>6, <1>7 DEF GameInv, From, To, CopyPlaces, TargetPlaces,
     FolderPlaces, DiscPlaces, OddType, TaskInv
<1>11. FoldersInv'
  BY <1>1, <1>2, <1>3, <1>4, <1>5, <1>6, <1>7 DEF FoldersInv, FolderInHand, TargetPlaces, From, To, OddType
<1>12. CachesInv'
  BY <1>1, <1>2, <1>3, <1>4, <1>5, <1>6, <1>7 DEF CachesInv, CacheInHand, From, To, OddType
<1>13. ImagesInv'
  BY <1>1, <1>2, <1>3, <1>4, <1>5, <1>6, <1>7 DEF ImagesInv, ImageInHand, Disc_, From, To, OddType
<1>14. NoGameIsLost'
  BY <1>1, <1>2, <1>3, <1>4, <1>5, <1>6, <1>7 DEF NoGameIsLost, From, To, OddType
<1>15. ChangedInv'
  BY <1>1, <1>2, <1>3, <1>4, <1>5, <1>6, <1>7 DEF ChangedInv, Dumping, From, To, CopyPlaces,
     TargetPlaces, FolderPlaces, DiscPlaces, OddType, TaskInv
<1> QED
  BY <1>8, <1>9, <1>10, <1>11, <1>12, <1>13, <1>14, <1>15 DEF GcInv

\* A copy in parts gets its mark.
LEMMA RenameSplitInv ==
  ASSUME GcInv, RenameSplit
  PROVE  GcInv'
<1>1. GcTypeOK /\ TaskInv /\ GameInv /\ FoldersInv /\ CachesInv /\ ImagesInv /\ NoGameIsLost /\ ChangedInv
  BY DEF GcInv
<1>2. /\ To \in Folder /\ To.game = From.game /\ To.game \in Games /\ To.dev \in Devices /\ To.name \in Name
      /\ From # To /\ To.dev \in forcedevices
      /\ task \in [op : {"copy"}, from : Folder \cup Discs, to : Folder \cup Discs, split : BOOLEAN]
      /\ From \in Folder => held[From] # "none" /\ From.dev # "bdvd"
      /\ From.name \in Name
  BY CopyFolders DEF RenameSplit, At, TargetPlaces
<1> DEFINE n == SplitName
           wrong == FALSE
<1>3. /\ gcpc = "rename" /\ gcpc' = "idle" /\ task' = NoTask /\ task.split /\ n \in Name
      /\ To.dev # "hdd" => n.marks # 0
      /\ UNCHANGED <<cache, images, forcedevices, lost, tasks, killed>> /\ Renames(To, n, wrong)
  BY <1>2, Names DEF SplitName, RenameSplit, At, Goes, Returns, KeepForce, OnlyHeld
<1> HIDE DEF n, wrong
<1>4. PICK to \in Folder : to.game = To.game /\ to.dev = To.dev /\ to.name = n /\ Renamed(To, to)
  <2>1. GcTypeOK /\ To \in Folder /\ n \in Name /\ Renames(To, n, wrong)
    BY <1>1, <1>2, <1>3
  <2> QED
    BY <2>1, RenamesAt
<1>5. GcTypeOK'
  BY <1>1, <1>2, <1>3, <1>4, GamesAssumption DEF GcTypeOK, NoTask, From, To, OddType, Renamed
<1>6. TaskInv'
  BY <1>1, <1>2, <1>3, <1>4 DEF TaskInv, NoTask, From, To, CopyPlaces, TargetPlaces, FolderPlaces,
     DiscPlaces, OddType, Renamed
<1>7. GameInv'
  BY <1>1, <1>2, <1>3, <1>4 DEF GameInv, NoTask, From, To, CopyPlaces, TargetPlaces, FolderPlaces,
     DiscPlaces, OddType, Renamed, TaskInv
<1>8. FoldersInv'
  <2>1. held[To] = "whole" \/ To \in odd.folders \/ n.marks # 0
    BY <1>1, <1>3 DEF GameInv
  <2> QED
    BY <2>1, <1>1, <1>2, <1>3, <1>4 DEF FoldersInv, FolderInHand, TargetPlaces, NoTask, From, To, OddType, Renamed
<1>9. CachesInv'
  BY <1>1, <1>2, <1>3, <1>4 DEF CachesInv, CacheInHand, NoTask, From, To, OddType, Renamed
<1>10. ImagesInv'
  BY <1>1, <1>2, <1>3, <1>4 DEF ImagesInv, ImageInHand, Disc_, NoTask, From, To, OddType, Renamed
<1>11. NoGameIsLost'
  <2>1. SUFFICES ASSUME NEW g \in Games, g \notin killed
                 PROVE  \E x \in Folder : x.game = g /\ held'[x] \in {"split", "whole"}
    BY <1>3 DEF NoGameIsLost
  <2>2. PICK x \in Folder : x.game = g /\ held[x] \in {"split", "whole"}
    BY <1>1, <2>1 DEF NoGameIsLost
  <2>3. CASE x = To /\ held' # held
    BY <1>4, <2>2, <2>3 DEF Renamed
  <2> QED
    BY <1>4, <2>2, <2>3 DEF Renamed
<1>12. ChangedInv'
  BY <1>1, <1>2, <1>3, <1>4 DEF ChangedInv, Dumping, NoTask, From, To, CopyPlaces, TargetPlaces,
     FolderPlaces, DiscPlaces, OddType, Renamed, TaskInv
<1> QED
  BY <1>5, <1>6, <1>7, <1>8, <1>9, <1>10, <1>11, <1>12 DEF GcInv

\* A copy that was given up is kept and gets its mark.
LEMMA MarkAbortedInv ==
  ASSUME GcInv, MarkAborted
  PROVE  GcInv'
<1>1. GcTypeOK /\ TaskInv /\ GameInv /\ FoldersInv /\ CachesInv /\ ImagesInv /\ NoGameIsLost /\ ChangedInv
  BY DEF GcInv
<1>2. /\ To \in Folder /\ To.game = From.game /\ To.game \in Games /\ To.dev \in Devices /\ To.name \in Name
      /\ From # To /\ To.dev \in forcedevices
      /\ task \in [op : {"copy"}, from : Folder \cup Discs, to : Folder \cup Discs, split : BOOLEAN]
      /\ From \in Folder => held[From] # "none" /\ From.dev # "bdvd"
      /\ From.name \in Name
  BY CopyFolders DEF MarkAborted, At, TargetPlaces
<1> DEFINE n == MarkedOnce(IF From.dev = "bdvd" THEN Plain ELSE From.name)
<1>3. /\ gcpc = "aborted" /\ gcpc' = "idle" /\ task' = NoTask /\ n \in Name /\ n.marks # 0
      /\ UNCHANGED <<cache, images, forcedevices, lost, tasks, killed>> /\ Renames(To, n, From.game \in Psx)
  BY <1>2, Names, FolderFields DEF MarkAborted, At, Goes, Returns, KeepForce, OnlyHeld
<1> HIDE DEF n
<1>4. PICK to \in Folder : to.game = To.game /\ to.dev = To.dev /\ to.name = n /\ Renamed(To, to)
  <2>1. GcTypeOK /\ To \in Folder /\ n \in Name /\ Renames(To, n, From.game \in Psx)
    BY <1>1, <1>2, <1>3
  <2> QED
    BY <2>1, RenamesAt
<1>5. GcTypeOK'
  BY <1>1, <1>2, <1>3, <1>4, GamesAssumption DEF GcTypeOK, NoTask, From, To, OddType, Renamed
<1>6. TaskInv'
  BY <1>1, <1>2, <1>3, <1>4 DEF TaskInv, NoTask, From, To, CopyPlaces, TargetPlaces, FolderPlaces,
     DiscPlaces, OddType, Renamed
<1>7. GameInv'
  BY <1>1, <1>2, <1>3, <1>4 DEF GameInv, NoTask, From, To, CopyPlaces, TargetPlaces, FolderPlaces,
     DiscPlaces, OddType, Renamed, TaskInv
<1>8. FoldersInv'
  BY <1>1, <1>2, <1>3, <1>4 DEF FoldersInv, FolderInHand, TargetPlaces, NoTask, From, To, OddType, Renamed
<1>9. CachesInv'
  BY <1>1, <1>2, <1>3, <1>4 DEF CachesInv, CacheInHand, NoTask, From, To, OddType, Renamed
<1>10. ImagesInv'
  BY <1>1, <1>2, <1>3, <1>4 DEF ImagesInv, ImageInHand, Disc_, NoTask, From, To, OddType, Renamed
<1>11. NoGameIsLost'
  <2>1. SUFFICES ASSUME NEW g \in Games, g \notin killed
                 PROVE  \E x \in Folder : x.game = g /\ held'[x] \in {"split", "whole"}
    BY <1>3 DEF NoGameIsLost
  <2>2. PICK x \in Folder : x.game = g /\ held[x] \in {"split", "whole"}
    BY <1>1, <2>1 DEF NoGameIsLost
  <2>3. CASE x = To /\ held' # held
    BY <1>4, <2>2, <2>3 DEF Renamed
  <2> QED
    BY <1>4, <2>2, <2>3 DEF Renamed
<1>12. ChangedInv'
  BY <1>1, <1>2, <1>3, <1>4 DEF ChangedInv, Dumping, NoTask, From, To, CopyPlaces, TargetPlaces,
     FolderPlaces, DiscPlaces, OddType, Renamed, TaskInv
<1> QED
  BY <1>5, <1>6, <1>7, <1>8, <1>9, <1>10, <1>11, <1>12 DEF GcInv

\* A copy that was given up is deleted.
LEMMA DeleteAbortedInv ==
  ASSUME GcInv, DeleteAborted
  PROVE  GcInv'
<1>1. GcTypeOK /\ TaskInv /\ GameInv /\ FoldersInv /\ CachesInv /\ ImagesInv /\ NoGameIsLost /\ ChangedInv
  BY DEF GcInv
<1>2. /\ To \in Folder /\ To.game = From.game /\ To.game \in Games /\ To.dev \in Devices /\ To.name \in Name
      /\ From # To /\ To.dev \in forcedevices
      /\ task \in [op : {"copy"}, from : Folder \cup Discs, to : Folder \cup Discs, split : BOOLEAN]
      /\ From \in Folder => held[From] # "none" /\ From.dev # "bdvd"
      /\ From.name \in Name
  BY CopyFolders DEF DeleteAborted, At, TargetPlaces
<1>3. /\ gcpc = "aborted" /\ gcpc' = "idle" /\ task' = NoTask /\ held[To] = "part"
      /\ UNCHANGED <<cache, images, forcedevices, lost, tasks, killed>>
  BY <1>1 DEF DeleteAborted, At, Goes, Returns, KeepForce, OnlyHeld, GameInv
<1>4. PICK c \in {"none", "part"} :
      /\ held' \in [Folder -> Contents] /\ \A x \in Folder : held'[x] = IF x = To THEN c ELSE held[x]
      /\ odd'.folders = (IF c = "part" THEN odd.folders \cup {To} ELSE odd.folders \ {To})
      /\ odd'.caches = odd.caches /\ odd'.images = odd.images /\ odd' \in OddType
      /\ changed' = changed \cup {To.dev} /\ changed' \subseteq Devices
  <2>1. CASE Sets(To, "none", FALSE)
    BY <1>1, <1>2, <2>1, SetsAt DEF Contents
  <2>2. CASE Sets(To, "part", TRUE)
    BY <1>1, <1>2, <2>2, SetsAt DEF Contents
  <2> QED
    BY <2>1, <2>2 DEF DeleteAborted, Deletes, Unwanted
<1>5. GcTypeOK'
  BY <1>1, <1>2, <1>3, <1>4, GamesAssumption DEF GcTypeOK, NoTask, From, To, OddType
<1>6. TaskInv'
  BY <1>1, <1>2, <1>3, <1>4 DEF TaskInv, NoTask, From, To, CopyPlaces, TargetPlaces, FolderPlaces,
     DiscPlaces, OddType
<1>7. GameInv'
  BY <1>1, <1>2, <1>3, <1>4 DEF GameInv, NoTask, From, To, CopyPlaces, TargetPlaces, FolderPlaces,
     DiscPlaces, OddType, TaskInv
<1>8. FoldersInv'
  BY <1>1, <1>2, <1>3, <1>4 DEF FoldersInv, FolderInHand, TargetPlaces, NoTask, From, To, OddType
<1>9. CachesInv'
  BY <1>1, <1>2, <1>3, <1>4 DEF CachesInv, CacheInHand, NoTask, From, To, OddType
<1>10. ImagesInv'
  BY <1>1, <1>2, <1>3, <1>4 DEF ImagesInv, ImageInHand, Disc_, NoTask, From, To, OddType
<1>11. NoGameIsLost'
  BY <1>1, <1>2, <1>3, <1>4 DEF NoGameIsLost, NoTask, From, To, OddType
<1>12. ChangedInv'
  BY <1>1, <1>2, <1>3, <1>4 DEF ChangedInv, Dumping, NoTask, From, To, CopyPlaces, TargetPlaces,
     FolderPlaces, DiscPlaces, OddType, TaskInv
<1> QED
  BY <1>5, <1>6, <1>7, <1>8, <1>9, <1>10, <1>11, <1>12 DEF GcInv

-----------------------------------------------------------------------------
(* The steps of a deletion and of a test.                                  *)

\* A folder is deleted, or not.
LEMMA DeleteGameInv ==
  ASSUME GcInv, DeleteGame
  PROVE  GcInv'
<1>1. GcTypeOK /\ TaskInv /\ GameInv /\ FoldersInv /\ CachesInv /\ ImagesInv /\ NoGameIsLost /\ ChangedInv
  BY DEF GcInv
<1>2. /\ From \in Folder /\ From.game \in Games /\ From.dev \in Devices /\ From.name \in Name
  <2>1. task \in [op : {"delete", "test", "cache"}, from : Folder]
    BY <1>1 DEF TaskInv, DeleteGame, At, FolderPlaces
  <2> QED
    BY <2>1, FolderFields DEF From
<1>3. /\ gcpc = "sure" /\ gcpc' = "idle" /\ task' = NoTask /\ UNCHANGED <<cache, images, tasks>>
      /\ forcedevices' = {From.dev} /\ lost' = lost \cup (forcedevices \ {From.dev})
  BY DEF DeleteGame, At, Goes, Returns, Forces, OnlyHeld
<1>4. \/ UNCHANGED <<held, odd, changed, killed>>
      \/ /\ killed' = killed \cup {From.game}
         /\ \E c \in {"none", "part"} :
              /\ held' \in [Folder -> Contents] /\ \A x \in Folder : held'[x] = IF x = From THEN c ELSE held[x]
              /\ odd'.folders = (IF c = "part" THEN odd.folders \cup {From} ELSE odd.folders \ {From})
              /\ odd'.caches = odd.caches /\ odd'.images = odd.images /\ odd' \in OddType
              /\ changed' = changed \cup {From.dev} /\ changed' \subseteq Devices
  <2>1. CASE Sets(From, "none", FALSE) /\ killed' = killed \cup {From.game}
    BY <1>1, <1>2, <2>1, SetsAt DEF Contents
  <2>2. CASE Sets(From, "part", TRUE) /\ killed' = killed \cup {From.game}
    BY <1>1, <1>2, <2>2, SetsAt DEF Contents
  <2> QED
    BY <2>1, <2>2 DEF DeleteGame, Deletes
<1>5. GcTypeOK'
  BY <1>1, <1>2, <1>3, <1>4, GamesAssumption DEF GcTypeOK, NoTask, From, OddType
<1>6. TaskInv'
  BY <1>1, <1>2, <1>3, <1>4 DEF TaskInv, NoTask, From, To, CopyPlaces, TargetPlaces, FolderPlaces,
     DiscPlaces, OddType
<1>7. GameInv'
  BY <1>1, <1>2, <1>3, <1>4 DEF GameInv, NoTask, From, To, CopyPlaces, TargetPlaces, FolderPlaces,
     DiscPlaces, OddType, TaskInv
<1>8. FoldersInv'
  BY <1>1, <1>2, <1>3, <1>4 DEF FoldersInv, FolderInHand, TargetPlaces, NoTask, From, To, OddType
<1>9. CachesInv'
  BY <1>1, <1>2, <1>3, <1>4 DEF CachesInv, CacheInHand, NoTask, From, OddType
<1>10. ImagesInv'
  BY <1>1, <1>2, <1>3, <1>4 DEF ImagesInv, ImageInHand, Disc_, NoTask, From, OddType
<1>11. NoGameIsLost'
  BY <1>1, <1>2, <1>3, <1>4 DEF NoGameIsLost, NoTask, From, OddType
<1>12. ChangedInv'
  BY <1>1, <1>2, <1>3, <1>4 DEF ChangedInv, Dumping, NoTask, From, To, CopyPlaces, TargetPlaces,
     FolderPlaces, DiscPlaces, OddType, TaskInv
<1> QED
  BY <1>5, <1>6, <1>7, <1>8, <1>9, <1>10, <1>11, <1>12 DEF GcInv

\* A test renames the folder of a game that is in parts, and looks one letter too far.
LEMMA TestGameInv ==
  ASSUME GcInv, TestGame
  PROVE  GcInv'
<1>1. GcTypeOK /\ TaskInv /\ GameInv /\ FoldersInv /\ CachesInv /\ ImagesInv /\ NoGameIsLost /\ ChangedInv
  BY DEF GcInv
<1>2. /\ From \in Folder /\ From.game \in Games /\ From.dev \in Devices /\ From.name \in Name
  <2>1. task \in [op : {"delete", "test", "cache"}, from : Folder]
    BY <1>1 DEF TaskInv, TestGame, At, FolderPlaces
  <2> QED
    BY <2>1, FolderFields DEF From
<1> DEFINE n == Tested(From.name)
           wrong == FALSE
<1>3. /\ gcpc = "test" /\ gcpc' = "idle" /\ task' = NoTask /\ UNCHANGED <<cache, images, tasks, killed>>
      /\ n \in Name /\ (n.marks = 0 <=> From.name.marks = 0)
  BY <1>2, Names DEF TestGame, At, Goes, Returns, OnlyHeld, Forces, KeepForce
<1> HIDE DEF n, wrong
<1>4. \/ UNCHANGED <<held, odd, changed, forcedevices, lost>>
      \/ /\ forcedevices' = Usb /\ lost' = lost \cup (forcedevices \ Usb)
         /\ From.dev \in Usb /\ (From.name.marks = 0 => From \in odd.folders)
         /\ \E to \in Folder : /\ to.game = From.game /\ to.dev = From.dev /\ to.name = n
                               /\ Renamed(From, to)
  <2>1. CASE UNCHANGED <<held, odd, changed, forcedevices, lost>>
    BY <2>1
  <2>2. CASE /\ held[From] \in {"split", "part"} /\ From.dev \in Usb /\ Renames(From, n, wrong)
             /\ forcedevices' = Usb /\ lost' = lost \cup (forcedevices \ Usb)
    <3>1. From.name.marks = 0 => From \in odd.folders
      BY <1>1, <1>2, <1>3, <2>2 DEF FoldersInv, FolderInHand, TargetPlaces
    <3>2. GcTypeOK /\ From \in Folder /\ n \in Name /\ Renames(From, n, wrong)
      BY <1>1, <1>2, <1>3, <2>2
    <3>3. \E to \in Folder : to.game = From.game /\ to.dev = From.dev /\ to.name = n /\ Renamed(From, to)
      BY <3>2, RenamesAt
    <3> QED
      BY <2>2, <3>1, <3>3
  <2> QED
    BY <2>1, <2>2 DEF TestGame, Forces, KeepForce, n, wrong
<1>5. GcTypeOK'
  <2>1. Usb \subseteq Devices /\ odd \in OddType
    BY <1>1 DEF GcTypeOK, OddType, Devices
  <2>2. /\ held' \in [Folder -> Contents] /\ odd' \in OddType /\ changed' \subseteq Devices
        /\ forcedevices' \subseteq Devices /\ lost' \subseteq Devices
    BY <1>1, <1>2, <1>4, <2>1 DEF GcTypeOK, Renamed
  <2> QED
    BY <1>1, <1>3, <2>2 DEF GcTypeOK, OddType
<1>6. TaskInv'
  BY <1>1, <1>2, <1>3, <1>4 DEF TaskInv, NoTask, From, To, CopyPlaces, TargetPlaces, FolderPlaces,
     DiscPlaces, OddType, Renamed
<1>7. GameInv'
  BY <1>1, <1>2, <1>3, <1>4 DEF GameInv, NoTask, From, To, CopyPlaces, TargetPlaces, FolderPlaces,
     DiscPlaces, OddType, Renamed, TaskInv
<1>8. FoldersInv'
  BY <1>1, <1>2, <1>3, <1>4 DEF FoldersInv, FolderInHand, TargetPlaces, NoTask, From, To, OddType, Renamed
<1>9. CachesInv'
  BY <1>1, <1>2, <1>3, <1>4 DEF CachesInv, CacheInHand, NoTask, From, OddType, Renamed
<1>10. ImagesInv'
  BY <1>1, <1>2, <1>3, <1>4 DEF ImagesInv, ImageInHand, Disc_, NoTask, From, OddType, Renamed
<1>11. NoGameIsLost'
  <2>1. SUFFICES ASSUME NEW g \in Games, g \notin killed
                 PROVE  \E x \in Folder : x.game = g /\ held'[x] \in {"split", "whole"}
    BY <1>3 DEF NoGameIsLost
  <2>2. PICK x \in Folder : x.game = g /\ held[x] \in {"split", "whole"}
    BY <1>1, <2>1 DEF NoGameIsLost
  <2> QED
    BY <1>4, <2>2 DEF Renamed
<1>12. ChangedInv'
  BY <1>1, <1>2, <1>3, <1>4 DEF ChangedInv, Dumping, NoTask, From, To, CopyPlaces, TargetPlaces,
     FolderPlaces, DiscPlaces, OddType, Renamed, TaskInv
<1> QED
  BY <1>5, <1>6, <1>7, <1>8, <1>9, <1>10, <1>11, <1>12 DEF GcInv

-----------------------------------------------------------------------------
(* The steps of a cache.                                                   *)

\* A cache is cleared, or what is left of it is to blame.
LEMMA ClearsCacheAt ==
  ASSUME GcTypeOK, NEW g \in Games, ClearsCache(g)
  PROVE  \E c \in [files : {"none", "part", "whole"}, paths : BOOLEAN], blame \in BOOLEAN :
           /\ ~blame /\ c.paths => c.files = "whole"
           /\ SetsCache(g, c, blame)
<1>1. cache[g].paths \in BOOLEAN
  BY DEF GcTypeOK
<1>2. CASE SetsCache(g, NoCache, FALSE)
  <2>1. NoCache \in [files : {"none", "part", "whole"}, paths : BOOLEAN] /\ ~NoCache.paths
    BY DEF NoCache
  <2> QED
    BY <1>2, <2>1
<1>3. CASE \E p \in {FALSE, cache[g].paths} : SetsCache(g, [files |-> "part", paths |-> p], p)
  BY <1>1, <1>3
<1> QED
  BY <1>2, <1>3 DEF ClearsCache

\* A cache is begun, maybe over an older one.
LEMMA CacheBeginsInv ==
  ASSUME GcInv, CacheBegins
  PROVE  GcInv'
<1>1. GcTypeOK /\ TaskInv /\ GameInv /\ FoldersInv /\ CachesInv /\ ImagesInv /\ NoGameIsLost /\ ChangedInv
  BY DEF GcInv
<1>2. /\ From \in Folder /\ From.game \in Games /\ From.dev \in Devices /\ From.name \in Name
  <2>1. task \in [op : {"delete", "test", "cache"}, from : Folder]
    BY <1>1 DEF TaskInv, CacheBegins, At, FolderPlaces
  <2> QED
    BY <2>1, FolderFields DEF From
<1> DEFINE g == From.game
<1>3. g \in Games
  BY <1>2
<1>4. gcpc = "cache" /\ gcpc' = "caching" /\ UNCHANGED <<task, forcedevices, lost, tasks>>
  BY DEF CacheBegins, At, Goes, KeepForce
<1>5. PICK c \in [files : {"none", "part", "whole"}, paths : BOOLEAN], blame \in BOOLEAN : SetsCache(g, c, blame)
  <2>1. SetsCache(g, [CacheOf EXCEPT !.files = "part"], FALSE)
    BY DEF CacheBegins
  <2>2. [CacheOf EXCEPT !.files = "part"] \in [files : {"none", "part", "whole"}, paths : BOOLEAN]
    BY <1>1, <1>3 DEF GcTypeOK, CacheOf
  <2> QED
    BY <2>1, <2>2
<1>5a. g = From.game
  OBVIOUS
<1> HIDE DEF g
<1>6. /\ cache' \in [Games -> [files : {"none", "part", "whole"}, paths : BOOLEAN]]
      /\ \A x \in Games : cache'[x] = IF x = g THEN c ELSE cache[x]
      /\ odd'.caches = (IF blame THEN odd.caches \cup {g} ELSE odd.caches \ {g})
      /\ odd'.folders = odd.folders /\ odd'.images = odd.images /\ odd' \in OddType
      /\ UNCHANGED <<held, images, changed, killed>>
  BY <1>1, <1>3, <1>5, SetsCacheAt
<1>7. GcTypeOK'
  BY <1>1, <1>3, <1>4, <1>5, <1>6, GamesAssumption DEF GcTypeOK, From, OddType
<1>8. TaskInv'
  BY <1>1, <1>3, <1>4, <1>5, <1>6 DEF TaskInv, From, To, CopyPlaces, TargetPlaces, FolderPlaces,
     DiscPlaces, OddType
<1>9. GameInv'
  BY <1>1, <1>3, <1>4, <1>5, <1>6 DEF GameInv, From, To, CopyPlaces, TargetPlaces, FolderPlaces,
     DiscPlaces, OddType, TaskInv
<1>10. FoldersInv'
  BY <1>1, <1>3, <1>4, <1>5, <1>6 DEF FoldersInv, FolderInHand, TargetPlaces, From, To, OddType
<1>11. CachesInv'
  BY <1>5a, <1>1, <1>3, <1>4, <1>5, <1>6 DEF CachesInv, CacheInHand, From, OddType
<1>12. ImagesInv'
  BY <1>1, <1>3, <1>4, <1>5, <1>6 DEF ImagesInv, ImageInHand, Disc_, From, OddType
<1>13. NoGameIsLost'
  BY <1>1, <1>3, <1>4, <1>5, <1>6 DEF NoGameIsLost, From, OddType
<1>14. ChangedInv'
  BY <1>1, <1>3, <1>4, <1>5, <1>6 DEF ChangedInv, Dumping, From, To, CopyPlaces, TargetPlaces,
     FolderPlaces, DiscPlaces, OddType, TaskInv
<1> QED
  BY <1>7, <1>8, <1>9, <1>10, <1>11, <1>12, <1>13, <1>14 DEF GcInv

\* A cache is complete; the part of a game is to blame.
LEMMA CacheSavedInv ==
  ASSUME GcInv, CacheSaved
  PROVE  GcInv'
<1>1. GcTypeOK /\ TaskInv /\ GameInv /\ FoldersInv /\ CachesInv /\ ImagesInv /\ NoGameIsLost /\ ChangedInv
  BY DEF GcInv
<1>2. /\ From \in Folder /\ From.game \in Games /\ From.dev \in Devices /\ From.name \in Name
  <2>1. task \in [op : {"delete", "test", "cache"}, from : Folder]
    BY <1>1 DEF TaskInv, CacheSaved, At, FolderPlaces
  <2> QED
    BY <2>1, FolderFields DEF From
<1> DEFINE g == From.game
           blame == held[From] = "part"
<1>3. gcpc = "caching" /\ gcpc' = "idle" /\ task' = NoTask /\ UNCHANGED <<forcedevices, lost, tasks>>
  BY DEF CacheSaved, At, Goes, Returns, KeepForce
<1>4. g \in Games
  BY <1>2
<1>5. PICK saved \in BOOLEAN : SetsCache(g, [files |-> "whole", paths |-> PathsAfter(saved)], blame)
  BY DEF CacheSaved
<1> DEFINE c == [files |-> "whole", paths |-> PathsAfter(saved)]
<1>6. c \in [files : {"none", "part", "whole"}, paths : BOOLEAN] /\ c.files = "whole"
  <2>1. PathsAfter(saved) \in BOOLEAN
    BY <1>1, <1>4 DEF GcTypeOK, PathsAfter, CacheOf, g
  <2> QED
    BY <2>1
<1>7. blame \in BOOLEAN
  OBVIOUS
<1>7a. g = From.game
  OBVIOUS
<1> HIDE DEF c, g, blame
<1>8. /\ cache' \in [Games -> [files : {"none", "part", "whole"}, paths : BOOLEAN]]
      /\ \A x \in Games : cache'[x] = IF x = g THEN c ELSE cache[x]
      /\ odd'.caches = (IF blame THEN odd.caches \cup {g} ELSE odd.caches \ {g})
      /\ odd'.folders = odd.folders /\ odd'.images = odd.images /\ odd' \in OddType
      /\ UNCHANGED <<held, images, changed, killed>>
  BY <1>1, <1>4, <1>5, <1>6, <1>7, SetsCacheAt DEF c
<1>9. GcTypeOK'
  BY <1>1, <1>2, <1>3, <1>4, <1>6, <1>8, GamesAssumption DEF GcTypeOK, NoTask, From, OddType
<1>10. TaskInv'
  BY <1>1, <1>2, <1>3, <1>4, <1>6, <1>8 DEF TaskInv, NoTask, From, To, CopyPlaces, TargetPlaces,
     FolderPlaces, DiscPlaces, OddType
<1>11. GameInv'
  BY <1>1, <1>2, <1>3, <1>4, <1>6, <1>8 DEF GameInv, NoTask, From, To, CopyPlaces, TargetPlaces,
     FolderPlaces, DiscPlaces, OddType, TaskInv
<1>12. FoldersInv'
  BY <1>1, <1>2, <1>3, <1>4, <1>6, <1>8 DEF FoldersInv, FolderInHand, TargetPlaces, NoTask, From, To, OddType
<1>13. CachesInv'
  BY <1>7a, <1>1, <1>2, <1>3, <1>4, <1>6, <1>8 DEF CachesInv, CacheInHand, NoTask, From, OddType
<1>14. ImagesInv'
  BY <1>1, <1>2, <1>3, <1>4, <1>6, <1>8 DEF ImagesInv, ImageInHand, Disc_, NoTask, From, OddType
<1>15. NoGameIsLost'
  BY <1>1, <1>2, <1>3, <1>4, <1>6, <1>8 DEF NoGameIsLost, NoTask, From, OddType
<1>16. ChangedInv'
  BY <1>1, <1>2, <1>3, <1>4, <1>6, <1>8 DEF ChangedInv, Dumping, NoTask, From, To, CopyPlaces,
     TargetPlaces, FolderPlaces, DiscPlaces, OddType, TaskInv
<1> QED
  BY <1>9, <1>10, <1>11, <1>12, <1>13, <1>14, <1>15, <1>16 DEF GcInv

\* A cache is given up: deleted, or what is left of it is to blame.
LEMMA CacheAbortedInv ==
  ASSUME GcInv, CacheAborted
  PROVE  GcInv'
<1>1. GcTypeOK /\ TaskInv /\ GameInv /\ FoldersInv /\ CachesInv /\ ImagesInv /\ NoGameIsLost /\ ChangedInv
  BY DEF GcInv
<1> DEFINE g == From.game
<1>2. g \in Games
  <2>1. task \in [op : {"delete", "test", "cache"}, from : Folder]
    BY <1>1 DEF TaskInv, CacheAborted, At, FolderPlaces
  <2> QED
    BY <2>1, FolderFields DEF From
<1>3. gcpc = "caching" /\ gcpc' = "idle" /\ task' = NoTask /\ UNCHANGED <<forcedevices, lost, tasks>>
  BY DEF CacheAborted, At, Goes, Returns, KeepForce
<1>4. PICK c \in [files : {"none", "part", "whole"}, paths : BOOLEAN], blame \in BOOLEAN : (~blame /\ c.paths => c.files = "whole") /\ SetsCache(g, c, blame)
  <2>1. CASE ClearsCache(g)
    BY <1>1, <1>2, <2>1, ClearsCacheAt
  <2>2. CASE SetsCache(g, CacheOf, CacheOf.paths)
    <3>1. CacheOf \in [files : {"none", "part", "whole"}, paths : BOOLEAN] /\ CacheOf.paths \in BOOLEAN
      BY <1>1, <1>2 DEF GcTypeOK, CacheOf
    <3> QED
      BY <2>2, <3>1
  <2> QED
    BY <2>1, <2>2 DEF CacheAborted
<1>4a. g = From.game
  OBVIOUS
<1> HIDE DEF g
<1>5. /\ cache' \in [Games -> [files : {"none", "part", "whole"}, paths : BOOLEAN]]
      /\ \A x \in Games : cache'[x] = IF x = g THEN c ELSE cache[x]
      /\ odd'.caches = (IF blame THEN odd.caches \cup {g} ELSE odd.caches \ {g})
      /\ odd'.folders = odd.folders /\ odd'.images = odd.images /\ odd' \in OddType
      /\ UNCHANGED <<held, images, changed, killed>>
  BY <1>1, <1>2, <1>4, SetsCacheAt
<1>6. GcTypeOK'
  BY <1>1, <1>2, <1>3, <1>4, <1>5, GamesAssumption DEF GcTypeOK, NoTask, From, OddType
<1>7. TaskInv'
  BY <1>1, <1>2, <1>3, <1>4, <1>5 DEF TaskInv, NoTask, From, To, CopyPlaces, TargetPlaces,
     FolderPlaces, DiscPlaces, OddType
<1>8. GameInv'
  BY <1>1, <1>2, <1>3, <1>4, <1>5 DEF GameInv, NoTask, From, To, CopyPlaces, TargetPlaces,
     FolderPlaces, DiscPlaces, OddType, TaskInv
<1>9. FoldersInv'
  BY <1>1, <1>2, <1>3, <1>4, <1>5 DEF FoldersInv, FolderInHand, TargetPlaces, NoTask, From, To, OddType
<1>10. CachesInv'
  BY <1>4a, <1>1, <1>2, <1>3, <1>4, <1>5 DEF CachesInv, CacheInHand, NoTask, From, OddType
<1>11. ImagesInv'
  BY <1>1, <1>2, <1>3, <1>4, <1>5 DEF ImagesInv, ImageInHand, Disc_, NoTask, From, OddType
<1>12. NoGameIsLost'
  BY <1>1, <1>2, <1>3, <1>4, <1>5 DEF NoGameIsLost, NoTask, From, OddType
<1>13. ChangedInv'
  BY <1>1, <1>2, <1>3, <1>4, <1>5 DEF ChangedInv, Dumping, NoTask, From, To, CopyPlaces,
     TargetPlaces, FolderPlaces, DiscPlaces, OddType, TaskInv
<1> QED
  BY <1>6, <1>7, <1>8, <1>9, <1>10, <1>11, <1>12, <1>13 DEF GcInv

\* A cache is deleted on the screen of the caches.
LEMMA DrawCacheselInv ==
  ASSUME GcInv, NEW g \in Games, DrawCachesel(g)
  PROVE  GcInv'
<1>1. GcTypeOK /\ TaskInv /\ GameInv /\ FoldersInv /\ CachesInv /\ ImagesInv /\ NoGameIsLost /\ ChangedInv
  BY DEF GcInv
<1>2. g \in Games
  OBVIOUS
<1>3. gcpc = "idle" /\ UNCHANGED <<gcpc, task, forcedevices, lost, tasks>>
  BY DEF DrawCachesel, At, KeepForce
<1>4. PICK c \in [files : {"none", "part", "whole"}, paths : BOOLEAN], blame \in BOOLEAN : (~blame /\ c.paths => c.files = "whole") /\ SetsCache(g, c, blame)
  BY <1>1, ClearsCacheAt DEF DrawCachesel
<1>5. /\ cache' \in [Games -> [files : {"none", "part", "whole"}, paths : BOOLEAN]]
      /\ \A x \in Games : cache'[x] = IF x = g THEN c ELSE cache[x]
      /\ odd'.caches = (IF blame THEN odd.caches \cup {g} ELSE odd.caches \ {g})
      /\ odd'.folders = odd.folders /\ odd'.images = odd.images /\ odd' \in OddType
      /\ UNCHANGED <<held, images, changed, killed>>
  BY <1>1, <1>2, <1>4, SetsCacheAt
<1>6. GcTypeOK'
  BY <1>1, <1>2, <1>3, <1>4, <1>5, GamesAssumption DEF GcTypeOK, OddType
<1>7. TaskInv'
  BY <1>1, <1>2, <1>3, <1>4, <1>5 DEF TaskInv, From, To, CopyPlaces, TargetPlaces, FolderPlaces,
     DiscPlaces, OddType
<1>8. GameInv'
  BY <1>1, <1>2, <1>3, <1>4, <1>5 DEF GameInv, From, To, CopyPlaces, TargetPlaces, FolderPlaces,
     DiscPlaces, OddType, TaskInv
<1>9. FoldersInv'
  BY <1>1, <1>2, <1>3, <1>4, <1>5 DEF FoldersInv, FolderInHand, TargetPlaces, To, OddType
<1>10. CachesInv'
  BY <1>1, <1>2, <1>3, <1>4, <1>5 DEF CachesInv, CacheInHand, OddType
<1>11. ImagesInv'
  BY <1>1, <1>2, <1>3, <1>4, <1>5 DEF ImagesInv, ImageInHand, Disc_, OddType
<1>12. NoGameIsLost'
  BY <1>1, <1>2, <1>3, <1>4, <1>5 DEF NoGameIsLost, OddType
<1>13. ChangedInv'
  BY <1>1, <1>2, <1>3, <1>4, <1>5 DEF ChangedInv, Dumping, From, To, CopyPlaces, TargetPlaces,
     FolderPlaces, DiscPlaces, OddType, TaskInv
<1> QED
  BY <1>6, <1>7, <1>8, <1>9, <1>10, <1>11, <1>12, <1>13 DEF GcInv

-----------------------------------------------------------------------------
(* The steps of a dump.                                                    *)

\* The dump of a disc begins.
LEMMA DumpDiscInv ==
  ASSUME GcInv, DumpDisc
  PROVE  GcInv'
<1>1. GcTypeOK /\ TaskInv /\ GameInv /\ FoldersInv /\ CachesInv /\ ImagesInv /\ NoGameIsLost /\ ChangedInv
  BY DEF GcInv
<1> DEFINE k == Disc_
           i == <<task.game, k>>
<1>2. task \in [op : {"dump"}, game : Psx, disc : {1, 2}] /\ task.game \in Psx /\ k \in {1, 2}
  BY <1>1 DEF TaskInv, DumpDisc, At, DiscPlaces, Disc_
<1>3. gcpc = "disc" /\ gcpc' = "dumping" /\ UNCHANGED <<task, forcedevices, lost, tasks>>
  BY DEF DumpDisc, At, Goes, KeepForce
<1>4. /\ images' \in [Psx \X {1, 2} -> {"none", "part", "whole"}]
      /\ \A x \in Psx \X {1, 2} : images'[x] = IF x = i THEN "part" ELSE images[x]
      /\ odd'.images = odd.images \ {i}
      /\ odd'.folders = odd.folders /\ odd'.caches = odd.caches /\ odd' \in OddType
      /\ changed' = changed \cup {"hdd"} /\ UNCHANGED <<held, cache, killed>>
  BY <1>1, <1>2, SetsImageAt DEF DumpDisc
<1>5. "hdd" \in Devices
  BY DEF Devices
<1>5a. i = <<task.game, Disc_>>
  OBVIOUS
<1> HIDE DEF i, k
<1>6. GcTypeOK'
  BY <1>1, <1>2, <1>3, <1>4, <1>5, GamesAssumption DEF GcTypeOK, OddType
<1>7. TaskInv'
  BY <1>1, <1>2, <1>3, <1>4, <1>5 DEF TaskInv, From, To, CopyPlaces, TargetPlaces, FolderPlaces,
     DiscPlaces, OddType
<1>8. GameInv'
  BY <1>1, <1>2, <1>3, <1>4, <1>5 DEF GameInv, From, To, CopyPlaces, TargetPlaces, FolderPlaces,
     DiscPlaces, OddType, TaskInv
<1>9. FoldersInv'
  BY <1>1, <1>2, <1>3, <1>4, <1>5 DEF FoldersInv, FolderInHand, TargetPlaces, To, OddType
<1>10. CachesInv'
  BY <1>1, <1>2, <1>3, <1>4, <1>5 DEF CachesInv, CacheInHand, OddType
<1>11. ImagesInv'
  BY <1>5a, <1>1, <1>2, <1>3, <1>4, <1>5 DEF ImagesInv, ImageInHand, Disc_, OddType
<1>12. NoGameIsLost'
  BY <1>1, <1>2, <1>3, <1>4, <1>5 DEF NoGameIsLost, OddType
<1>13. ChangedInv'
  BY <1>1, <1>2, <1>3, <1>4, <1>5 DEF ChangedInv, Dumping, From, To, CopyPlaces, TargetPlaces,
     FolderPlaces, DiscPlaces, OddType, TaskInv
<1> QED
  BY <1>6, <1>7, <1>8, <1>9, <1>10, <1>11, <1>12, <1>13 DEF GcInv

\* The disc is dumped; it was the last, or the next is asked for.
LEMMA DumpWrittenInv ==
  ASSUME GcInv, DumpWritten
  PROVE  GcInv'
<1>1. GcTypeOK /\ TaskInv /\ GameInv /\ FoldersInv /\ CachesInv /\ ImagesInv /\ NoGameIsLost /\ ChangedInv
  BY DEF GcInv
<1> DEFINE k == Disc_
           i == <<task.game, k>>
<1>2. task \in [op : {"dump"}, game : Psx, disc : {1, 2}] /\ task.game \in Psx /\ k \in {1, 2}
  BY <1>1 DEF TaskInv, DumpWritten, At, DiscPlaces, Disc_
<1>3. gcpc = "dumping"
  BY DEF DumpWritten, At
<1>4. /\ images' \in [Psx \X {1, 2} -> {"none", "part", "whole"}]
      /\ \A x \in Psx \X {1, 2} : images'[x] = IF x = i THEN "whole" ELSE images[x]
      /\ odd'.images = odd.images \ {i}
      /\ odd'.folders = odd.folders /\ odd'.caches = odd.caches /\ odd' \in OddType
      /\ changed' = changed \cup {"hdd"} /\ UNCHANGED <<held, cache, killed>>
  BY <1>1, <1>2, SetsImageAt DEF DumpWritten
<1>5. "hdd" \in Devices
  BY DEF Devices
<1>6. \/ /\ gcpc' = "idle" /\ task' = NoTask
         /\ forcedevices' = {"hdd"} /\ lost' = lost \cup (forcedevices \ {"hdd"}) /\ UNCHANGED tasks
      \/ /\ k < 2 /\ task' = [task EXCEPT !.disc = @ + 1] /\ gcpc' = "disc"
         /\ UNCHANGED <<forcedevices, lost, tasks>>
  BY <1>2 DEF DumpWritten, DumpEnds, Goes, Returns, Forces, KeepForce, k
<1>7. \/ gcpc' = "idle" /\ task' = NoTask
      \/ gcpc' = "disc" /\ task' \in [op : {"dump"}, game : Psx, disc : {1, 2}]
  BY <1>2, <1>6 DEF k, Disc_
<1>7a. i = <<task.game, Disc_>>
  OBVIOUS
<1> HIDE DEF i, k
<1>8. GcTypeOK'
  BY <1>1, <1>2, <1>3, <1>4, <1>5, <1>6, <1>7, GamesAssumption DEF GcTypeOK, NoTask, OddType
<1>9. TaskInv'
  BY <1>1, <1>2, <1>3, <1>4, <1>5, <1>6, <1>7 DEF TaskInv, NoTask, From, To, CopyPlaces,
     TargetPlaces, FolderPlaces, DiscPlaces, OddType
<1>10. GameInv'
  BY <1>1, <1>2, <1>3, <1>4, <1>5, <1>6, <1>7 DEF GameInv, NoTask, From, To, CopyPlaces,
     TargetPlaces, FolderPlaces, DiscPlaces, OddType, TaskInv
<1>11. FoldersInv'
  BY <1>1, <1>2, <1>3, <1>4, <1>5, <1>6, <1>7 DEF FoldersInv, FolderInHand, TargetPlaces, NoTask, To, OddType
<1>12. CachesInv'
  BY <1>1, <1>2, <1>3, <1>4, <1>5, <1>6, <1>7 DEF CachesInv, CacheInHand, NoTask, OddType
<1>13. ImagesInv'
  BY <1>7a, <1>1, <1>2, <1>3, <1>4, <1>5, <1>6, <1>7 DEF ImagesInv, ImageInHand, Disc_, NoTask, OddType
<1>14. NoGameIsLost'
  BY <1>1, <1>2, <1>3, <1>4, <1>5, <1>6, <1>7 DEF NoGameIsLost, NoTask, OddType
<1>15. ChangedInv'
  BY <1>1, <1>2, <1>3, <1>4, <1>5, <1>6, <1>7 DEF ChangedInv, Dumping, NoTask, From, To,
     CopyPlaces, TargetPlaces, FolderPlaces, DiscPlaces, OddType, TaskInv
<1> QED
  BY <1>8, <1>9, <1>10, <1>11, <1>12, <1>13, <1>14, <1>15 DEF GcInv

\* A write of the dump fails: what there is of the image is to blame.
LEMMA DumpFailsInv ==
  ASSUME GcInv, DumpFails
  PROVE  GcInv'
<1>1. GcTypeOK /\ TaskInv /\ GameInv /\ FoldersInv /\ CachesInv /\ ImagesInv /\ NoGameIsLost /\ ChangedInv
  BY DEF GcInv
<1> DEFINE k == Disc_
           i == <<task.game, k>>
<1>2. task \in [op : {"dump"}, game : Psx, disc : {1, 2}] /\ task.game \in Psx /\ k \in {1, 2}
  BY <1>1 DEF TaskInv, DumpFails, At, DiscPlaces, Disc_
<1>3. /\ gcpc = "dumping" /\ gcpc' = "idle" /\ task' = NoTask
      /\ forcedevices' = {"hdd"} /\ lost' = lost \cup (forcedevices \ {"hdd"}) /\ UNCHANGED tasks
  BY DEF DumpFails, DumpEnds, At, Goes, Returns, Forces
<1>4. /\ images' \in [Psx \X {1, 2} -> {"none", "part", "whole"}]
      /\ \A x \in Psx \X {1, 2} : images'[x] = IF x = i THEN "part" ELSE images[x]
      /\ odd'.images = odd.images \cup {i}
      /\ odd'.folders = odd.folders /\ odd'.caches = odd.caches /\ odd' \in OddType
      /\ changed' = changed \cup {"hdd"} /\ UNCHANGED <<held, cache, killed>>
  BY <1>1, <1>2, SetsImageAt DEF DumpFails
<1>5. "hdd" \in Devices
  BY DEF Devices
<1>5a. i = <<task.game, Disc_>>
  OBVIOUS
<1> HIDE DEF i, k
<1>6. GcTypeOK'
  BY <1>1, <1>2, <1>3, <1>4, <1>5, GamesAssumption DEF GcTypeOK, NoTask, OddType
<1>7. TaskInv'
  BY <1>1, <1>2, <1>3, <1>4, <1>5 DEF TaskInv, NoTask, From, To, CopyPlaces, TargetPlaces,
     FolderPlaces, DiscPlaces, OddType
<1>8. GameInv'
  BY <1>1, <1>2, <1>3, <1>4, <1>5 DEF GameInv, NoTask, From, To, CopyPlaces, TargetPlaces,
     FolderPlaces, DiscPlaces, OddType, TaskInv
<1>9. FoldersInv'
  BY <1>1, <1>2, <1>3, <1>4, <1>5 DEF FoldersInv, FolderInHand, TargetPlaces, NoTask, To, OddType
<1>10. CachesInv'
  BY <1>1, <1>2, <1>3, <1>4, <1>5 DEF CachesInv, CacheInHand, NoTask, OddType
<1>11. ImagesInv'
  BY <1>5a, <1>1, <1>2, <1>3, <1>4, <1>5 DEF ImagesInv, ImageInHand, Disc_, NoTask, OddType
<1>12. NoGameIsLost'
  BY <1>1, <1>2, <1>3, <1>4, <1>5 DEF NoGameIsLost, NoTask, OddType
<1>13. ChangedInv'
  BY <1>1, <1>2, <1>3, <1>4, <1>5 DEF ChangedInv, Dumping, NoTask, From, To, CopyPlaces,
     TargetPlaces, FolderPlaces, DiscPlaces, OddType, TaskInv
<1> QED
  BY <1>6, <1>7, <1>8, <1>9, <1>10, <1>11, <1>12, <1>13 DEF GcInv

\* A dump is given up: this image is deleted, or those of all discs.
LEMMA DumpAbortedInv ==
  ASSUME GcInv, DumpAborted
  PROVE  GcInv'
<1>1. GcTypeOK /\ TaskInv /\ GameInv /\ FoldersInv /\ CachesInv /\ ImagesInv /\ NoGameIsLost /\ ChangedInv
  BY DEF GcInv
<1> DEFINE k == Disc_
           i == <<task.game, k>>
<1>2. task \in [op : {"dump"}, game : Psx, disc : {1, 2}] /\ task.game \in Psx /\ k \in {1, 2}
  BY <1>1 DEF TaskInv, DumpAborted, At, DiscPlaces, Disc_
<1> DEFINE gone == {x \in Psx \X {1, 2} : x[1] = task.game}
<1>3. /\ gcpc = "dumping" /\ gcpc' = "idle" /\ task' = NoTask
      /\ forcedevices' = {"hdd"} /\ lost' = lost \cup (forcedevices \ {"hdd"}) /\ UNCHANGED tasks
  BY DEF DumpAborted, DumpEnds, At, Goes, Returns, Forces
<1>4. /\ images' \in [Psx \X {1, 2} -> {"none", "part", "whole"}]
      /\ \E s \in {{i}, gone} :
           /\ \A x \in Psx \X {1, 2} : images'[x] = IF x \in s THEN "none" ELSE images[x]
           /\ odd'.images = odd.images \ s
      /\ odd'.folders = odd.folders /\ odd'.caches = odd.caches /\ odd' \in OddType
      /\ changed' = changed \cup {"hdd"} /\ UNCHANGED <<held, cache, killed>>
  <2>1. CASE SetsImage(k, "none", FALSE)
    <3>1. /\ images' \in [Psx \X {1, 2} -> {"none", "part", "whole"}]
          /\ \A x \in Psx \X {1, 2} : images'[x] = IF x = i THEN "none" ELSE images[x]
          /\ odd'.images = odd.images \ {i}
          /\ odd'.folders = odd.folders /\ odd'.caches = odd.caches /\ odd' \in OddType
          /\ changed' = changed \cup {"hdd"} /\ UNCHANGED <<held, cache, killed>>
      BY <1>1, <1>2, <2>1, SetsImageAt
    <3> QED
      BY <3>1
  <2>2. CASE /\ images' = [x \in DOMAIN images |-> IF x[1] = task.game THEN "none" ELSE images[x]]
             /\ odd' = [odd EXCEPT !.images = {x \in @ : x[1] # task.game}]
             /\ changed' = changed \cup {"hdd"} /\ UNCHANGED <<held, cache, killed>>
    <3>1. images \in [Psx \X {1, 2} -> {"none", "part", "whole"}] /\ odd \in OddType
      BY <1>1 DEF GcTypeOK, OddType
    <3>2. /\ images' \in [Psx \X {1, 2} -> {"none", "part", "whole"}]
          /\ \A x \in Psx \X {1, 2} : images'[x] = IF x \in gone THEN "none" ELSE images[x]
      BY <2>2, <3>1
    <3>3. /\ odd'.folders = odd.folders /\ odd'.caches = odd.caches /\ odd' \in OddType
          /\ odd'.images = odd.images \ gone
      BY <2>2, <3>1 DEF OddType
    <3> QED
      BY <2>2, <3>2, <3>3
  <2> QED
    BY <2>1, <2>2 DEF DumpAborted, k
<1>5. "hdd" \in Devices
  BY DEF Devices
<1>5a. i = <<task.game, Disc_>> /\ i \in gone
  BY <1>2
<1> HIDE DEF i, k, gone
<1>6. GcTypeOK'
  BY <1>1, <1>2, <1>3, <1>4, <1>5, GamesAssumption DEF GcTypeOK, NoTask, OddType
<1>7. TaskInv'
  BY <1>1, <1>2, <1>3, <1>4, <1>5 DEF TaskInv, NoTask, From, To, CopyPlaces, TargetPlaces,
     FolderPlaces, DiscPlaces, OddType
<1>8. GameInv'
  BY <1>1, <1>2, <1>3, <1>4, <1>5 DEF GameInv, NoTask, From, To, CopyPlaces, TargetPlaces,
     FolderPlaces, DiscPlaces, OddType, TaskInv
<1>9. FoldersInv'
  BY <1>1, <1>2, <1>3, <1>4, <1>5 DEF FoldersInv, FolderInHand, TargetPlaces, NoTask, To, OddType
<1>10. CachesInv'
  BY <1>1, <1>2, <1>3, <1>4, <1>5 DEF CachesInv, CacheInHand, NoTask, OddType
<1>11. ImagesInv'
  BY <1>5a, <1>1, <1>2, <1>3, <1>4, <1>5 DEF ImagesInv, ImageInHand, Disc_, NoTask, OddType
<1>12. NoGameIsLost'
  BY <1>1, <1>2, <1>3, <1>4, <1>5 DEF NoGameIsLost, NoTask, OddType
<1>13. ChangedInv'
  BY <1>1, <1>2, <1>3, <1>4, <1>5 DEF ChangedInv, Dumping, NoTask, From, To, CopyPlaces,
     TargetPlaces, FolderPlaces, DiscPlaces, OddType, TaskInv
<1> QED
  BY <1>6, <1>7, <1>8, <1>9, <1>10, <1>11, <1>12, <1>13 DEF GcInv

-----------------------------------------------------------------------------
(* The theorems.                                                           *)

\* At the start every game is somewhere, and whole.
LEMMA InitInv ==
  ASSUME GcInit
  PROVE  GcInv
<1>1. PICK at \in [Games -> Devices] :
        held = [f \in Folder |-> IF f.name = Plain /\ f.dev = at[f.game] THEN "whole" ELSE "none"]
  BY DEF GcInit
<1>2. gcpc = "idle" /\ task = NoTask /\ forcedevices = {} /\ lost = {} /\ changed = {}
  BY DEF GcInit
<1>3. GcTypeOK
  <2>1. held \in [Folder -> Contents]
    BY <1>1 DEF Contents
  <2>2. odd \in OddType
    BY DEF GcInit, OddType
  <2> QED
    BY <1>2, <2>1, <2>2, GamesAssumption DEF GcInit, GcTypeOK, OddType, NoCache
<1>4. \A f \in Folder : held[f] \in {"none", "whole"}
  BY <1>1
<1>5. NoGameIsLost
  <2>1. SUFFICES ASSUME NEW g \in Games
                 PROVE  \E f \in Folder : f.game = g /\ held[f] \in {"split", "whole"}
    BY DEF NoGameIsLost
  <2> DEFINE f == [dev |-> at[g], game |-> g, name |-> Plain]
  <2>2. f \in Folder /\ f.game = g /\ f.dev = at[f.game] /\ f.name = Plain
    BY <1>1, FolderFields
  <2>3. held[f] = "whole"
    BY <1>1, <2>2
  <2> QED
    BY <2>2, <2>3
<1>6. CachesInv /\ ImagesInv
  BY DEF GcInit, CachesInv, ImagesInv, NoCache
<1> QED
  BY <1>2, <1>3, <1>4, <1>5, <1>6
  DEF GcInv, TaskInv, GameInv, FoldersInv, ChangedInv, Dumping, CopyPlaces, TargetPlaces, FolderPlaces,
      DiscPlaces

\* Every step of every driver, of the user, of the main loop, and a stop.
LEMMA StepInv ==
  ASSUME GcInv, [GcNext]_gcVars
  PROVE  GcInv'
<1>1. ASSUME NEW f \in Folder, SelectCopy(f) \/ SelectDelete(f) \/ SelectTest(f) \/ SelectCache(f)
      PROVE  GcInv'
  BY <1>1, SelectCopyInv, SelectDeleteInv, SelectTestInv, SelectCacheInv
<1>2. CASE User
  BY <1>1, <1>2, SelectDiscInv, SelectDumpInv, DrawCacheselInv DEF User
<1>3. CASE Where
  BY <1>3, NoRoomInv, NoDeviceInv, NoGameDiscInv, MakesFolderInv DEF Where
<1>4. CASE CopyDriver
  BY <1>3, <1>4, CountInv, CopyBeginsInv, CopyEndsInv, CopyAbortedInv, RenameSplitInv, RenameNothingInv,
     MarkAbortedInv, DeleteAbortedInv, NothingToDeleteInv DEF CopyDriver
<1>5. CASE CacheDriver
  BY <1>5, CacheRefusedInv, CacheBeginsInv, CacheSavedInv, CacheAbortedInv DEF CacheDriver
<1>6. CASE DumpDriver
  BY <1>6, AskDiscInv, DumpDiscInv, DumpWrittenInv, DumpFailsInv, DumpAbortedInv DEF DumpDriver
<1>7. CASE UNCHANGED gcVars
  BY <1>7 DEF gcVars, GcInv, GcTypeOK, TaskInv, GameInv, FoldersInv, FolderInHand, CachesInv,
              CacheInHand, ImagesInv, ImageInHand, Disc_, NoGameIsLost, ChangedInv, Dumping, From, To
<1> QED
  BY <1>2, <1>4, <1>5, <1>6, <1>7, DeleteGameInv, TestGameInv, RefreshInv, StopInv DEF GcNext

\* The invariant of the drivers: where a copy stands, what its two folders
\* hold, and what is at all times true of the marks and of what is to be
\* read again (copy_from_selection, copy_from_bluray, copy_to_cache,
\* delete_game, test_game, copy_PSX_game_from_CD).
THEOREM CopiesInvariant == GcSpec => []GcInv
<1>1. GcInit => GcInv
  BY InitInv
<1>2. GcInv /\ [GcNext]_gcVars => GcInv'
  BY StepInv
<1> QED
  BY <1>1, <1>2, PTL DEF GcSpec

\* Between tasks a folder without a mark is whole, a cache with paths.dir is
\* complete, and no image is a part, except for what the history names: this
\* is what the game list relies on (utils.c:1230).
THEOREM MarksAreTrue == GcSpec => []UnmarkedIsWhole
<1>1. GcInv => UnmarkedIsWhole
  BY DEF GcInv, UnmarkedIsWhole, NothingHalfIsPlain, GcTypeOK, FoldersInv, FolderInHand, CachesInv,
         CacheInHand, ImagesInv, ImageInHand, TargetPlaces, At
<1> QED
  BY <1>1, CopiesInvariant, PTL

\* No game disappears that the user did not delete or overwrite with an
\* unfinished copy, wherever a copy, a rename or a deletion is cut short.
THEOREM GamesAreKept == GcSpec => []NoGameIsLost
<1>1. GcInv => NoGameIsLost
  BY DEF GcInv
<1> QED
  BY <1>1, CopiesInvariant, PTL

\* After a task the main loop reads again what was changed, unless the
\* assignment to forcedevices forgot it (main.c:2921).
THEOREM ChangesAreSeen == GcSpec => []ChangedIsReadAgain
<1>1. GcInv => ChangedIsReadAgain
  BY DEF GcInv, ChangedIsReadAgain, ChangedInv, Dumping, DiscPlaces, At
<1> QED
  BY <1>1, CopiesInvariant, PTL

(***************************************************************************)
(* THE FAST-COPY ENGINE                                                    *)
(***************************************************************************)

-----------------------------------------------------------------------------
(* Sums. The provers know no induction; but every set of naturals has a    *)
(* least element, and that suffices.                                       *)

\* The least element of a set of naturals.
LEMMA SmallestOf ==
  ASSUME NEW T \in SUBSET Nat, T # {}
  PROVE  \E n \in T : \A m \in T : n <= m
<1>1. PICK n \in T : \A m \in T : ~ (<<m, n>> \in OpToRel(<, Nat))
  BY WFMin, NatLessThanWellFounded
<1>2. \A m \in T : ~ (m < n)
  BY <1>1 DEF OpToRel
<1> QED
  BY <1>2

\* Induction, over a set: what holds of 0 and goes on to n + 1 holds up to m.
LEMMA UpTo ==
  ASSUME NEW m \in Nat, NEW T, 0 \in T, \A n \in 0 .. m - 1 : n \in T => n + 1 \in T
  PROVE  \A n \in 0 .. m : n \in T
<1>1. SUFFICES ASSUME NEW k \in 0 .. m, k \notin T PROVE FALSE
  OBVIOUS
<1> DEFINE U == {n \in 0 .. m : n \notin T}
<1>2. U \in SUBSET Nat /\ U # {}
  BY <1>1
<1>3. PICK n \in U : \A i \in U : n <= i
  BY <1>2, SmallestOf
<1>4. n \in 0 .. m /\ n \notin T /\ n # 0
  BY <1>3
<1>5. n - 1 \in 0 .. m - 1 /\ n - 1 \notin U
  BY <1>3, <1>4
<1>6. n - 1 \in T /\ (n - 1) + 1 = n
  BY <1>4, <1>5
<1> QED
  BY <1>4, <1>5, <1>6

\* The sums of a sequence are what adding its elements one by one gives.
LEMMA SumsAt ==
  ASSUME NEW s \in Seq(Nat)
  PROVE  /\ Sums(s) \in [0 .. Len(s) -> Nat] /\ Sums(s)[0] = 0
         /\ \A i \in 1 .. Len(s) : Sums(s)[i] = Sums(s)[i - 1] + s[i]
         /\ Sum(s) = Sums(s)[Len(s)] /\ Sum(s) \in Nat
<1> DEFINE IsSums(g, n) == g = [i \in 0 .. n |-> IF i = 0 THEN 0 ELSE g[i - 1] + s[i]]
           T == {n \in 0 .. Len(s) : \E g \in [0 .. n -> Nat] : IsSums(g, n)}
<1>1. Len(s) \in Nat /\ \A i \in 1 .. Len(s) : s[i] \in Nat
  OBVIOUS
<1>2. 0 \in T
  <2> DEFINE z == [i \in 0 .. 0 |-> 0]
  <2>1. z \in [0 .. 0 -> Nat] /\ \A i \in 0 .. 0 : z[i] = IF i = 0 THEN 0 ELSE z[i - 1] + s[i]
    OBVIOUS
  <2>2. IsSums(z, 0)
    BY <2>1
  <2>3. 0 \in 0 .. Len(s)
    BY <1>1
  <2> QED
    BY <2>1, <2>2, <2>3
<1>3. ASSUME NEW n \in 0 .. Len(s) - 1, n \in T
      PROVE  n + 1 \in T
  <2>1. PICK g \in [0 .. n -> Nat] : IsSums(g, n)
    BY <1>3
  <2> DEFINE h == [i \in 0 .. n + 1 |-> IF i = n + 1 THEN g[n] + s[n + 1] ELSE g[i]]
  <2>2. h \in [0 .. n + 1 -> Nat]
    BY <1>1
  <2>3. \A i \in 0 .. n + 1 : h[i] = IF i = 0 THEN 0 ELSE h[i - 1] + s[i]
    BY SMTT(30), <1>1, <2>1
  <2>4. IsSums(h, n + 1)
    BY <2>2, <2>3
  <2>5. n + 1 \in 0 .. Len(s)
    BY <1>1
  <2> QED
    BY <2>2, <2>4, <2>5
<1>4. PICK g \in [0 .. Len(s) -> Nat] : IsSums(g, Len(s))
  <2> HIDE DEF T
  <2>1. \A n \in 0 .. Len(s) : n \in T
    BY <1>1, <1>2, <1>3, UpTo
  <2>2. Len(s) \in T
    BY <1>1, <2>1
  <2> QED
    BY <2>2 DEF T
<1>5. Sums(s) = CHOOSE f : IsSums(f, Len(s))
  BY DEF Sums
<1>6. IsSums(Sums(s), Len(s))
  BY <1>4, <1>5, Zenon
<1> DEFINE f == Sums(s)
<1>7. f = [i \in 0 .. Len(s) |-> IF i = 0 THEN 0 ELSE f[i - 1] + s[i]]
  BY <1>6
<1> HIDE DEF f
<1>8. f[0] = 0 /\ \A i \in 1 .. Len(s) : f[i] = f[i - 1] + s[i]
  BY SMTT(30), <1>1, <1>7
<1>9. DOMAIN f = 0 .. Len(s) /\ f = [i \in 0 .. Len(s) |-> f[i]]
  BY <1>7
<1> DEFINE V == {i \in 0 .. Len(s) : f[i] \in Nat}
<1>10. 0 \in V /\ \A n \in 0 .. Len(s) - 1 : n \in V => n + 1 \in V
  <2>1. ASSUME NEW n \in 0 .. Len(s) - 1, f[n] \in Nat
        PROVE  n + 1 \in 0 .. Len(s) /\ f[n + 1] \in Nat
    <3>1. n + 1 \in 1 .. Len(s) /\ (n + 1) - 1 = n
      BY <1>1
    <3>2. f[n + 1] = f[n] + s[n + 1] /\ s[n + 1] \in Nat
      BY <1>1, <1>8, <3>1
    <3> QED
      BY <2>1, <3>1, <3>2
  <2> QED
    BY <1>1, <1>8, <2>1
<1>11. \A n \in 0 .. Len(s) : n \in V
  <2> HIDE DEF V
  <2> QED
    BY <1>1, <1>10, UpTo
<1>12. f \in [0 .. Len(s) -> Nat]
  BY <1>9, <1>11
<1> QED
  BY <1>1, <1>8, <1>12 DEF Sum, f

\* The sums of the first elements grow.
LEMMA SumsGrow ==
  ASSUME NEW s \in Seq(Nat), NEW i \in 0 .. Len(s), NEW j \in i .. Len(s)
  PROVE  Sums(s)[i] <= Sums(s)[j]
<1> DEFINE f == Sums(s)
<1>0. f \in [0 .. Len(s) -> Nat] /\ \A k \in 1 .. Len(s) : f[k] = f[k - 1] + s[k]
  BY SumsAt
<1> HIDE DEF f
<1>1. Len(s) \in Nat /\ \A k \in 0 .. Len(s) : f[k] \in Nat
  BY SMTT(30), <1>0
<1>2. ASSUME NEW k \in 1 .. Len(s) PROVE f[k - 1] <= f[k]
  <2>1. k - 1 \in 0 .. Len(s) /\ k \in 0 .. Len(s) /\ s[k] \in Nat
    BY <1>1
  <2>2. f[k] = f[k - 1] + s[k] /\ f[k - 1] \in Nat
    BY <1>0, <1>1, <2>1
  <2> QED
    BY <2>1, <2>2
<1> DEFINE T == {n \in Nat : i + n <= Len(s) => f[i] <= f[i + n]}
<1>3. 0 \in T
  BY <1>1
<1>4. ASSUME NEW n \in 0 .. Len(s) - 1, n \in T
      PROVE  n + 1 \in T
  <2>1. SUFFICES ASSUME i + (n + 1) <= Len(s)
                 PROVE  f[i] <= f[i + (n + 1)]
    OBVIOUS
  <2>2. i + (n + 1) \in 1 .. Len(s) /\ (i + (n + 1)) - 1 = i + n /\ i + n \in 0 .. Len(s)
    BY <1>1, <2>1
  <2>3. f[i] <= f[i + n]
    BY <1>1, <1>4, <2>1
  <2>4. f[i + n] <= f[i + (n + 1)]
    BY <1>2, <2>2
  <2> QED
    BY <1>1, <2>2, <2>3, <2>4
<1>5. j - i \in 0 .. Len(s) /\ i + (j - i) = j
  BY <1>1
<1>6. j - i \in T
  <2> HIDE DEF T
  <2> QED
    BY <1>1, <1>3, <1>4, <1>5, UpTo
<1> QED
  BY <1>5, <1>6 DEF f

\* Sequences that begin alike have the same first sums.
LEMMA SumsAgree ==
  ASSUME NEW s \in Seq(Nat), NEW t \in Seq(Nat), NEW m \in Nat, m <= Len(s), m <= Len(t),
         \A i \in 1 .. m : s[i] = t[i]
  PROVE  Sums(s)[m] = Sums(t)[m]
<1> DEFINE T == {n \in 0 .. m : Sums(s)[n] = Sums(t)[n]}
<1>1. Len(s) \in Nat /\ Len(t) \in Nat
  OBVIOUS
<1>2. 0 \in T
  BY SumsAt
<1>3. ASSUME NEW n \in 0 .. m - 1, n \in T
      PROVE  n + 1 \in T
  <2>1. n + 1 \in 1 .. Len(s) /\ n + 1 \in 1 .. Len(t) /\ n + 1 \in 1 .. m /\ (n + 1) - 1 = n
    BY <1>1
  <2>2. Sums(s)[n + 1] = Sums(s)[n] + s[n + 1] /\ Sums(t)[n + 1] = Sums(t)[n] + t[n + 1]
    BY <2>1, SumsAt
  <2> QED
    BY <1>3, <2>1, <2>2
<1>4. m \in T
  <2> HIDE DEF T
  <2>1. \A n \in 0 .. m : n \in T
    BY <1>2, <1>3, UpTo
  <2> QED
    BY <2>1
<1> QED
  BY <1>4

\* The sum of a sequence and one more.
LEMMA SumAppend ==
  ASSUME NEW s \in Seq(Nat), NEW x \in Nat
  PROVE  Sum(Append(s, x)) = Sum(s) + x
<1> DEFINE t == Append(s, x)
<1>1. /\ t \in Seq(Nat) /\ Len(t) = Len(s) + 1 /\ Len(s) \in Nat /\ t[Len(s) + 1] = x
      /\ \A i \in 1 .. Len(s) : s[i] = t[i]
  OBVIOUS
<1> HIDE DEF t
<1> DEFINE m == Len(s)
<1>2. Sums(s)[m] = Sums(t)[m]
  <2>1. m \in Nat /\ m <= Len(s) /\ m <= Len(t) /\ \A i \in 1 .. m : s[i] = t[i]
    BY <1>1
  <2> HIDE DEF m
  <2> QED
    BY <1>1, <2>1, SumsAgree
<1>3. Len(t) \in 1 .. Len(t) /\ Len(t) - 1 = Len(s)
  BY <1>1
<1>4. Sums(t)[Len(t)] = Sums(t)[Len(s)] + x
  BY <1>1, <1>3, SumsAt
<1> QED
  BY <1>2, <1>4, SumsAt, <1>1 DEF t

\* The sum of a sequence that is zero except at one place, or everywhere.
LEMMA SumOfOne ==
  ASSUME NEW s \in Seq(Nat), NEW c \in Nat \ {0}, \A i \in 1 .. Len(s) : i # c => s[i] = 0
  PROVE  Sum(s) = IF c <= Len(s) THEN s[c] ELSE 0
<1> DEFINE T == {n \in 0 .. Len(s) : Sums(s)[n] = IF c <= n THEN s[c] ELSE 0}
<1>1. Len(s) \in Nat
  OBVIOUS
<1>2. 0 \in T
  BY <1>1, SumsAt
<1>3. ASSUME NEW n \in 0 .. Len(s) - 1, n \in T
      PROVE  n + 1 \in T
  <2>1. n + 1 \in 1 .. Len(s) /\ (n + 1) - 1 = n
    BY <1>1
  <2>2. Sums(s)[n + 1] = Sums(s)[n] + s[n + 1] /\ s[n + 1] \in Nat
    BY <2>1, SumsAt
  <2>3. CASE c = n + 1
    BY <1>3, <2>1, <2>2, <2>3
  <2>4. CASE c # n + 1
    <3>1. s[n + 1] = 0
      BY <2>1, <2>4
    <3>2. Sums(s)[n] \in Nat
      BY SMTT(30), <1>1, SumsAt
    <3> QED
      BY <1>3, <2>1, <2>2, <2>4, <3>1, <3>2
  <2> QED
    BY <2>3, <2>4
<1>4. Len(s) \in T
  <2> HIDE DEF T
  <2>1. \A n \in 0 .. Len(s) : n \in T
    BY <1>1, <1>2, <1>3, UpTo
  <2> QED
    BY <1>1, <2>1
<1> QED
  BY <1>4, SumsAt
-----------------------------------------------------------------------------
(* The invariant of the engine. ResourceInv: the batch, the flags, the     *)
(* requests and how far the file being copied has come.                    *)

(* The steps of one turn of the loop, and those of fast_copy_process.      *)
Turn == {"open", "readEnd", "fl2", "writeEnd", "progress"}
InProcess == Turn \cup {"loop", "cleanup"}

(* The file of w is being copied.                                          *)
Fresh(f) == f.fl = 1
Active == w <= num /\ ~Fresh(W)

ScalarsInv ==
  /\ dir \in Dirs /\ copy_mode \in {0, 1} /\ next \in 1 .. Len(dir) + 1
  /\ pc \in Places /\ caller \in {"add", "final"}
  /\ ret \in BOOLEAN /\ abort_copy \in BOOLEAN
  /\ error \in {0, -1, -2, -3, -4, -666}
  /\ i_reading \in BOOLEAN /\ fast_read \in 0 .. 2 /\ fast_writing \in 0 .. 2
  /\ leaked \in 0 .. 1 /\ mounts \in 0 .. 2

(* A turn is begun only while nothing went wrong; what goes wrong is       *)
(* reported in the end, and when nothing does all is done.                 *)
ControlInv ==
  /\ pc \in Turn => ~abort_copy /\ error = 0 /\ leaked = 0
  /\ pc = "loop" => error = 0 \/ abort_copy
  /\ pc \in {"start", "add"} => ~ret /\ ~abort_copy /\ leaked = 0
  /\ pc = "cleanup" => error # 0 \/ abort_copy \/ w > num
  /\ leaked > 0 => (pc = "cleanup" /\ error # 0) \/ (abort_copy /\ ret)
  /\ ret => abort_copy
  /\ pc \in InProcess /\ caller = "final" => ret \/ next > Len(dir)
  /\ pc \in {"finish", "done"} => ret \/ next > Len(dir)

(* The files of the batch: as fast_copy_add made them, in their order.     *)
Entries ==
  {f \in FileRecords :
     /\ f.file < next /\ Head(dir[f.file]) > 0
     /\ f.bigfile_mode = ModeOf(dir[f.file])
     /\ f.size_mem = MinOf(Head(dir[f.file]), Buf)
     /\ f.use_doublebuffer = (Head(dir[f.file]) >= Buf)
     /\ Fresh(f) => /\ f.rfd = Closed /\ f.wfd = Closed /\ f.len = Head(dir[f.file])
                    /\ f.readed = 0 /\ f.writed = 0 /\ f.off_readed = 0
                    /\ f.giga_counter = 0 /\ f.number_frag = 0}
Sizes == [i \in 1 .. num |-> fast_files[i].size_mem]
BatchInv ==
  /\ fast_files \in Seq(Entries) /\ num <= MaxFiles
  /\ \A i, j \in 1 .. num : i < j => fast_files[i].file < fast_files[j].file
  /\ used_mem \in Nat /\ used_mem = Sum(Sizes) /\ used_mem < 2 * Buf

(* The files before w are copied and closed, those after it are fresh; the *)
(* next one to read is that of w, or the one after it.                     *)
OrderInv ==
  /\ w \in 1 .. num + 1 /\ r \in 1 .. num + 1
  /\ r = w \/ (r = w + 1 /\ Active)
  /\ \A i \in 1 .. num : i > w => Fresh(fast_files[i])
  /\ \A i \in 1 .. num :
       i < w => /\ fast_files[i].rfd = Closed /\ fast_files[i].wfd = Closed
                /\ ~Fresh(fast_files[i])
  /\ pc \notin InProcess => r = 1 /\ w = 1 /\ ~Active
  /\ pc \in {"start", "finish", "done"} => num = 0
  /\ pc = "fl2" => r = w /\ Active /\ W.fl = 3

(* Only the file of w is ever open, and only it has requests.              *)
ReadRequests == [entry : Nat, frag : Nat, offset : Nat, size : 1 .. Buf]
WriteRequests ==
  [entry : Nat, part : Int, offset : Nat, size : 1 .. Buf, buffer : {"mem", "mem2"}]
OpenInv ==
  /\ files_opened = leaked + (IF Active THEN OpenOf(W) ELSE 0)
  /\ leaked > 0 => ~Active
  /\ ~Active => aioR = None /\ aioW = None /\ fast_read = 0 /\ fast_writing = 0
  /\ aioR # None =>
       /\ aioR \in ReadRequests /\ fast_read = 1 /\ r = w /\ aioR.entry = w
       /\ aioR.frag = W.rfd /\ aioR.frag \in 1 .. Len(dir[W.file])
  /\ aioW # None =>
       /\ aioW \in WriteRequests /\ aioW.entry = w
       /\ aioW.part = W.wfd /\ W.wfd # Closed
       /\ aioW.offset = WriteOffset(W) /\ W.writed >= 0
       /\ aioW.buffer = IF W.use_doublebuffer THEN "mem2" ELSE "mem"
  /\ (aioW # None) <=> (fast_writing = 1)
  /\ aioR # None /\ aioW # None => W.use_doublebuffer

(* How far the file of w is read and written. Ready: a chunk is read and   *)
(* not yet handed on. A file of one buffer has nothing written before it   *)
(* is read.                                                                *)
InFlight == IF aioW # None THEN aioW.size ELSE 0
InFragments(f) == f.bigfile_mode = 2 /\ f.use_doublebuffer
Reading ==
  /\ aioR.size = W.rsize /\ W.rsize = Chunk(W, W.len, W.readed)
  /\ W.off_readed <= W.readed /\ W.readed < W.len
  /\ aioR.offset = W.readed - W.off_readed
  /\ W.fl = IF pc = "fl2" THEN 3 ELSE 2
  /\ W.writed >= 0 => W.writed + InFlight = W.readed
  /\ W.use_doublebuffer \/ W.readed = 0
Ready == aioR = None /\ W.fl = 3 /\ pc # "fl2"
ReadyInv ==
  /\ W.rsize \in 1 .. W.size_mem /\ W.readed <= W.len
  /\ W.rsize = W.size_mem \/ W.readed = W.len
  /\ W.off_readed <= W.readed
  /\ W.writed >= 0 => W.writed + InFlight = W.readed - W.rsize
  /\ W.use_doublebuffer \/ (W.readed = W.rsize /\ W.readed = W.len)
WhileReading ==
  /\ W.off_readed = Sums(dir[W.file])[W.rfd - 1]
  /\ W.bigfile_mode = 2 => W.number_frag = W.rfd - 1
  /\ W.writed >= 0 => W.writed + InFlight < W.len
  /\ ~W.use_doublebuffer => fast_writing = 0
  /\ aioR # None => Reading
  /\ Ready => ReadyInv
ReadInv == Active /\ pc # "cleanup" =>
  /\ W.rfd \in 1 .. Len(dir[W.file]) /\ W.wfd # Closed
  /\ W.len = IF InFragments(W) THEN Sums(dir[W.file])[W.rfd] ELSE Head(dir[W.file])
  /\ fast_writing = 0 => W.writed >= 0
  /\ r = w => WhileReading
  /\ r = w + 1 => /\ W.writed >= 0 => W.writed + InFlight = Whole(W.file)
                  /\ W.len = Whole(W.file)

ResourceInv ==
  ScalarsInv /\ ControlInv /\ BatchInv /\ OrderInv /\ OpenInv /\ ReadInv

(* CopyInv: what is in the buffers and on the disk.                        *)

(* The file of w is written at the end of its last part; the parts of a    *)
(* split file are filled in steps of a buffer.                             *)
Steps == {m * Buf : m \in Nat}
LastPart == disk[W.file][W.wfd]
SplitInv ==
  /\ W.number_frag = W.wfd - 1
  /\ W.giga_counter = Len(LastPart) /\ W.giga_counter + InFlight <= Part
  /\ r = w /\ W.writed >= 0 => W.giga_counter + InFlight \in Steps
  /\ fast_writing = 0 /\ pc # "cleanup" => W.giga_counter < Part
PartsInv == Active /\ W.wfd # Closed =>
  /\ W.wfd = Len(disk[W.file]) /\ W.wfd >= 1
  /\ W.bigfile_mode # 1 => W.wfd = 1
  /\ W.bigfile_mode = 1 => SplitInv
  /\ W.writed >= 0 => W.writed = PartStart(W.wfd) + Len(LastPart)

(* What a write takes from its buffer is the source from where it writes   *)
(* on; what was read last ends where reading stands.                       *)
WriteBuffer == IF W.use_doublebuffer THEN W.mem2 ELSE W.mem
BufferInv ==
  /\ aioW # None =>
       /\ W.writed + aioW.size <= Sum(dir[W.file])
       /\ Len(WriteBuffer) = aioW.size
       /\ \A i \in 1 .. aioW.size : WriteBuffer[i] = W.writed + i
  /\ Active /\ pc # "cleanup" /\ r = w /\ Ready =>
       /\ Len(W.mem) = W.rsize
       /\ \A i \in 1 .. W.rsize : W.mem[i] = W.readed - W.rsize + i

(* What an output may hold at any time, and when it is done.               *)
CopiedOf(s) == IF s = <<>> THEN 0 ELSE PartStart(Len(s)) + Len(s[Len(s)])
TrueCopies(k) ==
  {s \in Seq(Seq(Nat)) :
     /\ \A p \in 1 .. Len(s) : \A i \in 1 .. Len(s[p]) : s[p][i] = PartStart(p) + i
     /\ \A p \in 1 .. Len(s) - 1 : Len(s[p]) = Part
     /\ CopiedOf(s) <= Sum(dir[k])
     /\ copy_mode = 1 /\ Head(dir[k]) >= Big => \A p \in 1 .. Len(s) : Len(s[p]) <= Part}
CompleteCopies(k) == {s \in Seq(Seq(Nat)) : s # <<>> /\ CopiedOf(s) = Whole(k)}

(* What is on the disk: nothing of the files that are not begun, all of    *)
(* those that are no longer in the batch.                                  *)
InBatch == {fast_files[i].file : i \in 1 .. num}
DiskInv ==
  /\ disk \in [1 .. Len(dir) -> Seq(Seq(Nat))]
  /\ \A k \in 1 .. Len(dir) : disk[k] \in TrueCopies(k)
  /\ \A i \in 1 .. num : Fresh(fast_files[i]) => disk[fast_files[i].file] = <<>>
  /\ \A i \in 1 .. num :
       i < w => disk[fast_files[i].file] \in CompleteCopies(fast_files[i].file)
  /\ \A k \in next .. Len(dir) : disk[k] = <<>>
  /\ ~ret => \A k \in 1 .. next - 1 : k \in InBatch \/ disk[k] \in CompleteCopies(k)

CopyInv == PartsInv /\ BufferInv /\ DiskInv
-----------------------------------------------------------------------------
(* What the proofs use of the files and of the entries made for them.      *)

\* A file and the sums of its fragments; only fragments that are not empty
\* make more than one.
LEMMA FileFacts ==
  ASSUME dir \in Dirs, NEW k \in 1 .. Len(dir)
  PROVE  /\ dir[k] \in Seq(Nat) /\ Len(dir[k]) \in Nat \ {0}
         /\ Head(dir[k]) = dir[k][1] /\ Head(dir[k]) \in Nat
         /\ Sums(dir[k]) \in [0 .. Len(dir[k]) -> Nat]
         /\ Sums(dir[k])[0] = 0 /\ Sums(dir[k])[1] = Head(dir[k])
         /\ Sum(dir[k]) = Sums(dir[k])[Len(dir[k])] /\ Sum(dir[k]) \in Nat
         /\ Len(dir[k]) = 1 => Sum(dir[k]) = Head(dir[k])
         /\ Head(dir[k]) <= Sum(dir[k])
         /\ Len(dir[k]) > 1 => \A j \in 1 .. Len(dir[k]) : dir[k][j] \in 1 .. Big - 1
         /\ \A j \in 1 .. Len(dir[k]) :
              Sums(dir[k])[j] = Sums(dir[k])[j - 1] + dir[k][j] /\ Sums(dir[k])[j] <= Sum(dir[k])
<1>1. dir \in Seq(Seq(Nat) \ {<<>>})
  BY FastCopyAssumption
<1>2. dir[k] \in Seq(Nat) \ {<<>>}
  BY <1>1
<1> DEFINE s == dir[k]
<1>3. s \in Seq(Nat) /\ s # <<>>
  BY <1>2
<1>4. Len(s) > 1 => \A j \in 1 .. Len(s) : s[j] \in 1 .. Big - 1
  BY FastCopyAssumption
<1> HIDE DEF s
<1>5. /\ Len(s) \in Nat \ {0} /\ Head(s) = s[1]
      /\ \A j \in 1 .. Len(s) : s[j] \in Nat
  BY <1>3
<1>6. 1 \in 1 .. Len(s) /\ 1 \in 0 .. Len(s) /\ 1 - 1 = 0 /\ Len(s) \in 1 .. Len(s)
  BY <1>5
<1>7. /\ Sums(s) \in [0 .. Len(s) -> Nat] /\ Sums(s)[0] = 0
      /\ \A i \in 1 .. Len(s) : Sums(s)[i] = Sums(s)[i - 1] + s[i]
      /\ Sum(s) = Sums(s)[Len(s)] /\ Sum(s) \in Nat
  BY <1>3, SumsAt
<1>8. Sums(s)[1] = Head(s)
  BY <1>5, <1>6, <1>7
<1>9. \A j \in 1 .. Len(s) : Sums(s)[j] <= Sum(s)
  <2>1. TAKE j \in 1 .. Len(s)
  <2>2. j \in 0 .. Len(s) /\ Len(s) \in j .. Len(s)
    BY <1>5
  <2> QED
    BY <1>3, <1>7, <2>2, SumsGrow
<1>10. Head(s) <= Sum(s)
  BY <1>6, <1>8, <1>9
<1> QED
  BY <1>3, <1>4, <1>5, <1>6, <1>7, <1>8, <1>9, <1>10 DEF s

\* How much of a file is copied: all, or the first fragment of one whose
\* first fragment is smaller than a buffer.
LEMMA WholeFacts ==
  ASSUME dir \in Dirs, NEW k \in 1 .. Len(dir)
  PROVE  /\ Whole(k) \in Nat /\ Whole(k) <= Sum(dir[k])
         /\ ModeOf(dir[k]) = 1 => Len(dir[k]) = 1 /\ Head(dir[k]) >= Buf
         /\ ModeOf(dir[k]) = 0 => Len(dir[k]) = 1
         /\ ModeOf(dir[k]) \in 0 .. 2
         /\ ModeOf(dir[k]) # 1 => ~ (copy_mode = 1 /\ Head(dir[k]) >= Big)
         /\ ModeOf(dir[k]) = 2 /\ Head(dir[k]) >= Buf => Whole(k) = Sum(dir[k])
         /\ ~ (ModeOf(dir[k]) = 2 /\ Head(dir[k]) >= Buf) => Whole(k) = Head(dir[k])
         /\ Head(dir[k]) = 0 => Whole(k) = 0
<1> DEFINE s == dir[k]
<1>1. /\ Len(s) \in Nat \ {0} /\ Head(s) = s[1] /\ Head(s) \in Nat /\ Sum(s) \in Nat
      /\ Len(s) = 1 => Sum(s) = Head(s)
      /\ Head(s) <= Sum(s)
      /\ Len(s) > 1 => \A j \in 1 .. Len(s) : s[j] \in 1 .. Big - 1
  BY FileFacts
<1> HIDE DEF s
<1>2. Len(s) > 1 => Head(s) \in 1 .. Big - 1
  BY <1>1
<1>3. Buf \in Nat \ {0} /\ Big \in Nat /\ Big > Buf
  BY FastCopyAssumption
<1> DEFINE mode == ModeOf(s)
           whole == Whole(k)
<1>4. whole = IF Len(s) > 1 /\ Head(s) < Buf THEN Head(s) ELSE Sum(s)
  BY DEF Whole, OneFragmentOnly, s
<1>5. mode = IF copy_mode = 1 /\ Head(s) >= Big THEN 1 ELSE IF Len(s) > 1 THEN 2 ELSE 0
  BY DEF ModeOf
<1> DEFINE n == Len(s)
           head == Head(s)
           sum == Sum(s)
           splits == copy_mode = 1 /\ head >= Big
<1>6. /\ n \in Nat \ {0} /\ head \in Nat /\ sum \in Nat /\ head <= sum
      /\ n = 1 => sum = head
      /\ n > 1 => head \in 1 .. Big - 1
  BY <1>1, <1>2
<1>7. /\ whole = IF n > 1 /\ head < Buf THEN head ELSE sum
      /\ mode = IF splits THEN 1 ELSE IF n > 1 THEN 2 ELSE 0
      /\ splits => head >= Big
  BY <1>4, <1>5
<1> HIDE DEF mode, whole, n, head, sum, splits
<1>8. whole \in Nat /\ whole <= sum
  BY <1>6, <1>7
<1>9. /\ mode = 1 => n = 1 /\ head >= Buf
      /\ mode = 0 => n = 1
      /\ mode \in 0 .. 2
      /\ mode # 1 => ~ splits
  BY <1>3, <1>6, <1>7
<1>10. mode = 2 /\ head >= Buf => whole = sum
  BY <1>3, <1>6, <1>7
<1>11. ~ (mode = 2 /\ head >= Buf) => whole = head
  BY <1>3, <1>6, <1>7
<1>12. head = 0 => whole = 0
  BY <1>3, <1>6, <1>7
<1> QED
  BY <1>8, <1>9, <1>10, <1>11, <1>12 DEF mode, whole, n, head, sum, splits, s

\* An entry of the batch.
LEMMA EntryFacts ==
  ASSUME dir \in Dirs, NEW f \in Entries
  PROVE  /\ f \in FileRecords /\ f.file \in 1 .. Len(dir)
         /\ f.bigfile_mode = ModeOf(dir[f.file]) /\ f.bigfile_mode \in 0 .. 2
         /\ f.size_mem \in 1 .. Buf /\ f.size_mem <= Head(dir[f.file])
         /\ f.use_doublebuffer => f.size_mem = Buf
         /\ ~f.use_doublebuffer => f.size_mem = Head(dir[f.file])
         /\ f.bigfile_mode = 1 => f.use_doublebuffer
         /\ InFragments(f) => Whole(f.file) = Sum(dir[f.file])
         /\ ~InFragments(f) => Whole(f.file) = Head(dir[f.file])
<1>1. /\ f \in FileRecords /\ f.file \in 1 .. Len(dir) /\ f.size_mem \in 1 .. Buf
      /\ f.bigfile_mode = ModeOf(dir[f.file])
      /\ f.size_mem = MinOf(Head(dir[f.file]), Buf)
      /\ f.use_doublebuffer = (Head(dir[f.file]) >= Buf)
  BY DEF Entries, FileRecords
<1>2. Head(dir[f.file]) \in Nat
  BY <1>1, FileFacts
<1>3. /\ ModeOf(dir[f.file]) = 1 => Head(dir[f.file]) >= Buf
      /\ ModeOf(dir[f.file]) \in 0 .. 2
      /\ ModeOf(dir[f.file]) = 2 /\ Head(dir[f.file]) >= Buf =>
           Whole(f.file) = Sum(dir[f.file])
      /\ ~ (ModeOf(dir[f.file]) = 2 /\ Head(dir[f.file]) >= Buf) =>
           Whole(f.file) = Head(dir[f.file])
  BY <1>1, WholeFacts
<1>4. Buf \in Nat \ {0}
  BY FastCopyAssumption
<1>5. /\ f.size_mem <= Head(dir[f.file])
      /\ Head(dir[f.file]) >= Buf => f.size_mem = Buf
      /\ ~ (Head(dir[f.file]) >= Buf) => f.size_mem = Head(dir[f.file])
  BY <1>1, <1>2, <1>4 DEF MinOf
<1> QED
  BY <1>1, <1>3, <1>5, Zenon DEF InFragments

\* Entries stay entries while files are added.
LEMMA EntriesGrow ==
  ASSUME UNCHANGED <<dir, copy_mode>>, next \in Int, next' \in Int, next <= next'
  PROVE  FileRecords' = FileRecords /\ Entries \subseteq Entries'
<1>1. FileRecords' = FileRecords
  BY DEF FileRecords
<1>2. ASSUME NEW f \in Entries PROVE f \in Entries'
  <2>1. f.file \in Int
    BY DEF Entries, FileRecords
  <2>2. f.file < next => f.file < next'
    BY <2>1
  <2> QED
    BY <1>1, <1>2, <2>2 DEF Entries, Fresh, ModeOf
<1> QED
  BY <1>1, <1>2

\* An entry may change in all but what fast_copy_add found out of its file.
LEMMA ChangedEntry ==
  ASSUME ScalarsInv, BatchInv, NEW k \in 1 .. num, NEW f \in FileRecords,
         f.file = fast_files[k].file, f.bigfile_mode = fast_files[k].bigfile_mode,
         f.size_mem = fast_files[k].size_mem,
         f.use_doublebuffer = fast_files[k].use_doublebuffer, ~Fresh(f),
         fast_files' = [fast_files EXCEPT ![k] = f],
         UNCHANGED <<dir, copy_mode, next, used_mem>>
  PROVE  /\ BatchInv' /\ num' = num /\ fast_files'[k] = f
         /\ \A i \in 1 .. num : i # k => fast_files'[i] = fast_files[i]
         /\ fast_files[k] \in Entries /\ f \in Entries /\ Entries' = Entries
<1>1. fast_files \in Seq(Entries)
  BY DEF BatchInv
<1>2. fast_files[k] \in Entries
  BY <1>1 DEF num
<1>3. f \in Entries
  BY <1>2 DEF Entries, Fresh
<1>4. fast_files' \in Seq(Entries) /\ Len(fast_files') = Len(fast_files)
  BY <1>1, <1>3 DEF num
<1>5. num' = num /\ num \in Nat
  BY <1>1, <1>4 DEF num
<1>6. fast_files'[k] = f /\ \A i \in 1 .. num : i # k => fast_files'[i] = fast_files[i]
  BY <1>1 DEF num
<1>7. Entries' = Entries
  BY DEF Entries, FileRecords, ModeOf, Fresh
<1>8. \A i \in 1 .. num : /\ fast_files'[i].file = fast_files[i].file
                          /\ fast_files'[i].size_mem = fast_files[i].size_mem
  BY <1>6
<1>9. Sizes' = Sizes
  BY <1>5, <1>8 DEF Sizes
<1> QED
  BY <1>2, <1>3, <1>4, <1>5, <1>6, <1>7, <1>8, <1>9 DEF BatchInv

\* Steps that only move on in the loop, or leave it, keep the batch, the
\* requests and the files.
LEMMA MovingOn ==
  ASSUME ResourceInv, pc' \in InProcess, pc' # "fl2",
         pc' = "cleanup" \/ pc \notin {"fl2", "cleanup"},
         UNCHANGED <<dir, copy_mode, next, fast_files, used_mem, r, w, fast_read,
                     fast_writing, aioR, aioW>>,
         \/ UNCHANGED <<files_opened, leaked>>
         \/ ~Active /\ leaked' \in Nat /\ files_opened' = leaked'
  PROVE  BatchInv' /\ OrderInv' /\ OpenInv' /\ ReadInv'
<1>1. FileRecords' = FileRecords /\ Entries' = Entries
  BY DEF Entries, FileRecords, ModeOf, Fresh
<1>2. num' = num /\ Active' = Active /\ W' = W /\ Sizes' = Sizes /\ InFlight' = InFlight
  BY DEF num, Active, W, Sizes, InFlight
<1>3. BatchInv'
  BY <1>1, <1>2 DEF ResourceInv, BatchInv
<1>4. OrderInv'
  BY <1>2 DEF ResourceInv, OrderInv, InProcess, Turn
<1>5. OpenInv'
  BY <1>2 DEF ResourceInv, OpenInv, ReadRequests, WriteRequests
<1>6. Whole(W.file)' = Whole(W.file)
  BY <1>2 DEF Whole
<1>7. pc' # "cleanup" => (Ready' <=> Ready) /\ (Reading' <=> Reading) /\ (ReadyInv' <=> ReadyInv)
  BY <1>2 DEF Ready, Reading, ReadyInv
<1>8. pc' # "cleanup" => (WhileReading' <=> WhileReading)
  BY <1>2, <1>7 DEF WhileReading
<1>9. ReadInv'
  BY <1>2, <1>6, <1>8 DEF ResourceInv, ReadInv
<1> QED
  BY <1>3, <1>4, <1>5, <1>9
-----------------------------------------------------------------------------
(* ResourceInv holds at first and is kept by every step, one lemma to an   *)
(* action.                                                                 *)

\* At first there is nothing to account for.
LEMMA ResourceInit == Init => ResourceInv
<1>1. SUFFICES ASSUME Init PROVE ResourceInv
  OBVIOUS
<1>2. num = 0 /\ ~Active
  BY <1>1 DEF Init, num, Active
<1>3. ScalarsInv
  <2>1. Len(dir) \in Nat /\ dir \in Dirs
    BY <1>1, FastCopyAssumption DEF Init
  <2>2. dir \in Dirs /\ copy_mode \in {0, 1} /\ next = 1 /\ 1 \in 1 .. Len(dir) + 1
    BY <1>1, <2>1 DEF Init
  <2>3. ret \in BOOLEAN /\ abort_copy \in BOOLEAN /\ i_reading \in BOOLEAN
    BY <1>1 DEF Init
  <2>4. /\ pc = "start" /\ caller = "add" /\ error = 0 /\ fast_read = 0
        /\ fast_writing = 0 /\ leaked = 0 /\ mounts = 0
    BY <1>1 DEF Init
  <2> QED
    BY <2>2, <2>3, <2>4 DEF ScalarsInv, Places
<1>4. ControlInv
  BY <1>1 DEF Init, ControlInv, Turn, InProcess
<1>5. BatchInv
  <2>1. Sizes = <<>>
    BY <1>2 DEF Sizes
  <2>2. Sum(<<>>) = 0
    <3>1. <<>> \in Seq(Nat) /\ Len(<<>>) = 0
      OBVIOUS
    <3> QED
      BY <3>1, SumsAt
  <2>3. fast_files \in Seq(Entries) /\ used_mem = 0
    BY <1>1 DEF Init
  <2>4. Buf \in Nat \ {0} /\ MaxFiles \in Nat
    BY FastCopyAssumption
  <2>5. num \in Nat /\ num <= MaxFiles /\ used_mem \in Nat /\ used_mem < 2 * Buf
    BY <1>2, <2>3, <2>4
  <2> QED
    BY <1>2, <2>1, <2>2, <2>3, <2>5 DEF BatchInv
<1>6. OrderInv
  BY <1>1, <1>2 DEF Init, OrderInv
<1>7. OpenInv
  BY <1>1, <1>2 DEF Init, OpenInv
<1> QED
  BY <1>2, <1>3, <1>4, <1>5, <1>6, <1>7 DEF ResourceInv, ReadInv

\* The loop tests what is left to do.
LEMMA LoopTestCounts == ResourceInv /\ LoopTest => ResourceInv'
<1>1. SUFFICES ASSUME ResourceInv, LoopTest PROVE ResourceInv'
  OBVIOUS
<1>2. /\ pc = "loop" /\ pc' \in {"open", "cleanup"}
      /\ pc' = "open" => ~abort_copy
      /\ pc' = "cleanup" => ~MoreToDo \/ abort_copy
  BY <1>1 DEF LoopTest, StopLooping
<1>3. UNCHANGED <<dir, copy_mode, next, caller, ret, mounts, abort_copy, fast_files, used_mem,
                  r, w, i_reading, error, fast_read, fast_writing, files_opened, aioR, aioW,
                  leaked>>
  BY <1>1 DEF LoopTest, driver, batch, loop, flags, aio
<1>4. BatchInv' /\ OrderInv' /\ OpenInv' /\ ReadInv'
  BY <1>1, <1>2, <1>3, MovingOn DEF InProcess, Turn
<1>5. ScalarsInv'
  BY <1>1, <1>2, <1>3 DEF ResourceInv, ScalarsInv, Places
<1>6. ControlInv'
  <2>1. ~MoreToDo => w > num
    BY <1>1 DEF ResourceInv, OrderInv, BatchInv, MoreToDo, num
  <2>2. w' = w /\ num' = num
    BY <1>3 DEF num
  <2>3. leaked \in 0 .. 1 /\ leaked' = leaked
    BY <1>1, <1>3 DEF ResourceInv, ScalarsInv
  <2> QED
    BY <1>1, <1>2, <1>3, <2>1, <2>2, <2>3 DEF ResourceInv, ControlInv, Turn, InProcess
<1> QED
  BY <1>4, <1>5, <1>6 DEF ResourceInv

\* Nothing to open, no read or write that ended, and nothing the user does.
LEMMA IdleStepsCount ==
  ASSUME ResourceInv, NothingToOpen \/ NoReadEnded \/ NoWriteEnded \/ Progress
  PROVE  ResourceInv'
<1>1. /\ pc \in {"open", "readEnd", "writeEnd", "progress"}
      /\ pc' \in {"readEnd", "writeEnd", "progress", "loop"}
      /\ pc' # pc
  BY DEF NothingToOpen, NoReadEnded, NoWriteEnded, Progress
<1>2. UNCHANGED <<dir, copy_mode, next, caller, ret, mounts, abort_copy, fast_files, used_mem,
                  r, w, i_reading, error, fast_read, fast_writing, files_opened, aioR, aioW,
                  leaked>>
  BY DEF NothingToOpen, NoReadEnded, NoWriteEnded, Progress, driver, batch, loop, flags, aio
<1>3. BatchInv' /\ OrderInv' /\ OpenInv' /\ ReadInv'
  BY <1>1, <1>2, MovingOn DEF InProcess, Turn
<1>4. ScalarsInv'
  BY <1>1, <1>2 DEF ResourceInv, ScalarsInv, Places
<1>5. ControlInv'
  BY <1>1, <1>2 DEF ResourceInv, ControlInv, Turn, InProcess
<1> QED
  BY <1>3, <1>4, <1>5 DEF ResourceInv

\* The user cancels the dialog or holds TRIANGLE.
LEMMA UserAbortsCounts == ResourceInv /\ UserAborts => ResourceInv'
<1>1. SUFFICES ASSUME ResourceInv, UserAborts PROVE ResourceInv'
  OBVIOUS
<1>2. pc = "progress" /\ pc' \in {"loop", "cleanup"} /\ abort_copy' = TRUE /\ error' = -666
  BY <1>1 DEF UserAborts
<1>3. UNCHANGED <<dir, copy_mode, next, caller, ret, mounts, fast_files, used_mem,
                  r, w, i_reading, fast_read, fast_writing, files_opened, aioR, aioW,
                  leaked>>
  BY <1>1 DEF UserAborts, driver, batch, flags, aio
<1>4. BatchInv' /\ OrderInv' /\ OpenInv' /\ ReadInv'
  BY <1>1, <1>2, <1>3, MovingOn DEF InProcess, Turn
<1>5. ScalarsInv'
  BY <1>1, <1>2, <1>3 DEF ResourceInv, ScalarsInv, Places
<1>6. ControlInv'
  BY <1>1, <1>2, <1>3 DEF ResourceInv, ScalarsInv, ControlInv, Turn, InProcess
<1> QED
  BY <1>4, <1>5, <1>6 DEF ResourceInv

\* A write cannot be started.
LEMMA StartWriteFailsCounts == ResourceInv /\ StartWriteFails => ResourceInv'
<1>1. SUFFICES ASSUME ResourceInv, StartWriteFails PROVE ResourceInv'
  OBVIOUS
<1>2. pc = "readEnd" /\ pc' = "cleanup" /\ error' = -4 /\ ReadEnded /\ w' = r
  BY <1>1 DEF StartWriteFails, Break
<1>3. UNCHANGED <<dir, copy_mode, next, caller, ret, mounts, abort_copy, fast_files, used_mem,
                  r, i_reading, fast_read, fast_writing, files_opened, aioR, aioW, leaked>>
  BY <1>1 DEF StartWriteFails, driver, batch, flags, aio
<1>4. r = w
  BY <1>1, <1>2 DEF ResourceInv, OrderInv, ReadEnded, R, Fresh
<1>5. BatchInv' /\ OrderInv' /\ OpenInv' /\ ReadInv'
  BY <1>1, <1>2, <1>3, <1>4, MovingOn DEF InProcess, Turn
<1>6. ScalarsInv'
  BY <1>1, <1>2, <1>3 DEF ResourceInv, ScalarsInv, Places
<1>7. ControlInv'
  BY <1>1, <1>2, <1>3 DEF ResourceInv, ScalarsInv, ControlInv, Turn, InProcess
<1> QED
  BY <1>5, <1>6, <1>7 DEF ResourceInv

\* The asynchronous reads and writes are set up, or taken down.
LEMMA SettingUpCounts ==
  ASSUME ResourceInv, fast_copy_async \/ Finish
  PROVE  ResourceInv'
<1>1. /\ pc \in {"start", "finish"} /\ pc' \in {"add", "done"} /\ mounts' \in 0 .. 2
      /\ pc = "start" => \/ pc' = "done" /\ ret' = TRUE /\ abort_copy' = TRUE
                         \/ pc' = "add" /\ UNCHANGED <<ret, abort_copy>>
      /\ pc = "finish" => pc' = "done" /\ UNCHANGED <<ret, abort_copy>>
  BY DEF fast_copy_async, Finish
<1>2. UNCHANGED <<dir, copy_mode, next, caller, fast_files, used_mem, r, w, i_reading, error,
                  fast_read, fast_writing, files_opened, aioR, aioW, leaked>>
  BY DEF fast_copy_async, Finish, batch, loop, flags, aio
<1>3. num = 0 /\ num' = 0 /\ r = 1 /\ w = 1
  BY <1>1, <1>2 DEF ResourceInv, OrderInv, InProcess, Turn, num
<1>4. ~Active /\ ~Active'
  BY <1>2, <1>3 DEF Active
<1>5. FileRecords' = FileRecords /\ Entries' = Entries /\ Sizes' = Sizes
  BY <1>2, <1>3 DEF Entries, FileRecords, ModeOf, Fresh, Sizes
<1>6. BatchInv'
  BY <1>2, <1>3, <1>5 DEF ResourceInv, BatchInv
<1>7. OrderInv'
  BY <1>1, <1>2, <1>3, <1>4 DEF OrderInv
<1>8. OpenInv'
  BY <1>2, <1>4 DEF ResourceInv, OpenInv
<1>9. ret' \in BOOLEAN /\ abort_copy' \in BOOLEAN
  <2>1. ret \in BOOLEAN /\ abort_copy \in BOOLEAN
    BY DEF ResourceInv, ScalarsInv
  <2>2. \/ ret' = TRUE /\ abort_copy' = TRUE
        \/ UNCHANGED <<ret, abort_copy>>
    BY <1>1, Zenon
  <2> QED
    BY <2>1, <2>2, Zenon
<1>10. ScalarsInv'
  BY <1>1, <1>2, <1>9 DEF ResourceInv, ScalarsInv, Places
<1>11. ControlInv'
  BY <1>1, <1>2 DEF ResourceInv, ControlInv, ScalarsInv, Turn, InProcess
<1> QED
  BY <1>4, <1>6, <1>7, <1>8, <1>10, <1>11 DEF ResourceInv, ReadInv

\* fast_copy_process is called: on a full batch, on the last one, or because
\* a file could not be added.
LEMMA CallCounts ==
  ASSUME ResourceInv, AddToFullBatch \/ fast_copy_add_fails \/ DirectoryRead
  PROVE  ResourceInv'
<1>1. /\ pc = "add" /\ pc' = "loop" /\ caller' \in {"add", "final"}
      /\ r' = 1 /\ w' = 1 /\ i_reading' = FALSE /\ error' = 0
      /\ \/ UNCHANGED <<ret, abort_copy>>
         \/ ret' = TRUE /\ abort_copy' = TRUE
      /\ caller' = "final" => ret' = TRUE \/ next > Len(dir)
  BY DEF AddToFullBatch, fast_copy_add_fails, DirectoryRead, Call_fast_copy_process
<1>2. UNCHANGED <<dir, copy_mode, next, mounts, fast_files, used_mem, fast_read, fast_writing,
                  files_opened, aioR, aioW, leaked>>
  BY DEF AddToFullBatch, fast_copy_add_fails, DirectoryRead, Call_fast_copy_process, batch,
         flags, aio
<1>3. r' = r /\ w' = w
  BY <1>1 DEF ResourceInv, OrderInv, InProcess, Turn
<1>4. BatchInv' /\ OrderInv' /\ OpenInv' /\ ReadInv'
  BY <1>1, <1>2, <1>3, MovingOn DEF InProcess, Turn
<1>5. ret' \in BOOLEAN /\ abort_copy' \in BOOLEAN
  <2>1. ret \in BOOLEAN /\ abort_copy \in BOOLEAN
    BY DEF ResourceInv, ScalarsInv
  <2>2. \/ UNCHANGED <<ret, abort_copy>>
        \/ ret' = TRUE /\ abort_copy' = TRUE
    BY <1>1, Zenon
  <2> QED
    BY <2>1, <2>2, Zenon
<1>6. ScalarsInv'
  BY <1>1, <1>2, <1>5 DEF ResourceInv, ScalarsInv, Places
<1>7. ControlInv'
  BY <1>1, <1>2 DEF ResourceInv, ControlInv, ScalarsInv, Turn, InProcess
<1> QED
  BY <1>4, <1>6, <1>7 DEF ResourceInv

\* A file is added to the batch, or created at once.
LEMMA AddCounts == ResourceInv /\ fast_copy_add => ResourceInv'
<1>1. SUFFICES ASSUME ResourceInv, fast_copy_add PROVE ResourceInv'
  OBVIOUS
<1> DEFINE f == NewFile(next)
<1>2. /\ pc = "add" /\ next <= Len(dir) /\ ~BatchFull /\ next' = next + 1
      /\ \/ UNCHANGED <<fast_files, used_mem>>
         \/ /\ Head(dir[next]) # 0
            /\ fast_files' = Append(fast_files, f) /\ used_mem' = used_mem + f.size_mem
  BY <1>1 DEF fast_copy_add, batch
<1>3. UNCHANGED <<dir, copy_mode, pc, caller, ret, mounts, abort_copy, r, w, i_reading, error,
                  fast_read, fast_writing, files_opened, aioR, aioW, leaked>>
  BY <1>1 DEF fast_copy_add, loop, flags, aio
<1>4. next \in 1 .. Len(dir) /\ Len(dir) \in Nat
  BY <1>1, <1>2, FastCopyAssumption DEF ResourceInv, ScalarsInv
<1>5. FileRecords' = FileRecords /\ Entries \subseteq Entries'
  <2>1. next \in Int /\ next' \in Int /\ next <= next'
    BY <1>2, <1>4
  <2> QED
    BY <1>3, <2>1, EntriesGrow
<1>6. ASSUME Head(dir[next]) # 0 PROVE f \in Entries' /\ f.file = next /\ Fresh(f)
  <2>1. Head(dir[next]) \in Nat \ {0} /\ Buf \in Nat \ {0}
    BY <1>1, <1>4, <1>6, FileFacts, FastCopyAssumption DEF ResourceInv, ScalarsInv
  <2>2. MinOf(Head(dir[next]), Buf) \in 1 .. Buf
    BY <2>1 DEF MinOf
  <2>3. ModeOf(dir[next]) \in 0 .. 2
    BY <1>1, <1>4, WholeFacts DEF ResourceInv, ScalarsInv
  <2>4. f \in FileRecords
    BY <1>4, <2>1, <2>2, <2>3 DEF NewFile, FileRecords, Closed
  <2> QED
    BY <1>2, <1>3, <1>4, <1>5, <2>1, <2>4 DEF NewFile, Entries, Fresh, ModeOf
<1> HIDE DEF f
<1>7. fast_files \in Seq(Entries) /\ num \in Nat
  BY <1>1 DEF ResourceInv, BatchInv, num
<1>8. \A i \in 1 .. num : fast_files[i] \in Entries /\ fast_files[i].file \in Nat
                          /\ fast_files[i].file < next
  <2>1. \A i \in 1 .. num : fast_files[i] \in Entries
    BY <1>7 DEF num
  <2> QED
    BY SMTT(30), <2>1 DEF Entries, FileRecords
<1>9. r = 1 /\ w = 1 /\ ~Active
  BY <1>1, <1>2 DEF ResourceInv, OrderInv, InProcess, Turn
<1>10. BatchInv' /\ ~Active' /\ num' \in num .. num + 1
       /\ \A i \in 1 .. num' : Fresh(fast_files'[i])
  <2>1. CASE UNCHANGED <<fast_files, used_mem>>
    <3>1. num' = num /\ Sizes' = Sizes /\ W' = W
      BY <1>3, <2>1 DEF num, Sizes, W
    <3>2. fast_files' \in Seq(Entries')
      BY <1>5, <1>7, <2>1
    <3>3. \A i \in 1 .. num : Fresh(fast_files[i])
      BY <1>1, <1>7, <1>9 DEF ResourceInv, OrderInv, Active, W
    <3> QED
      BY <1>1, <1>3, <1>7, <1>9, <2>1, <3>1, <3>2, <3>3 DEF ResourceInv, BatchInv, Active
  <2>2. CASE Head(dir[next]) # 0 /\ fast_files' = Append(fast_files, f)
             /\ used_mem' = used_mem + f.size_mem
    <3>1. f \in Entries' /\ f.file = next /\ Fresh(f) /\ f.size_mem \in 1 .. Buf
      BY <1>5, <1>6, <2>2 DEF Entries, FileRecords
    <3>2. /\ num' = num + 1 /\ fast_files'[num'] = f
          /\ \A i \in 1 .. num : fast_files'[i] = fast_files[i]
      BY <1>7, <2>2 DEF num
    <3>3. fast_files' \in Seq(Entries')
      BY <1>5, <1>7, <2>2, <3>1
    <3>4. num' <= MaxFiles /\ used_mem \in Nat /\ used_mem < Buf
      BY <1>1, <1>2, <1>7, <3>2, FastCopyAssumption DEF BatchFull, num, ResourceInv, BatchInv
    <3>5. Sizes' = Append(Sizes, f.size_mem) /\ Sizes \in Seq(Nat) /\ f.size_mem \in Nat
      <4>1. \A i \in 1 .. num : fast_files[i].size_mem \in Nat
        <5>1. \A i \in 1 .. num : fast_files[i].size_mem \in 1 .. Buf
          BY <1>8 DEF Entries, FileRecords
        <5> QED
          BY <5>1, FastCopyAssumption
      <4>2. Sizes \in Seq(Nat) /\ Len(Sizes) = num
        BY <1>7, <4>1 DEF Sizes
      <4>3. f.size_mem \in Nat
        BY <3>1, FastCopyAssumption
      <4>4. Sizes' = [i \in 1 .. num + 1 |-> fast_files'[i].size_mem]
        BY <3>2 DEF Sizes
      <4>5. Append(Sizes, f.size_mem)
              = [i \in 1 .. num + 1 |-> IF i = num + 1 THEN f.size_mem ELSE Sizes[i]]
        BY <4>2, <4>3
      <4>6. \A i \in 1 .. num + 1 : fast_files'[i].size_mem
                                      = IF i = num + 1 THEN f.size_mem ELSE Sizes[i]
        BY <1>7, <3>2 DEF Sizes
      <4> QED
        BY <4>2, <4>3, <4>4, <4>5, <4>6
    <3>6. used_mem' = Sum(Sizes)' /\ used_mem' \in Nat /\ used_mem' < 2 * Buf
      <4>1. Sum(Append(Sizes, f.size_mem)) = Sum(Sizes) + f.size_mem
        BY <3>5, SumAppend
      <4>2. used_mem = Sum(Sizes)
        BY <1>1 DEF ResourceInv, BatchInv
      <4>3. Sum(Sizes)' = Sum(Append(Sizes, f.size_mem))
        BY <3>5 DEF Sum, Sums
      <4> QED
        BY <2>2, <3>1, <3>4, <4>1, <4>2, <4>3, FastCopyAssumption
    <3>7. \A i, j \in 1 .. num' : i < j => fast_files'[i].file < fast_files'[j].file
      <4>1. SUFFICES ASSUME NEW i \in 1 .. num', NEW j \in 1 .. num', i < j
                     PROVE  fast_files'[i].file < fast_files'[j].file
        OBVIOUS
      <4>2. i \in 1 .. num /\ fast_files'[i] = fast_files[i]
        BY <1>7, <3>2, <4>1
      <4>3. CASE j = num'
        BY <1>8, <3>1, <3>2, <4>2, <4>3
      <4>4. CASE j # num'
        <5>1. j \in 1 .. num
          BY <1>7, <3>2, <4>4
        <5> QED
          BY <1>1, <3>2, <4>1, <4>2, <5>1 DEF ResourceInv, BatchInv
      <4> QED
        BY <4>3, <4>4
    <3>8. \A i \in 1 .. num' : Fresh(fast_files'[i])
      <4>1. \A i \in 1 .. num : Fresh(fast_files[i])
        BY <1>1, <1>7, <1>9 DEF ResourceInv, OrderInv, Active, W
      <4> QED
        BY <1>7, <3>1, <3>2, <4>1
    <3>9. ~Active'
      BY <1>3, <1>7, <1>9, <3>2, <3>8 DEF Active, W
    <3> QED
      BY <1>7, <3>2, <3>3, <3>4, <3>6, <3>7, <3>8, <3>9 DEF BatchInv
  <2> QED
    BY <1>2, <2>1, <2>2
<1>11. OrderInv'
  <2> DEFINE k == num'
  <2>1. k \in Nat
    BY <1>7, <1>10
  <2>2. 1 \in 1 .. k + 1 /\ \A i \in 1 .. k : ~ (i < 1)
    <3> HIDE DEF k
    <3> QED
      BY <2>1
  <2>3. r' = 1 /\ w' = 1 /\ pc' = "add"
    BY <1>2, <1>3, <1>9
  <2>4. /\ w' \in 1 .. num' + 1 /\ r' \in 1 .. num' + 1 /\ r' = w'
        /\ \A i \in 1 .. num' : ~ (i < w')
    BY <2>2, <2>3
  <2>5. \A i \in 1 .. num' : i > w' => Fresh(fast_files'[i])
    BY <1>10
  <2>6. pc' \notin InProcess => r' = 1 /\ w' = 1 /\ ~Active'
    BY <1>10, <2>3
  <2>7. pc' \notin {"start", "finish", "done", "fl2"}
    BY <2>3
  <2> QED
    BY <2>4, <2>5, <2>6, <2>7, Zenon DEF OrderInv
<1>12. OpenInv'
  BY <1>1, <1>3, <1>9, <1>10 DEF ResourceInv, OpenInv
<1>13. ScalarsInv' /\ ControlInv'
  <2>1. next' \in 1 .. Len(dir') + 1
    BY <1>2, <1>3, <1>4
  <2> QED
    BY <1>1, <1>2, <1>3, <2>1 DEF ResourceInv, ScalarsInv, ControlInv, Turn, InProcess
<1> QED
  BY <1>10, <1>11, <1>12, <1>13 DEF ResourceInv, ReadInv

\* The files open are those of the file being copied.
LEMMA OpenFilesCounted ==
  ASSUME ResourceInv
  PROVE  /\ Sum([i \in 1 .. num |-> OpenOf(fast_files[i])]) = IF Active THEN OpenOf(W) ELSE 0
         /\ \A i \in 1 .. num : OpenOf(fast_files[i]) \in 0 .. 2
<1> DEFINE s == [i \in 1 .. num |-> OpenOf(fast_files[i])]
<1>1. fast_files \in Seq(Entries) /\ num \in Nat
  BY DEF ResourceInv, BatchInv, num
<1>2. \A i \in 1 .. num : s[i] = OpenOf(fast_files[i]) /\ s[i] \in 0 .. 2
  BY DEF OpenOf, IsOpen
<1>3. s \in Seq(Nat) /\ Len(s) = num
  BY <1>1, <1>2
<1>4. \A i \in 1 .. num : fast_files[i] \in Entries
  BY <1>1 DEF num
<1>5. w \in Nat \ {0}
  BY <1>1 DEF ResourceInv, OrderInv
<1>6. ASSUME NEW i \in 1 .. num, i # w \/ Fresh(fast_files[i]) PROVE s[i] = 0
  <2>1. fast_files[i].rfd = Closed /\ fast_files[i].wfd = Closed
    <3>1. CASE i < w
      BY <3>1 DEF ResourceInv, OrderInv
    <3>2. CASE i > w \/ Fresh(fast_files[i])
      <4>1. Fresh(fast_files[i])
        BY <3>2 DEF ResourceInv, OrderInv
      <4> QED
        BY <1>4, <4>1 DEF Entries
    <3> QED
      BY <1>5, <1>6, <3>1, <3>2
  <2> QED
    BY <1>2, <2>1 DEF OpenOf, IsOpen
<1> HIDE DEF s
<1>7. Sum(s) = IF w <= Len(s) THEN s[w] ELSE 0
  BY <1>3, <1>5, <1>6, SumOfOne
<1>8. w <= num => s[w] = IF Active THEN OpenOf(W) ELSE 0
  <2>1. SUFFICES ASSUME w <= num PROVE s[w] = IF Active THEN OpenOf(W) ELSE 0
    OBVIOUS
  <2>2. w \in 1 .. num
    BY <1>1, <1>5, <2>1
  <2> QED
    BY <1>2, <1>6, <2>1, <2>2 DEF Active, W
<1> QED
  BY <1>2, <1>3, <1>7, <1>8 DEF s, Active

\* fast_copy_process cancels, closes and frees.
LEMMA CleanupCounts == ResourceInv /\ Cleanup => ResourceInv'
<1>1. SUFFICES ASSUME ResourceInv, Cleanup PROVE ResourceInv'
  OBVIOUS
<1>2. /\ pc = "cleanup" /\ fast_writing' = 0 /\ fast_read' = 0 /\ fast_files' = <<>>
      /\ used_mem' = 0 /\ r' = 1 /\ w' = 1 /\ i_reading' = FALSE
      /\ UNCHANGED <<dir, copy_mode, next, mounts, leaked>>
  BY <1>1 DEF Cleanup
<1>3. aioR' = None /\ aioW' = None
  BY <1>1, <1>2 DEF Cleanup, CancelRead, CancelWrite, ResourceInv, OpenInv
<1>4. num' = 0 /\ ~Active'
  BY <1>2 DEF num, Active
<1>5. /\ abort_copy' <=> abort_copy \/ error # 0
      /\ ret' <=> ret \/ error # 0 \/ abort_copy
  BY <1>1 DEF Cleanup
<1>6. ret' \in BOOLEAN /\ abort_copy' \in BOOLEAN
  BY <1>1 DEF Cleanup
<1>7. /\ \/ pc' = "finish" /\ caller = "final" /\ caller' = caller
         \/ pc' = "loop" /\ caller = "add" /\ ret' /\ caller' = "final"
         \/ pc' = "add" /\ caller = "add" /\ ~ret' /\ caller' = caller
      /\ error' = IF caller = "add" THEN 0 ELSE error
  <2>1. caller \in {"add", "final"}
    BY <1>1 DEF ResourceInv, ScalarsInv
  <2> QED
    BY <1>1, <2>1 DEF Cleanup
<1>8. files_opened' = leaked
  <2>1. files_opened = leaked + (IF Active THEN OpenOf(W) ELSE 0) /\ leaked \in Nat
    BY <1>1 DEF ResourceInv, OpenInv, ScalarsInv
  <2>2. OpenOf(W) \in Nat
    BY DEF OpenOf, IsOpen
  <2> QED
    BY <1>1, <2>1, <2>2, OpenFilesCounted DEF Cleanup
<1>9. ScalarsInv'
  <2>1. pc' \in Places /\ caller' \in {"add", "final"} /\ error' \in {0, -1, -2, -3, -4, -666}
    BY <1>1, <1>7 DEF ResourceInv, ScalarsInv, Places
  <2>2. i_reading' \in BOOLEAN
    BY <1>1 DEF Cleanup
  <2>3. fast_read' \in 0 .. 2 /\ fast_writing' \in 0 .. 2
    BY <1>2
  <2> QED
    BY <1>1, <1>2, <1>6, <2>1, <2>2, <2>3 DEF ResourceInv, ScalarsInv
<1>10. ControlInv'
  <2>1. leaked > 0 => abort_copy' /\ ret'
    BY <1>1, <1>5 DEF ResourceInv, ControlInv
  <2>2. leaked \in 0 .. 1 /\ error \in Int
    BY <1>1 DEF ResourceInv, ScalarsInv
  <2>3. caller = "final" => ret \/ next > Len(dir)
    BY <1>1, <1>2 DEF ResourceInv, ControlInv, InProcess
  <2> QED
    <3>1. leaked' > 0 => abort_copy' /\ ret'
      BY <1>2, <2>1
    <3>2. ret' => abort_copy'
      <4>1. ret => abort_copy
        BY <1>1 DEF ResourceInv, ControlInv
      <4> QED
        BY <1>5, <4>1
    <3>3. ~ret' => ~abort_copy' /\ leaked' = 0
      <4>1. ~ret' => ~abort_copy'
        BY <1>5
      <4> QED
        BY <1>2, <2>1, <2>2, <4>1
    <3>4. ret => ret'
      BY <1>5
    <3>5. CASE pc' = "finish" /\ caller = "final" /\ caller' = caller
      BY <1>2, <2>3, <3>1, <3>2, <3>4, <3>5 DEF ControlInv, Turn, InProcess
    <3>6. CASE pc' = "loop" /\ caller = "add" /\ ret' /\ caller' = "final"
      BY <1>2, <1>7, <3>1, <3>2, <3>6 DEF ControlInv, Turn, InProcess
    <3>7. CASE pc' = "add" /\ caller = "add" /\ ~ret' /\ caller' = caller
      BY <1>2, <3>1, <3>2, <3>3, <3>7 DEF ControlInv, Turn, InProcess
    <3> QED
      BY <1>7, <3>5, <3>6, <3>7
<1>11. BatchInv'
  <2>1. Sizes' = <<>>
    BY <1>4 DEF Sizes
  <2>2. Sum(Sizes)' = 0
    <3>1. <<>> \in Seq(Nat) /\ Len(<<>>) = 0
      OBVIOUS
    <3>2. Sum(<<>>) = 0
      BY <3>1, SumsAt
    <3> QED
      BY <2>1, <3>2 DEF Sum, Sums
  <2>3. fast_files' \in Seq(Entries') /\ 0 < 2 * Buf /\ 0 <= MaxFiles
    BY <1>2, FastCopyAssumption
  <2> QED
    BY <1>2, <1>4, <2>2, <2>3 DEF BatchInv
<1>12. OrderInv'
  BY <1>2, <1>4, <1>7 DEF OrderInv
<1>13. OpenInv'
  <2>1. leaked' + 0 = leaked'
    BY <1>1, <1>2 DEF ResourceInv, ScalarsInv
  <2> QED
    BY <1>2, <1>3, <1>4, <1>8, <2>1 DEF OpenInv
<1> QED
  BY <1>4, <1>9, <1>10, <1>11, <1>12, <1>13 DEF ResourceInv, ReadInv

\* A file is opened only when none is.
LEMMA NoneOpen ==
  ASSUME ResourceInv, pc = "open", MayOpen
  PROVE  /\ ~Active /\ r = w /\ w \in 1 .. num /\ Fresh(W) /\ R = W
         /\ aioR = None /\ aioW = None /\ fast_writing = 0 /\ files_opened = 0 /\ leaked = 0
<1>1. r <= num /\ R.fl = 1 /\ files_opened < 2
  BY DEF MayOpen
<1>2. ~Active
  <2>1. SUFFICES ASSUME Active PROVE FALSE
    OBVIOUS
  <2>2. W.rfd # Closed /\ W.wfd # Closed
    <3>1. W.rfd \in 1 .. Len(dir[W.file]) /\ W.wfd # Closed
      BY <2>1 DEF ResourceInv, ReadInv
    <3> QED
      BY <3>1 DEF Closed
  <2>3. OpenOf(W) = 2
    BY <2>2 DEF OpenOf, IsOpen
  <2> QED
    BY <1>1, <2>1, <2>3 DEF ResourceInv, OpenInv, ScalarsInv
<1>3. r = w
  BY <1>2 DEF ResourceInv, OrderInv
<1>4. leaked = 0
  BY DEF ResourceInv, ControlInv, Turn
<1>5. w \in 1 .. num
  BY <1>1, <1>3 DEF ResourceInv, OrderInv
<1> QED
  BY <1>1, <1>2, <1>3, <1>4, <1>5 DEF ResourceInv, OpenInv, R, W, Fresh

\* The source or the output of a file cannot be opened.
LEMMA OpenFailsCounts == ResourceInv /\ OpenFails => ResourceInv'
<1>1. SUFFICES ASSUME ResourceInv, OpenFails PROVE ResourceInv'
  OBVIOUS
<1>2. pc = "open" /\ pc' = "cleanup" /\ error' \in {-1, -2} /\ MayOpen
  BY <1>1 DEF OpenFails, Break
<1>3. UNCHANGED <<dir, copy_mode, next, caller, ret, mounts, abort_copy, fast_files, used_mem,
                  r, w, i_reading, fast_read, fast_writing, aioR, aioW>>
  BY <1>1 DEF OpenFails, driver, batch, flags, aio
<1>4. ~Active /\ files_opened = 0 /\ leaked = 0
  BY <1>1, <1>2, NoneOpen
<1>5. leaked' \in 0 .. 1 /\ files_opened' = leaked'
  BY <1>1, <1>4 DEF OpenFails
<1>6. BatchInv' /\ OrderInv' /\ OpenInv' /\ ReadInv'
  BY <1>1, <1>2, <1>3, <1>4, <1>5, MovingOn DEF InProcess, Turn
<1>7. ScalarsInv'
  BY <1>1, <1>2, <1>3, <1>5 DEF ResourceInv, ScalarsInv, Places
<1>8. ControlInv'
  BY <1>1, <1>2, <1>3 DEF ResourceInv, ScalarsInv, ControlInv, Turn, InProcess
<1> QED
  BY <1>6, <1>7, <1>8 DEF ResourceInv

\* A write ended: it failed, or the file goes on.
LEMMA WriteEndedCounts ==
  ASSUME ResourceInv, WriteFailed \/ ChunkWritten
  PROVE  ResourceInv'
<1>1. /\ pc = "writeEnd" /\ fast_writing = 2 /\ fast_writing' = 0
      /\ \/ pc' = "cleanup" /\ error' = -4
         \/ pc' = "progress" /\ error' = error /\ ~ (W.writed < 0)
  BY DEF WriteFailed, ChunkWritten, WriteEnded, WriteError, Break, loop
<1>2. UNCHANGED <<dir, copy_mode, next, caller, ret, mounts, abort_copy, fast_files, used_mem,
                  r, w, i_reading, fast_read, files_opened, aioR, aioW, leaked>>
  BY DEF WriteFailed, ChunkWritten, WriteEnded, Break, driver, batch, loop, aio
<1>3. FileRecords' = FileRecords /\ Entries' = Entries
  BY <1>2 DEF Entries, FileRecords, ModeOf, Fresh
<1>4. /\ num' = num /\ Active' = Active /\ W' = W /\ Sizes' = Sizes /\ InFlight' = InFlight
      /\ Whole(W.file)' = Whole(W.file)
  BY <1>2 DEF num, Active, W, Sizes, InFlight, Whole
<1>5. BatchInv'
  BY <1>2, <1>3, <1>4 DEF ResourceInv, BatchInv
<1>6. OrderInv'
  BY <1>1, <1>2, <1>4 DEF ResourceInv, OrderInv, InProcess, Turn
<1>7. OpenInv'
  BY <1>1, <1>2, <1>4 DEF ResourceInv, OpenInv, ReadRequests, WriteRequests
<1>8. ReadInv'
  <2>1. SUFFICES ASSUME Active, pc' = "progress"
                 PROVE  ReadInv'
    BY <1>1, <1>4 DEF ReadInv
  <2>2. W.writed >= 0
    <3>1. W.writed \in Int
      <4>1. w \in 1 .. num /\ fast_files \in Seq(Entries)
        BY <2>1 DEF Active, ResourceInv, OrderInv, BatchInv
      <4>2. W \in Entries
        BY <4>1 DEF W, num
      <4> QED
        BY <4>2 DEF Entries, FileRecords
    <3> QED
      BY <1>1, <2>1, <3>1
  <2>3. (Ready' <=> Ready) /\ (Reading' <=> Reading) /\ (ReadyInv' <=> ReadyInv)
    BY <1>1, <1>2, <1>4, <2>1 DEF Ready, Reading, ReadyInv
  <2>4. WhileReading => WhileReading'
    BY <1>1, <1>2, <1>4, <2>3 DEF WhileReading
  <2> QED
    BY <1>1, <1>2, <1>4, <2>1, <2>2, <2>4 DEF ResourceInv, ReadInv
<1>9. ScalarsInv'
  BY <1>1, <1>2 DEF ResourceInv, ScalarsInv, Places
<1>10. ControlInv'
  BY <1>1, <1>2 DEF ResourceInv, ScalarsInv, ControlInv, Turn, InProcess
<1> QED
  BY <1>5, <1>6, <1>7, <1>8, <1>9, <1>10 DEF ResourceInv

\* The entry of the file being copied, and what it may change to.
LEMMA EntryOfW ==
  ASSUME ResourceInv, w \in 1 .. num
  PROVE  /\ W \in Entries /\ W \in FileRecords /\ W.file \in 1 .. Len(dir)
         /\ num \in Nat /\ dir \in Dirs
<1>1. fast_files \in Seq(Entries) /\ dir \in Dirs
  BY DEF ResourceInv, BatchInv, ScalarsInv
<1>2. W \in Entries /\ num \in Nat
  BY <1>1 DEF W, num
<1> QED
  BY <1>1, <1>2, EntryFacts

LEMMA ChangedW ==
  ASSUME ResourceInv, w \in 1 .. num, NEW f \in FileRecords,
         f.file = W.file, f.bigfile_mode = W.bigfile_mode, f.size_mem = W.size_mem,
         f.use_doublebuffer = W.use_doublebuffer, ~Fresh(f),
         fast_files' = [fast_files EXCEPT ![w] = f],
         UNCHANGED <<dir, copy_mode, next, used_mem>>,
         w' = w, r' \in {w, w + 1}, pc' \in InProcess, pc' = "fl2" => r' = w /\ f.fl = 3
  PROVE  /\ BatchInv' /\ OrderInv' /\ Active' /\ num' = num /\ W' = f
         /\ f \in Entries /\ Whole(W.file)' = Whole(W.file)
         /\ \A i \in 1 .. num : i # w => fast_files'[i] = fast_files[i]
<1>1. /\ BatchInv' /\ num' = num /\ fast_files'[w] = f /\ f \in Entries
      /\ \A i \in 1 .. num : i # w => fast_files'[i] = fast_files[i]
  BY ChangedEntry DEF ResourceInv, W
<1>2. num \in Nat
  BY EntryOfW
<1>3. W' = f /\ Active'
  BY <1>1, <1>2 DEF W, Active
<1>4. /\ \A i \in 1 .. num : i > w => Fresh(fast_files'[i])
      /\ \A i \in 1 .. num :
           i < w => /\ fast_files'[i].rfd = Closed /\ fast_files'[i].wfd = Closed
                    /\ ~Fresh(fast_files'[i])
  BY <1>1, <1>2 DEF ResourceInv, OrderInv
<1>5. w' \in 1 .. num' + 1 /\ r' \in 1 .. num' + 1
  BY <1>1, <1>2
<1>6. pc' \notin {"start", "finish", "done"} /\ (r' = w' \/ r' = w' + 1)
  BY DEF InProcess, Turn
<1>7. OrderInv'
  BY <1>1, <1>3, <1>4, <1>5, <1>6 DEF OrderInv, InProcess, Turn
<1>8. Whole(W.file)' = Whole(W.file)
  BY <1>3 DEF Whole
<1> QED
  BY <1>1, <1>3, <1>7, <1>8

\* fl becomes 2 after the read of the next fragment is started.
LEMMA SetFl2Counts == ResourceInv /\ SetFl2 => ResourceInv'
<1>1. SUFFICES ASSUME ResourceInv, SetFl2 PROVE ResourceInv'
  OBVIOUS
<1> DEFINE f == [W EXCEPT !.fl = 2]
<1>2. pc = "fl2" /\ pc' = "writeEnd" /\ fast_files' = [fast_files EXCEPT ![r].fl = 2]
  BY <1>1 DEF SetFl2
<1>3. UNCHANGED <<dir, copy_mode, next, caller, ret, mounts, abort_copy, used_mem, r, w,
                  i_reading, error, fast_read, fast_writing, files_opened, aioR, aioW, leaked>>
  BY <1>1 DEF SetFl2, driver, loop, flags, aio
<1>4. r = w /\ Active /\ w \in 1 .. num /\ W.fl = 3
  BY <1>1, <1>2 DEF ResourceInv, OrderInv, Active
<1>5. W \in FileRecords
  BY <1>1, <1>4, EntryOfW
<1>6. /\ f \in FileRecords /\ f.file = W.file /\ f.bigfile_mode = W.bigfile_mode
      /\ f.size_mem = W.size_mem /\ f.use_doublebuffer = W.use_doublebuffer /\ f.fl = 2
      /\ f.len = W.len /\ f.readed = W.readed /\ f.writed = W.writed
      /\ f.off_readed = W.off_readed /\ f.giga_counter = W.giga_counter
      /\ f.number_frag = W.number_frag /\ f.rfd = W.rfd /\ f.wfd = W.wfd
      /\ f.rsize = W.rsize /\ f.roffset = W.roffset
  <2>1. f \in FileRecords
    <3>1. 2 \in 1 .. 5
      OBVIOUS
    <3> QED
      BY <1>5, <3>1, Zenon DEF FileRecords
  <2>2. /\ f.file = W.file /\ f.bigfile_mode = W.bigfile_mode
        /\ f.size_mem = W.size_mem /\ f.fl = 2
        /\ f.len = W.len /\ f.readed = W.readed /\ f.writed = W.writed
        /\ f.off_readed = W.off_readed /\ f.giga_counter = W.giga_counter
        /\ f.number_frag = W.number_frag /\ f.rfd = W.rfd /\ f.wfd = W.wfd
        /\ f.rsize = W.rsize /\ f.roffset = W.roffset
    BY <1>5 DEF FileRecords
  <2>3. f.use_doublebuffer = W.use_doublebuffer
    BY <1>5 DEF FileRecords
  <2> QED
    BY <2>1, <2>2, <2>3
<1>7. fast_files' = [fast_files EXCEPT ![w] = f]
  BY <1>2, <1>4 DEF W
<1> HIDE DEF f
<1>8. /\ BatchInv' /\ OrderInv' /\ Active' /\ num' = num /\ W' = f
      /\ Whole(W.file)' = Whole(W.file)
  <2>1. ~Fresh(f) /\ pc' \in InProcess /\ pc' # "fl2" /\ w' = w /\ r' \in {w, w + 1}
    BY <1>2, <1>3, <1>4, <1>6 DEF Fresh, InProcess, Turn
  <2> QED
    BY <1>1, <1>3, <1>4, <1>6, <1>7, <2>1, ChangedW
<1>9. InFlight' = InFlight
  BY <1>3 DEF InFlight
<1>10. OpenInv'
  BY <1>1, <1>3, <1>4, <1>6, <1>8 DEF ResourceInv, OpenInv, ReadRequests, WriteRequests, OpenOf,
         WriteOffset
<1>11. WhileReading'
  <2>1. WhileReading
    BY <1>1, <1>2, <1>4 DEF ResourceInv, ReadInv
  <2>2. Reading => Reading'
    BY <1>2, <1>3, <1>4, <1>6, <1>8, <1>9 DEF Reading, Chunk
  <2>3. ~Ready'
    BY <1>6, <1>8 DEF Ready
  <2> QED
    BY <1>3, <1>6, <1>8, <1>9, <2>1, <2>2, <2>3 DEF WhileReading
<1>12. ReadInv'
  <2>1. w # w + 1
    BY <1>4
  <2> QED
    BY <1>1, <1>2, <1>3, <1>4, <1>6, <1>8, <1>9, <1>11, <2>1 DEF ResourceInv, ReadInv, InFragments
<1>13. ScalarsInv' /\ ControlInv'
  BY <1>1, <1>2, <1>3 DEF ResourceInv, ScalarsInv, ControlInv, Places, Turn, InProcess
<1> QED
  BY <1>8, <1>10, <1>12, <1>13 DEF ResourceInv

\* All that was read is written, and the file is closed.
LEMMA FileIsCopied ==
  ASSUME ResourceInv, FileCopied
  PROVE  /\ Active /\ w \in 1 .. num /\ r = w + 1 /\ aioR = None /\ aioW = None
         /\ fast_read' = 0 /\ pc = "writeEnd" /\ W.writed >= 0
         /\ W.writed = Whole(W.file) /\ W.wfd # Closed
<1>1. pc = "writeEnd" /\ fast_writing = 2 /\ ~ (W.writed < 0) /\ W.writed >= W.len
  BY DEF FileCopied, WriteEnded, WriteError
<1>2. Active /\ w \in 1 .. num
  BY <1>1 DEF ResourceInv, OpenInv, OrderInv, Active
<1>3. W \in FileRecords
  BY <1>2, EntryOfW
<1>4. W.writed \in Int /\ W.len \in Nat
  BY <1>3 DEF FileRecords
<1>5. aioW = None
  BY <1>1 DEF ResourceInv, OpenInv
<1>6. W.writed >= 0 /\ InFlight = 0
  BY <1>1, <1>4, <1>5 DEF InFlight
<1>7. r # w
  <2>1. SUFFICES ASSUME r = w PROVE FALSE
    OBVIOUS
  <2>2. WhileReading
    BY <1>1, <1>2, <2>1 DEF ResourceInv, ReadInv
  <2>3. W.writed + InFlight < W.len
    BY <1>6, <2>2 DEF WhileReading
  <2> QED
    BY <1>1, <1>4, <1>6, <2>3
<1>8. r = w + 1
  BY <1>7 DEF ResourceInv, OrderInv
<1>9. W.writed + InFlight = Whole(W.file) /\ W.wfd # Closed /\ W.rfd \in 1 .. Len(dir[W.file])
  BY <1>1, <1>2, <1>6, <1>8 DEF ResourceInv, ReadInv
<1>10. W.writed = Whole(W.file)
  BY <1>4, <1>6, <1>9
<1>11. aioR = None
  BY <1>2, <1>8 DEF ResourceInv, OpenInv
<1>12. fast_read' = 0
  BY <1>9 DEF FileCopied, ReadFlagAfterClose, Closed
<1> QED
  BY <1>1, <1>2, <1>5, <1>6, <1>8, <1>9, <1>10, <1>11, <1>12

LEMMA FileCopiedCounts == ResourceInv /\ FileCopied => ResourceInv'
<1>1. SUFFICES ASSUME ResourceInv, FileCopied PROVE ResourceInv'
  OBVIOUS
<1> DEFINE f == [W EXCEPT !.rfd = Closed, !.wfd = Closed, !.fl = 4, !.writed = -1]
<1>2. /\ Active /\ w \in 1 .. num /\ r = w + 1 /\ aioR = None /\ aioW = None
      /\ fast_read' = 0 /\ pc = "writeEnd"
  BY <1>1, FileIsCopied
<1>3. /\ pc' = "progress" /\ w' = w + 1 /\ fast_writing' = 0
      /\ files_opened' = files_opened - OpenOf(W)
      /\ fast_files' = [fast_files EXCEPT ![w] = f]
  BY <1>1 DEF FileCopied, WriteEnded, ClosedNow, W
<1>4. UNCHANGED <<dir, copy_mode, next, caller, ret, mounts, abort_copy, used_mem, r,
                  i_reading, error, aioR, aioW, leaked>>
  BY <1>1 DEF FileCopied, driver, aio
<1>5. W \in FileRecords /\ num \in Nat
  BY <1>1, <1>2, EntryOfW
<1>6. /\ f \in FileRecords /\ f.file = W.file /\ f.bigfile_mode = W.bigfile_mode
      /\ f.size_mem = W.size_mem /\ f.use_doublebuffer = W.use_doublebuffer /\ f.fl = 4
      /\ f.rfd = Closed /\ f.wfd = Closed
  <2>1. 4 \in 1 .. 5 /\ -1 \in Int /\ Closed \in Int
    BY DEF Closed
  <2>2. f \in FileRecords
    BY <1>5, <2>1, Zenon DEF FileRecords
  <2> QED
    BY <1>5, <2>2 DEF FileRecords
<1> HIDE DEF f
<1>7. /\ BatchInv' /\ num' = num /\ fast_files'[w] = f
      /\ \A i \in 1 .. num : i # w => fast_files'[i] = fast_files[i]
  <2>1. /\ f.file = fast_files[w].file /\ f.bigfile_mode = fast_files[w].bigfile_mode
        /\ f.size_mem = fast_files[w].size_mem
        /\ f.use_doublebuffer = fast_files[w].use_doublebuffer /\ ~Fresh(f)
    BY <1>6 DEF W, Fresh
  <2>2. ScalarsInv /\ BatchInv
    BY <1>1 DEF ResourceInv
  <2> QED
    BY <1>2, <1>3, <1>4, <1>6, <2>1, <2>2, ChangedEntry
<1>8. ~Active'
  <2>1. w + 1 <= num => fast_files'[w + 1] = fast_files[w + 1] /\ Fresh(fast_files[w + 1])
    BY <1>1, <1>2, <1>5, <1>7 DEF ResourceInv, OrderInv
  <2> QED
    BY <1>3, <1>7, <2>1 DEF Active, W
<1>9. OrderInv'
  <2>1. w' \in 1 .. num' + 1 /\ r' = w'
    BY <1>2, <1>3, <1>4, <1>5, <1>7
  <2>2. \A i \in 1 .. num' : i > w' => Fresh(fast_files'[i])
    BY <1>1, <1>2, <1>3, <1>5, <1>7 DEF ResourceInv, OrderInv
  <2>3. \A i \in 1 .. num' :
          i < w' => /\ fast_files'[i].rfd = Closed /\ fast_files'[i].wfd = Closed
                    /\ ~Fresh(fast_files'[i])
    <3>1. TAKE i \in 1 .. num'
    <3>2. CASE i = w
      BY <1>6, <1>7, <3>2 DEF Fresh
    <3>3. CASE i # w
      BY <1>1, <1>2, <1>3, <1>5, <1>7, <3>3 DEF ResourceInv, OrderInv
    <3> QED
      BY <3>2, <3>3
  <2> QED
    BY <1>3, <2>1, <2>2, <2>3 DEF OrderInv, InProcess, Turn
<1>10. OpenInv'
  <2>1. files_opened = leaked + OpenOf(W) /\ leaked \in Nat /\ OpenOf(W) \in Nat
    BY <1>1, <1>2 DEF ResourceInv, OpenInv, ScalarsInv, OpenOf, IsOpen
  <2>2. files_opened' = leaked'
    BY <1>3, <1>4, <2>1
  <2> QED
    BY <1>2, <1>3, <1>4, <1>8, <2>1, <2>2 DEF OpenInv
<1>11. ScalarsInv' /\ ControlInv'
  BY <1>1, <1>2, <1>3, <1>4 DEF ResourceInv, ScalarsInv, ControlInv, Places, Turn, InProcess
<1> QED
  BY <1>7, <1>8, <1>9, <1>10, <1>11 DEF ResourceInv, ReadInv

\* The next part of a split file is created, or cannot be.
LEMMA NextPartCounts == ResourceInv /\ NextPart => ResourceInv'
<1>1. SUFFICES ASSUME ResourceInv, NextPart PROVE ResourceInv'
  OBVIOUS
<1>2. /\ pc = "writeEnd" /\ fast_writing = 2 /\ fast_writing' = 0
      /\ ~ (W.writed < 0) /\ W.bigfile_mode = 1
  BY <1>1 DEF NextPart, WriteEnded, WriteError, PartFull
<1>3. UNCHANGED <<dir, copy_mode, next, caller, ret, mounts, abort_copy, used_mem, r, w,
                  i_reading, fast_read, aioR, aioW, leaked>>
  BY <1>1 DEF NextPart, driver, aio
<1>4. Active /\ w \in 1 .. num /\ aioW = None
  BY <1>1, <1>2 DEF ResourceInv, OpenInv, OrderInv, Active
<1>5. W \in FileRecords /\ num \in Nat
  BY <1>1, <1>4, EntryOfW
<1>6. W.writed \in Int /\ W.writed >= 0 /\ W.number_frag \in Nat
  BY <1>2, <1>5 DEF FileRecords
<1> DEFINE g(wfd) == [[W EXCEPT !.giga_counter = 0, !.number_frag = @ + 1] EXCEPT !.wfd = wfd]
<1>7. PICK wfd \in {Closed, W.number_frag + 2} :
        /\ fast_files' = [fast_files EXCEPT ![w] = g(wfd)]
        /\ wfd = Closed => /\ pc' = "cleanup" /\ error' = -2
                           /\ files_opened' = files_opened - 1
        /\ wfd # Closed => pc' = "progress" /\ UNCHANGED <<error, files_opened>>
  <2> DEFINE f == [W EXCEPT !.giga_counter = 0, !.number_frag = @ + 1]
  <2>1. f.number_frag + 1 = W.number_frag + 2
    <3>1. f.number_frag = W.number_frag + 1
      BY <1>5 DEF FileRecords
    <3> QED
      BY <1>6, <3>1
  <2>2. CASE /\ fast_files' = [fast_files EXCEPT ![w] = [f EXCEPT !.wfd = f.number_frag + 1]]
             /\ pc' = "progress" /\ UNCHANGED <<error, files_opened>>
    <3>1. W.number_frag + 2 # Closed
      BY <1>6 DEF Closed
    <3> QED
      BY <2>1, <2>2, <3>1
  <2>3. CASE /\ fast_files' = [fast_files EXCEPT ![w] = [f EXCEPT !.wfd = Closed]]
             /\ Break(-2) /\ files_opened' = files_opened - 1
    BY <2>3 DEF Break
  <2> QED
    BY <1>1, <2>2, <2>3 DEF NextPart
<1> DEFINE f == g(wfd)
<1>8. /\ f \in FileRecords /\ f.file = W.file /\ f.bigfile_mode = W.bigfile_mode
      /\ f.size_mem = W.size_mem /\ f.use_doublebuffer = W.use_doublebuffer /\ f.fl = W.fl
      /\ f.len = W.len /\ f.readed = W.readed /\ f.writed = W.writed
      /\ f.off_readed = W.off_readed /\ f.rfd = W.rfd /\ f.wfd = wfd
      /\ f.rsize = W.rsize
  <2>1. W.number_frag + 1 \in Nat /\ 0 \in Nat /\ wfd \in Int
    BY <1>6 DEF Closed
  <2>2. f \in FileRecords
    BY <1>5, <2>1, Zenon DEF FileRecords
  <2>3. f.use_doublebuffer = W.use_doublebuffer
    BY <1>5, Zenon DEF FileRecords
  <2> QED
    BY <1>5, <2>2, <2>3 DEF FileRecords
<1> HIDE DEF f, g
<1>9. /\ BatchInv' /\ OrderInv' /\ Active' /\ num' = num /\ W' = f
      /\ Whole(W.file)' = Whole(W.file)
  <2>1. fast_files' = [fast_files EXCEPT ![w] = f] /\ ~Fresh(f)
    BY <1>4, <1>7, <1>8 DEF Active, Fresh, f
  <2>2. pc' \in InProcess /\ pc' # "fl2" /\ w' = w /\ r' \in {w, w + 1}
    BY <1>1, <1>3, <1>7 DEF ResourceInv, OrderInv, InProcess, Turn
  <2> QED
    BY <1>1, <1>3, <1>4, <1>8, <2>1, <2>2, ChangedW
<1>10. InFlight' = InFlight
  BY <1>3 DEF InFlight
<1>11. OpenInv'
  <2>1. W.rfd \in 1 .. Len(dir[W.file]) /\ W.wfd # Closed
    BY <1>1, <1>2, <1>4 DEF ResourceInv, ReadInv
  <2>2. files_opened' = leaked' + OpenOf(f)
    BY <1>1, <1>3, <1>4, <1>7, <1>8, <2>1 DEF ResourceInv, ScalarsInv, OpenInv, OpenOf, IsOpen
  <2>3. aioR' # None => aioR'.frag = f.rfd /\ aioR'.frag \in 1 .. Len(dir[f.file])
    BY <1>1, <1>3, <1>8 DEF ResourceInv, OpenInv
  <2> QED
    BY <1>1, <1>2, <1>3, <1>4, <1>9, <2>2, <2>3 DEF ResourceInv, OpenInv, ReadRequests
<1>12. ReadInv'
  <2>1. SUFFICES ASSUME wfd # Closed, pc' = "progress" PROVE ReadInv'
    BY <1>7 DEF ReadInv
  <2>2. (Reading => Reading') /\ (Ready' => Ready) /\ (ReadyInv => ReadyInv')
    BY <1>2, <1>3, <1>8, <1>9, <1>10, <2>1 DEF Reading, Ready, ReadyInv, Chunk
  <2>3. WhileReading => WhileReading'
    BY <1>2, <1>3, <1>8, <1>9, <1>10, <2>2 DEF WhileReading
  <2> QED
    BY <1>1, <1>2, <1>3, <1>4, <1>6, <1>8, <1>9, <1>10, <2>1, <2>3
    DEF ResourceInv, ReadInv, InFragments
<1>13. ScalarsInv' /\ ControlInv'
  <2>1. \/ pc' = "cleanup" /\ error' = -2
        \/ pc' = "progress" /\ error' = error
    BY <1>7
  <2>2. ScalarsInv'
    BY <1>1, <1>2, <1>3, <2>1 DEF ResourceInv, ScalarsInv, Places
  <2>3. ControlInv'
    BY <1>1, <1>2, <1>3, <2>1 DEF ResourceInv, ControlInv, Turn, InProcess
  <2> QED
    BY <2>2, <2>3
<1> QED
  BY <1>9, <1>11, <1>12, <1>13 DEF ResourceInv

\* How much is read at once.
LEMMA ChunkFacts ==
  ASSUME NEW f \in FileRecords, NEW len \in Nat, NEW readed \in Nat, readed < len
  PROVE  /\ Chunk(f, len, readed) \in 1 .. f.size_mem /\ readed + Chunk(f, len, readed) <= len
         /\ Chunk(f, len, readed) = f.size_mem \/ readed + Chunk(f, len, readed) = len
         /\ Chunk(f, len, readed) \in 1 .. Buf
<1>1. f.size_mem \in 1 .. Buf
  BY DEF FileRecords
<1>2. Buf \in Nat
  BY FastCopyAssumption
<1> QED
  BY <1>1, <1>2 DEF Chunk, MinOf

\* The next file is opened and the first read of it started, or not.
LEMMA OpenFilesCounts == ResourceInv /\ OpenFiles => ResourceInv'
<1>1. SUFFICES ASSUME ResourceInv, OpenFiles PROVE ResourceInv'
  OBVIOUS
<1> DEFINE f == [R EXCEPT !.rfd = 1, !.wfd = 1, !.fl = 2, !.roffset = 0,
                          !.rsize = Chunk(R, R.len, 0)]
<1>2. /\ pc = "open" /\ MayOpen
      /\ fast_files' = [fast_files EXCEPT ![r] = f] /\ files_opened' = files_opened + 2
      /\ \/ /\ fast_read' = 1 /\ aioR' = ReadRequest(f) /\ i_reading' = TRUE
            /\ pc' = "readEnd" /\ UNCHANGED error
         \/ /\ pc' = "cleanup" /\ error' = -3 /\ UNCHANGED <<fast_read, aioR, i_reading>>
      /\ UNCHANGED <<dir, copy_mode, next, caller, ret, mounts, abort_copy, used_mem, r, w,
                     fast_writing, aioW, leaked>>
  BY <1>1 DEF OpenFiles, Break, driver
<1>3. /\ ~Active /\ r = w /\ w \in 1 .. num /\ Fresh(W) /\ R = W
      /\ aioR = None /\ aioW = None /\ fast_writing = 0 /\ files_opened = 0 /\ leaked = 0
  BY <1>1, <1>2, NoneOpen
<1>4. W \in Entries /\ W \in FileRecords /\ W.file \in 1 .. Len(dir) /\ num \in Nat /\ dir \in Dirs
  BY <1>1, <1>3, EntryOfW
<1>5. /\ W.len = Head(dir[W.file]) /\ W.len \in Nat /\ 0 < W.len
      /\ W.readed = 0 /\ W.writed = 0 /\ W.off_readed = 0 /\ W.number_frag = 0
  BY <1>3, <1>4 DEF Entries, FileRecords
<1>6. /\ Chunk(W, W.len, 0) \in 1 .. W.size_mem /\ 0 + Chunk(W, W.len, 0) <= W.len
      /\ Chunk(W, W.len, 0) \in 1 .. Buf
  BY <1>4, <1>5, ChunkFacts
<1>7. /\ f \in FileRecords /\ f.file = W.file /\ f.bigfile_mode = W.bigfile_mode
      /\ f.size_mem = W.size_mem /\ f.use_doublebuffer = W.use_doublebuffer
      /\ f.len = W.len /\ f.readed = 0 /\ f.writed = 0 /\ f.off_readed = 0
      /\ f.number_frag = 0 /\ f.rfd = 1 /\ f.wfd = 1 /\ f.fl = 2 /\ f.roffset = 0
      /\ f.rsize = Chunk(W, W.len, 0)
  <2>1. 2 \in 1 .. 5 /\ 1 \in Int /\ 0 \in Nat
    OBVIOUS
  <2>2. Chunk(W, W.len, 0) \in Nat
    BY <1>6, FastCopyAssumption
  <2>3. R \in FileRecords
    BY <1>3, <1>4
  <2>4. f \in FileRecords
    BY <1>3, <2>1, <2>2, <2>3, Zenon DEF FileRecords
  <2>5. f.use_doublebuffer = R.use_doublebuffer
    BY <2>3, Zenon DEF FileRecords
  <2>6. /\ f.file = R.file /\ f.bigfile_mode = R.bigfile_mode /\ f.size_mem = R.size_mem
        /\ f.len = R.len /\ f.readed = R.readed /\ f.writed = R.writed
        /\ f.off_readed = R.off_readed /\ f.number_frag = R.number_frag
        /\ f.rfd = 1 /\ f.wfd = 1 /\ f.fl = 2 /\ f.roffset = 0
        /\ f.rsize = Chunk(R, R.len, 0)
    BY <2>3 DEF FileRecords
  <2> QED
    BY <1>3, <1>5, <2>4, <2>5, <2>6
<1> HIDE DEF f
<1>8. /\ BatchInv' /\ OrderInv' /\ Active' /\ num' = num /\ W' = f
      /\ Whole(W.file)' = Whole(W.file)
  <2>1. fast_files' = [fast_files EXCEPT ![w] = f] /\ ~Fresh(f)
    BY <1>2, <1>3, <1>7 DEF Fresh
  <2>2. pc' \in InProcess /\ pc' # "fl2" /\ w' = w /\ r' \in {w, w + 1}
    BY <1>2, <1>3 DEF InProcess, Turn
  <2> QED
    BY <1>1, <1>2, <1>3, <1>7, <2>1, <2>2, ChangedW
<1>9. OpenOf(f) = 2 /\ f.rfd # Closed /\ f.wfd # Closed
  BY <1>7 DEF OpenOf, IsOpen, Closed
<1>10. /\ Len(dir[W.file]) \in Nat \ {0} /\ Sums(dir[W.file])[0] = 0
       /\ Sums(dir[W.file])[1] = Head(dir[W.file])
  BY <1>4, FileFacts
<1>11. /\ ReadRequest(f) \in ReadRequests /\ ReadRequest(f) # None
       /\ ReadRequest(f).entry = w /\ ReadRequest(f).frag = 1
       /\ ReadRequest(f).size = f.rsize /\ ReadRequest(f).offset = 0
  BY <1>3, <1>4, <1>6, <1>7 DEF ReadRequest, ReadRequests, None
<1>12. OpenInv'
  <2>1. files_opened' = leaked' + OpenOf(f) /\ ~ (leaked' > 0)
    BY <1>2, <1>3, <1>9
  <2>2. 1 \in 1 .. Len(dir[W.file])
    BY <1>10
  <2>3. /\ aioW' = None /\ fast_writing' = 0
    BY <1>2, <1>3
  <2>4. aioR' # None => /\ aioR' = ReadRequest(f) /\ fast_read' = 1 /\ r' = w'
    BY <1>2, <1>3
  <2> QED
    BY <1>2, <1>3, <1>7, <1>8, <1>11, <2>1, <2>2, <2>3, <2>4 DEF OpenInv, ReadRequests
<1>13. ReadInv'
  <2>1. SUFFICES ASSUME pc' = "readEnd" PROVE ReadInv'
    BY <1>2 DEF ReadInv
  <2>2. aioR' = ReadRequest(f)
    BY <1>2, <2>1
  <2>3. InFlight' = 0
    BY <1>2, <1>3 DEF InFlight
  <2>4. Chunk(f, f.len, 0) = f.rsize
    BY <1>7 DEF Chunk
  <2>5. Reading' /\ ~Ready'
    BY <1>5, <1>7, <1>8, <1>11, <2>1, <2>2, <2>3, <2>4 DEF Reading, Ready, Chunk
  <2>6. WhileReading'
    BY <1>2, <1>3, <1>5, <1>7, <1>8, <1>10, <2>3, <2>5 DEF WhileReading
  <2>7. 1 \in 1 .. Len(dir[W.file]) /\ r' # w' + 1
    BY <1>2, <1>3, <1>10
  <2> QED
    BY <1>2, <1>5, <1>7, <1>8, <1>9, <1>10, <2>6, <2>7 DEF ReadInv, InFragments
<1>14. ScalarsInv' /\ ControlInv'
  <2>1. i_reading' \in BOOLEAN
    BY <1>1 DEF OpenFiles, ResourceInv, ScalarsInv
  <2>2. \/ pc' = "cleanup" /\ error' = -3 /\ fast_read' = fast_read
        \/ pc' = "readEnd" /\ error' = error /\ fast_read' = 1
    BY <1>2
  <2>3. ScalarsInv'
    BY <1>1, <1>2, <2>1, <2>2 DEF ResourceInv, ScalarsInv, Places
  <2>4. ControlInv'
    BY <1>1, <1>2, <2>2 DEF ResourceInv, ControlInv, Turn, InProcess
  <2> QED
    BY <2>3, <2>4
<1> QED
  BY <1>8, <1>12, <1>13, <1>14 DEF ResourceInv

\* When a read ended and nothing is being written, a chunk is ready.
LEMMA ChunkReady ==
  ASSUME ResourceInv, pc = "readEnd", ReadEnded
  PROVE  /\ r = w /\ w \in 1 .. num /\ Active /\ R = W /\ Ready /\ ReadyInv /\ WhileReading
         /\ aioR = None /\ aioW = None /\ fast_writing = 0 /\ W.fl = 3
         /\ W \in Entries /\ W \in FileRecords /\ W.file \in 1 .. Len(dir) /\ num \in Nat
         /\ dir \in Dirs
         /\ W.rfd \in 1 .. Len(dir[W.file]) /\ W.wfd # Closed
         /\ W.len = IF InFragments(W) THEN Sums(dir[W.file])[W.rfd] ELSE Head(dir[W.file])
         /\ W.writed \in Nat /\ W.writed = W.readed - W.rsize /\ W.readed \in Nat
         /\ W.rsize \in 1 .. Buf /\ files_opened = leaked + 2 /\ leaked \in Nat
<1>1. r = w /\ w \in 1 .. num /\ Active /\ R = W /\ W.fl = 3 /\ fast_writing = 0
  <2>1. r <= num /\ R.fl = 3 /\ fast_writing = 0
    BY DEF ReadEnded
  <2>2. r = w
    BY <2>1 DEF ResourceInv, OrderInv, R, Fresh
  <2> QED
    BY <2>1, <2>2 DEF ResourceInv, OrderInv, Active, R, W, Fresh
<1>2. W \in Entries /\ W \in FileRecords /\ W.file \in 1 .. Len(dir) /\ num \in Nat /\ dir \in Dirs
  BY <1>1, EntryOfW
<1>3. aioW = None
  BY <1>1 DEF ResourceInv, OpenInv
<1>4. /\ WhileReading /\ W.rfd \in 1 .. Len(dir[W.file]) /\ W.wfd # Closed /\ W.writed >= 0
      /\ W.len = IF InFragments(W) THEN Sums(dir[W.file])[W.rfd] ELSE Head(dir[W.file])
  BY <1>1 DEF ResourceInv, ReadInv
<1>5. aioR = None
  <2>1. SUFFICES ASSUME aioR # None PROVE FALSE
    OBVIOUS
  <2>2. W.fl = 2
    BY <1>4, <2>1 DEF WhileReading, Reading
  <2> QED
    BY <1>1, <2>2
<1>6. Ready /\ ReadyInv
  BY <1>1, <1>4, <1>5 DEF Ready, WhileReading
<1>7. W.writed \in Int /\ W.readed \in Int /\ W.rsize \in Nat /\ W.size_mem \in 1 .. Buf
  BY <1>2 DEF FileRecords
<1>8. /\ W.writed \in Nat /\ W.writed = W.readed - W.rsize /\ W.readed \in Nat
      /\ W.rsize \in 1 .. Buf
  <2>1. InFlight = 0
    BY <1>3 DEF InFlight
  <2> QED
    BY <1>4, <1>6, <1>7, <2>1, FastCopyAssumption DEF ReadyInv
<1>9. files_opened = leaked + 2 /\ leaked \in Nat
  <2>1. W.rfd # Closed
    BY <1>4 DEF Closed
  <2>2. OpenOf(W) = 2
    BY <1>4, <2>1 DEF OpenOf, IsOpen
  <2> QED
    BY <1>1, <2>2 DEF ResourceInv, OpenInv, ScalarsInv
<1> QED
  BY <1>1, <1>2, <1>3, <1>4, <1>5, <1>6, <1>8, <1>9

\* The request a write is started with.
LEMMA WriteStarted ==
  ASSUME ResourceInv, pc = "readEnd", ReadEnded, NEW buffer,
         buffer = IF W.use_doublebuffer THEN "mem2" ELSE "mem", StartWrite(buffer)
  PROVE  /\ aioW' \in WriteRequests /\ aioW' # None /\ aioW'.entry = w /\ aioW'.part = W.wfd
         /\ aioW'.offset = WriteOffset(W) /\ aioW'.size = W.rsize /\ aioW'.buffer = buffer
         /\ w' = w /\ fast_writing' = 1 /\ InFlight' = W.rsize
<1>1. /\ r = w /\ w \in 1 .. num /\ R = W /\ W \in FileRecords /\ num \in Nat
      /\ W.writed \in Nat /\ W.rsize \in 1 .. Buf
  BY ChunkReady
<1>2. aioW' = [entry |-> r, part |-> W.wfd, offset |-> WriteOffset(W),
               size |-> W.rsize, buffer |-> buffer]
      /\ w' = r /\ fast_writing' = 1
  BY <1>1 DEF StartWrite
<1>3. W.wfd \in Int /\ WriteOffset(W) \in Nat
  BY <1>1 DEF FileRecords, WriteOffset
<1>4. buffer \in {"mem", "mem2"} /\ r \in Nat
  BY <1>1
<1>5. aioW' \in WriteRequests /\ aioW'.size = W.rsize
  BY <1>1, <1>2, <1>3, <1>4 DEF WriteRequests
<1>6. aioW' # None
  BY <1>1, <1>5 DEF None
<1> QED
  BY <1>1, <1>2, <1>5, <1>6 DEF InFlight

\* The chunk of a file of one buffer is being written; the next file is
\* read.
LEMMA SingleBufferWriteCounts == ResourceInv /\ SingleBufferWrite => ResourceInv'
<1>1. SUFFICES ASSUME ResourceInv, SingleBufferWrite PROVE ResourceInv'
  OBVIOUS
<1>2. /\ pc = "readEnd" /\ ReadEnded /\ ~R.use_doublebuffer /\ StartWrite("mem")
      /\ r' = r + 1 /\ i_reading' = FALSE /\ pc' = "writeEnd"
      /\ UNCHANGED <<dir, copy_mode, next, caller, ret, mounts, abort_copy, fast_files,
                     used_mem, error, fast_read, files_opened, aioR, leaked>>
  BY <1>1 DEF SingleBufferWrite, driver, batch
<1>3. /\ r = w /\ w \in 1 .. num /\ Active /\ R = W /\ ReadyInv /\ aioR = None
      /\ W \in Entries /\ num \in Nat /\ dir \in Dirs /\ W.rfd \in 1 .. Len(dir[W.file])
      /\ W.wfd # Closed /\ W.writed \in Nat /\ W.writed = W.readed - W.rsize
      /\ W.readed \in Nat /\ W.rsize \in 1 .. Buf
      /\ W.len = IF InFragments(W) THEN Sums(dir[W.file])[W.rfd] ELSE Head(dir[W.file])
  BY <1>1, <1>2, ChunkReady
<1>4. /\ aioW' \in WriteRequests /\ aioW' # None /\ aioW'.entry = w /\ aioW'.part = W.wfd
      /\ aioW'.offset = WriteOffset(W) /\ aioW'.size = W.rsize /\ aioW'.buffer = "mem"
      /\ w' = w /\ fast_writing' = 1 /\ InFlight' = W.rsize
  BY <1>1, <1>2, <1>3, WriteStarted
<1>5. FileRecords' = FileRecords /\ Entries' = Entries
  BY <1>2 DEF Entries, FileRecords, ModeOf, Fresh
<1>6. /\ num' = num /\ W' = W /\ Sizes' = Sizes /\ Whole(W.file)' = Whole(W.file) /\ Active'
  BY <1>2, <1>3, <1>4 DEF num, Active, W, Sizes, Whole
<1>7. BatchInv'
  BY <1>1, <1>2, <1>5, <1>6 DEF ResourceInv, BatchInv
<1>8. OrderInv'
  BY SMTT(30), <1>1, <1>2, <1>3, <1>4, <1>6 DEF ResourceInv, OrderInv, InProcess, Turn
<1>9. OpenInv'
  BY <1>1, <1>2, <1>3, <1>4, <1>6 DEF ResourceInv, OpenInv, WriteRequests
<1>10. ReadInv'
  <2>1. ~InFragments(W) /\ W.len = Head(dir[W.file]) /\ Whole(W.file) = Head(dir[W.file])
    <3>1. ~InFragments(W)
      BY <1>2, <1>3 DEF InFragments
    <3> QED
      BY <1>3, <3>1, EntryFacts
  <2>2. W.writed + W.rsize = W.len
    BY <1>2, <1>3 DEF ReadyInv
  <2>3. r' = w' + 1 /\ r' # w' /\ fast_writing' # 0
    BY <1>2, <1>3, <1>4
  <2> QED
    BY <1>2, <1>3, <1>4, <1>6, <2>1, <2>2, <2>3 DEF ReadInv
<1>11. ScalarsInv' /\ ControlInv'
  <2>1. i_reading' \in BOOLEAN
    BY <1>1 DEF SingleBufferWrite
  <2> QED
    BY <1>1, <1>2, <1>4, <2>1
    DEF ResourceInv, ScalarsInv, ControlInv, Places, Turn, InProcess
<1> QED
  BY <1>7, <1>8, <1>9, <1>10, <1>11 DEF ResourceInv

\* What the three ways to go on with a file of two buffers have in common:
\* the chunk just read is being written out of the second buffer.
LEMMA DoubleBufferCounts ==
  ASSUME ResourceInv, DoubleBufferWrite, NEW f \in FileRecords,
         f.file = W.file, f.bigfile_mode = W.bigfile_mode, f.size_mem = W.size_mem,
         f.use_doublebuffer = W.use_doublebuffer, ~Fresh(f),
         f.wfd = W.wfd, f.writed = W.writed, f.giga_counter = W.giga_counter,
         fast_files' = [fast_files EXCEPT ![r] = f],
         files_opened' = IF f.rfd = Closed THEN files_opened - 1 ELSE files_opened,
         UNCHANGED <<dir, copy_mode, next, used_mem, leaked>>,
         r' \in {r, r + 1}, pc' \in InProcess, pc' = "fl2" => r' = r /\ f.fl = 3,
         \/ aioR' = None
         \/ /\ aioR' \in ReadRequests /\ aioR'.entry = r /\ fast_read' = 1 /\ r' = r
            /\ aioR'.frag = f.rfd /\ f.rfd \in 1 .. Len(dir[W.file])
  PROVE  /\ BatchInv' /\ OrderInv' /\ OpenInv' /\ Active' /\ W' = f
         /\ Whole(W.file)' = Whole(W.file)
         /\ w' = w /\ fast_writing' = 1 /\ InFlight' = W.rsize
<1>1. /\ r = w /\ w \in 1 .. num /\ Active /\ R = W /\ num \in Nat /\ W.wfd # Closed
      /\ W.writed \in Nat /\ files_opened = leaked + 2 /\ leaked \in Nat
  BY ChunkReady DEF DoubleBufferWrite
<1>2. pc = "readEnd" /\ ReadEnded /\ W.use_doublebuffer /\ StartWrite("mem2")
  BY <1>1 DEF DoubleBufferWrite
<1>3. /\ aioW' \in WriteRequests /\ aioW' # None /\ aioW'.entry = w /\ aioW'.part = W.wfd
      /\ aioW'.offset = WriteOffset(W) /\ aioW'.buffer = "mem2"
      /\ w' = w /\ fast_writing' = 1 /\ InFlight' = W.rsize
  BY <1>2, WriteStarted
<1>4. /\ BatchInv' /\ OrderInv' /\ Active' /\ num' = num /\ W' = f
      /\ Whole(W.file)' = Whole(W.file)
  BY <1>1, <1>3, ChangedW
<1>5. files_opened' = leaked' + OpenOf(f) /\ ~ (leaked' > 0)
  <2>1. leaked = 0
    BY <1>1 DEF ResourceInv, OpenInv
  <2> QED
    BY <1>1, <2>1 DEF OpenOf, IsOpen
<1>6. aioR' # None =>
        /\ aioR' \in ReadRequests' /\ fast_read' = 1 /\ r' = w' /\ aioR'.entry = w'
        /\ aioR'.frag = f.rfd /\ aioR'.frag \in 1 .. Len(dir'[f.file])
  BY <1>1, <1>3 DEF ReadRequests
<1>7. OpenInv'
  <2>1. aioW' # None =>
          /\ aioW' \in WriteRequests' /\ aioW'.entry = w'
          /\ aioW'.part = f.wfd /\ f.wfd # Closed
          /\ aioW'.offset = WriteOffset(f) /\ f.writed >= 0
          /\ aioW'.buffer = IF f.use_doublebuffer THEN "mem2" ELSE "mem"
    BY <1>1, <1>2, <1>3 DEF WriteRequests, WriteOffset
  <2>2. (aioW' # None) <=> (fast_writing' = 1)
    BY <1>3
  <2>3. aioR' # None /\ aioW' # None => f.use_doublebuffer
    BY <1>2
  <2>4. WriteOffset(W)' = WriteOffset(f)
    BY <1>4 DEF WriteOffset
  <2> QED
    BY <1>4, <1>5, <1>6, <2>1, <2>2, <2>3, <2>4 DEF OpenInv
<1> QED
  BY <1>3, <1>4, <1>7

\* The file goes on: the next chunk of it is read, or cannot be.
LEMMA DoubleBufferMoreCounts == ResourceInv /\ DoubleBufferMore => ResourceInv'
<1>1. SUFFICES ASSUME ResourceInv, DoubleBufferMore PROVE ResourceInv'
  OBVIOUS
<1> DEFINE f == [R EXCEPT !.mem2 = R.mem, !.fl = 2, !.rsize = Chunk(R, R.len, R.readed),
                          !.roffset = R.readed - R.off_readed]
<1>2. /\ DoubleBufferWrite /\ R.readed < R.len /\ fast_files' = [fast_files EXCEPT ![r] = f]
      /\ \/ fast_read' = 1 /\ aioR' = ReadRequest(f) /\ pc' = "writeEnd" /\ UNCHANGED error
         \/ fast_read' = 0 /\ pc' = "cleanup" /\ error' = -3 /\ UNCHANGED aioR
      /\ UNCHANGED <<dir, copy_mode, next, caller, ret, mounts, abort_copy, used_mem, r,
                     i_reading, files_opened, leaked>>
  BY <1>1 DEF DoubleBufferMore, Break, driver
<1>3. pc = "readEnd" /\ ReadEnded /\ R.use_doublebuffer
  BY <1>2 DEF DoubleBufferWrite
<1>4. /\ r = w /\ w \in 1 .. num /\ Active /\ R = W /\ ReadyInv /\ WhileReading /\ aioR = None
      /\ W \in FileRecords /\ num \in Nat /\ dir \in Dirs /\ W.rfd \in 1 .. Len(dir[W.file])
      /\ W.wfd # Closed /\ W.writed \in Nat /\ W.writed = W.readed - W.rsize
      /\ W.readed \in Nat /\ W.rsize \in 1 .. Buf
      /\ W.len = IF InFragments(W) THEN Sums(dir[W.file])[W.rfd] ELSE Head(dir[W.file])
  BY <1>1, <1>3, ChunkReady
<1>5. W.len \in Nat /\ W.off_readed \in Nat /\ W.off_readed <= W.readed /\ W.readed < W.len
  BY <1>2, <1>4 DEF FileRecords, ReadyInv
<1>6. Chunk(W, W.len, W.readed) \in 1 .. Buf
  BY <1>4, <1>5, ChunkFacts
<1>7. /\ f \in FileRecords /\ f.file = W.file /\ f.bigfile_mode = W.bigfile_mode
      /\ f.size_mem = W.size_mem /\ f.use_doublebuffer = W.use_doublebuffer
      /\ f.len = W.len /\ f.readed = W.readed /\ f.writed = W.writed
      /\ f.off_readed = W.off_readed /\ f.giga_counter = W.giga_counter
      /\ f.number_frag = W.number_frag /\ f.rfd = W.rfd /\ f.wfd = W.wfd /\ f.fl = 2
      /\ f.roffset = W.readed - W.off_readed
      /\ f.rsize = Chunk(W, W.len, W.readed)
  <2>1. 2 \in 1 .. 5 /\ W.mem \in Seq(Nat)
    BY <1>4 DEF FileRecords
  <2>2. Chunk(W, W.len, W.readed) \in Nat /\ W.readed - W.off_readed \in Nat
    <3>1. Buf \in Nat
      BY FastCopyAssumption
    <3>2. Chunk(W, W.len, W.readed) \in Nat
      BY <1>6, <3>1
    <3> QED
      BY <1>4, <1>5, <3>2
  <2>3. f \in FileRecords
    BY <1>4, <2>1, <2>2, Zenon DEF FileRecords
  <2>4. f.use_doublebuffer = W.use_doublebuffer
    BY <1>4, Zenon DEF FileRecords
  <2>5. /\ f.file = R.file /\ f.bigfile_mode = R.bigfile_mode /\ f.size_mem = R.size_mem
        /\ f.len = R.len /\ f.readed = R.readed /\ f.writed = R.writed
        /\ f.off_readed = R.off_readed /\ f.giga_counter = R.giga_counter
        /\ f.number_frag = R.number_frag /\ f.rfd = R.rfd /\ f.wfd = R.wfd /\ f.fl = 2
        /\ f.roffset = R.readed - R.off_readed /\ f.rsize = Chunk(R, R.len, R.readed)
    BY <1>4 DEF FileRecords
  <2> QED
    BY <1>4, <2>3, <2>4, <2>5
<1> HIDE DEF f
<1>8. /\ ReadRequest(f) \in ReadRequests /\ ReadRequest(f) # None
      /\ ReadRequest(f).entry = w /\ ReadRequest(f).frag = W.rfd
      /\ ReadRequest(f).size = f.rsize /\ ReadRequest(f).offset = W.readed - W.off_readed
  <2>1. W.rfd \in Nat /\ W.readed - W.off_readed \in Nat
    BY <1>4, <1>5
  <2> QED
    BY <1>4, <1>6, <1>7, <2>1 DEF ReadRequest, ReadRequests, None
<1>9. /\ BatchInv' /\ OrderInv' /\ OpenInv' /\ Active' /\ W' = f
      /\ Whole(W.file)' = Whole(W.file)
      /\ w' = w /\ fast_writing' = 1 /\ InFlight' = W.rsize
  <2>1. ~Fresh(f) /\ pc' \in InProcess /\ pc' # "fl2" /\ r' \in {r, r + 1}
    BY <1>2, <1>7 DEF Fresh, InProcess, Turn
  <2>2. files_opened' = IF f.rfd = Closed THEN files_opened - 1 ELSE files_opened
    BY <1>2, <1>4, <1>7 DEF Closed
  <2>3. \/ aioR' = None
        \/ /\ aioR' \in ReadRequests /\ aioR'.entry = r /\ fast_read' = 1 /\ r' = r
           /\ aioR'.frag = f.rfd /\ f.rfd \in 1 .. Len(dir[W.file])
    BY <1>2, <1>4, <1>7, <1>8
  <2> QED
    BY <1>1, <1>2, <1>7, <2>1, <2>2, <2>3, DoubleBufferCounts
<1>10. ReadInv'
  <2>1. SUFFICES ASSUME pc' = "writeEnd" PROVE ReadInv'
    BY <1>2 DEF ReadInv
  <2>2. aioR' = ReadRequest(f)
    BY <1>2, <2>1
  <2>3. Chunk(f, f.len, f.readed) = f.rsize
    BY <1>7 DEF Chunk
  <2>4. W.writed + W.rsize = W.readed
    BY <1>4
  <2>5. Reading' /\ ~Ready'
    BY <1>3, <1>4, <1>5, <1>7, <1>8, <1>9, <2>1, <2>2, <2>3, <2>4 DEF Reading, Ready, Chunk
  <2>6. WhileReading'
    BY <1>2, <1>3, <1>4, <1>5, <1>7, <1>9, <2>4, <2>5 DEF WhileReading
  <2>7. r' # w' + 1
    BY <1>2, <1>4, <1>9
  <2> QED
    BY <1>2, <1>4, <1>7, <1>9, <2>6, <2>7 DEF ReadInv, InFragments
<1>11. ScalarsInv' /\ ControlInv'
  <2>1. \/ pc' = "cleanup" /\ error' = -3 /\ fast_read' = 0
        \/ pc' = "writeEnd" /\ error' = error /\ fast_read' = 1
    BY <1>2
  <2>2. ScalarsInv'
    BY <1>1, <1>2, <1>9, <2>1 DEF ResourceInv, ScalarsInv, Places
  <2>3. ControlInv'
    BY <1>1, <1>2, <1>3, <2>1 DEF ResourceInv, ControlInv, Turn, InProcess
  <2> QED
    BY <2>2, <2>3
<1> QED
  BY <1>9, <1>10, <1>11 DEF ResourceInv

\* The last chunk of the file is being written; the next file is read.
LEMMA DoubleBufferLastCounts == ResourceInv /\ DoubleBufferLast => ResourceInv'
<1>1. SUFFICES ASSUME ResourceInv, DoubleBufferLast PROVE ResourceInv'
  OBVIOUS
<1>2. /\ DoubleBufferWrite /\ R.readed >= R.len /\ r' = r + 1 /\ pc' = "writeEnd"
      /\ UNCHANGED <<dir, copy_mode, next, caller, ret, mounts, abort_copy, used_mem, error,
                     fast_read, files_opened, aioR, leaked>>
  BY <1>1 DEF DoubleBufferLast, driver
<1>3. pc = "readEnd" /\ ReadEnded /\ R.use_doublebuffer
  BY <1>2 DEF DoubleBufferWrite
<1>4. /\ r = w /\ w \in 1 .. num /\ Active /\ R = W /\ ReadyInv /\ WhileReading /\ aioR = None
      /\ W \in Entries /\ W.file \in 1 .. Len(dir)
      /\ W \in FileRecords /\ num \in Nat /\ dir \in Dirs /\ W.rfd \in 1 .. Len(dir[W.file])
      /\ W.wfd # Closed /\ W.writed \in Nat /\ W.writed = W.readed - W.rsize
      /\ W.readed \in Nat /\ W.rsize \in 1 .. Buf /\ W.fl = 3
      /\ W.len = IF InFragments(W) THEN Sums(dir[W.file])[W.rfd] ELSE Head(dir[W.file])
  BY <1>1, <1>3, ChunkReady
<1> DEFINE f == IF W.bigfile_mode = 2
                THEN [W EXCEPT !.mem2 = W.mem, !.number_frag = @ + 1, !.off_readed = W.readed]
                ELSE [W EXCEPT !.mem2 = W.mem, !.fl = 5]
<1>5. fast_files' = [fast_files EXCEPT ![r] = f]
  BY <1>1, <1>4 DEF DoubleBufferLast, R, W
<1>6. W.bigfile_mode = 2 => W.number_frag + 2 > Len(dir[W.file])
  BY <1>1, <1>4 DEF DoubleBufferLast, NextFragment
<1>7. /\ f \in FileRecords /\ f.file = W.file /\ f.bigfile_mode = W.bigfile_mode
      /\ f.size_mem = W.size_mem /\ f.use_doublebuffer = W.use_doublebuffer
      /\ f.len = W.len /\ f.writed = W.writed
      /\ f.giga_counter = W.giga_counter /\ f.rfd = W.rfd /\ f.wfd = W.wfd /\ ~Fresh(f)
  <2>1. 5 \in 1 .. 5 /\ W.mem \in Seq(Nat) /\ W.number_frag + 1 \in Nat
    BY SMTT(30), <1>4 DEF FileRecords
  <2>2. CASE W.bigfile_mode = 2
    <3> DEFINE g == [W EXCEPT !.mem2 = W.mem, !.number_frag = @ + 1, !.off_readed = W.readed]
    <3>1. g \in FileRecords
      BY <1>4, <2>1, Zenon DEF FileRecords
    <3>2. g.use_doublebuffer = W.use_doublebuffer
      BY <1>4, Zenon DEF FileRecords
    <3>3. /\ g.file = W.file /\ g.bigfile_mode = W.bigfile_mode /\ g.size_mem = W.size_mem
          /\ g.len = W.len /\ g.writed = W.writed /\ g.giga_counter = W.giga_counter
          /\ g.rfd = W.rfd /\ g.wfd = W.wfd /\ g.fl = W.fl
      BY <1>4 DEF FileRecords
    <3> QED
      BY <1>4, <2>2, <3>1, <3>2, <3>3 DEF Fresh
  <2>3. CASE W.bigfile_mode # 2
    <3> DEFINE g == [W EXCEPT !.mem2 = W.mem, !.fl = 5]
    <3>1. g \in FileRecords
      BY <1>4, <2>1, Zenon DEF FileRecords
    <3>2. g.use_doublebuffer = W.use_doublebuffer
      BY <1>4, Zenon DEF FileRecords
    <3>3. /\ g.file = W.file /\ g.bigfile_mode = W.bigfile_mode /\ g.size_mem = W.size_mem
          /\ g.len = W.len /\ g.writed = W.writed /\ g.giga_counter = W.giga_counter
          /\ g.rfd = W.rfd /\ g.wfd = W.wfd /\ g.fl = 5
      BY <1>4 DEF FileRecords
    <3> QED
      BY <2>3, <3>1, <3>2, <3>3 DEF Fresh
  <2> QED
    BY <2>2, <2>3
<1> HIDE DEF f
<1>8. /\ BatchInv' /\ OrderInv' /\ OpenInv' /\ Active' /\ W' = f
      /\ Whole(W.file)' = Whole(W.file)
      /\ w' = w /\ fast_writing' = 1 /\ InFlight' = W.rsize
  <2>1. pc' \in InProcess /\ pc' # "fl2" /\ r' \in {r, r + 1}
    BY <1>2 DEF InProcess, Turn
  <2>2. files_opened' = IF f.rfd = Closed THEN files_opened - 1 ELSE files_opened
    BY <1>2, <1>4, <1>7 DEF Closed
  <2>3. aioR' = None
    BY <1>2, <1>4
  <2> QED
    BY <1>1, <1>2, <1>5, <1>7, <2>1, <2>2, <2>3, DoubleBufferCounts
<1>9. ReadInv'
  <2>1. W.readed = W.len
    BY SMTT(30), <1>2, <1>4 DEF ReadyInv, FileRecords
  <2>2. W.len = Whole(W.file)
    <3>1. CASE InFragments(W)
      <4>1. W.number_frag = W.rfd - 1
        BY <1>4, <3>1 DEF WhileReading, InFragments
      <4>2. W.rfd = Len(dir[W.file])
        BY <1>4, <1>6, <3>1, <4>1, FileFacts DEF InFragments
      <4> QED
        BY <1>4, <3>1, <4>2, EntryFacts, FileFacts
    <3>2. CASE ~InFragments(W)
      BY <1>4, <3>2, EntryFacts
    <3> QED
      BY <3>1, <3>2
  <2>3. W.writed + W.rsize = Whole(W.file)
    BY <1>4, <2>1, <2>2
  <2>4. r' = w' + 1 /\ r' # w' /\ fast_writing' # 0
    BY <1>2, <1>4, <1>8
  <2> QED
    BY <1>2, <1>4, <1>7, <1>8, <2>2, <2>3, <2>4 DEF ReadInv, InFragments
<1>10. ScalarsInv' /\ ControlInv'
  <2>1. i_reading' \in BOOLEAN
    BY <1>1 DEF DoubleBufferLast
  <2> QED
    BY <1>1, <1>2, <1>3, <1>8, <2>1
    DEF ResourceInv, ScalarsInv, ControlInv, Places, Turn, InProcess
<1> QED
  BY <1>8, <1>9, <1>10 DEF ResourceInv

\* The last chunk of a fragment is being written, the next fragment opened
\* and the first read of it started, or not.
LEMMA DoubleBufferJoinCounts == ResourceInv /\ DoubleBufferJoin => ResourceInv'
<1>1. SUFFICES ASSUME ResourceInv, DoubleBufferJoin PROVE ResourceInv'
  OBVIOUS
<1>2. /\ DoubleBufferWrite /\ R.readed >= R.len /\ R.bigfile_mode = 2
      /\ R.number_frag + 2 <= Len(dir[R.file])
      /\ UNCHANGED <<dir, copy_mode, next, caller, ret, mounts, abort_copy, used_mem, r,
                     i_reading, leaked>>
  BY <1>1 DEF DoubleBufferJoin, NextFragment, driver
<1>3. pc = "readEnd" /\ ReadEnded /\ R.use_doublebuffer
  BY <1>2 DEF DoubleBufferWrite
<1>4. /\ r = w /\ w \in 1 .. num /\ Active /\ R = W /\ ReadyInv /\ WhileReading /\ aioR = None
      /\ W \in Entries /\ W.file \in 1 .. Len(dir) /\ W.fl = 3
      /\ W \in FileRecords /\ num \in Nat /\ dir \in Dirs /\ W.rfd \in 1 .. Len(dir[W.file])
      /\ W.wfd # Closed /\ W.writed \in Nat /\ W.writed = W.readed - W.rsize
      /\ W.readed \in Nat /\ W.rsize \in 1 .. Buf
      /\ W.len = IF InFragments(W) THEN Sums(dir[W.file])[W.rfd] ELSE Head(dir[W.file])
  BY <1>1, <1>3, ChunkReady
<1> DEFINE k == W.rfd + 1
           len == W.len + dir[W.file][k]
           g == [W EXCEPT !.mem2 = W.mem, !.number_frag = @ + 1, !.off_readed = W.readed,
                          !.len = len, !.roffset = 0, !.rsize = Chunk(W, len, W.readed),
                          !.rfd = k]
           h == [g EXCEPT !.rfd = Closed, !.len = W.len]
<1>5. W.number_frag + 2 = k /\ W.readed = W.len /\ W.len \in Nat
  <2>1. W.number_frag = W.rfd - 1 /\ W.readed <= W.len /\ W.readed >= W.len
    BY <1>2, <1>4 DEF WhileReading, ReadyInv
  <2>2. W.number_frag \in Nat /\ W.len \in Nat /\ W.rfd \in Int
    BY <1>4 DEF FileRecords
  <2> QED
    BY SMTT(30), <1>4, <2>1, <2>2
<1>6. /\ k \in 1 .. Len(dir[W.file]) /\ dir[W.file][k] \in Nat \ {0}
      /\ Sums(dir[W.file])[k] = len /\ Sums(dir[W.file])[k - 1] = W.len /\ len \in Nat
  <2>1. /\ Len(dir[W.file]) \in Nat /\ dir[W.file] \in Seq(Nat)
        /\ Len(dir[W.file]) > 1 => \A j \in 1 .. Len(dir[W.file]) : dir[W.file][j] \in 1 .. Big - 1
        /\ \A j \in 1 .. Len(dir[W.file]) :
             Sums(dir[W.file])[j] = Sums(dir[W.file])[j - 1] + dir[W.file][j]
    BY <1>4, FileFacts
  <2>2. k \in 1 .. Len(dir[W.file]) /\ Len(dir[W.file]) > 1 /\ k - 1 = W.rfd
    BY SMTT(30), <1>2, <1>4, <1>5, <2>1
  <2>3. dir[W.file][k] \in 1 .. Big - 1 /\ Big \in Nat
    BY <2>1, <2>2, FastCopyAssumption
  <2>4. W.len = Sums(dir[W.file])[W.rfd]
    BY <1>2, <1>3, <1>4 DEF InFragments
  <2>5. Sums(dir[W.file])[k] = Sums(dir[W.file])[k - 1] + dir[W.file][k]
    BY <2>1, <2>2
  <2> QED
    BY <1>5, <2>2, <2>3, <2>4, <2>5
<1>7. \/ /\ fast_files' = [fast_files EXCEPT ![r] = g]
         /\ fast_read' = 1 /\ aioR' = ReadRequest(g) /\ pc' = "fl2"
         /\ UNCHANGED <<error, files_opened>>
      \/ /\ fast_files' = [fast_files EXCEPT ![r] = g]
         /\ fast_read' = 0 /\ pc' = "cleanup" /\ error' = -3
         /\ UNCHANGED <<aioR, files_opened>>
      \/ /\ fast_files' = [fast_files EXCEPT ![r] = h]
         /\ fast_read' = 0 /\ pc' = "cleanup" /\ error' = -1
         /\ files_opened' = files_opened - 1 /\ UNCHANGED aioR
  <2> DEFINE gR == [R EXCEPT !.mem2 = R.mem, !.number_frag = @ + 1, !.off_readed = R.readed,
                            !.len = R.len + dir[R.file][NextFragment(R)], !.roffset = 0,
                            !.rsize = Chunk(R, R.len + dir[R.file][NextFragment(R)], R.readed),
                            !.rfd = NextFragment(R)]
             hR == [gR EXCEPT !.rfd = Closed, !.len = R.len]
  <2>1. \/ /\ fast_files' = [fast_files EXCEPT ![r] = gR]
           /\ fast_read' = 1 /\ aioR' = ReadRequest(gR) /\ pc' = "fl2"
           /\ UNCHANGED <<error, files_opened>>
        \/ /\ fast_files' = [fast_files EXCEPT ![r] = gR]
           /\ fast_read' = 0 /\ pc' = "cleanup" /\ error' = -3
           /\ UNCHANGED <<aioR, files_opened>>
        \/ /\ fast_files' = [fast_files EXCEPT ![r] = hR]
           /\ fast_read' = 0 /\ pc' = "cleanup" /\ error' = -1
           /\ files_opened' = files_opened - 1 /\ UNCHANGED aioR
    BY <1>1, Zenon DEF DoubleBufferJoin, Break
  <2>2. NextFragment(R) = k
    BY <1>4, <1>5 DEF NextFragment
  <2>3. gR = g /\ hR = h
    BY <1>4, <2>2, Zenon
  <2> HIDE DEF gR, hR, g, h
  <2> QED
    BY <2>1, <2>3, Zenon
<1> HIDE DEF k, len
<1>8. /\ Chunk(W, len, W.readed) \in 1 .. Buf /\ Chunk(W, len, W.readed) \in Nat
      /\ W.readed < len
  <2>1. W.readed < len
    BY SMTT(30), <1>4, <1>5, <1>6 DEF len
  <2>2. Buf \in Nat
    BY FastCopyAssumption
  <2>3. Chunk(W, len, W.readed) \in 1 .. Buf
    BY <1>4, <1>6, <2>1, ChunkFacts
  <2> QED
    BY <2>1, <2>2, <2>3
<1>9. /\ g \in FileRecords /\ g.file = W.file /\ g.bigfile_mode = W.bigfile_mode
      /\ g.size_mem = W.size_mem /\ g.use_doublebuffer = W.use_doublebuffer
      /\ g.len = len /\ g.readed = W.readed /\ g.writed = W.writed
      /\ g.off_readed = W.readed /\ g.giga_counter = W.giga_counter
      /\ g.number_frag = W.number_frag + 1 /\ g.rfd = k /\ g.wfd = W.wfd /\ g.fl = 3
      /\ g.roffset = 0 /\ g.rsize = Chunk(W, len, W.readed)
  <2>1. W.mem \in Seq(Nat) /\ W.number_frag + 1 \in Nat /\ k \in Int /\ 0 \in Nat
    <3>1. W.mem \in Seq(Nat) /\ W.number_frag \in Nat /\ W.rfd \in Int
      BY <1>4 DEF FileRecords
    <3> QED
      BY <3>1 DEF k
  <2>2. g \in FileRecords
    BY <1>4, <1>6, <1>8, <2>1, Zenon DEF FileRecords
  <2>3. g.use_doublebuffer = W.use_doublebuffer
    BY <1>4, Zenon DEF FileRecords
  <2>4. /\ g.file = W.file /\ g.bigfile_mode = W.bigfile_mode /\ g.size_mem = W.size_mem
        /\ g.len = len /\ g.readed = W.readed /\ g.writed = W.writed
        /\ g.off_readed = W.readed /\ g.giga_counter = W.giga_counter
        /\ g.number_frag = W.number_frag + 1 /\ g.rfd = k /\ g.wfd = W.wfd /\ g.fl = W.fl
        /\ g.roffset = 0 /\ g.rsize = Chunk(W, len, W.readed)
    BY <1>4 DEF FileRecords
  <2> QED
    BY <1>4, <2>2, <2>3, <2>4
<1> HIDE DEF g
<1>10. /\ h \in FileRecords /\ h.file = W.file /\ h.bigfile_mode = W.bigfile_mode
       /\ h.size_mem = W.size_mem /\ h.use_doublebuffer = W.use_doublebuffer
       /\ h.writed = W.writed /\ h.giga_counter = W.giga_counter
       /\ h.rfd = Closed /\ h.wfd = W.wfd /\ h.fl = 3
  <2>1. Closed \in Int
    BY DEF Closed
  <2>2. h \in FileRecords
    BY <1>5, <1>9, <2>1, Zenon DEF FileRecords
  <2>3. h.use_doublebuffer = g.use_doublebuffer
    BY <1>9, Zenon DEF FileRecords
  <2>4. /\ h.file = g.file /\ h.bigfile_mode = g.bigfile_mode /\ h.size_mem = g.size_mem
        /\ h.writed = g.writed /\ h.giga_counter = g.giga_counter
        /\ h.rfd = Closed /\ h.wfd = g.wfd /\ h.fl = g.fl
    BY <1>9 DEF FileRecords
  <2> QED
    BY <1>9, <2>2, <2>3, <2>4
<1> HIDE DEF h
<1>11. /\ ReadRequest(g) \in ReadRequests /\ ReadRequest(g) # None
       /\ ReadRequest(g).entry = w /\ ReadRequest(g).frag = k
       /\ ReadRequest(g).size = g.rsize /\ ReadRequest(g).offset = 0
  <2>1. k \in Nat
    BY <1>4, <1>6
  <2> QED
    BY <1>4, <1>8, <1>9, <2>1 DEF ReadRequest, ReadRequests, None
<1> DEFINE f == IF files_opened' = files_opened THEN g ELSE h
<1>12. /\ f \in FileRecords /\ f.file = W.file /\ f.bigfile_mode = W.bigfile_mode
       /\ f.size_mem = W.size_mem /\ f.use_doublebuffer = W.use_doublebuffer
       /\ f.writed = W.writed /\ f.giga_counter = W.giga_counter /\ f.wfd = W.wfd /\ f.fl = 3
  BY <1>9, <1>10
<1>13. /\ fast_files' = [fast_files EXCEPT ![r] = f]
       /\ files_opened' = IF f.rfd = Closed THEN files_opened - 1 ELSE files_opened
  <2>1. files_opened \in Int /\ files_opened - 1 # files_opened
    BY <1>1, <1>3, ChunkReady
  <2>2. g.rfd # Closed /\ h.rfd = Closed
    BY <1>6, <1>9, <1>10 DEF Closed
  <2> QED
    BY <1>7, <2>1, <2>2
<1>14. pc' # "cleanup" => f = g
  BY <1>7
<1> HIDE DEF f
<1>15. /\ BatchInv' /\ OrderInv' /\ OpenInv' /\ Active' /\ W' = f
       /\ Whole(W.file)' = Whole(W.file)
       /\ w' = w /\ fast_writing' = 1 /\ InFlight' = W.rsize
  <2>1. /\ ~Fresh(f) /\ pc' \in InProcess /\ r' \in {r, r + 1}
        /\ (pc' = "fl2" => r' = r /\ f.fl = 3)
    BY <1>2, <1>7, <1>12 DEF Fresh, InProcess, Turn
  <2>2. \/ aioR' = None
        \/ /\ aioR' \in ReadRequests /\ aioR'.entry = r /\ fast_read' = 1 /\ r' = r
           /\ aioR'.frag = f.rfd /\ f.rfd \in 1 .. Len(dir[W.file])
    <3>1. CASE aioR' = aioR
      BY <1>4, <3>1
    <3>2. CASE fast_read' = 1 /\ aioR' = ReadRequest(g) /\ pc' = "fl2"
      BY <1>2, <1>4, <1>6, <1>9, <1>11, <1>14, <3>2
    <3> QED
      BY <1>7, <3>1, <3>2
  <2> QED
    BY <1>1, <1>2, <1>12, <1>13, <2>1, <2>2, DoubleBufferCounts
<1>16. ReadInv'
  <2>1. SUFFICES ASSUME pc' = "fl2" PROVE ReadInv'
    BY <1>7 DEF ReadInv
  <2>2. aioR' = ReadRequest(g) /\ f = g
    BY <1>7, <1>14, <2>1
  <2>3. Chunk(g, g.len, g.readed) = g.rsize
    BY <1>9 DEF Chunk
  <2>4. W.writed + W.rsize = W.readed
    BY <1>4
  <2>5. Reading' /\ ~Ready'
    <3>1. W.off_readed' = W.readed' /\ W.readed' < W.len' /\ 0 = W.readed' - W.off_readed'
      BY <1>4, <1>8, <1>9, <1>15, <2>2
    <3> QED
      BY <1>3, <1>4, <1>9, <1>11, <1>15, <2>1, <2>2, <2>3, <2>4, <3>1
      DEF Reading, Ready, Chunk
  <2>6. WhileReading'
    <3>1. k - 1 = g.number_frag
      <4>1. W.number_frag \in Nat
        BY <1>4 DEF FileRecords
      <4> QED
        BY <1>5, <1>9, <4>1
    <3>2. W.writed + InFlight' < len
      BY <1>8, <1>15, <2>4
    <3> QED
      BY SMTT(30), <1>2, <1>3, <1>4, <1>5, <1>6, <1>9, <1>15, <2>2, <2>5, <3>1, <3>2 DEF WhileReading
  <2>7. r' # w' + 1 /\ g.wfd # Closed /\ InFragments(g)
    BY <1>2, <1>3, <1>4, <1>9, <1>15 DEF InFragments
  <2> QED
    BY SMTT(30), <1>2, <1>4, <1>6, <1>9, <1>15, <2>2, <2>6, <2>7 DEF ReadInv
<1>17. ScalarsInv' /\ ControlInv'
  <2>1. \/ pc' = "cleanup" /\ error' \in {-1, -3} /\ fast_read' = 0
        \/ pc' = "fl2" /\ error' = error /\ fast_read' = 1
    BY <1>7
  <2>2. ScalarsInv'
    BY <1>1, <1>2, <1>15, <2>1 DEF ResourceInv, ScalarsInv, Places
  <2>3. ControlInv'
    BY <1>1, <1>2, <1>3, <2>1 DEF ResourceInv, ControlInv, Turn, InProcess
  <2> QED
    BY <2>2, <2>3
<1> QED
  BY <1>15, <1>16, <1>17 DEF ResourceInv

\* A read ended.
LEMMA ReadCallbackCounts == ResourceInv /\ fast_func_read => ResourceInv'
<1>1. SUFFICES ASSUME ResourceInv, fast_func_read PROVE ResourceInv'
  OBVIOUS
<1>2. /\ aioR # None /\ aioR' = None
      /\ UNCHANGED <<dir, copy_mode, next, caller, ret, mounts, pc, abort_copy, used_mem, r, w,
                     i_reading, error, fast_writing, files_opened, aioW, leaked>>
  BY <1>1 DEF fast_func_read, driver, loop
<1>3. /\ Active /\ w \in 1 .. num /\ r = w /\ aioR.entry = w /\ aioR \in ReadRequests
      /\ aioR.frag \in 1 .. Len(dir[W.file]) /\ fast_read = 1
  BY <1>1, <1>2 DEF ResourceInv, OpenInv, OrderInv, Active
<1>4. W \in Entries /\ W \in FileRecords /\ W.file \in 1 .. Len(dir) /\ dir \in Dirs /\ num \in Nat
  BY <1>1, <1>3, EntryOfW
<1> DEFINE from == FragmentStart(W, aioR.frag) + aioR.offset
           g == [W EXCEPT !.readed = @ + aioR.size, !.fl = 3,
                          !.mem = [i \in 1 .. aioR.size |-> from + i]]
           h == [W EXCEPT !.readed = -1]
<1>5. \/ fast_files' = [fast_files EXCEPT ![w] = g] /\ fast_read' = 2
      \/ fast_files' = [fast_files EXCEPT ![w] = h] /\ fast_read' = fast_read
  BY <1>1, <1>3 DEF fast_func_read, W
<1>6. from \in Nat
  <2>1. FragmentStart(W, aioR.frag) \in Nat
    <3>1. /\ Len(dir[W.file]) \in Nat
          /\ Sums(dir[W.file]) \in [0 .. Len(dir[W.file]) -> Nat]
      BY <1>4, FileFacts
    <3>2. aioR.frag - 1 \in 0 .. Len(dir[W.file])
      BY <1>3, <3>1
    <3> QED
      BY <3>1, <3>2 DEF FragmentStart
  <2>2. aioR.offset \in Nat
    BY <1>3 DEF ReadRequests
  <2> QED
    BY <2>1, <2>2
<1> HIDE DEF from
<1>7. aioR.size \in 1 .. Buf /\ aioR.size \in Nat /\ Buf \in Nat
  BY <1>3, FastCopyAssumption DEF ReadRequests
<1>8. /\ g \in FileRecords /\ g.file = W.file /\ g.bigfile_mode = W.bigfile_mode
      /\ g.size_mem = W.size_mem /\ g.use_doublebuffer = W.use_doublebuffer
      /\ g.len = W.len /\ g.readed = W.readed + aioR.size /\ g.writed = W.writed
      /\ g.off_readed = W.off_readed /\ g.giga_counter = W.giga_counter
      /\ g.number_frag = W.number_frag /\ g.rfd = W.rfd /\ g.wfd = W.wfd /\ g.fl = 3
      /\ g.rsize = W.rsize
  <2>1. [i \in 1 .. aioR.size |-> from + i] \in Seq(Nat)
    <3>1. \A i \in 1 .. aioR.size : from + i \in Nat
      BY <1>6, <1>7
    <3> QED
      BY <1>7, <3>1
  <2>2. 3 \in 1 .. 5 /\ W.readed + aioR.size \in Int
    BY SMTT(30), <1>4, <1>7 DEF FileRecords
  <2>3. g \in FileRecords
    BY <1>4, <2>1, <2>2, Zenon DEF FileRecords
  <2>4. g.use_doublebuffer = W.use_doublebuffer
    BY <1>4, Zenon DEF FileRecords
  <2>5. /\ g.file = W.file /\ g.bigfile_mode = W.bigfile_mode /\ g.size_mem = W.size_mem
        /\ g.len = W.len /\ g.readed = W.readed + aioR.size /\ g.writed = W.writed
        /\ g.off_readed = W.off_readed /\ g.giga_counter = W.giga_counter
        /\ g.number_frag = W.number_frag /\ g.rfd = W.rfd /\ g.wfd = W.wfd /\ g.fl = 3
        /\ g.rsize = W.rsize
    BY <1>4 DEF FileRecords
  <2> QED
    BY <2>3, <2>4, <2>5
<1>9. /\ h \in FileRecords /\ h.file = W.file /\ h.bigfile_mode = W.bigfile_mode
      /\ h.size_mem = W.size_mem /\ h.use_doublebuffer = W.use_doublebuffer
      /\ h.len = W.len /\ h.readed = -1 /\ h.writed = W.writed
      /\ h.off_readed = W.off_readed /\ h.giga_counter = W.giga_counter
      /\ h.number_frag = W.number_frag /\ h.rfd = W.rfd /\ h.wfd = W.wfd /\ h.fl = W.fl
  <2>1. -1 \in Int
    OBVIOUS
  <2>2. h \in FileRecords
    BY <1>4, <2>1, Zenon DEF FileRecords
  <2>3. h.use_doublebuffer = W.use_doublebuffer
    BY <1>4, Zenon DEF FileRecords
  <2>4. /\ h.file = W.file /\ h.bigfile_mode = W.bigfile_mode /\ h.size_mem = W.size_mem
        /\ h.len = W.len /\ h.readed = -1 /\ h.writed = W.writed
        /\ h.off_readed = W.off_readed /\ h.giga_counter = W.giga_counter
        /\ h.number_frag = W.number_frag /\ h.rfd = W.rfd /\ h.wfd = W.wfd /\ h.fl = W.fl
    BY <1>4 DEF FileRecords
  <2> QED
    BY <2>2, <2>3, <2>4
<1> HIDE DEF g, h
<1>10. PICK f \in {g, h} :
         fast_files' = [fast_files EXCEPT ![w] = f] /\ fast_read' \in {1, 2}
  BY <1>3, <1>5
<1>11. /\ f \in FileRecords /\ f.file = W.file /\ f.bigfile_mode = W.bigfile_mode
       /\ f.size_mem = W.size_mem /\ f.use_doublebuffer = W.use_doublebuffer
       /\ f.len = W.len /\ f.writed = W.writed
       /\ f.off_readed = W.off_readed /\ f.giga_counter = W.giga_counter
       /\ f.number_frag = W.number_frag /\ f.rfd = W.rfd /\ f.wfd = W.wfd
       /\ f.fl \in {3, W.fl}
  BY <1>8, <1>9
<1>12. pc \in InProcess
  BY <1>1, <1>3 DEF ResourceInv, OrderInv
<1>13. /\ BatchInv' /\ OrderInv' /\ Active' /\ W' = f
       /\ Whole(W.file)' = Whole(W.file)
  <2>1. ~Fresh(f) /\ (pc' = "fl2" => r' = w /\ f.fl = 3)
    BY <1>1, <1>2, <1>3, <1>11 DEF Active, Fresh, ResourceInv, OrderInv
  <2> QED
    BY <1>1, <1>2, <1>3, <1>10, <1>11, <1>12, <2>1, ChangedW
<1>14. InFlight' = InFlight
  BY <1>2 DEF InFlight
<1>15. OpenInv'
  <2>1. OpenOf(f) = OpenOf(W) /\ WriteOffset(f) = WriteOffset(W)
    BY <1>11 DEF OpenOf, WriteOffset
  <2> QED
    BY <1>1, <1>2, <1>3, <1>11, <1>13, <2>1 DEF ResourceInv, OpenInv, WriteRequests
<1>16. ReadInv'
  <2>1. SUFFICES ASSUME pc # "cleanup" PROVE ReadInv'
    BY <1>2 DEF ReadInv
  <2>2. WhileReading /\ Reading
    BY <1>1, <1>2, <1>3, <2>1 DEF ResourceInv, ReadInv, WhileReading
  <2>3. Ready' => ReadyInv'
    <3>1. CASE f = g
      <4> DEFINE size == aioR.size
      <4>1. /\ W.readed \in Nat /\ W.len \in Nat /\ W.off_readed \in Nat /\ W.readed < W.len
            /\ W.off_readed <= W.readed /\ W.rsize = size
        BY <1>4, <2>2 DEF Reading, FileRecords
      <4>2. /\ size \in 1 .. W.size_mem /\ W.readed + size <= W.len
            /\ size = W.size_mem \/ W.readed + size = W.len
        <5>1. /\ Chunk(W, W.len, W.readed) \in 1 .. W.size_mem
              /\ W.readed + Chunk(W, W.len, W.readed) <= W.len
              /\ \/ Chunk(W, W.len, W.readed) = W.size_mem
                 \/ W.readed + Chunk(W, W.len, W.readed) = W.len
          BY <1>4, <4>1, ChunkFacts, Zenon
        <5>2. Chunk(W, W.len, W.readed) = size
          BY <2>2, <4>1 DEF Reading
        <5> HIDE DEF size
        <5> QED
          BY <5>1, <5>2, Zenon
      <4>3. W.writed >= 0 => W.writed + InFlight = W.readed
        BY <2>2 DEF Reading
      <4>4. W.use_doublebuffer \/ (W.readed + size = size /\ W.readed + size = W.len)
        <5>1. CASE ~W.use_doublebuffer
          <6>1. W.readed = 0 /\ W.len = W.size_mem
            BY <1>1, <1>3, <1>4, <2>1, <2>2, <5>1, EntryFacts
            DEF ResourceInv, ReadInv, Reading, InFragments
          <6> QED
            BY <1>7, <4>1, <4>2, <6>1
        <5> QED
          BY <5>1
      <4>5. W.off_readed <= W.readed + size /\ (W.readed + size) - size = W.readed
        BY <1>7, <4>1
      <4> QED
        BY <1>8, <1>13, <1>14, <3>1, <4>1, <4>2, <4>3, <4>4, <4>5 DEF ReadyInv
    <3>2. CASE f = h
      <4>1. ~Ready'
        BY <1>2, <1>9, <1>13, <2>2, <3>2 DEF Ready, Reading
      <4> QED
        BY <4>1
    <3> QED
      BY <1>10, <3>1, <3>2
  <2>4. WhileReading'
    BY <1>2, <1>3, <1>11, <1>13, <1>14, <2>2, <2>3 DEF WhileReading
  <2>5. w # w + 1
    BY <1>3
  <2> QED
    BY <1>1, <1>2, <1>3, <1>11, <1>13, <2>1, <2>4, <2>5 DEF ResourceInv, ReadInv, InFragments
<1>17. ScalarsInv' /\ ControlInv'
  <2>1. num' = num
    BY <1>10, <1>4 DEF num
  <2> QED
    BY <1>1, <1>2, <1>10, <2>1 DEF ResourceInv, ScalarsInv, ControlInv
<1> QED
  BY <1>13, <1>15, <1>16, <1>17 DEF ResourceInv

\* A write ended.
LEMMA WriteCallbackCounts == ResourceInv /\ fast_func_write => ResourceInv'
<1>1. SUFFICES ASSUME ResourceInv, fast_func_write PROVE ResourceInv'
  OBVIOUS
<1>2. /\ aioW # None /\ aioW' = None /\ fast_writing' = 2
      /\ UNCHANGED <<dir, copy_mode, next, caller, ret, mounts, pc, abort_copy, used_mem, r, w,
                     i_reading, error, fast_read, files_opened, aioR, leaked>>
  BY <1>1 DEF fast_func_write, driver, loop
<1>3. /\ Active /\ w \in 1 .. num /\ aioW.entry = w /\ aioW \in WriteRequests
      /\ W.writed >= 0 /\ fast_writing = 1
  BY <1>1, <1>2 DEF ResourceInv, OpenInv, OrderInv, Active
<1>4. W \in FileRecords /\ num \in Nat
  BY <1>1, <1>3, EntryOfW
<1> DEFINE g == [W EXCEPT !.writed = @ + aioW.size, !.giga_counter = @ + aioW.size]
           h == [W EXCEPT !.writed = -1]
<1>5. PICK f \in {g, h} : fast_files' = [fast_files EXCEPT ![w] = f]
  BY <1>1, <1>3 DEF fast_func_write, W
<1>6. aioW.size \in Nat /\ W.writed \in Nat /\ W.giga_counter \in Nat
  <2>1. aioW.size \in 1 .. Buf /\ Buf \in Nat
    BY <1>3, FastCopyAssumption DEF WriteRequests
  <2>2. W.writed \in Int /\ W.giga_counter \in Nat
    BY <1>4 DEF FileRecords
  <2> QED
    BY <1>3, <2>1, <2>2
<1>7. /\ g \in FileRecords /\ g.file = W.file /\ g.bigfile_mode = W.bigfile_mode
      /\ g.size_mem = W.size_mem /\ g.use_doublebuffer = W.use_doublebuffer
      /\ g.len = W.len /\ g.readed = W.readed /\ g.writed = W.writed + aioW.size
      /\ g.off_readed = W.off_readed /\ g.number_frag = W.number_frag
      /\ g.rfd = W.rfd /\ g.wfd = W.wfd /\ g.fl = W.fl /\ g.rsize = W.rsize
  <2>1. W.writed + aioW.size \in Int /\ W.giga_counter + aioW.size \in Nat
    BY <1>6
  <2>2. g \in FileRecords
    BY <1>4, <2>1, Zenon DEF FileRecords
  <2>3. g.use_doublebuffer = W.use_doublebuffer
    BY <1>4, Zenon DEF FileRecords
  <2>4. /\ g.file = W.file /\ g.bigfile_mode = W.bigfile_mode /\ g.size_mem = W.size_mem
        /\ g.len = W.len /\ g.readed = W.readed /\ g.writed = W.writed + aioW.size
        /\ g.off_readed = W.off_readed /\ g.number_frag = W.number_frag
        /\ g.rfd = W.rfd /\ g.wfd = W.wfd /\ g.fl = W.fl /\ g.rsize = W.rsize
    BY <1>4 DEF FileRecords
  <2> QED
    BY <2>2, <2>3, <2>4
<1>8. /\ h \in FileRecords /\ h.file = W.file /\ h.bigfile_mode = W.bigfile_mode
      /\ h.size_mem = W.size_mem /\ h.use_doublebuffer = W.use_doublebuffer
      /\ h.len = W.len /\ h.readed = W.readed /\ h.writed = -1
      /\ h.off_readed = W.off_readed /\ h.number_frag = W.number_frag
      /\ h.rfd = W.rfd /\ h.wfd = W.wfd /\ h.fl = W.fl /\ h.rsize = W.rsize
  <2>1. -1 \in Int
    OBVIOUS
  <2>2. h \in FileRecords
    BY <1>4, <2>1, Zenon DEF FileRecords
  <2>3. h.use_doublebuffer = W.use_doublebuffer
    BY <1>4, Zenon DEF FileRecords
  <2>4. /\ h.file = W.file /\ h.bigfile_mode = W.bigfile_mode /\ h.size_mem = W.size_mem
        /\ h.len = W.len /\ h.readed = W.readed /\ h.writed = -1
        /\ h.off_readed = W.off_readed /\ h.number_frag = W.number_frag
        /\ h.rfd = W.rfd /\ h.wfd = W.wfd /\ h.fl = W.fl /\ h.rsize = W.rsize
    BY <1>4 DEF FileRecords
  <2> QED
    BY <2>2, <2>3, <2>4
<1> HIDE DEF g, h
<1>9. /\ f \in FileRecords /\ f.file = W.file /\ f.bigfile_mode = W.bigfile_mode
      /\ f.size_mem = W.size_mem /\ f.use_doublebuffer = W.use_doublebuffer
      /\ f.len = W.len /\ f.readed = W.readed
      /\ f.off_readed = W.off_readed /\ f.number_frag = W.number_frag
      /\ f.rfd = W.rfd /\ f.wfd = W.wfd /\ f.fl = W.fl /\ f.rsize = W.rsize
      /\ f.writed \in {-1, W.writed + aioW.size}
  BY <1>5, <1>7, <1>8
<1>10. /\ BatchInv' /\ OrderInv' /\ Active' /\ W' = f /\ num' = num
       /\ Whole(W.file)' = Whole(W.file)
  <2>1. /\ ~Fresh(f) /\ pc' \in InProcess /\ (pc' = "fl2" => r' = w /\ f.fl = 3)
        /\ w' = w /\ r' \in {w, w + 1}
    BY <1>1, <1>2, <1>3, <1>9 DEF Active, Fresh, ResourceInv, OrderInv
  <2> QED
    BY <1>1, <1>2, <1>3, <1>5, <1>9, <2>1, ChangedW
<1>11. InFlight' = 0 /\ InFlight = aioW.size
  BY <1>2 DEF InFlight
<1>12. f.writed >= 0 => f.writed + InFlight' = W.writed + InFlight /\ W.writed >= 0
  BY <1>6, <1>9, <1>11
<1>13. OpenInv'
  <2>1. OpenOf(f) = OpenOf(W)
    BY <1>9 DEF OpenOf
  <2> QED
    BY <1>1, <1>2, <1>3, <1>9, <1>10, <2>1 DEF ResourceInv, OpenInv, ReadRequests
<1>14. ReadInv'
  <2>1. SUFFICES ASSUME pc # "cleanup" PROVE ReadInv'
    BY <1>2 DEF ReadInv
  <2>2. r = w => WhileReading
    BY <1>1, <1>3, <2>1 DEF ResourceInv, ReadInv
  <2>3. /\ Reading => Reading'
        /\ Ready' => Ready
        /\ ReadyInv => ReadyInv'
    BY <1>2, <1>9, <1>10, <1>12 DEF Reading, Ready, ReadyInv, Chunk
  <2>4. r = w => WhileReading'
    <3>1. r = w => W.use_doublebuffer
      BY <1>3, <2>2 DEF WhileReading
    <3> QED
      BY <1>2, <1>9, <1>10, <1>12, <2>2, <2>3, <3>1 DEF WhileReading
  <2> QED
    BY <1>1, <1>2, <1>3, <1>9, <1>10, <1>12, <2>1, <2>4 DEF ResourceInv, ReadInv, InFragments
<1>15. ScalarsInv' /\ ControlInv'
  BY <1>1, <1>2, <1>10 DEF ResourceInv, ScalarsInv, ControlInv
<1> QED
  BY <1>10, <1>13, <1>14, <1>15 DEF ResourceInv

\* The invariant of the batch, the flags and the requests.
THEOREM ResourceInvariant == Spec => []ResourceInv
<1>1. Init => ResourceInv
  BY ResourceInit
<1>2. ResourceInv /\ [Next]_vars => ResourceInv'
  <2>1. SUFFICES ASSUME ResourceInv, [Next]_vars PROVE ResourceInv'
    OBVIOUS
  <2>2. CASE fast_copy_async \/ Finish
    BY <2>1, <2>2, SettingUpCounts
  <2>3. CASE AddToFullBatch \/ fast_copy_add_fails \/ DirectoryRead
    BY <2>1, <2>3, CallCounts
  <2>4. CASE fast_copy_add
    BY <2>1, <2>4, AddCounts
  <2>5. CASE LoopTest
    BY <2>1, <2>5, LoopTestCounts
  <2>6. CASE OpenFiles
    BY <2>1, <2>6, OpenFilesCounts
  <2>7. CASE OpenFails
    BY <2>1, <2>7, OpenFailsCounts
  <2>8. CASE NothingToOpen \/ NoReadEnded \/ NoWriteEnded \/ Progress
    BY <2>1, <2>8, IdleStepsCount
  <2>9. CASE StartWriteFails
    BY <2>1, <2>9, StartWriteFailsCounts
  <2>10. CASE SingleBufferWrite
    BY <2>1, <2>10, SingleBufferWriteCounts
  <2>11. CASE DoubleBufferMore
    BY <2>1, <2>11, DoubleBufferMoreCounts
  <2>12. CASE DoubleBufferLast
    BY <2>1, <2>12, DoubleBufferLastCounts
  <2>13. CASE DoubleBufferJoin
    BY <2>1, <2>13, DoubleBufferJoinCounts
  <2>14. CASE SetFl2
    BY <2>1, <2>14, SetFl2Counts
  <2>15. CASE WriteFailed \/ ChunkWritten
    BY <2>1, <2>15, WriteEndedCounts
  <2>16. CASE FileCopied
    BY <2>1, <2>16, FileCopiedCounts
  <2>17. CASE NextPart
    BY <2>1, <2>17, NextPartCounts
  <2>18. CASE UserAborts
    BY <2>1, <2>18, UserAbortsCounts
  <2>19. CASE Cleanup
    BY <2>1, <2>19, CleanupCounts
  <2>20. CASE fast_func_read
    BY <2>1, <2>20, ReadCallbackCounts
  <2>21. CASE fast_func_write
    BY <2>1, <2>21, WriteCallbackCounts
  <2>22. CASE UNCHANGED vars
    <3>1. UNCHANGED <<dir, copy_mode, next, caller, ret, mounts, pc, abort_copy, fast_files,
                      used_mem, r, w, i_reading, error, fast_read, fast_writing, files_opened,
                      aioR, aioW, leaked>>
      BY <2>22 DEF vars, driver, batch, loop, flags, aio
    <3>2. /\ FileRecords' = FileRecords /\ Entries' = Entries /\ num' = num /\ W' = W
          /\ Active' = Active /\ Sizes' = Sizes /\ InFlight' = InFlight
          /\ Whole(W.file)' = Whole(W.file)
      BY <3>1 DEF FileRecords, Entries, ModeOf, Fresh, num, W, Active, Sizes, InFlight, Whole
    <3>3. BatchInv' /\ OrderInv'
      BY <2>1, <3>1, <3>2 DEF ResourceInv, BatchInv, OrderInv
    <3>4. OpenInv'
      BY <2>1, <3>1, <3>2 DEF ResourceInv, OpenInv, ReadRequests, WriteRequests
    <3>5. WhileReading' <=> WhileReading
      BY <3>1, <3>2 DEF WhileReading, Reading, Ready, ReadyInv
    <3>6. ReadInv'
      BY <2>1, <3>1, <3>2, <3>5 DEF ResourceInv, ReadInv
    <3>7. ScalarsInv' /\ ControlInv'
      BY <2>1, <3>1, <3>2 DEF ResourceInv, ScalarsInv, ControlInv
    <3> QED
      BY <3>3, <3>4, <3>6, <3>7 DEF ResourceInv
  <2> QED
    BY <2>1, <2>2, <2>3, <2>4, <2>5, <2>6, <2>7, <2>8, <2>9, <2>10, <2>11, <2>12, <2>13, <2>14,
       <2>15, <2>16, <2>17, <2>18, <2>19, <2>20, <2>21, <2>22 DEF Next, Main
<1> QED
  BY <1>1, <1>2, PTL DEF Spec

\* The directory stays, and the output has a place for each of its files.
LEMMA PlacesKept == Spec => [](DOMAIN disk = 1 .. Len(dir))
<1> DEFINE Inv == DOMAIN disk = 1 .. Len(dir)
<1>1. Init => Inv
  BY DEF Init
<1>2. Inv /\ [Next]_vars => Inv'
  <2>1. SUFFICES ASSUME Inv, [Next]_vars PROVE DOMAIN disk' = DOMAIN disk /\ dir' = dir
    OBVIOUS
  <2>2. CASE \/ fast_copy_async \/ Finish \/ AddToFullBatch \/ fast_copy_add_fails
             \/ DirectoryRead \/ LoopTest \/ OpenFails \/ NothingToOpen \/ NoReadEnded
             \/ NoWriteEnded \/ Progress \/ UserAborts \/ StartWriteFails
             \/ SingleBufferWrite \/ WriteFailed \/ ChunkWritten \/ FileCopied \/ Cleanup
             \/ fast_func_read \/ UNCHANGED vars
    BY <2>2
    DEF fast_copy_async, Finish, AddToFullBatch, fast_copy_add_fails, DirectoryRead, LoopTest,
        OpenFails, NothingToOpen, NoReadEnded, NoWriteEnded, Progress, UserAborts,
        StartWriteFails, SingleBufferWrite, WriteFailed, ChunkWritten, FileCopied, Cleanup,
        fast_func_read, vars, driver
  <2>3. CASE DoubleBufferMore \/ DoubleBufferLast \/ DoubleBufferJoin \/ SetFl2
    BY <2>3 DEF DoubleBufferMore, DoubleBufferLast, DoubleBufferJoin, SetFl2, driver
  <2>4. CASE fast_copy_add
    BY <2>4 DEF fast_copy_add
  <2>5. CASE OpenFiles \/ NextPart
    BY <2>5 DEF OpenFiles, NextPart, Create, driver
  <2>6. CASE fast_func_write
    BY <2>6 DEF fast_func_write, driver
  <2> QED
    BY <2>1, <2>2, <2>3, <2>4, <2>5, <2>6 DEF Next, Main
<1> QED
  BY <1>1, <1>2, PTL DEF Spec

\* The counts and the flags of fast_copy_add and fast_copy_process agree with
\* what is open, allocated and in flight.
THEOREM CountsAgree == Spec => []ResourcesAccounted
<1>1. ResourceInv /\ DOMAIN disk = 1 .. Len(dir) => ResourcesAccounted
  <2>1. SUFFICES ASSUME ResourceInv, DOMAIN disk = 1 .. Len(dir) PROVE ResourcesAccounted
    OBVIOUS
  <2>2. FcTypeOK
    <3>1. fast_files \in Seq(Entries)
      BY <2>1 DEF ResourceInv, BatchInv
    <3>2. Len(fast_files) <= MaxFiles /\ used_mem \in Nat
      BY <2>1 DEF ResourceInv, BatchInv, num
    <3>3. \A i \in 1 .. Len(fast_files) : fast_files[i] \in FileRecords
      <4>1. \A i \in 1 .. Len(fast_files) : fast_files[i] \in Entries
        BY <3>1
      <4> QED
        BY <4>1 DEF Entries
    <3>4. r \in 1 .. Len(fast_files) + 1 /\ w \in 1 .. Len(fast_files) + 1
      BY <2>1 DEF ResourceInv, OrderInv, num
    <3>5. aioR.size \in -1 .. Buf /\ aioW.size \in -1 .. Buf
      <4>1. Buf \in Nat
        BY FastCopyAssumption
      <4>2. None.size \in -1 .. Buf
        BY <4>1 DEF None
      <4>3. aioR # None => aioR.size \in 1 .. Buf
        BY <2>1 DEF ResourceInv, OpenInv, ReadRequests
      <4>4. aioW # None => aioW.size \in 1 .. Buf
        BY <2>1 DEF ResourceInv, OpenInv, WriteRequests
      <4> QED
        BY <4>1, <4>2, <4>3, <4>4
    <3>6. files_opened \in 0 .. 2
      <4>1. Active => w \in 1 .. num /\ leaked = 0
        BY <2>1 DEF ResourceInv, OrderInv, OpenInv, ScalarsInv, Active
      <4>2. Active => OpenOf(W) \in 0 .. 2
        BY <2>1, <4>1, OpenFilesCounted DEF W
      <4>3. files_opened = leaked + (IF Active THEN OpenOf(W) ELSE 0) /\ leaked \in 0 .. 1
        BY <2>1 DEF ResourceInv, OpenInv, ScalarsInv
      <4> QED
        BY <4>1, <4>2, <4>3
    <3> QED
      BY <2>1, <3>2, <3>3, <3>4, <3>5, <3>6 DEF ResourceInv, ScalarsInv, FcTypeOK
  <2>3. FilesAccounted
    <3>1. files_opened = leaked + Sum([i \in 1 .. num |-> OpenOf(fast_files[i])])
      BY <2>1, OpenFilesCounted DEF ResourceInv, OpenInv
    <3>2. pc = "done" => files_opened = leaked /\ (leaked > 0 => ret)
      <4>1. pc = "done" => ~Active /\ leaked + 0 = leaked
        BY <2>1 DEF ResourceInv, OrderInv, InProcess, Turn, ScalarsInv
      <4> QED
        BY <2>1, <4>1 DEF ResourceInv, OpenInv, ControlInv
    <3> QED
      BY <3>1, <3>2 DEF FilesAccounted
  <2>4. RequestsKeepTheirFiles
    <3>1. aioR # None => /\ aioR.entry <= num
                         /\ fast_files[aioR.entry].rfd = aioR.frag
      BY <2>1 DEF ResourceInv, OpenInv, Active, W
    <3>2. aioW # None => /\ aioW.entry <= num
                         /\ fast_files[aioW.entry].wfd = aioW.part
      BY <2>1 DEF ResourceInv, OpenInv, Active, W
    <3>3. aioR # None /\ aioW # None => aioR.entry = aioW.entry /\ aioW.buffer = "mem2"
      BY <2>1 DEF ResourceInv, OpenInv
    <3> QED
      BY <3>1, <3>2, <3>3 DEF RequestsKeepTheirFiles
  <2>5. MemoryBounded
    BY <2>1 DEF ResourceInv, BatchInv, Sizes, MemoryBounded
  <2> QED
    BY <2>2, <2>3, <2>4, <2>5 DEF ResourcesAccounted
<1> QED
  BY <1>1, ResourceInvariant, PlacesKept, PTL

\* The buffers are freed only when nothing is in flight.
THEOREM QuietWhenBuffersAreFreed == Spec => QuietWhenFreed
<1> DEFINE Quiet == fast_files # <<>> /\ fast_files' = <<>> => aioR' = None /\ aioW' = None
<1>1. ResourceInv /\ [Next]_vars => [Quiet]_vars
  <2>1. SUFFICES ASSUME ResourceInv, Next, fast_files # <<>>, fast_files' = <<>>
                 PROVE  aioR' = None /\ aioW' = None
    OBVIOUS
  <2>2. fast_files \in Seq(Entries) /\ DOMAIN fast_files' # DOMAIN fast_files
    <3>1. fast_files \in Seq(Entries)
      BY <2>1 DEF ResourceInv, BatchInv
    <3>2. Len(fast_files) \in Nat \ {0} /\ DOMAIN fast_files = 1 .. Len(fast_files)
      BY <2>1, <3>1
    <3>3. 1 \in DOMAIN fast_files
      BY <3>2
    <3>4. DOMAIN <<>> = {}
      OBVIOUS
    <3> QED
      BY <2>1, <3>1, <3>3, <3>4
  <2>3. CASE Cleanup
    BY <2>1, <2>3 DEF Cleanup, CancelRead, CancelWrite, ResourceInv, OpenInv
  <2>4. CASE \/ fast_copy_async \/ Finish \/ AddToFullBatch \/ fast_copy_add_fails
             \/ DirectoryRead \/ LoopTest \/ OpenFails \/ NothingToOpen \/ NoReadEnded
             \/ NoWriteEnded \/ Progress \/ UserAborts \/ StartWriteFails
             \/ SingleBufferWrite \/ WriteFailed \/ ChunkWritten
    BY <2>1, <2>4
    DEF fast_copy_async, Finish, AddToFullBatch, fast_copy_add_fails, DirectoryRead, LoopTest,
        OpenFails, NothingToOpen, NoReadEnded, NoWriteEnded, Progress, UserAborts,
        StartWriteFails, SingleBufferWrite, WriteFailed, ChunkWritten, batch
  <2>5. CASE \/ DoubleBufferMore \/ DoubleBufferLast \/ DoubleBufferJoin \/ SetFl2
             \/ OpenFiles \/ NextPart \/ FileCopied \/ fast_func_read \/ fast_func_write
    BY <2>2, <2>5
    DEF DoubleBufferMore, DoubleBufferLast, DoubleBufferJoin, SetFl2, OpenFiles, NextPart,
        FileCopied, fast_func_read, fast_func_write
  <2>6. CASE fast_copy_add
    BY <2>1, <2>2, <2>6 DEF fast_copy_add, batch
  <2> QED
    BY <2>1, <2>3, <2>4, <2>5, <2>6 DEF Next, Main
<1>2. Spec => [][Quiet]_vars
  BY <1>1, ResourceInvariant, PTL DEF Spec
<1> QED
  BY <1>2 DEF QuietWhenFreed
-----------------------------------------------------------------------------
(* CopyInv. What moves on in the loop, or changes an entry, leaves most of *)
(* it alone.                                                               *)

\* Where a part begins.
LEMMA PartStarts ==
  /\ PartStart(1) = 0
  /\ \A p \in Nat : PartStart(p) \in Int /\ PartStart(p + 1) = PartStart(p) + Part
<1>1. Part \in Nat
  BY FastCopyAssumption
<1>2. PartStart(1) = 0
  BY <1>1 DEF PartStart
<1>3. ASSUME NEW p \in Nat
      PROVE  PartStart(p) \in Int /\ PartStart(p + 1) = PartStart(p) + Part
  BY <1>1 DEF PartStart
<1> QED
  BY <1>2, <1>3

\* A part is filled in steps of a buffer without a rest.
LEMMA StepsFit ==
  /\ 0 \in Steps
  /\ \A x \in Steps : x \in Nat /\ x + Buf \in Steps /\ (x < Part => x + Buf <= Part)
<1>1. Buf \in Nat \ {0} /\ Part \in Nat /\ Part % Buf = 0
  BY FastCopyAssumption
<1>2. 0 \in Steps
  <2>1. 0 * Buf = 0
    BY <1>1
  <2> QED
    BY <2>1 DEF Steps
<1>3. ASSUME NEW x \in Steps
      PROVE  x \in Nat /\ x + Buf \in Steps /\ (x < Part => x + Buf <= Part)
  <2>1. PICK m \in Nat : x = m * Buf
    BY DEF Steps
  <2>2. x \in Nat /\ x + Buf = (m + 1) * Buf /\ m + 1 \in Nat
    BY <1>1, <2>1
  <2>3. x + Buf \in Steps
    BY <2>2 DEF Steps
  <2>4. x < Part => x + Buf <= Part
    <3> DEFINE q == Part \div Buf
    <3>1. q \in Nat /\ Part = q * Buf
      BY <1>1
    <3> HIDE DEF q
    <3>2. SUFFICES ASSUME m * Buf < q * Buf PROVE (m + 1) * Buf <= q * Buf
      BY <2>1, <2>2, <3>1
    <3>3. m < q
      <4>1. q <= m => q * Buf <= m * Buf
        BY <1>1, <3>1
      <4> QED
        BY <1>1, <3>1, <3>2, <4>1
    <3>4. m + 1 <= q
      BY <3>1, <3>3
    <3> QED
      BY <1>1, <2>2, <3>1, <3>4
  <2> QED
    BY <2>2, <2>3, <2>4
<1> QED
  BY <1>2, <1>3

\* The disk is as true as before when only the entries or the places in the
\* batch change, and no file becomes fresh or is passed over.
LEMMA DiskStays ==
  ASSUME DiskInv, UNCHANGED <<dir, copy_mode, next, disk>>, ret => ret', num' = num,
         \A i \in 1 .. num : /\ fast_files'[i].file = fast_files[i].file
                             /\ Fresh(fast_files'[i]) => Fresh(fast_files[i])
                             /\ i < w' => \/ i < w
                                          \/ disk[fast_files[i].file]
                                               \in CompleteCopies(fast_files[i].file)
  PROVE  DiskInv'
<1>1. \A k : TrueCopies(k)' = TrueCopies(k) /\ CompleteCopies(k)' = CompleteCopies(k)
  BY DEF TrueCopies, CompleteCopies, Whole
<1>2. InBatch' = InBatch
  BY DEF InBatch
<1>3. \A i \in 1 .. num : Fresh(fast_files[i])' <=> Fresh(fast_files'[i])
  BY DEF Fresh
<1>4. /\ disk' \in [1 .. Len(dir') -> Seq(Seq(Nat))]
      /\ \A k \in 1 .. Len(dir') : disk'[k] \in TrueCopies(k)'
      /\ \A k \in next' .. Len(dir') : disk'[k] = <<>>
  BY <1>1 DEF DiskInv
<1>5. \A i \in 1 .. num' : Fresh(fast_files[i])' => disk'[fast_files'[i].file] = <<>>
  BY <1>3 DEF DiskInv
<1>6. \A i \in 1 .. num' :
        i < w' => disk'[fast_files'[i].file] \in CompleteCopies(fast_files[i].file)'
  <2>1. TAKE i \in 1 .. num'
  <2>2. CompleteCopies(fast_files[i].file)' = CompleteCopies(fast_files[i].file)
    BY <1>1 DEF CompleteCopies, Whole
  <2> QED
    BY <2>2 DEF DiskInv
<1>7. ~ret' => \A k \in 1 .. next' - 1 : k \in InBatch' \/ disk'[k] \in CompleteCopies(k)'
  BY <1>1, <1>2 DEF DiskInv
<1> QED
  BY <1>4, <1>5, <1>6, <1>7 DEF DiskInv

\* Steps that change no entry, no request and nothing on the disk.
LEMMA NothingCopied ==
  ASSUME CopyInv, UNCHANGED <<dir, copy_mode, next, fast_files, r, w, aioR, aioW, disk>>,
         ret => ret', pc' = "cleanup" \/ pc \notin {"fl2", "cleanup"},
         \/ fast_writing' = fast_writing
         \/ pc' = "cleanup" \/ (Active /\ W.bigfile_mode = 1 => W.giga_counter < Part)
  PROVE  CopyInv'
<1>1. /\ num' = num /\ W' = W /\ Active' = Active /\ InFlight' = InFlight /\ LastPart' = LastPart
      /\ WriteBuffer' = WriteBuffer /\ Steps' = Steps
  BY DEF num, W, Active, InFlight, LastPart, WriteBuffer, Steps
<1>2. pc' # "cleanup" => (Ready' => Ready) /\ pc # "cleanup"
  <2>1. pc' # "cleanup" => pc \notin {"fl2", "cleanup"}
    OBVIOUS
  <2> QED
    BY <1>1, <2>1 DEF Ready
<1>3. Active /\ W.bigfile_mode = 1 /\ SplitInv => SplitInv'
  <2>1. SUFFICES ASSUME Active, W.bigfile_mode = 1, SplitInv PROVE SplitInv'
    OBVIOUS
  <2>2. fast_writing' = fast_writing \/ pc' = "cleanup" \/ W.giga_counter < Part
    BY <2>1
  <2> QED
    BY <1>1, <1>2, <2>1, <2>2 DEF SplitInv
<1>4. PartsInv'
  BY <1>1, <1>3 DEF CopyInv, PartsInv, PartStart
<1>5. BufferInv'
  BY <1>1, <1>2 DEF CopyInv, BufferInv, Sum, Sums
<1>6. DiskInv'
  BY <1>1, DiskStays DEF CopyInv
<1> QED
  BY <1>4, <1>5, <1>6 DEF CopyInv

LEMMA LoopCopiesNothing ==
  ASSUME ResourceInv, CopyInv,
         \/ fast_copy_async \/ Finish \/ AddToFullBatch \/ fast_copy_add_fails
         \/ DirectoryRead \/ LoopTest \/ OpenFails \/ NothingToOpen \/ NoReadEnded
         \/ NoWriteEnded \/ Progress \/ UserAborts \/ StartWriteFails
         \/ WriteFailed \/ ChunkWritten
  PROVE  CopyInv'
<1>1. /\ pc \notin {"fl2", "cleanup"}
      /\ UNCHANGED <<dir, copy_mode, next, fast_files, aioR, aioW, disk>>
      /\ ret => ret'
      /\ fast_writing' = fast_writing \/ pc' = "cleanup" \/ ~PartFull(W)
  <2>1. CASE fast_copy_async \/ Finish
    BY <2>1 DEF fast_copy_async, Finish, batch, flags, aio
  <2>2. CASE AddToFullBatch \/ fast_copy_add_fails \/ DirectoryRead
    BY <2>2 DEF AddToFullBatch, fast_copy_add_fails, DirectoryRead, Call_fast_copy_process, batch,
                flags, aio
  <2>3. CASE LoopTest \/ NothingToOpen \/ NoReadEnded \/ NoWriteEnded \/ Progress \/ UserAborts
    BY <2>3 DEF LoopTest, NothingToOpen, NoReadEnded, NoWriteEnded, Progress, UserAborts,
                driver, batch, flags, aio
  <2>4. CASE OpenFails \/ StartWriteFails \/ WriteFailed \/ ChunkWritten
    BY <2>4 DEF OpenFails, StartWriteFails, WriteFailed, ChunkWritten, WriteEnded, Break,
                driver, batch, flags, aio
  <2> QED
    BY <2>1, <2>2, <2>3, <2>4
<1>2. \/ fast_writing' = fast_writing
      \/ pc' = "cleanup" \/ (Active /\ W.bigfile_mode = 1 => W.giga_counter < Part)
  <2>1. Active => W.giga_counter \in Nat /\ Part \in Nat
    <3>1. Active => w \in 1 .. num
      BY DEF ResourceInv, OrderInv, Active
    <3>2. Active => W \in FileRecords /\ Part \in Nat
      BY <3>1, EntryOfW, FastCopyAssumption
    <3> QED
      BY <3>2 DEF FileRecords
  <2> QED
    BY <1>1, <2>1 DEF PartFull
<1>3. r' = r /\ w' = w
  <2>1. CASE AddToFullBatch \/ fast_copy_add_fails \/ DirectoryRead
    <3>1. pc = "add" /\ r' = 1 /\ w' = 1
      BY <2>1 DEF AddToFullBatch, fast_copy_add_fails, DirectoryRead, Call_fast_copy_process
    <3> QED
      BY <3>1 DEF ResourceInv, OrderInv, InProcess, Turn
  <2>2. CASE StartWriteFails
    BY <2>2, ChunkReady DEF StartWriteFails
  <2>3. CASE \/ fast_copy_async \/ Finish \/ LoopTest \/ OpenFails \/ NothingToOpen \/ NoReadEnded
             \/ NoWriteEnded \/ Progress \/ UserAborts \/ WriteFailed \/ ChunkWritten
    BY <2>3 DEF fast_copy_async, Finish, LoopTest, OpenFails, NothingToOpen, NoReadEnded,
                NoWriteEnded, Progress, UserAborts, WriteFailed, ChunkWritten, loop
  <2> QED
    BY <2>1, <2>2, <2>3
<1> QED
  BY <1>1, <1>2, <1>3, NothingCopied

\* SetFl2 changes nothing that is copied.
LEMMA SetFl2Copies == ResourceInv /\ CopyInv /\ SetFl2 => CopyInv'
<1>1. SUFFICES ASSUME ResourceInv, CopyInv, SetFl2 PROVE CopyInv'
  OBVIOUS
<1> DEFINE f == [W EXCEPT !.fl = 2]
<1>2. /\ r = w /\ Active /\ w \in 1 .. num /\ W.fl = 3 /\ W \in FileRecords /\ num \in Nat
      /\ fast_files \in Seq(Entries)
  <2>1. pc = "fl2"
    BY <1>1 DEF SetFl2
  <2>2. r = w /\ Active /\ w \in 1 .. num /\ W.fl = 3
    BY <1>1, <2>1 DEF ResourceInv, OrderInv, Active
  <2> QED
    BY <1>1, <2>2, EntryOfW DEF ResourceInv, BatchInv
<1>3. /\ fast_files' = [fast_files EXCEPT ![w] = f] /\ pc = "fl2" /\ pc' = "writeEnd"
      /\ UNCHANGED <<dir, copy_mode, next, ret, r, w, fast_writing, aioR, aioW, disk>>
  BY <1>1, <1>2 DEF SetFl2, W, driver, loop, flags, aio
<1>4. /\ f.file = W.file /\ f.bigfile_mode = W.bigfile_mode /\ f.writed = W.writed
      /\ f.giga_counter = W.giga_counter /\ f.number_frag = W.number_frag /\ f.wfd = W.wfd
      /\ f.mem = W.mem /\ f.mem2 = W.mem2 /\ f.fl = 2
  BY <1>2 DEF FileRecords
<1>5. f.use_doublebuffer = W.use_doublebuffer
  BY <1>2, Zenon DEF FileRecords
<1> HIDE DEF f
<1>6. /\ num' = num /\ W' = f /\ \A i \in 1 .. num : i # w => fast_files'[i] = fast_files[i]
  BY <1>2, <1>3 DEF num, W
<1>7. /\ InFlight' = InFlight /\ LastPart' = LastPart /\ WriteBuffer' = WriteBuffer
      /\ Steps' = Steps /\ ~Ready'
  BY <1>3, <1>4, <1>5, <1>6 DEF InFlight, LastPart, WriteBuffer, Steps, Ready
<1>8. PartsInv'
  BY <1>1, <1>2, <1>3, <1>4, <1>6, <1>7 DEF CopyInv, PartsInv, SplitInv, PartStart
<1>9. BufferInv'
  <2>1. Sum(dir[W.file])' = Sum(dir[W.file])
    BY <1>3, <1>4, <1>6
  <2> QED
    BY <1>1, <1>3, <1>4, <1>6, <1>7, <2>1 DEF CopyInv, BufferInv
<1>10. DiskInv'
  <2>1. \A i \in 1 .. num : /\ fast_files'[i].file = fast_files[i].file
                            /\ Fresh(fast_files'[i]) => Fresh(fast_files[i])
    <3>1. TAKE i \in 1 .. num
    <3>2. CASE i = w
      <4>1. fast_files'[i] = f /\ fast_files[i] = W
        BY <1>2, <1>3, <3>2 DEF W, num
      <4> QED
        BY <1>4, <4>1 DEF Fresh
    <3>3. CASE i # w
      BY <1>6, <3>1, <3>3 DEF Fresh
    <3> QED
      BY <3>2, <3>3
  <2> QED
    BY <1>1, <1>3, <1>6, <2>1, DiskStays DEF CopyInv
<1> QED
  BY <1>8, <1>9, <1>10 DEF CopyInv

\* Steps that put something else in the output of the file of w.
LEMMA DiskChanged ==
  ASSUME ResourceInv, CopyInv, w \in 1 .. num, NEW f, f.file = W.file, ~Fresh(f),
         fast_files' = [fast_files EXCEPT ![w] = f], num' = num,
         UNCHANGED <<dir, copy_mode, next, w, ret>>,
         NEW s \in TrueCopies(W.file), disk' = [disk EXCEPT ![W.file] = s]
  PROVE  DiskInv'
<1>1. /\ W \in Entries /\ W.file \in 1 .. Len(dir) /\ num \in Nat
      /\ fast_files \in Seq(Entries) /\ W.file < next /\ next \in Int
  BY EntryOfW DEF ResourceInv, BatchInv, ScalarsInv, Entries
<1>2. DiskInv
  BY DEF CopyInv
<1>3. /\ fast_files'[w] = f
      /\ \A i \in 1 .. num : i # w => fast_files'[i] = fast_files[i]
      /\ \A i \in 1 .. num : fast_files'[i].file = fast_files[i].file
  BY <1>1 DEF num, W
<1>a. \A i \in 1 .. num : fast_files[i].file \in 1 .. Len(dir)
  <2>1. TAKE i \in 1 .. num
  <2>2. fast_files[i] \in Entries
    BY <1>1 DEF num
  <2>3. fast_files[i] \in FileRecords
    BY <2>2 DEF Entries
  <2> QED
    BY <2>3 DEF FileRecords
<1>4. \A i \in 1 .. num : i # w => fast_files[i].file # W.file
  <2>1. TAKE i \in 1 .. num
  <2>2. i < w \/ i = w \/ i > w
    BY <1>1
  <2>3. fast_files[i].file \in Int /\ W.file \in Int
    BY SMTT(30), <1>1 DEF num, W, Entries, FileRecords
  <2>4. /\ i < w => fast_files[i].file < fast_files[w].file
        /\ w < i => fast_files[w].file < fast_files[i].file
    BY DEF ResourceInv, BatchInv
  <2> QED
    BY <2>2, <2>3, <2>4 DEF W
<1>5. /\ disk \in [1 .. Len(dir) -> Seq(Seq(Nat))] /\ disk'[W.file] = s
      /\ \A k \in 1 .. Len(dir) : k # W.file => disk'[k] = disk[k]
      /\ disk' \in [1 .. Len(dir) -> Seq(Seq(Nat))]
  BY <1>1, <1>2 DEF DiskInv, TrueCopies
<1>6. \A k : TrueCopies(k)' = TrueCopies(k) /\ CompleteCopies(k)' = CompleteCopies(k)
  BY DEF TrueCopies, CompleteCopies, Whole
<1>7. InBatch' = InBatch /\ W.file \in InBatch
  BY <1>3 DEF InBatch, W
<1>8. \A k \in 1 .. Len(dir') : disk'[k] \in TrueCopies(k)'
  BY <1>2, <1>5, <1>6 DEF DiskInv
<1>9. \A i \in 1 .. num' : Fresh(fast_files[i])' => disk'[fast_files'[i].file] = <<>>
  <2>1. TAKE i \in 1 .. num'
  <2>2. Fresh(fast_files[i])' <=> Fresh(fast_files'[i])
    BY DEF Fresh
  <2>3. fast_files[i].file \in 1 .. Len(dir) /\ i \in 1 .. num
    BY <1>a
  <2> QED
    BY <1>2, <1>3, <1>4, <1>5, <2>2, <2>3 DEF DiskInv
<1>10. \A i \in 1 .. num' :
         i < w' => disk'[fast_files'[i].file] \in CompleteCopies(fast_files[i].file)'
  <2>1. TAKE i \in 1 .. num'
  <2>2. CompleteCopies(fast_files[i].file)' = CompleteCopies(fast_files[i].file)
    BY <1>3 DEF CompleteCopies, Whole
  <2>3. fast_files[i].file \in 1 .. Len(dir) /\ i \in 1 .. num
    BY <1>a
  <2>4. i < w => i # w
    BY <1>1
  <2> QED
    BY <1>2, <1>3, <1>4, <1>5, <2>2, <2>3, <2>4 DEF DiskInv
<1>11. \A k \in next' .. Len(dir') : disk'[k] = <<>>
  <2>1. TAKE k \in next' .. Len(dir')
  <2>2. k \in 1 .. Len(dir) /\ k # W.file /\ k \in next .. Len(dir)
    BY <1>1 DEF ResourceInv, ScalarsInv
  <2> QED
    BY <1>2, <1>5, <2>2 DEF DiskInv
<1>12. ~ret' => \A k \in 1 .. next' - 1 : k \in InBatch' \/ disk'[k] \in CompleteCopies(k)'
  <2>1. SUFFICES ASSUME ~ret, NEW k \in 1 .. next - 1, k \notin InBatch
                 PROVE  disk'[k] \in CompleteCopies(k)
    BY <1>6, <1>7
  <2>2. k \in 1 .. Len(dir) /\ k # W.file
    BY <1>1, <1>7, <2>1 DEF ResourceInv, ScalarsInv
  <2> QED
    BY <1>2, <1>5, <2>1, <2>2 DEF DiskInv
<1> QED
  BY <1>5, <1>8, <1>9, <1>10, <1>11, <1>12 DEF DiskInv

\* Steps that change the entry of w and nothing on the disk.
LEMMA EntryChanged ==
  ASSUME ResourceInv, CopyInv, w \in 1 .. num, NEW f, f.file = W.file, ~Fresh(f),
         fast_files' = [fast_files EXCEPT ![w] = f],
         UNCHANGED <<dir, copy_mode, next, w, ret, disk>>
  PROVE  DiskInv' /\ W' = f /\ num' = num
<1>1. fast_files \in Seq(Entries) /\ num \in Nat
  BY EntryOfW DEF ResourceInv, BatchInv
<1>2. /\ num' = num /\ W' = f
      /\ \A i \in 1 .. num : i # w => fast_files'[i] = fast_files[i]
  BY <1>1 DEF num, W
<1>3. \A i \in 1 .. num : /\ fast_files'[i].file = fast_files[i].file
                          /\ Fresh(fast_files'[i]) => Fresh(fast_files[i])
  <2>1. TAKE i \in 1 .. num
  <2>2. CASE i = w
    <3>1. fast_files'[i] = f /\ fast_files[i] = W
      BY <1>1, <2>2 DEF W, num
    <3> QED
      BY <3>1
  <2>3. CASE i # w
    BY <1>2, <2>1, <2>3 DEF Fresh
  <2> QED
    BY <2>2, <2>3
<1>4. DiskInv'
  BY <1>2, <1>3, DiskStays DEF CopyInv
<1> QED
  BY <1>2, <1>4

\* An output that is begun is true.
LEMMA BegunIsTrue ==
  ASSUME dir \in Dirs, NEW k \in 1 .. Len(dir)
  PROVE  << <<>> >> \in TrueCopies(k) /\ CopiedOf(<< <<>> >>) = 0 /\ Len(<< <<>> >>) = 1
<1>1. << <<>> >> \in Seq(Seq(Nat)) /\ << <<>> >> # <<>> /\ Len(<< <<>> >>) = 1
  OBVIOUS
<1>2. PartStart(1) = 0 /\ Part \in Nat /\ Sum(dir[k]) \in Nat
  BY PartStarts, FileFacts, FastCopyAssumption
<1>3. Len(<< <<>> >>[1]) = 0 /\ << <<>> >>[1] = <<>>
  OBVIOUS
<1>4. CopiedOf(<< <<>> >>) = 0
  BY <1>1, <1>2, <1>3 DEF CopiedOf
<1>5. << <<>> >> \in TrueCopies(k)
  <2> DEFINE s == << <<>> >>
  <2>1. s \in Seq(Seq(Nat)) /\ Len(s) = 1 /\ Len(s[1]) = 0 /\ CopiedOf(s) = 0
    BY <1>1, <1>3, <1>4
  <2> HIDE DEF s
  <2>2. /\ \A p \in 1 .. Len(s) : \A i \in 1 .. Len(s[p]) : s[p][i] = PartStart(p) + i
        /\ \A p \in 1 .. Len(s) - 1 : Len(s[p]) = Part
        /\ CopiedOf(s) <= Sum(dir[k])
        /\ \A p \in 1 .. Len(s) : Len(s[p]) <= Part
    BY <1>2, <2>1
  <2>3. s \in TrueCopies(k)
    BY <2>1, <2>2 DEF TrueCopies
  <2> QED
    BY <2>3 DEF s
<1> QED
  BY <1>1, <1>4, <1>5

\* A file is opened: its output is begun.
LEMMA OpenFilesCopies == ResourceInv /\ CopyInv /\ OpenFiles => CopyInv'
<1>1. SUFFICES ASSUME ResourceInv, CopyInv, OpenFiles PROVE CopyInv'
  OBVIOUS
<1> DEFINE f == [R EXCEPT !.rfd = 1, !.wfd = 1, !.fl = 2, !.roffset = 0,
                          !.rsize = Chunk(R, R.len, 0)]
<1>2. /\ pc = "open" /\ MayOpen
      /\ fast_files' = [fast_files EXCEPT ![r] = f] /\ Create(R, 1)
      /\ UNCHANGED <<dir, copy_mode, next, ret, r, w, fast_writing, aioW>>
  BY <1>1 DEF OpenFiles, driver
<1>3. /\ ~Active /\ r = w /\ w \in 1 .. num /\ Fresh(W) /\ R = W
      /\ aioW = None /\ fast_writing = 0
  BY <1>1, <1>2, NoneOpen
<1>4. W \in Entries /\ W \in FileRecords /\ W.file \in 1 .. Len(dir) /\ num \in Nat /\ dir \in Dirs
  BY <1>1, <1>3, EntryOfW
<1>5. W.writed = 0 /\ W.giga_counter = 0 /\ W.number_frag = 0
  BY <1>3, <1>4 DEF Entries
<1>6. /\ f.file = W.file /\ f.bigfile_mode = W.bigfile_mode /\ f.writed = 0
      /\ f.giga_counter = 0 /\ f.number_frag = 0 /\ f.wfd = 1 /\ f.fl = 2
  BY <1>3, <1>4, <1>5 DEF FileRecords
<1> HIDE DEF f
<1>7. disk \in [1 .. Len(dir) -> Seq(Seq(Nat))] /\ disk[W.file] = <<>>
  BY <1>1, <1>3 DEF CopyInv, DiskInv, W
<1>8. /\ << <<>> >> \in TrueCopies(W.file) /\ disk' = [disk EXCEPT ![W.file] = << <<>> >>]
      /\ disk'[W.file] = << <<>> >>
  <2>1. << <<>> >> \in TrueCopies(W.file)
    BY <1>4, BegunIsTrue
  <2>2. disk' = [disk EXCEPT ![W.file] = Append(SubSeq(disk[W.file], 1, 1 - 1), <<>>)]
    BY <1>2, <1>3 DEF Create
  <2>3. Append(SubSeq(disk[W.file], 1, 1 - 1), <<>>) = << <<>> >>
    <3>1. SubSeq(<<>>, 1, 1 - 1) = <<>>
      <4>1. <<>> \in Seq(Seq(Nat)) /\ Len(<<>>) = 0 /\ 1 - 1 = 0
        OBVIOUS
      <4> QED
        BY <4>1
    <3>2. Append(<<>>, <<>>) = << <<>> >>
      OBVIOUS
    <3> QED
      BY <1>7, <3>1, <3>2
  <2> QED
    BY <1>4, <1>7, <2>1, <2>2, <2>3
<1>9. num' = num /\ W' = f
  <2>1. fast_files \in Seq(Entries)
    BY <1>1 DEF ResourceInv, BatchInv
  <2> QED
    BY <1>2, <1>3, <2>1 DEF num, W
<1>10. DiskInv'
  <2>1. ~Fresh(f)
    BY <1>6 DEF Fresh
  <2> QED
    BY <1>1, <1>2, <1>3, <1>6, <1>8, <1>9, <2>1, DiskChanged
<1>11. PartsInv'
  <2>1. LastPart' = <<>> /\ Len(disk'[f.file]) = 1 /\ Len(<<>>) = 0
    <3>1. << <<>> >>[1] = <<>> /\ Len(<< <<>> >>) = 1
      OBVIOUS
    <3> QED
      BY <1>6, <1>8, <1>9, <3>1 DEF LastPart
  <2>2. InFlight' = 0
    BY <1>2, <1>3 DEF InFlight
  <2>3. PartStart(1)' = 0 /\ 0 \in Steps' /\ Part \in Nat \ {0}
    BY PartStarts, StepsFit, FastCopyAssumption DEF PartStart, Steps
  <2>4. SplitInv'
    BY <1>6, <1>9, <2>1, <2>2, <2>3 DEF SplitInv
  <2>5. PartStart(W.wfd)' = 0
    BY <1>6, <1>9, <2>3 DEF PartStart
  <2>6. Len(LastPart') = 0 /\ f.writed = PartStart(W.wfd)' + Len(LastPart')
    BY <1>6, <2>1, <2>5
  <2>7. f.wfd = Len(disk'[f.file]) /\ f.wfd >= 1 /\ f.wfd = 1
    BY <1>6, <2>1
  <2> QED
    BY <1>9, <2>4, <2>6, <2>7 DEF PartsInv
<1>12. BufferInv'
  BY <1>2, <1>3, <1>6, <1>9 DEF BufferInv, Ready
<1> QED
  BY <1>10, <1>11, <1>12 DEF CopyInv

\* A part is full and the next one begun, or it cannot be.
LEMMA NextPartCopies == ResourceInv /\ CopyInv /\ NextPart => CopyInv'
<1>1. SUFFICES ASSUME ResourceInv, CopyInv, NextPart PROVE CopyInv'
  OBVIOUS
<1>2. /\ pc = "writeEnd" /\ fast_writing = 2 /\ fast_writing' = 0 /\ ~ (W.writed < 0)
      /\ W.bigfile_mode = 1 /\ W.giga_counter >= Part
      /\ UNCHANGED <<dir, copy_mode, next, ret, r, w, aioR, aioW>>
  BY <1>1 DEF NextPart, WriteEnded, WriteError, PartFull, driver, aio
<1>3. Active /\ w \in 1 .. num /\ aioW = None
  BY <1>1, <1>2 DEF ResourceInv, OpenInv, OrderInv, Active
<1>4. /\ W \in Entries /\ W \in FileRecords /\ W.file \in 1 .. Len(dir) /\ num \in Nat
      /\ dir \in Dirs
  BY <1>1, <1>3, EntryOfW
<1>5. /\ W.wfd # Closed /\ W.wfd = Len(disk[W.file]) /\ W.wfd >= 1 /\ SplitInv
      /\ W.writed = PartStart(W.wfd) + Len(LastPart)
  <2>1. W.wfd # Closed
    BY <1>1, <1>2, <1>3 DEF ResourceInv, ReadInv
  <2>2. W.writed >= 0
    BY SMTT(30), <1>2, <1>4 DEF FileRecords
  <2> QED
    BY <1>1, <1>2, <1>3, <2>1, <2>2 DEF CopyInv, PartsInv
<1>6. /\ W.number_frag = W.wfd - 1 /\ W.giga_counter = Len(LastPart) /\ InFlight = 0
      /\ W.giga_counter = Part
  <2>1. InFlight = 0
    BY <1>3 DEF InFlight
  <2>2. W.giga_counter \in Nat /\ Part \in Nat
    BY <1>4, FastCopyAssumption DEF FileRecords
  <2> QED
    BY <1>2, <1>5, <2>1, <2>2 DEF SplitInv
<1> DEFINE d == disk[W.file]
           n == W.wfd
<1>7. d \in TrueCopies(W.file) /\ n = Len(d) /\ n \in Nat /\ n >= 1 /\ Len(d[n]) = Part
  <2>1. d \in TrueCopies(W.file)
    BY <1>1, <1>4 DEF CopyInv, DiskInv
  <2>2. d \in Seq(Seq(Nat))
    BY <2>1 DEF TrueCopies
  <2>3. Len(d) \in Nat
    BY <2>2
  <2> QED
    BY <1>5, <1>6, <2>1, <2>3 DEF LastPart
<1>8. \/ /\ fast_files' = [fast_files EXCEPT ![w] =
              [[W EXCEPT !.giga_counter = 0, !.number_frag = @ + 1] EXCEPT !.wfd = n + 1]]
         /\ Create(W, n + 1) /\ pc' = "progress"
      \/ /\ fast_files' = [fast_files EXCEPT ![w] =
              [[W EXCEPT !.giga_counter = 0, !.number_frag = @ + 1] EXCEPT !.wfd = Closed]]
         /\ disk' = disk /\ pc' = "cleanup"
  <2> DEFINE g == [W EXCEPT !.giga_counter = 0, !.number_frag = @ + 1]
  <2>1. g.number_frag + 1 = n + 1
    <3>1. g.number_frag = W.number_frag + 1
      BY <1>4 DEF FileRecords
    <3> QED
      BY <1>6, <1>7, <3>1
  <2> QED
    BY <1>1, <2>1 DEF NextPart, Break
<1> DEFINE h(wfd) == [[W EXCEPT !.giga_counter = 0, !.number_frag = @ + 1] EXCEPT !.wfd = wfd]
<1>9. ASSUME NEW wfd
      PROVE  /\ h(wfd).file = W.file /\ h(wfd).bigfile_mode = W.bigfile_mode
             /\ h(wfd).fl = W.fl /\ h(wfd).writed = W.writed /\ h(wfd).readed = W.readed
             /\ h(wfd).rsize = W.rsize /\ h(wfd).mem = W.mem /\ h(wfd).wfd = wfd
             /\ h(wfd).giga_counter = 0 /\ h(wfd).number_frag = W.number_frag + 1
  BY <1>4 DEF FileRecords
<1> HIDE DEF h
<1>10. \A wfd : ~Fresh(h(wfd))
  BY <1>3, <1>9 DEF Active, Fresh
<1>11. CASE /\ fast_files' = [fast_files EXCEPT ![w] = h(Closed)]
            /\ disk' = disk /\ pc' = "cleanup"
  <2> DEFINE f == h(Closed)
  <2>1. f.file = W.file /\ ~Fresh(f) /\ f.wfd = Closed
    BY <1>9, <1>10
  <2> HIDE DEF f
  <2>2. fast_files' = [fast_files EXCEPT ![w] = f]
    BY <1>11 DEF f
  <2>3. DiskInv' /\ W' = f
    BY <1>1, <1>2, <1>3, <1>11, <2>1, <2>2, EntryChanged
  <2>4. PartsInv'
    BY <2>1, <2>3 DEF PartsInv
  <2>5. BufferInv'
    BY <1>2, <1>3, <1>11 DEF BufferInv
  <2> QED
    BY <2>3, <2>4, <2>5 DEF CopyInv
<1>12. CASE /\ fast_files' = [fast_files EXCEPT ![w] = h(n + 1)]
            /\ Create(W, n + 1) /\ pc' = "progress"
  <2>14. disk' = [disk EXCEPT ![W.file] = Append(SubSeq(disk[W.file], 1, n), <<>>)]
    <3> DEFINE part == n + 1
    <3>1. Create(W, part)
      BY <1>12
    <3> HIDE DEF part
    <3>2. disk' = [disk EXCEPT ![W.file] = Append(SubSeq(disk[W.file], 1, part - 1), <<>>)]
      BY <3>1 DEF Create
    <3>3. part - 1 = n
      BY <1>7 DEF part
    <3> QED
      BY <3>2, <3>3
  <2> DEFINE f == h(n + 1)
             s == Append(d, <<>>)
  <2>1. /\ f.file = W.file /\ f.bigfile_mode = W.bigfile_mode /\ f.fl = W.fl
        /\ f.writed = W.writed /\ f.readed = W.readed /\ f.rsize = W.rsize /\ f.mem = W.mem
        /\ f.wfd = n + 1 /\ f.giga_counter = 0 /\ f.number_frag = n /\ ~Fresh(f)
    BY <1>6, <1>7, <1>9, <1>10
  <2>2. fast_files' = [fast_files EXCEPT ![w] = f]
    BY <1>12
  <2>3. disk' = [disk EXCEPT ![W.file] = s] /\ disk'[W.file] = s
    <3>1. d \in Seq(Seq(Nat)) /\ disk \in [1 .. Len(dir) -> Seq(Seq(Nat))]
      BY <1>1, <1>7 DEF TrueCopies, CopyInv, DiskInv
    <3>2. SubSeq(d, 1, n) = d
      BY <1>7, <3>1
    <3>3. disk' = [disk EXCEPT ![W.file] = Append(SubSeq(d, 1, n), <<>>)]
      BY <2>14
    <3> QED
      BY <1>4, <3>1, <3>2, <3>3
  <2>4. /\ s \in TrueCopies(W.file) /\ Len(s) = n + 1 /\ s[n + 1] = <<>>
    <3>1. /\ d \in Seq(Seq(Nat)) /\ CopiedOf(d) <= Sum(dir[W.file])
          /\ \A p \in 1 .. Len(d) : \A i \in 1 .. Len(d[p]) : d[p][i] = PartStart(p) + i
          /\ \A p \in 1 .. Len(d) - 1 : Len(d[p]) = Part
          /\ copy_mode = 1 /\ Head(dir[W.file]) >= Big => \A p \in 1 .. Len(d) : Len(d[p]) <= Part
      BY <1>7 DEF TrueCopies
    <3>2. /\ s \in Seq(Seq(Nat)) /\ Len(s) = n + 1 /\ s[n + 1] = <<>> /\ s # <<>>
          /\ \A p \in 1 .. n : s[p] = d[p]
      <4> HIDE DEF d, n
      <4>1. <<>> \in Seq(Nat)
        OBVIOUS
      <4> QED
        BY <1>7, <3>1, <4>1
    <3> HIDE DEF s, d, n
    <3>3. Part \in Nat /\ Len(<<>>) = 0
      BY FastCopyAssumption
    <3>4. \A p \in 1 .. Len(s) : \A i \in 1 .. Len(s[p]) : s[p][i] = PartStart(p) + i
      <4>1. TAKE p \in 1 .. Len(s)
      <4>2. CASE p = n + 1
        BY <3>2, <3>3, <4>2
      <4>3. CASE p \in 1 .. n
        BY <1>7, <3>1, <3>2, <4>3
      <4>4. p = n + 1 \/ p \in 1 .. n
        BY <1>7, <3>2
      <4> QED
        BY <4>2, <4>3, <4>4
    <3>5. \A p \in 1 .. Len(s) - 1 : Len(s[p]) = Part
      <4>1. TAKE p \in 1 .. Len(s) - 1
      <4>2. p \in 1 .. n /\ (p = n \/ p \in 1 .. Len(d) - 1)
        BY <1>7, <3>2
      <4> QED
        BY <1>7, <3>1, <3>2, <4>2
    <3>6. CopiedOf(s) <= Sum(dir[W.file])
      <4>1. CopiedOf(s) = PartStart(n + 1) + 0
        BY <3>2, <3>3 DEF CopiedOf
      <4>2. CopiedOf(d) = PartStart(n) + Part
        <5>1. d # <<>>
          BY <1>7
        <5> QED
          BY <1>7, <5>1 DEF CopiedOf
      <4>3. PartStart(n + 1) = PartStart(n) + Part /\ PartStart(n) \in Int
        BY <1>7, PartStarts
      <4>4. CopiedOf(s) = CopiedOf(d)
        BY <3>3, <4>1, <4>2, <4>3
      <4> QED
        BY <3>1, <4>4
    <3>7. copy_mode = 1 /\ Head(dir[W.file]) >= Big => \A p \in 1 .. Len(s) : Len(s[p]) <= Part
      <4>1. SUFFICES ASSUME copy_mode = 1 /\ Head(dir[W.file]) >= Big, NEW p \in 1 .. Len(s)
                     PROVE  Len(s[p]) <= Part
        OBVIOUS
      <4>2. p = n + 1 \/ p \in 1 .. n
        BY <1>7, <3>2
      <4> QED
        BY SMTT(30), <1>7, <3>1, <3>2, <3>3, <4>1, <4>2
    <3> QED
      BY <3>2, <3>4, <3>5, <3>6, <3>7 DEF TrueCopies
  <2> HIDE DEF f, s, d, n
  <2>5. num' = num /\ W' = f
    <3>1. fast_files \in Seq(Entries)
      BY <1>1 DEF ResourceInv, BatchInv
    <3> QED
      BY <1>2, <1>3, <2>2, <3>1 DEF num, W
  <2>6. DiskInv'
    BY <1>1, <1>2, <1>3, <2>1, <2>2, <2>3, <2>4, <2>5, DiskChanged
  <2>7. PartsInv'
    <3>1. LastPart' = <<>> /\ Len(disk'[f.file]) = n + 1 /\ Len(<<>>) = 0
      BY <2>1, <2>3, <2>4, <2>5 DEF LastPart
    <3>2. InFlight' = 0
      BY <1>2, <1>3 DEF InFlight
    <3>3. PartStart(n + 1) = PartStart(n) + Part /\ PartStart(n) \in Int
      BY <1>7, PartStarts
    <3>4. W.writed = PartStart(n + 1) + 0
      BY <1>5, <1>6, <3>3, FastCopyAssumption DEF n
    <3>5. 0 \in Steps /\ Steps' = Steps /\ Part \in Nat \ {0} /\ 0 + 0 = 0
      BY StepsFit, FastCopyAssumption DEF Steps
    <3>6. SplitInv'
      BY <1>7, <2>1, <2>5, <3>1, <3>2, <3>5 DEF SplitInv
    <3>7. PartStart(W.wfd)' = PartStart(n + 1)
      BY <2>1, <2>5 DEF PartStart
    <3> QED
      BY <1>2, <1>7, <2>1, <2>5, <3>1, <3>4, <3>6, <3>7 DEF PartsInv
  <2>8. BufferInv'
    <3>1. Ready' => Ready
      BY <1>2, <2>1, <2>5 DEF Ready
    <3> QED
      BY <1>1, <1>2, <1>3, <2>1, <2>5, <3>1 DEF CopyInv, BufferInv
  <2> QED
    BY <2>6, <2>7, <2>8 DEF CopyInv
<1> QED
  BY <1>8, <1>11, <1>12 DEF h

\* The chunk just read is being written.
LEMMA ChunkCopies ==
  ASSUME ResourceInv, CopyInv, pc = "readEnd", ReadEnded, NEW f,
         f.file = W.file, f.bigfile_mode = W.bigfile_mode,
         f.use_doublebuffer = W.use_doublebuffer,
         f.wfd = W.wfd, f.writed = W.writed, f.giga_counter = W.giga_counter,
         f.number_frag = W.number_frag \/ W.bigfile_mode # 1,
         IF W.use_doublebuffer THEN f.mem2 = W.mem ELSE f.mem = W.mem,
         UNCHANGED <<dir, copy_mode, w, disk>>, W' = f,
         r' = w /\ W.bigfile_mode = 1 => W.readed < W.len,
         r' # w \/ pc' = "cleanup" \/ ~Ready',
         aioW' # None, aioW'.size = W.rsize, InFlight' = W.rsize, fast_writing' = 1
  PROVE  PartsInv' /\ BufferInv'
<1>1. /\ r = w /\ w \in 1 .. num /\ Active /\ R = W /\ Ready /\ ReadyInv /\ WhileReading
      /\ aioR = None /\ aioW = None /\ fast_writing = 0
      /\ W \in Entries /\ W \in FileRecords /\ W.file \in 1 .. Len(dir) /\ dir \in Dirs
      /\ W.rfd \in 1 .. Len(dir[W.file]) /\ W.wfd # Closed
      /\ W.len = IF InFragments(W) THEN Sums(dir[W.file])[W.rfd] ELSE Head(dir[W.file])
      /\ W.writed \in Nat /\ W.writed = W.readed - W.rsize /\ W.readed \in Nat
      /\ W.rsize \in 1 .. Buf
  BY ChunkReady
<1>2. /\ W.wfd = Len(disk[W.file]) /\ W.wfd >= 1 /\ (W.bigfile_mode # 1 => W.wfd = 1)
      /\ (W.bigfile_mode = 1 => SplitInv)
      /\ W.writed = PartStart(W.wfd) + Len(LastPart)
  BY <1>1 DEF CopyInv, PartsInv
<1>3. LastPart' = LastPart /\ Steps' = Steps /\ PartStart(W.wfd)' = PartStart(W.wfd)
  BY DEF LastPart, Steps, PartStart
<1>4. W.bigfile_mode = 1 => SplitInv'
  <2>1. SUFFICES ASSUME W.bigfile_mode = 1 PROVE SplitInv'
    OBVIOUS
  <2>2. InFlight = 0
    BY <1>1 DEF InFlight
  <2>3. /\ W.number_frag = W.wfd - 1 /\ W.giga_counter = Len(LastPart)
        /\ W.giga_counter + 0 \in Steps /\ W.giga_counter < Part
    BY <1>1, <1>2, <2>1, <2>2 DEF SplitInv
  <2>4. W.giga_counter \in Nat /\ Buf \in Nat \ {0} /\ Part \in Nat
    BY <1>1, FastCopyAssumption DEF FileRecords
  <2>5. W.giga_counter \in Steps
    <3>1. W.giga_counter + 0 = W.giga_counter
      BY <2>4
    <3> QED
      BY <2>3, <3>1
  <2>6. W.giga_counter + Buf \in Steps /\ W.giga_counter + Buf <= Part
    BY <2>3, <2>5, StepsFit
  <2>7. W.giga_counter + W.rsize <= Part
    BY <1>1, <2>4, <2>6
  <2>8. r' = w => W.rsize = Buf
    <3>1. W.size_mem = Buf
      BY <1>1, <2>1, EntryFacts
    <3>2. W.len \in Nat
      BY <1>1 DEF FileRecords
    <3> QED
      BY <1>1, <2>1, <3>1, <3>2 DEF ReadyInv
  <2>9. r' = w => W.giga_counter + W.rsize \in Steps
    BY <2>6, <2>8
  <2> QED
    BY <1>3, <2>1, <2>3, <2>7, <2>9 DEF SplitInv
<1>5. PartsInv'
  BY <1>2, <1>3, <1>4 DEF PartsInv
<1>6. W.readed <= Sum(dir[W.file])
  <2>1. W.readed <= W.len
    BY <1>1 DEF ReadyInv
  <2>2. W.len <= Sum(dir[W.file]) /\ Sum(dir[W.file]) \in Nat
    BY <1>1, FileFacts
  <2>3. W.len \in Nat
    BY <1>1 DEF FileRecords
  <2> QED
    BY <1>1, <2>1, <2>2, <2>3
<1>7. WriteBuffer' = W.mem
  BY DEF WriteBuffer
<1>8. /\ Len(W.mem) = W.rsize
      /\ \A i \in 1 .. W.rsize : W.mem[i] = W.writed + i
  <2>1. /\ Len(W.mem) = W.rsize
        /\ \A i \in 1 .. W.rsize : W.mem[i] = W.readed - W.rsize + i
    BY <1>1 DEF CopyInv, BufferInv
  <2> QED
    BY <1>1, <2>1
<1>9. BufferInv'
  <2>1. W.writed + W.rsize <= Sum(dir[W.file])
    <3>1. W.rsize \in Nat
      BY <1>1 DEF FileRecords
    <3>2. W.writed + W.rsize = W.readed
      BY <1>1, <3>1
    <3> QED
      BY <1>6, <3>2
  <2>2. Sum(dir[W.file])' = Sum(dir[W.file])
    OBVIOUS
  <2> QED
    BY <1>7, <1>8, <2>1, <2>2 DEF BufferInv
<1> QED
  BY <1>5, <1>9

\* What the steps that start a write of the second buffer do to an entry.
LEMMA DoubleBufferCopies ==
  ASSUME ResourceInv, CopyInv, DoubleBufferWrite, NEW f,
         f.file = W.file, f.bigfile_mode = W.bigfile_mode, ~Fresh(f),
         f.use_doublebuffer = W.use_doublebuffer,
         f.wfd = W.wfd, f.writed = W.writed, f.giga_counter = W.giga_counter,
         f.number_frag = W.number_frag \/ W.bigfile_mode # 1, f.mem2 = W.mem,
         fast_files' = [fast_files EXCEPT ![r] = f],
         UNCHANGED <<dir, copy_mode, next, ret, disk>>,
         r' = r /\ W.bigfile_mode = 1 => W.readed < W.len,
         r' = r => pc' = "cleanup" \/ pc' = "fl2" \/ f.fl = 2
  PROVE  CopyInv'
<1>1. r = w /\ w \in 1 .. num /\ R = W
  BY ChunkReady DEF DoubleBufferWrite
<1>2. pc = "readEnd" /\ ReadEnded /\ W.use_doublebuffer /\ StartWrite("mem2")
  BY <1>1 DEF DoubleBufferWrite
<1>3. aioW' # None /\ aioW'.size = W.rsize /\ InFlight' = W.rsize /\ fast_writing' = 1 /\ w' = w
  BY <1>2, WriteStarted
<1>4. DiskInv' /\ W' = f
  BY <1>1, <1>3, EntryChanged
<1>5. r' # w \/ pc' = "cleanup" \/ ~Ready'
  BY <1>1, <1>4 DEF Ready
<1>6. PartsInv' /\ BufferInv'
  BY <1>1, <1>2, <1>3, <1>4, <1>5, ChunkCopies
<1> QED
  BY <1>4, <1>6 DEF CopyInv

LEMMA SingleBufferWriteCopies == ResourceInv /\ CopyInv /\ SingleBufferWrite => CopyInv'
<1>1. SUFFICES ASSUME ResourceInv, CopyInv, SingleBufferWrite PROVE CopyInv'
  OBVIOUS
<1>2. /\ pc = "readEnd" /\ ReadEnded /\ ~R.use_doublebuffer /\ StartWrite("mem") /\ r' = r + 1
      /\ UNCHANGED <<dir, copy_mode, next, ret, fast_files, disk>>
  BY <1>1 DEF SingleBufferWrite, driver, batch
<1>3. r = w /\ R = W /\ num \in Nat /\ w \in 1 .. num
  BY <1>1, <1>2, ChunkReady
<1>4. aioW' # None /\ aioW'.size = W.rsize /\ InFlight' = W.rsize /\ fast_writing' = 1 /\ w' = w
  BY <1>1, <1>2, <1>3, WriteStarted
<1>5. W' = W /\ num' = num /\ r' # w
  BY <1>2, <1>3, <1>4 DEF W, num
<1>6. PartsInv' /\ BufferInv'
  <2> DEFINE f == W
  <2>1. /\ f.file = W.file /\ f.bigfile_mode = W.bigfile_mode
        /\ f.use_doublebuffer = W.use_doublebuffer
        /\ f.wfd = W.wfd /\ f.writed = W.writed /\ f.giga_counter = W.giga_counter
        /\ f.number_frag = W.number_frag /\ f.mem = W.mem /\ W' = f
    BY <1>5
  <2> HIDE DEF f
  <2> QED
    BY <1>1, <1>2, <1>3, <1>4, <1>5, <2>1, ChunkCopies
<1>7. DiskInv'
  <2>1. \A i \in 1 .. num : fast_files'[i] = fast_files[i]
    BY <1>2
  <2> QED
    BY <1>1, <1>2, <1>4, <1>5, <2>1, DiskStays DEF CopyInv
<1> QED
  BY <1>6, <1>7 DEF CopyInv

LEMMA DoubleBufferMoreCopies == ResourceInv /\ CopyInv /\ DoubleBufferMore => CopyInv'
<1>1. SUFFICES ASSUME ResourceInv, CopyInv, DoubleBufferMore PROVE CopyInv'
  OBVIOUS
<1> DEFINE f == [R EXCEPT !.mem2 = R.mem, !.fl = 2, !.rsize = Chunk(R, R.len, R.readed),
                          !.roffset = R.readed - R.off_readed]
<1>2. /\ DoubleBufferWrite /\ R.readed < R.len /\ fast_files' = [fast_files EXCEPT ![r] = f]
      /\ UNCHANGED <<dir, copy_mode, next, ret, disk>>
  BY <1>1 DEF DoubleBufferMore, driver
<1>3. R = W /\ W \in FileRecords
  BY <1>1, <1>2, ChunkReady DEF DoubleBufferWrite
<1>4. /\ f.file = W.file /\ f.bigfile_mode = W.bigfile_mode /\ f.fl = 2
      /\ f.wfd = W.wfd /\ f.writed = W.writed /\ f.giga_counter = W.giga_counter
      /\ f.number_frag = W.number_frag /\ f.mem2 = W.mem
  BY <1>3 DEF FileRecords
<1>5. f.use_doublebuffer = W.use_doublebuffer
  BY <1>3, Zenon DEF FileRecords
<1> HIDE DEF f
<1>6. ~Fresh(f) /\ W.readed < W.len
  BY <1>2, <1>3, <1>4 DEF Fresh
<1> QED
  BY <1>1, <1>2, <1>4, <1>5, <1>6, DoubleBufferCopies

LEMMA DoubleBufferLastCopies == ResourceInv /\ CopyInv /\ DoubleBufferLast => CopyInv'
<1>1. SUFFICES ASSUME ResourceInv, CopyInv, DoubleBufferLast PROVE CopyInv'
  OBVIOUS
<1>2. DoubleBufferWrite /\ r' = r + 1 /\ UNCHANGED <<dir, copy_mode, next, ret, disk>>
  BY <1>1 DEF DoubleBufferLast, driver
<1>3. R = W /\ W \in FileRecords /\ r \in Int /\ W.fl = 3 /\ r = w
  BY <1>1, <1>2, ChunkReady DEF DoubleBufferWrite, ResourceInv, OrderInv
<1> DEFINE g == [W EXCEPT !.mem2 = W.mem, !.number_frag = @ + 1, !.off_readed = W.readed]
           h == [W EXCEPT !.mem2 = W.mem, !.fl = 5]
<1>4. /\ W.bigfile_mode = 2 => fast_files' = [fast_files EXCEPT ![r] = g]
      /\ W.bigfile_mode # 2 => fast_files' = [fast_files EXCEPT ![r] = h]
  BY <1>1, <1>3 DEF DoubleBufferLast, R, W
<1>5. /\ g.file = W.file /\ g.bigfile_mode = W.bigfile_mode /\ g.fl = 3
      /\ g.wfd = W.wfd /\ g.writed = W.writed /\ g.giga_counter = W.giga_counter
      /\ g.mem2 = W.mem
  BY <1>3 DEF FileRecords
<1>6. /\ h.file = W.file /\ h.bigfile_mode = W.bigfile_mode /\ h.fl = 5
      /\ h.wfd = W.wfd /\ h.writed = W.writed /\ h.giga_counter = W.giga_counter
      /\ h.number_frag = W.number_frag /\ h.mem2 = W.mem
  BY <1>3 DEF FileRecords
<1>7. g.use_doublebuffer = W.use_doublebuffer /\ h.use_doublebuffer = W.use_doublebuffer
  BY <1>3, Zenon DEF FileRecords
<1> HIDE DEF g, h
<1>8. ~Fresh(g) /\ ~Fresh(h) /\ r' # r
  BY <1>2, <1>3, <1>5, <1>6 DEF Fresh
<1>9. CASE W.bigfile_mode = 2
  BY <1>1, <1>2, <1>4, <1>5, <1>7, <1>8, <1>9, DoubleBufferCopies
<1>10. CASE W.bigfile_mode # 2
  BY <1>1, <1>2, <1>4, <1>6, <1>7, <1>8, <1>10, DoubleBufferCopies
<1> QED
  BY <1>9, <1>10

LEMMA DoubleBufferJoinCopies == ResourceInv /\ CopyInv /\ DoubleBufferJoin => CopyInv'
<1>1. SUFFICES ASSUME ResourceInv, CopyInv, DoubleBufferJoin PROVE CopyInv'
  OBVIOUS
<1>2. /\ DoubleBufferWrite /\ R.bigfile_mode = 2 /\ r' = r
      /\ UNCHANGED <<dir, copy_mode, next, ret, disk>>
  BY <1>1 DEF DoubleBufferJoin, driver
<1>3. R = W /\ W \in FileRecords /\ W.fl = 3
  BY <1>1, <1>2, ChunkReady DEF DoubleBufferWrite
<1> DEFINE len == R.len + dir[R.file][NextFragment(R)]
           g == [R EXCEPT !.mem2 = R.mem, !.number_frag = @ + 1, !.off_readed = R.readed,
                          !.len = len, !.roffset = 0, !.rsize = Chunk(R, len, R.readed),
                          !.rfd = NextFragment(R)]
           h == [g EXCEPT !.rfd = Closed, !.len = R.len]
<1>4. /\ \/ fast_files' = [fast_files EXCEPT ![r] = g]
         \/ fast_files' = [fast_files EXCEPT ![r] = h]
      /\ pc' = "fl2" \/ pc' = "cleanup"
  BY <1>1 DEF DoubleBufferJoin, Break
<1>5. /\ g.file = W.file /\ g.bigfile_mode = W.bigfile_mode /\ g.fl = 3
      /\ g.wfd = W.wfd /\ g.writed = W.writed /\ g.giga_counter = W.giga_counter
      /\ g.mem2 = W.mem
  BY <1>3 DEF FileRecords
<1>6. /\ h.file = W.file /\ h.bigfile_mode = W.bigfile_mode /\ h.fl = 3
      /\ h.wfd = W.wfd /\ h.writed = W.writed /\ h.giga_counter = W.giga_counter
      /\ h.mem2 = W.mem
  BY <1>3 DEF FileRecords
<1>7. g.use_doublebuffer = W.use_doublebuffer /\ h.use_doublebuffer = W.use_doublebuffer
  BY <1>3, Zenon DEF FileRecords
<1> HIDE DEF g, h
<1>8. ~Fresh(g) /\ ~Fresh(h) /\ W.bigfile_mode # 1
  BY <1>2, <1>3, <1>5, <1>6 DEF Fresh
<1>9. CASE fast_files' = [fast_files EXCEPT ![r] = g]
  BY <1>1, <1>2, <1>4, <1>5, <1>7, <1>8, <1>9, DoubleBufferCopies
<1>10. CASE fast_files' = [fast_files EXCEPT ![r] = h]
  BY <1>1, <1>2, <1>4, <1>6, <1>7, <1>8, <1>10, DoubleBufferCopies
<1> QED
  BY <1>4, <1>9, <1>10

\* A read ended: the buffer holds what comes next of the source.
LEMMA ReadCallbackCopies == ResourceInv /\ CopyInv /\ fast_func_read => CopyInv'
<1>1. SUFFICES ASSUME ResourceInv, CopyInv, fast_func_read PROVE CopyInv'
  OBVIOUS
<1>2. /\ aioR # None /\ aioR' = None
      /\ UNCHANGED <<dir, copy_mode, next, ret, pc, r, w, fast_writing, aioW, disk>>
  BY <1>1 DEF fast_func_read, driver, loop
<1>3. /\ Active /\ w \in 1 .. num /\ r = w /\ aioR.entry = w /\ aioR.frag = W.rfd
      /\ (aioW # None => W.use_doublebuffer) /\ aioR \in ReadRequests
  BY <1>1, <1>2 DEF ResourceInv, OpenInv, OrderInv, Active
<1>4. W \in FileRecords
  BY <1>1, <1>3, EntryOfW
<1> DEFINE from == FragmentStart(W, aioR.frag) + aioR.offset
           read == [i \in 1 .. aioR.size |-> from + i]
           g == [W EXCEPT !.readed = @ + aioR.size, !.fl = 3, !.mem = read]
           h == [W EXCEPT !.readed = -1]
<1>5. \/ fast_files' = [fast_files EXCEPT ![w] = g]
      \/ fast_files' = [fast_files EXCEPT ![w] = h]
  BY <1>1, <1>3 DEF fast_func_read, W
<1>6. /\ g.file = W.file /\ g.bigfile_mode = W.bigfile_mode /\ g.wfd = W.wfd
      /\ g.writed = W.writed /\ g.giga_counter = W.giga_counter
      /\ g.number_frag = W.number_frag /\ g.mem2 = W.mem2 /\ g.fl = 3
      /\ g.mem = read /\ g.readed = W.readed + aioR.size /\ g.rsize = W.rsize
  <2> HIDE DEF read
  <2> QED
    BY <1>4 DEF FileRecords
<1>7. /\ h.file = W.file /\ h.bigfile_mode = W.bigfile_mode /\ h.wfd = W.wfd
      /\ h.writed = W.writed /\ h.giga_counter = W.giga_counter
      /\ h.number_frag = W.number_frag /\ h.mem2 = W.mem2 /\ h.fl = W.fl
  BY <1>4 DEF FileRecords
<1>8. g.use_doublebuffer = W.use_doublebuffer /\ h.use_doublebuffer = W.use_doublebuffer
  BY <1>4, Zenon DEF FileRecords
<1>9. pc # "cleanup" => Reading /\ W.off_readed = Sums(dir[W.file])[W.rfd - 1]
  BY <1>1, <1>2, <1>3 DEF ResourceInv, ReadInv, WhileReading
<1>10. pc # "cleanup" =>
         /\ aioR.size = W.rsize /\ Len(read) = W.rsize
         /\ \A i \in 1 .. W.rsize : read[i] = W.readed + i
  <2>1. SUFFICES ASSUME pc # "cleanup"
                 PROVE  /\ aioR.size = W.rsize /\ Len(read) = W.rsize
                        /\ \A i \in 1 .. W.rsize : read[i] = W.readed + i
    OBVIOUS
  <2>2. aioR.size = W.rsize /\ aioR.offset = W.readed - W.off_readed
    BY <1>9, <2>1 DEF Reading
  <2>3. W.readed \in Int /\ W.off_readed \in Nat /\ W.rsize \in Nat
    BY <1>4 DEF FileRecords
  <2>4. from = W.readed
    <3>1. FragmentStart(W, aioR.frag) = W.off_readed
      BY <1>3, <1>9, <2>1 DEF FragmentStart
    <3> QED
      BY <2>2, <2>3, <3>1
  <2> HIDE DEF from
  <2>5. Len(read) = W.rsize
    BY <2>2, <2>3
  <2>6. \A i \in 1 .. W.rsize : read[i] = W.readed + i
    BY <2>2, <2>4
  <2> QED
    BY <2>2, <2>3, <2>5, <2>6
<1> HIDE DEF g, h, read
<1>11. ~Fresh(g) /\ ~Fresh(h)
  BY <1>3, <1>6, <1>7 DEF Active, Fresh
<1>12. /\ InFlight' = InFlight /\ Steps' = Steps /\ Active
  BY <1>2, <1>3 DEF InFlight, Steps
<1>13. ASSUME NEW f \in {g, h}, W' = f
       PROVE  /\ PartsInv'
              /\ aioW' # None =>
                   /\ W.writed + aioW.size <= Sum(dir[W.file])
                   /\ Len(WriteBuffer') = aioW.size
                   /\ \A i \in 1 .. aioW.size : WriteBuffer'[i] = W.writed + i
  <2>1. /\ f.file = W.file /\ f.bigfile_mode = W.bigfile_mode /\ f.wfd = W.wfd
        /\ f.writed = W.writed /\ f.giga_counter = W.giga_counter
        /\ f.number_frag = W.number_frag /\ f.mem2 = W.mem2
        /\ f.use_doublebuffer = W.use_doublebuffer
    BY <1>6, <1>7, <1>8
  <2>2. LastPart' = LastPart /\ PartStart(W.wfd)' = PartStart(W.wfd)
    BY <1>2, <1>13, <2>1 DEF LastPart, PartStart
  <2>3. SplitInv => SplitInv'
    BY <1>2, <1>12, <1>13, <2>1, <2>2 DEF SplitInv
  <2>4. PartsInv'
    BY <1>1, <1>2, <1>12, <1>13, <2>1, <2>2, <2>3 DEF CopyInv, PartsInv
  <2>5. aioW # None => WriteBuffer' = WriteBuffer
    BY <1>3, <1>13, <2>1 DEF WriteBuffer
  <2> QED
    BY <1>1, <1>2, <2>4, <2>5 DEF CopyInv, BufferInv
<1>14. CASE fast_files' = [fast_files EXCEPT ![w] = g]
  <2>1. DiskInv' /\ W' = g
    BY <1>1, <1>2, <1>3, <1>6, <1>11, <1>14, EntryChanged
  <2>2. g \in {g, h}
    OBVIOUS
  <2>3. Sum(dir[W.file])' = Sum(dir[W.file])
    BY <1>2, <1>6, <2>1
  <2>4. pc # "cleanup" => /\ Len(g.mem) = g.rsize
                          /\ \A i \in 1 .. g.rsize : g.mem[i] = g.readed - g.rsize + i
    <3>1. W.readed \in Int /\ W.rsize \in Nat /\ g.readed \in Int /\ g.rsize = W.rsize
      <4>1. W.readed \in Int /\ W.rsize \in Nat
        BY <1>4 DEF FileRecords
      <4>2. aioR.size \in Nat
        <5>1. aioR.size \in 1 .. Buf /\ Buf \in Nat
          BY <1>3, FastCopyAssumption DEF ReadRequests
        <5> QED
          BY <5>1
      <4> QED
        BY <1>6, <4>1, <4>2
    <3>2. g.mem = read /\ g.readed = W.readed + aioR.size
      BY <1>6
    <3>3. pc # "cleanup" => g.readed - g.rsize = W.readed
      BY <1>10, <3>1, <3>2
    <3> QED
      BY <1>10, <3>1, <3>2, <3>3
  <2>5. /\ aioW' # None =>
             /\ g.writed + aioW'.size <= Sum(dir[W.file])'
             /\ Len(WriteBuffer') = aioW'.size
             /\ \A i \in 1 .. aioW'.size : WriteBuffer'[i] = g.writed + i
        /\ PartsInv'
    BY <1>2, <1>6, <1>13, <2>1, <2>2, <2>3
  <2>6. BufferInv'
    BY <1>2, <2>1, <2>4, <2>5 DEF BufferInv
  <2> QED
    BY <2>1, <2>5, <2>6 DEF CopyInv
<1>15. CASE fast_files' = [fast_files EXCEPT ![w] = h]
  <2>1. DiskInv' /\ W' = h
    BY <1>1, <1>2, <1>3, <1>7, <1>11, <1>15, EntryChanged
  <2>2. h \in {g, h}
    OBVIOUS
  <2>3. Sum(dir[W.file])' = Sum(dir[W.file])
    BY <1>2, <1>7, <2>1
  <2>4. pc # "cleanup" => ~Ready'
    <3>1. pc # "cleanup" => W.fl = IF pc = "fl2" THEN 3 ELSE 2
      BY <1>9 DEF Reading
    <3> QED
      BY <1>2, <1>7, <2>1, <3>1 DEF Ready
  <2>5. BufferInv'
    BY <1>2, <1>7, <1>13, <2>1, <2>2, <2>3, <2>4 DEF BufferInv
  <2> QED
    BY <1>13, <2>1, <2>2, <2>5 DEF CopyInv
<1> QED
  BY <1>5, <1>14, <1>15

\* Writing at the end of a part.
LEMMA WriteAtEnd ==
  ASSUME NEW s \in Seq(Nat), NEW data \in Seq(Nat)
  PROVE  /\ WriteAt(s, Len(s), data) \in Seq(Nat)
         /\ Len(WriteAt(s, Len(s), data)) = Len(s) + Len(data)
         /\ \A i \in 1 .. Len(s) : WriteAt(s, Len(s), data)[i] = s[i]
         /\ \A i \in 1 .. Len(data) : WriteAt(s, Len(s), data)[Len(s) + i] = data[i]
<1> DEFINE m == Len(s)
           n == Len(data)
           t(i) == IF i \in m + 1 .. m + n THEN data[i - m] ELSE IF i <= m THEN s[i] ELSE 0
<1>1. /\ m \in Nat /\ n \in Nat /\ (\A i \in 1 .. m : s[i] \in Nat)
      /\ \A i \in 1 .. n : data[i] \in Nat
  OBVIOUS
<1>2. WriteAt(s, Len(s), data) = [i \in 1 .. MaxOf(m, m + n) |-> t(i)]
  BY DEF WriteAt
<1> HIDE DEF m, n
<1>3. MaxOf(m, m + n) = m + n
  BY <1>1 DEF MaxOf
<1>4. \A i \in 1 .. m : t(i) = s[i]
  BY <1>1
<1>5. \A i \in 1 .. n : t(m + i) = data[i] /\ m + i \in 1 .. m + n
  <2>1. TAKE i \in 1 .. n
  <2>2. m + i \in m + 1 .. m + n /\ m + i - m = i
    BY <1>1
  <2> QED
    BY <1>1, <2>2
<1>6. \A i \in 1 .. m + n : t(i) \in Nat
  <2>1. TAKE i \in 1 .. m + n
  <2>2. i <= m \/ i \in m + 1 .. m + n
    BY <1>1
  <2>3. i \in m + 1 .. m + n => i - m \in 1 .. n
    BY <1>1
  <2> QED
    BY <1>1, <2>2, <2>3
<1> HIDE DEF t
<1>7. WriteAt(s, Len(s), data) = [i \in 1 .. m + n |-> t(i)]
  BY <1>2, <1>3
<1>8. /\ WriteAt(s, Len(s), data) \in Seq(Nat) /\ Len(WriteAt(s, Len(s), data)) = m + n
  <2>1. m + n \in Nat
    BY <1>1
  <2> QED
    BY <1>6, <1>7, <2>1
<1>9. \A i \in 1 .. m : i \in 1 .. m + n
  BY <1>1
<1> QED
  BY <1>4, <1>5, <1>7, <1>8, <1>9 DEF m, n

(* A position past the first a of a + b is one of the b that follow.       *)
LEMMA BeyondTheFirst ==
  ASSUME NEW a \in Nat, NEW b \in Nat, NEW i \in 1 .. a + b, i \notin 1 .. a
  PROVE  i - a \in 1 .. b /\ i = a + (i - a)
OBVIOUS

\* A write ended: the part goes on with what the source has there.
LEMMA WriteCallbackCopies == ResourceInv /\ CopyInv /\ fast_func_write => CopyInv'
<1>1. SUFFICES ASSUME ResourceInv, CopyInv, fast_func_write PROVE CopyInv'
  OBVIOUS
<1>2. /\ aioW # None /\ aioW' = None /\ fast_writing' = 2
      /\ UNCHANGED <<dir, copy_mode, next, ret, pc, r, w, aioR>>
  BY <1>1 DEF fast_func_write, driver, loop
<1>3. /\ Active /\ w \in 1 .. num /\ aioW.entry = w /\ aioW.part = W.wfd /\ W.wfd # Closed
      /\ aioW.offset = WriteOffset(W) /\ W.writed >= 0 /\ aioW \in WriteRequests
      /\ aioW.buffer = IF W.use_doublebuffer THEN "mem2" ELSE "mem"
  BY <1>1, <1>2 DEF ResourceInv, OpenInv, OrderInv, Active
<1>4. /\ W \in Entries /\ W \in FileRecords /\ W.file \in 1 .. Len(dir) /\ dir \in Dirs
  BY <1>1, <1>3, EntryOfW
<1> DEFINE size == aioW.size
           data == SubSeq(IF aioW.buffer = "mem" THEN W.mem ELSE W.mem2, 1, size)
           g == [W EXCEPT !.writed = @ + size, !.giga_counter = @ + size]
           h == [W EXCEPT !.writed = -1]
           d == disk[W.file]
           n == W.wfd
<1>5. \/ /\ fast_files' = [fast_files EXCEPT ![w] = g]
         /\ disk' = [disk EXCEPT ![W.file][n] = WriteAt(@, aioW.offset, data)]
      \/ fast_files' = [fast_files EXCEPT ![w] = h] /\ disk' = disk
  BY <1>1, <1>3 DEF fast_func_write, W
<1>6. /\ g.file = W.file /\ g.bigfile_mode = W.bigfile_mode /\ g.wfd = W.wfd
      /\ g.writed = W.writed + size /\ g.giga_counter = W.giga_counter + size
      /\ g.number_frag = W.number_frag /\ g.mem = W.mem /\ g.fl = W.fl
      /\ g.readed = W.readed /\ g.rsize = W.rsize
  BY <1>4 DEF FileRecords
<1>7. /\ h.file = W.file /\ h.bigfile_mode = W.bigfile_mode /\ h.wfd = W.wfd
      /\ h.writed = -1 /\ h.giga_counter = W.giga_counter
      /\ h.number_frag = W.number_frag /\ h.mem = W.mem /\ h.fl = W.fl
      /\ h.readed = W.readed /\ h.rsize = W.rsize
  BY <1>4 DEF FileRecords
<1>8. ~Fresh(g) /\ ~Fresh(h)
  BY <1>3, <1>6, <1>7 DEF Active, Fresh
<1> HIDE DEF g, h
<1>9. size \in Nat /\ W.writed \in Nat /\ W.giga_counter \in Nat /\ Part \in Nat
  <2>1. size \in 1 .. Buf /\ Buf \in Nat /\ Part \in Nat
    BY <1>3, FastCopyAssumption DEF WriteRequests
  <2>2. W.writed \in Int /\ W.giga_counter \in Nat
    BY <1>4 DEF FileRecords
  <2> HIDE DEF size
  <2>3. size \in Nat
    BY <2>1
  <2> QED
    BY <1>3, <2>1, <2>2, <2>3
<1>10. /\ n = Len(d) /\ n >= 1 /\ (W.bigfile_mode # 1 => n = 1)
       /\ (W.bigfile_mode = 1 => SplitInv)
       /\ W.writed = PartStart(n) + Len(d[n]) /\ LastPart = d[n]
       /\ d \in TrueCopies(W.file) /\ d \in Seq(Seq(Nat))
       /\ disk \in [1 .. Len(dir) -> Seq(Seq(Nat))]
  BY <1>1, <1>3, <1>4 DEF CopyInv, PartsInv, DiskInv, LastPart, TrueCopies
<1>11. n \in Nat /\ d[n] \in Seq(Nat) /\ Len(d[n]) \in Nat /\ d # <<>>
  BY <1>10
<1>12. InFlight = size /\ InFlight' = 0
  BY <1>2 DEF InFlight
<1>13. CASE fast_files' = [fast_files EXCEPT ![w] = h] /\ disk' = disk
  <2>1. DiskInv' /\ W' = h
    BY <1>1, <1>2, <1>3, <1>7, <1>8, <1>13, EntryChanged
  <2>2. LastPart' = LastPart /\ PartStart(W.wfd)' = PartStart(W.wfd) /\ Steps' = Steps
    BY <1>7, <1>13, <2>1 DEF LastPart, PartStart, Steps
  <2>3. W.bigfile_mode = 1 => SplitInv'
    <3>1. ~ (h.writed >= 0)
      BY <1>7
    <3>2. W.bigfile_mode = 1 => W.giga_counter + 0 <= Part
      BY <1>9, <1>10, <1>12 DEF SplitInv
    <3> QED
      BY <1>2, <1>7, <1>10, <1>12, <2>1, <2>2, <3>1, <3>2 DEF SplitInv
  <2>4. PartsInv'
    <3>1. ~ (h.writed >= 0)
      BY <1>7
    <3> QED
      BY <1>7, <1>10, <1>13, <2>1, <2>3, <3>1 DEF PartsInv
  <2>5. BufferInv'
    <3>1. Ready' => Ready
      BY <1>2, <1>7, <2>1 DEF Ready
    <3> QED
      BY <1>1, <1>2, <1>3, <1>7, <2>1, <3>1 DEF CopyInv, BufferInv
  <2> QED
    BY <2>1, <2>4, <2>5 DEF CopyInv
<1>14. CASE /\ fast_files' = [fast_files EXCEPT ![w] = g]
            /\ disk' = [disk EXCEPT ![W.file][n] = WriteAt(@, aioW.offset, data)]
  <2> DEFINE t == WriteAt(d[n], Len(d[n]), data)
             s == [d EXCEPT ![n] = t]
  <2>1. /\ data \in Seq(Nat) /\ Len(data) = size
        /\ \A i \in 1 .. size : data[i] = W.writed + i
        /\ W.writed + size <= Sum(dir[W.file])
    <3> DEFINE buffer == IF aioW.buffer = "mem" THEN W.mem ELSE W.mem2
    <3>1. buffer = WriteBuffer
      BY <1>3 DEF WriteBuffer
    <3>2. buffer \in Seq(Nat)
      BY <1>4 DEF FileRecords
    <3>3. /\ Len(buffer) = size /\ \A i \in 1 .. size : buffer[i] = W.writed + i
          /\ W.writed + size <= Sum(dir[W.file])
      BY <1>1, <1>2, <3>1 DEF CopyInv, BufferInv
    <3> HIDE DEF buffer
    <3>4. SubSeq(buffer, 1, size) = buffer
      BY <3>2, <3>3
    <3>5. data = SubSeq(buffer, 1, size)
      BY DEF buffer
    <3> QED
      BY <3>2, <3>3, <3>4, <3>5
  <2>2. aioW.offset = Len(d[n])
    <3>1. W.bigfile_mode = 1 => W.giga_counter = Len(d[n])
      BY <1>10 DEF SplitInv
    <3>2. W.bigfile_mode # 1 => W.writed = Len(d[n])
      <4>1. W.bigfile_mode # 1 => PartStart(n) = 0
        BY <1>10, PartStarts
      <4> QED
        BY <1>10, <1>11, <4>1
    <3> QED
      BY <1>3, <3>1, <3>2 DEF WriteOffset
  <2> HIDE DEF data, size
  <2>3. /\ t \in Seq(Nat) /\ Len(t) = Len(d[n]) + size
        /\ \A i \in 1 .. Len(d[n]) : t[i] = d[n][i]
        /\ \A i \in 1 .. size : t[Len(d[n]) + i] = data[i]
    BY <1>11, <2>1, WriteAtEnd
  <2>4. disk' = [disk EXCEPT ![W.file] = s]
    BY <1>14, <2>2
  <2> HIDE DEF t, n, d
  <2>5. s \in Seq(Seq(Nat)) /\ Len(s) = n /\ s[n] = t /\ \A p \in 1 .. n : p # n => s[p] = d[p]
    BY <1>10, <1>11, <2>3
  <2> HIDE DEF s
  <2>6. W.bigfile_mode = 1 => W.giga_counter = Len(d[n]) /\ W.giga_counter + size <= Part
    BY <1>10, <1>12 DEF SplitInv, size
  <2>7. PartStart(n) \in Int /\ PartStart(n) + Len(t) = W.writed + size
    <3>1. PartStart(n) \in Int
      BY <1>11, PartStarts
    <3>2. W.writed = PartStart(n) + Len(d[n]) /\ size \in Nat /\ Len(d[n]) \in Nat
      BY <1>9, <1>10, <1>11
    <3> QED
      BY <2>3, <3>1, <3>2
  <2>8. s \in TrueCopies(W.file)
    <3>1. /\ \A p \in 1 .. n : \A i \in 1 .. Len(d[p]) : d[p][i] = PartStart(p) + i
          /\ \A p \in 1 .. n - 1 : Len(d[p]) = Part
          /\ copy_mode = 1 /\ Head(dir[W.file]) >= Big => \A p \in 1 .. n : Len(d[p]) <= Part
      BY <1>10 DEF TrueCopies
    <3>2. \A p \in 1 .. Len(s) : \A i \in 1 .. Len(s[p]) : s[p][i] = PartStart(p) + i
      <4>1. TAKE p \in 1 .. Len(s)
      <4>2. p \in 1 .. n
        BY <2>5
      <4>3. CASE p # n
        <5>1. s[p] = d[p]
          BY <2>5, <4>2, <4>3
        <5> QED
          BY <3>1, <4>2, <5>1
      <4>4. CASE p = n
        <5>1. SUFFICES ASSUME NEW i \in 1 .. Len(t) PROVE t[i] = PartStart(n) + i
          BY <2>5, <4>4
        <5>2. CASE i \in 1 .. Len(d[n])
          <6>1. n \in 1 .. n
            BY <1>10, <1>11
          <6> QED
            BY <2>3, <3>1, <5>2, <6>1
        <5>3. CASE i \notin 1 .. Len(d[n])
          <6>1. PICK j \in 1 .. size : i = Len(d[n]) + j
            <7>1. size \in Nat /\ Len(d[n]) \in Nat /\ Len(t) = Len(d[n]) + size
              BY <1>9, <1>11, <2>3
            <7>2. i \in 1 .. Len(d[n]) + size
              BY <7>1
            <7>3. i - Len(d[n]) \in 1 .. size /\ i = Len(d[n]) + (i - Len(d[n]))
              BY <5>3, <7>1, <7>2, BeyondTheFirst
            <7> QED
              BY <7>3
          <6>2. t[i] = W.writed + j
            BY <2>1, <2>3, <6>1
          <6> QED
            BY <1>9, <1>10, <1>11, <2>7, <6>1, <6>2
        <5> QED
          BY <5>2, <5>3
      <4> QED
        BY <4>3, <4>4
    <3>3. \A p \in 1 .. Len(s) - 1 : Len(s[p]) = Part
      <4>1. TAKE p \in 1 .. Len(s) - 1
      <4>2. p \in 1 .. n - 1 /\ p \in 1 .. n /\ p # n
        BY <1>11, <2>5
      <4> QED
        BY <2>5, <3>1, <4>2
    <3>4. CopiedOf(s) <= Sum(dir[W.file])
      <4>1. s # <<>>
        BY <1>10, <1>11, <2>5
      <4>2. CopiedOf(s) = PartStart(n) + Len(t)
        BY <2>5, <4>1 DEF CopiedOf
      <4> QED
        BY <2>1, <2>7, <4>2
    <3>5. copy_mode = 1 /\ Head(dir[W.file]) >= Big => \A p \in 1 .. Len(s) : Len(s[p]) <= Part
      <4>1. SUFFICES ASSUME copy_mode = 1 /\ Head(dir[W.file]) >= Big, NEW p \in 1 .. Len(s)
                     PROVE  Len(s[p]) <= Part
        OBVIOUS
      <4>2. W.bigfile_mode = 1
        <5>1. W.bigfile_mode = ModeOf(dir[W.file])
          BY <1>4, EntryFacts
        <5> QED
          BY <4>1, <5>1 DEF ModeOf
      <4>3. p \in 1 .. n
        BY <2>5
      <4>4. Len(t) <= Part
        BY <2>3, <2>6, <4>2
      <4> QED
        BY <2>5, <3>1, <4>1, <4>3, <4>4
    <3> QED
      BY <2>5, <3>2, <3>3, <3>4, <3>5 DEF TrueCopies
  <2>9. num' = num /\ W' = g
    <3>1. fast_files \in Seq(Entries)
      BY <1>1 DEF ResourceInv, BatchInv
    <3> QED
      BY <1>2, <1>3, <1>14, <3>1 DEF num, W
  <2>10. DiskInv'
    BY <1>1, <1>2, <1>3, <1>6, <1>8, <1>14, <2>4, <2>8, <2>9, DiskChanged
  <2>11. disk'[W.file] = s
    BY <1>4, <1>10, <2>4
  <2>12. LastPart' = t /\ PartStart(W.wfd)' = PartStart(n) /\ Steps' = Steps
    BY <1>6, <2>5, <2>9, <2>11 DEF LastPart, PartStart, Steps, n
  <2>13. W.bigfile_mode = 1 => SplitInv'
    <3>1. SUFFICES ASSUME W.bigfile_mode = 1 PROVE SplitInv'
      OBVIOUS
    <3>2. /\ g.giga_counter = W.giga_counter + size /\ g.giga_counter \in Nat
          /\ g.giga_counter + 0 = g.giga_counter /\ Len(t) = g.giga_counter
      BY <1>6, <1>9, <2>3, <2>6, <3>1 DEF size
    <3>3. W.number_frag = W.wfd - 1 /\ (r = w => g.giga_counter \in Steps)
      BY <1>3, <1>10, <1>12, <3>1, <3>2 DEF SplitInv, size
    <3> QED
      BY <1>2, <1>6, <1>12, <2>6, <2>9, <2>12, <3>1, <3>2, <3>3 DEF SplitInv
  <2>14. PartsInv'
    <3>1. g.writed = PartStart(n) + Len(t)
      BY <1>6, <2>7 DEF size
    <3>2. g.wfd = Len(disk'[g.file]) /\ g.wfd >= 1 /\ (g.bigfile_mode # 1 => g.wfd = 1)
      BY <1>6, <1>10, <2>5, <2>11 DEF n
    <3> QED
      BY <1>6, <2>9, <2>12, <2>13, <3>1, <3>2 DEF PartsInv
  <2>15. BufferInv'
    <3>1. Ready' => Ready
      BY <1>2, <1>6, <2>9 DEF Ready
    <3> QED
      BY <1>1, <1>2, <1>3, <1>6, <2>9, <3>1 DEF CopyInv, BufferInv
  <2> QED
    BY <2>10, <2>14, <2>15 DEF CopyInv
<1> QED
  BY <1>5, <1>13, <1>14

\* A file that is copied is whole.
LEMMA FileCopiedCopies == ResourceInv /\ CopyInv /\ FileCopied => CopyInv'
<1>1. SUFFICES ASSUME ResourceInv, CopyInv, FileCopied PROVE CopyInv'
  OBVIOUS
<1> DEFINE f == [W EXCEPT !.rfd = Closed, !.wfd = Closed, !.fl = 4, !.writed = -1]
<1>2. /\ Active /\ w \in 1 .. num /\ aioW = None /\ pc = "writeEnd" /\ W.writed >= 0
      /\ W.writed = Whole(W.file) /\ W.wfd # Closed
  BY <1>1, FileIsCopied
<1>3. /\ w' = w + 1 /\ fast_files' = [fast_files EXCEPT ![w] = f]
      /\ UNCHANGED <<dir, copy_mode, next, ret, r, aioW, disk>>
  BY <1>1 DEF FileCopied, WriteEnded, W, driver, aio
<1>4. /\ W \in FileRecords /\ W.file \in 1 .. Len(dir) /\ num \in Nat
      /\ fast_files \in Seq(Entries)
  BY <1>1, <1>2, EntryOfW DEF ResourceInv, BatchInv
<1>5. f.file = W.file /\ f.fl = 4
  BY <1>4 DEF FileRecords
<1> HIDE DEF f
<1>6. /\ num' = num /\ fast_files'[w] = f
      /\ \A i \in 1 .. num : i # w => fast_files'[i] = fast_files[i]
  BY <1>2, <1>3, <1>4 DEF num
<1>7. ~Active'
  <2>1. w + 1 <= num => fast_files'[w + 1] = fast_files[w + 1] /\ Fresh(fast_files[w + 1])
    BY <1>1, <1>2, <1>4, <1>6 DEF ResourceInv, OrderInv
  <2> QED
    BY <1>3, <1>6, <2>1 DEF Active, W, Fresh
<1>8. disk[W.file] \in CompleteCopies(W.file)
  <2>1. /\ W.wfd = Len(disk[W.file]) /\ W.wfd >= 1
        /\ W.writed = PartStart(W.wfd) + Len(LastPart)
    BY <1>1, <1>2 DEF CopyInv, PartsInv
  <2>2. disk[W.file] \in Seq(Seq(Nat))
    BY <1>1, <1>4 DEF CopyInv, DiskInv
  <2>3. disk[W.file] # <<>>
    BY <2>1, <2>2
  <2>4. CopiedOf(disk[W.file]) = Whole(W.file)
    BY <1>2, <2>1, <2>3 DEF CopiedOf, LastPart
  <2> QED
    BY <2>2, <2>3, <2>4 DEF CompleteCopies
<1>9. \A i \in 1 .. num : /\ fast_files'[i].file = fast_files[i].file
                          /\ Fresh(fast_files'[i]) => Fresh(fast_files[i])
                          /\ i < w' => \/ i < w
                                       \/ disk[fast_files[i].file]
                                            \in CompleteCopies(fast_files[i].file)
  <2>1. TAKE i \in 1 .. num
  <2>2. CASE i = w
    <3>1. fast_files'[i] = f /\ fast_files[i] = W
      BY <1>6, <2>2 DEF W
    <3> QED
      BY <1>5, <1>8, <3>1 DEF Fresh
  <2>3. CASE i # w
    <3>1. i < w' => i < w
      BY <1>2, <1>3, <1>4, <2>3
    <3> QED
      BY <1>6, <2>1, <2>3, <3>1 DEF Fresh
  <2> QED
    BY <2>2, <2>3
<1>10. DiskInv'
  BY <1>1, <1>3, <1>6, <1>9, DiskStays DEF CopyInv
<1>11. PartsInv' /\ BufferInv'
  BY <1>2, <1>3, <1>7 DEF PartsInv, BufferInv
<1> QED
  BY <1>10, <1>11 DEF CopyInv

\* Nothing leaves the batch before it is whole, unless my_game_copy fails.
LEMMA CleanupCopies == ResourceInv /\ CopyInv /\ Cleanup => CopyInv'
<1>1. SUFFICES ASSUME ResourceInv, CopyInv, Cleanup PROVE CopyInv'
  OBVIOUS
<1>2. /\ pc = "cleanup" /\ fast_files' = <<>> /\ w' = 1
      /\ UNCHANGED <<dir, copy_mode, next, disk>>
      /\ ~ret' => ~ret /\ error = 0 /\ ~abort_copy
      /\ aioW' = IF fast_writing = 1 THEN None ELSE aioW
  BY <1>1 DEF Cleanup, CancelWrite
<1>3. num' = 0 /\ ~Active'
  BY <1>2 DEF num, Active
<1>4. aioW' = None
  BY <1>1, <1>2 DEF ResourceInv, OpenInv
<1>5. \A k : TrueCopies(k)' = TrueCopies(k) /\ CompleteCopies(k)' = CompleteCopies(k)
  BY <1>2 DEF TrueCopies, CompleteCopies, Whole
<1>6. ~ret' => \A k \in 1 .. next - 1 : disk[k] \in CompleteCopies(k)
  <2>1. SUFFICES ASSUME ~ret', NEW k \in 1 .. next - 1 PROVE disk[k] \in CompleteCopies(k)
    OBVIOUS
  <2>2. w > num /\ num \in Nat /\ w \in 1 .. num + 1
    BY <1>1, <1>2, <2>1 DEF ResourceInv, ControlInv, OrderInv, BatchInv, num
  <2>3. CASE k \in InBatch
    <3>1. PICK i \in 1 .. num : fast_files[i].file = k
      BY <2>3 DEF InBatch
    <3>2. i < w
      BY <2>2
    <3> QED
      BY <1>1, <3>1, <3>2 DEF CopyInv, DiskInv
  <2>4. CASE k \notin InBatch
    BY <1>1, <1>2, <2>1, <2>4 DEF CopyInv, DiskInv
  <2> QED
    BY <2>3, <2>4
<1>7. DiskInv'
  <2>1. /\ disk' \in [1 .. Len(dir') -> Seq(Seq(Nat))]
        /\ \A k \in 1 .. Len(dir') : disk'[k] \in TrueCopies(k)'
        /\ \A k \in next' .. Len(dir') : disk'[k] = <<>>
    BY <1>1, <1>2, <1>5 DEF CopyInv, DiskInv
  <2>2. ~ret' => \A k \in 1 .. next' - 1 : k \in InBatch' \/ disk'[k] \in CompleteCopies(k)'
    BY <1>2, <1>5, <1>6
  <2>3. \A i \in 1 .. num' : FALSE
    BY <1>3
  <2> QED
    BY <2>1, <2>2, <2>3 DEF DiskInv
<1>8. PartsInv' /\ BufferInv'
  BY <1>3, <1>4 DEF PartsInv, BufferInv
<1> QED
  BY <1>7, <1>8 DEF CopyInv

\* An empty file is created, another one begins its time in the batch.
LEMMA AddCopies == ResourceInv /\ ResourceInv' /\ CopyInv /\ fast_copy_add => CopyInv'
<1>1. SUFFICES ASSUME ResourceInv, ResourceInv', CopyInv, fast_copy_add PROVE CopyInv'
  OBVIOUS
<1>2. /\ pc = "add" /\ pc' = "add" /\ next <= Len(dir) /\ next' = next + 1
      /\ UNCHANGED <<dir, copy_mode, ret, r, w, aioR, aioW>>
  BY <1>1 DEF fast_copy_add, loop, aio
<1>3. /\ dir \in Dirs /\ next \in 1 .. Len(dir) /\ fast_files \in Seq(Entries) /\ num \in Nat
      /\ w = 1 /\ aioW = None
  BY <1>1, <1>2
  DEF ResourceInv, ScalarsInv, BatchInv, OrderInv, OpenInv, InProcess, Turn, num
<1>4. ~Active'
  BY <1>1, <1>2 DEF ResourceInv, OrderInv, InProcess, Turn
<1>5. \A k : TrueCopies(k)' = TrueCopies(k) /\ CompleteCopies(k)' = CompleteCopies(k)
  BY <1>2 DEF TrueCopies, CompleteCopies, Whole
<1>6. DiskInv
  BY <1>1 DEF CopyInv
<1>7. \A i \in 1 .. num : /\ fast_files[i].file \in 1 .. Len(dir)
                          /\ fast_files[i].file < next /\ fast_files[i].file # next
  <2>1. TAKE i \in 1 .. num
  <2>2. fast_files[i] \in Entries
    BY <1>3 DEF num
  <2>3. fast_files[i].file \in 1 .. Len(dir) /\ fast_files[i].file < next
    BY <2>2 DEF Entries, FileRecords
  <2> QED
    BY <1>3, <2>3
<1>8. ASSUME disk' \in [1 .. Len(dir) -> Seq(Seq(Nat))],
             \A k \in 1 .. Len(dir) : k # next => disk'[k] = disk[k],
             disk'[next] \in TrueCopies(next),
             \A i \in 1 .. num' : Fresh(fast_files'[i]) => disk'[fast_files'[i].file] = <<>>,
             ~ret => \A k \in 1 .. next : k \in InBatch' \/ disk'[k] \in CompleteCopies(k)
      PROVE  CopyInv'
  <2>1. \A k \in 1 .. Len(dir') : disk'[k] \in TrueCopies(k)'
    BY <1>2, <1>5, <1>6, <1>8 DEF DiskInv
  <2>2. \A i \in 1 .. num' : Fresh(fast_files[i])' => disk'[fast_files'[i].file] = <<>>
    BY <1>8 DEF Fresh
  <2>3. \A i \in 1 .. num' : ~ (i < w')
    BY <1>2, <1>3
  <2>4. \A k \in next' .. Len(dir') : disk'[k] = <<>>
    <3>1. TAKE k \in next' .. Len(dir')
    <3>2. k \in next .. Len(dir) /\ k \in 1 .. Len(dir) /\ k # next
      BY <1>2, <1>3
    <3> QED
      BY <1>6, <1>8, <3>2 DEF DiskInv
  <2>5. ~ret' => \A k \in 1 .. next' - 1 : k \in InBatch' \/ disk'[k] \in CompleteCopies(k)'
    <3>1. next' - 1 = next
      BY <1>2, <1>3
    <3> QED
      BY <1>2, <1>5, <1>8, <3>1
  <2>6. DiskInv'
    BY <1>2, <1>8, <2>1, <2>2, <2>3, <2>4, <2>5 DEF DiskInv
  <2>7. PartsInv' /\ BufferInv'
    BY <1>2, <1>3, <1>4 DEF PartsInv, BufferInv
  <2> QED
    BY <2>6, <2>7 DEF CopyInv
<1>9. CASE Head(dir[next]) = 0
  <2>1. disk' = [disk EXCEPT ![next] = << <<>> >>] /\ fast_files' = fast_files
    BY <1>1, <1>9 DEF fast_copy_add, batch
  <2>2. << <<>> >> \in TrueCopies(next) /\ CopiedOf(<< <<>> >>) = 0
    BY <1>3, BegunIsTrue
  <2>3. << <<>> >> \in Seq(Seq(Nat)) /\ << <<>> >> # <<>>
    OBVIOUS
  <2>4. Whole(next) = 0
    BY <1>3, <1>9, WholeFacts
  <2>5. << <<>> >> \in CompleteCopies(next)
    BY <2>2, <2>3, <2>4 DEF CompleteCopies
  <2>6. /\ disk' \in [1 .. Len(dir) -> Seq(Seq(Nat))] /\ disk'[next] = << <<>> >>
        /\ \A k \in 1 .. Len(dir) : k # next => disk'[k] = disk[k]
    BY <1>3, <1>6, <2>1, <2>3 DEF DiskInv
  <2>7. num' = num /\ InBatch' = InBatch
    BY <2>1 DEF num, InBatch
  <2>8. \A i \in 1 .. num' : Fresh(fast_files'[i]) => disk'[fast_files'[i].file] = <<>>
    BY <1>6, <1>7, <2>1, <2>6, <2>7 DEF DiskInv
  <2>9. ~ret => \A k \in 1 .. next : k \in InBatch' \/ disk'[k] \in CompleteCopies(k)
    <3>1. SUFFICES ASSUME ~ret, NEW k \in 1 .. next
                   PROVE  k \in InBatch \/ disk'[k] \in CompleteCopies(k)
      BY <2>7
    <3>2. CASE k = next
      BY <2>5, <2>6, <3>2
    <3>3. CASE k # next
      <4>1. k \in 1 .. next - 1 /\ k \in 1 .. Len(dir)
        BY <1>3, <3>3
      <4> QED
        BY <1>6, <2>6, <3>1, <3>3, <4>1 DEF DiskInv
    <3> QED
      BY <3>2, <3>3
  <2> QED
    BY <1>8, <2>2, <2>6, <2>8, <2>9
<1>10. CASE Head(dir[next]) # 0
  <2> DEFINE new == NewFile(next)
  <2>1. disk' = disk /\ fast_files' = Append(fast_files, new)
    BY <1>1, <1>10 DEF fast_copy_add
  <2>2. new.file = next
    BY DEF NewFile
  <2> HIDE DEF new
  <2>3. /\ num' = num + 1 /\ fast_files'[num + 1] = new
        /\ \A i \in 1 .. num : fast_files'[i] = fast_files[i]
    BY <1>3, <2>1 DEF num
  <2>4. disk[next] = <<>>
    <3>1. next \in next .. Len(dir)
      BY <1>3
    <3> QED
      BY <1>6, <3>1 DEF DiskInv
  <2>5. /\ disk' \in [1 .. Len(dir) -> Seq(Seq(Nat))] /\ disk'[next] \in TrueCopies(next)
        /\ \A k \in 1 .. Len(dir) : k # next => disk'[k] = disk[k]
    BY <1>3, <1>6, <2>1 DEF DiskInv
  <2>6. \A i \in 1 .. num' : i = num + 1 \/ i \in 1 .. num
    BY <1>3, <2>3
  <2>7. \A i \in 1 .. num' : Fresh(fast_files'[i]) => disk'[fast_files'[i].file] = <<>>
    <3>1. TAKE i \in 1 .. num'
    <3>2. CASE i = num + 1
      BY <2>1, <2>2, <2>3, <2>4, <3>2
    <3>3. CASE i \in 1 .. num
      BY <1>6, <2>1, <2>3, <3>3 DEF DiskInv
    <3> QED
      BY <2>6, <3>2, <3>3
  <2>8. InBatch \subseteq InBatch' /\ next \in InBatch'
    <3>1. \A i \in 1 .. num : i \in 1 .. num'
      BY <1>3, <2>3
    <3>2. num + 1 \in 1 .. num'
      BY <1>3, <2>3
    <3>3. InBatch' = {fast_files'[i].file : i \in 1 .. num'}
      BY DEF InBatch
    <3>4. next \in InBatch'
      BY <2>2, <2>3, <3>2, <3>3
    <3>5. InBatch \subseteq InBatch'
      <4>1. SUFFICES ASSUME NEW k \in InBatch PROVE k \in InBatch'
        OBVIOUS
      <4>2. PICK i \in 1 .. num : k = fast_files[i].file
        BY DEF InBatch
      <4>3. k = fast_files'[i].file /\ i \in 1 .. num'
        BY <2>3, <3>1, <4>2
      <4> QED
        BY <3>3, <4>3
    <3> QED
      BY <3>4, <3>5
  <2>9. ~ret => \A k \in 1 .. next : k \in InBatch' \/ disk'[k] \in CompleteCopies(k)
    <3>1. SUFFICES ASSUME ~ret, NEW k \in 1 .. next, k # next
                   PROVE  k \in InBatch' \/ disk'[k] \in CompleteCopies(k)
      BY <2>8
    <3>2. k \in 1 .. next - 1
      BY <1>3, <3>1
    <3> QED
      BY <1>6, <2>1, <2>8, <3>1, <3>2 DEF DiskInv
  <2> QED
    BY <1>8, <2>5, <2>7, <2>9
<1> QED
  BY <1>9, <1>10

\* At the start nothing is copied.
LEMMA CopyInit == Init => CopyInv
<1>1. SUFFICES ASSUME Init PROVE CopyInv
  OBVIOUS
<1>2. /\ dir \in Dirs /\ next = 1 /\ fast_files = <<>> /\ w = 1 /\ aioW = None
      /\ disk = [k \in 1 .. Len(dir) |-> <<>>]
  BY <1>1 DEF Init
<1>3. num = 0 /\ ~Active
  BY <1>2 DEF num, Active
<1>4. <<>> \in Seq(Seq(Nat)) /\ Len(<<>>) = 0
  OBVIOUS
<1>5. \A k \in 1 .. Len(dir) : <<>> \in TrueCopies(k)
  <2>1. TAKE k \in 1 .. Len(dir)
  <2>2. CopiedOf(<<>>) = 0 /\ Sum(dir[k]) \in Nat
    BY <1>2, FileFacts DEF CopiedOf
  <2>3. (\A p \in 1 .. Len(<<>>) : FALSE) /\ (\A p \in 1 .. Len(<<>>) - 1 : FALSE)
    BY <1>4
  <2> QED
    BY <1>4, <2>2, <2>3 DEF TrueCopies
<1>6. DiskInv
  <2>1. /\ disk \in [1 .. Len(dir) -> Seq(Seq(Nat))]
        /\ \A k \in 1 .. Len(dir) : disk[k] = <<>>
    BY <1>2, <1>4
  <2>2. \A k \in next .. Len(dir) : k \in 1 .. Len(dir)
    BY <1>2
  <2>3. (\A i \in 1 .. num : FALSE) /\ (\A k \in 1 .. next - 1 : FALSE)
    BY <1>2, <1>3
  <2> QED
    BY <1>5, <2>1, <2>2, <2>3 DEF DiskInv
<1> QED
  BY <1>2, <1>3, <1>6 DEF CopyInv, PartsInv, BufferInv

\* The invariant of the buffers and the disk.
THEOREM CopyInvariant == Spec => [](ResourceInv /\ CopyInv)
<1>1. Init => CopyInv
  BY CopyInit
<1>2. ResourceInv /\ ResourceInv' /\ CopyInv /\ [Next]_vars => CopyInv'
  <2>1. SUFFICES ASSUME ResourceInv, ResourceInv', CopyInv, [Next]_vars PROVE CopyInv'
    OBVIOUS
  <2>2. CASE \/ fast_copy_async \/ Finish \/ AddToFullBatch \/ fast_copy_add_fails
             \/ DirectoryRead \/ LoopTest \/ OpenFails \/ NothingToOpen \/ NoReadEnded
             \/ NoWriteEnded \/ Progress \/ UserAborts \/ StartWriteFails
             \/ WriteFailed \/ ChunkWritten
    BY <2>1, <2>2, LoopCopiesNothing
  <2>3. CASE fast_copy_add
    BY <2>1, <2>3, AddCopies
  <2>4. CASE OpenFiles
    BY <2>1, <2>4, OpenFilesCopies
  <2>5. CASE SingleBufferWrite
    BY <2>1, <2>5, SingleBufferWriteCopies
  <2>6. CASE DoubleBufferMore
    BY <2>1, <2>6, DoubleBufferMoreCopies
  <2>7. CASE DoubleBufferLast
    BY <2>1, <2>7, DoubleBufferLastCopies
  <2>8. CASE DoubleBufferJoin
    BY <2>1, <2>8, DoubleBufferJoinCopies
  <2>9. CASE SetFl2
    BY <2>1, <2>9, SetFl2Copies
  <2>10. CASE FileCopied
    BY <2>1, <2>10, FileCopiedCopies
  <2>11. CASE NextPart
    BY <2>1, <2>11, NextPartCopies
  <2>12. CASE Cleanup
    BY <2>1, <2>12, CleanupCopies
  <2>13. CASE fast_func_read
    BY <2>1, <2>13, ReadCallbackCopies
  <2>14. CASE fast_func_write
    BY <2>1, <2>14, WriteCallbackCopies
  <2>15. CASE UNCHANGED vars
    <3>1. UNCHANGED <<dir, copy_mode, next, ret, pc, fast_files, r, w, fast_writing, aioR, aioW,
                      disk>>
      BY <2>15 DEF vars, driver, batch, loop, flags, aio
    <3>2. /\ num' = num /\ W' = W /\ Active' = Active /\ InFlight' = InFlight /\ Steps' = Steps
          /\ LastPart' = LastPart /\ WriteBuffer' = WriteBuffer /\ (Ready' <=> Ready)
          /\ PartStart(W.wfd)' = PartStart(W.wfd)
      BY <3>1 DEF num, W, Active, InFlight, Steps, LastPart, WriteBuffer, Ready, PartStart
    <3>3. SplitInv' <=> SplitInv
      BY <3>1, <3>2 DEF SplitInv
    <3>4. PartsInv' /\ BufferInv'
      BY <2>1, <3>1, <3>2, <3>3 DEF CopyInv, PartsInv, BufferInv
    <3>5. DiskInv'
      BY <2>1, <3>1, <3>2, DiskStays DEF CopyInv
    <3> QED
      BY <3>4, <3>5 DEF CopyInv
  <2> QED
    BY <2>1, <2>2, <2>3, <2>4, <2>5, <2>6, <2>7, <2>8, <2>9, <2>10, <2>11, <2>12, <2>13, <2>14,
       <2>15 DEF Next, Main
<1> QED
  BY <1>1, <1>2, ResourceInvariant, PTL DEF Spec

\* Whatever fails and whenever the callbacks come, every output is a prefix of
\* its source with no part short or overfull, and when my_game_copy returns 0
\* each file is there and complete.
THEOREM CopiesStayTrue == Spec => []CopiesAreTrue
<1>1. ResourceInv /\ CopyInv => CopiesAreTrue
  <2>1. SUFFICES ASSUME ResourceInv, CopyInv PROVE CopiesAreTrue
    OBVIOUS
  <2>2. DiskInv
    BY <2>1 DEF CopyInv
  <2>3. \A k : Copied(k) = CopiedOf(disk[k])
    BY DEF Copied, CopiedOf
  <2>4. CopiesArePrefixes
    <3>1. \A k \in 1 .. Len(dir) : disk[k] \in TrueCopies(k)
      BY <2>2 DEF DiskInv
    <3> QED
      BY <2>3, <3>1 DEF TrueCopies, CopiesArePrefixes
  <2>5. SuccessIsComplete
    <3>1. SUFFICES ASSUME pc = "done", ~ret, NEW k \in 1 .. Len(dir)
                   PROVE  disk[k] # <<>> /\ Copied(k) = Whole(k)
      BY DEF SuccessIsComplete, Success
    <3>2. next > Len(dir) /\ num = 0 /\ next \in 1 .. Len(dir) + 1 /\ dir \in Dirs
      BY <2>1, <3>1 DEF ResourceInv, ControlInv, OrderInv, ScalarsInv
    <3>3. k \in 1 .. next - 1
      <4>1. Len(dir) \in Nat
        <5>1. dir \in Seq(Seq(Nat) \ {<<>>})
          BY <3>2, FastCopyAssumption
        <5> QED
          BY <5>1
      <4> QED
        BY <3>2, <4>1
    <3>4. k \notin InBatch
      BY <3>2 DEF InBatch
    <3>5. disk[k] \in CompleteCopies(k)
      BY <2>2, <3>1, <3>3, <3>4 DEF DiskInv
    <3> QED
      BY <2>3, <3>5 DEF CompleteCopies
  <2> QED
    BY <2>4, <2>5 DEF CopiesAreTrue
<1> QED
  BY <1>1, CopyInvariant, PTL
=============================================================================
