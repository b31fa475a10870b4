------------------------------ MODULE IsoProofs ------------------------------
(***************************************************************************)
(* Theorems about the writing of an image (IsoWriter), as part of the      *)
(* specification of IsoExtract: for all folders, part sizes, block sizes   *)
(* and queues.                                                             *)
(*                                                                         *)
(* An image written at some other time stays as it is, and nothing is left *)
(* to do for makeps3iso and the worker (AtRest). Otherwise the invariant   *)
(* WriterInv says how far the parts are filled at every place of the two   *)
(* threads, which takes an account of the queue and of the one block       *)
(* between them.                                                           *)
(***************************************************************************)
EXTENDS IsoExtract, TLAPS

-----------------------------------------------------------------------------
(* The queue: at its head perhaps the function of an earlier caller, then  *)
(* at most one block, then the null events makeps3iso has sent at its end. *)
Nulls == IF mpc \in {"next", "try", "check1", "wait1", "clear1"} THEN 0
         ELSE IF mpc \in {"check2", "wait2", "clear2"} THEN 1 ELSE 2

QueueInv ==
  \A i \in 1 .. Len(evQ) :
    /\ evQ[i] \in {Call(Other), Call(WriteAsync), Call(NULL)}
    /\ evQ[i] = Call(Other) => i = 1
    /\ evQ[i] = Call(WriteAsync) => i = 1 \/ (i = 2 /\ evQ[1] = Call(Other))
    /\ evQ[i] = Call(NULL) => i > Len(evQ) - Nulls

(* The worker is inside my_func_async exactly when it has places there,    *)
(* and a block is in one place only.                                       *)
Queued == \E i \in 1 .. Len(evQ) : evQ[i] = Call(WriteAsync)
Taken == wpc = "dispatch" /\ event = Call(WriteAsync)
Busy == fpc # "idle"

WorkerInv ==
  /\ event_thread_working = 1 <=> wpc \in {"run", "clear"}
  /\ wpc \in {"dispatch", "run"} => event \in {Call(Other), Call(WriteAsync), Call(NULL)}
  /\ wpc = "run" => event # Call(NULL)
  /\ Busy <=> wpc = "run" /\ event = Call(WriteAsync)
  /\ wpc # "off" /\ wpc # "exited"
  /\ Queued => ~Taken /\ ~Busy

(* The flags and the memory of the block.                                  *)
FlagsInv ==
  /\ flags \in {{}, {"ENABLE"}, {"ERROR"}}
  /\ first => flags = {} /\ ~BlockInUse /\ ~f.mem
  /\ BlockInUse => "ERROR" \notin flags
  /\ "ENABLE" \in flags => BlockInUse
  /\ BlockInUse /\ "ENABLE" \notin flags => slipped
  /\ BlockInUse /\ mpc \in {"clear1", "clear2", "close", "err", "done"} => slipped
  /\ slipped => mpc \in {"clear1", "check2", "wait2", "clear2", "close", "err", "done"}
  /\ f.mem /\ ~BlockInUse => slipped
  /\ "ERROR" \in flags => f.ret # 0
  /\ stray => slipped

AsyncInv ==
  /\ fpc = "write" => f.mem /\ wpos <= f.n
  /\ fpc = "store" => ~f.mem /\ f.ret = wret
  /\ fpc \in {"write", "store"} => wflags = {"ENABLE"}

(* What makeps3iso has handed over, and what it returns.                   *)
MainInv ==
  /\ mpc \in {"next", "try", "check1", "wait1", "clear1"} => ret = 0
  /\ mpc = "err" => ret # 0
  /\ flba = IF first THEN Header ELSE f.lba + f.n
  /\ mpc = "try" => blk.lba = flba /\ blk.n >= 1 /\ flba + blk.n <= Toc
  /\ mpc # "try" /\ ret = 0 => blk.lba = IF first THEN Header ELSE f.lba
  /\ mpc \notin {"next", "try"} /\ ret = 0 => flba = Toc

(* The sectors up to n are in the parts, and none behind: the part the     *)
(* worker has open is the one n - 1 is in, or the one that begins with n.  *)
Cur == IF iso_split = 0 THEN 0 ELSE iso_split - 1

FilledTo(n) ==
  /\ Begin(Cur) <= n /\ n <= End(Cur)
  /\ \A p \in Parts :
       Len(disk[p]) = IF p < Cur THEN End(p) - Begin(p)
                      ELSE IF p = Cur THEN n - Begin(p) ELSE 0

Frontier == {n \in Nat : FilledTo(n)}
Kept == {lba \in Nat : OnDisk(lba)}
Start == Begin(0)

DiskInv ==
  /\ first /\ (mpc = "done" => ret = 0) => Header \in Frontier
  /\ ~first /\ BlockInUse /\ fpc \in {"idle", "test"} /\ mpc # "done" => f.lba \in Frontier
  /\ fpc = "write" /\ mpc # "done" => f.lba + wpos \in Frontier
  /\ fpc = "store" /\ wret = 0 /\ mpc # "done" => f.lba + f.n \in Frontier
  /\ ~first /\ ~BlockInUse /\ "ERROR" \notin flags /\ ret = 0 /\ ~slipped => f.lba + f.n \in Frontier
  /\ ~first /\ (mpc = "done" => ret = 0) => \A lba \in Start .. f.lba - 1 : lba \in Kept
  /\ fd # Closed => fd = Cur
  /\ iso_split # 0 => Header <= SplitLba

WriterInv ==
  IsoTypeOK /\ QueueInv /\ WorkerInv /\ FlagsInv /\ AsyncInv /\ MainInv /\ DiskInv /\ PartsInOrder

AtRest ==
  /\ mpc = "done" /\ wpc = "receive" /\ evQ = <<>> /\ fpc = "idle"
  /\ ReturnIsSound /\ PartsInOrder

IInv == AtRest \/ WriterInv

-----------------------------------------------------------------------------
(* Events.                                                                 *)

\* The three events of the writer are events, and differ.
LEMMA Events ==
  /\ {Call(Other), Call(WriteAsync), Call(NULL)} \subseteq Event
  /\ \A x : Call(x).func = x /\ Call(x).code = "call"
  /\ WriteAsync # Other /\ WriteAsync # NULL /\ Other # NULL
  /\ Call(WriteAsync) # Call(Other) /\ Call(WriteAsync) # Call(NULL) /\ Call(Other) # Call(NULL)
<1>1. \A x : Call(x).func = x /\ Call(x).code = "call"
  BY DEF Call
<1>2. WriteAsync # Other /\ WriteAsync # NULL /\ Other # NULL /\ Funcs = {WriteAsync, Other}
  BY IsoAssumption, NullAssumption
<1>3. {Call(Other), Call(WriteAsync), Call(NULL)} \subseteq Event
  BY <1>2 DEF Call, Event
<1> QED
  BY <1>1, <1>2, <1>3

\* At most an earlier caller's event, a block and the null events are in
\* the queue.
LEMMA QueueIsShort ==
  ASSUME EvTypeOK, QueueInv, Nulls \in 0 .. 2
  PROVE  Len(evQ) <= 2 + Nulls
<1>1. Len(evQ) \in Nat
  BY DEF EvTypeOK
<1>2. CASE Len(evQ) >= 3
  <2>1. 3 \in 1 .. Len(evQ)
    BY <1>1, <1>2
  <2>2. evQ[3] = Call(NULL)
    BY <2>1 DEF QueueInv
  <2> QED
    BY <1>1, <2>1, <2>2 DEF QueueInv
<1> QED
  BY <1>1, <1>2

\* makeps3iso sends a null event.
LEMMA NullSent ==
  ASSUME WriterInv, event_thread_send(Call(NULL)), Nulls \in 0 .. 1, Nulls' = Nulls + 1, fpc' = fpc
  PROVE  EvTypeOK' /\ QueueInv' /\ WorkerInv' /\ (BlockInUse' <=> BlockInUse)
<1>0. EvTypeOK /\ QueueInv /\ WorkerInv
  BY DEF WriterInv, IsoTypeOK
<1>1. Len(evQ) \in Nat /\ evQ \in Seq(Event) /\ Len(evQ) <= 2 + Nulls /\ QueueSize >= 4 /\ QueueSize \in Nat
  BY <1>0, QueueIsShort, IsoAssumption, QueueSizeAssumption DEF EvTypeOK
<1>2. evQ' = Append(evQ, Call(NULL)) /\ UNCHANGED <<init, event_thread_working, wpc, event>>
  BY <1>1 DEF event_thread_send, CanSend
<1>3. /\ Len(evQ') = Len(evQ) + 1
      /\ \A i \in 1 .. Len(evQ') : evQ'[i] = IF i <= Len(evQ) THEN evQ[i] ELSE Call(NULL)
      /\ evQ' \in Seq(Event)
  BY <1>1, <1>2, Events
<1>4. EvTypeOK'
  BY <1>0, <1>1, <1>2, <1>3 DEF EvTypeOK
<1>5. QueueInv'
  BY <1>0, <1>1, <1>3, Events DEF QueueInv, Call
<1>6. Queued' <=> Queued
  BY SMTT(30), <1>1, <1>3, Events DEF Queued, Call
<1>7. WorkerInv'
  BY <1>0, <1>2, <1>6 DEF WorkerInv, Taken, Busy
<1>8. BlockInUse' <=> BlockInUse
  BY <1>2, <1>6 DEF BlockInUse, Underway, Queued
<1> QED
  BY <1>4, <1>5, <1>7, <1>8

\* write_split sends a block when none is in use.
LEMMA BlockSent ==
  ASSUME WriterInv, event_thread_send(Call(WriteAsync)), Nulls = 0, Nulls' = 0, fpc' = fpc, ~BlockInUse
  PROVE  EvTypeOK' /\ QueueInv' /\ WorkerInv' /\ BlockInUse' /\ fpc = "idle"
<1>0. EvTypeOK /\ QueueInv /\ WorkerInv
  BY DEF WriterInv, IsoTypeOK
<1>1. Len(evQ) \in Nat /\ evQ \in Seq(Event) /\ QueueSize >= 4 /\ QueueSize \in Nat
  BY IsoAssumption, QueueSizeAssumption, <1>0 DEF EvTypeOK
<1>2. \A i \in 1 .. Len(evQ) : i = 1 /\ evQ[i] = Call(Other)
  <2>1. \A i \in 1 .. Len(evQ) : evQ[i] # Call(WriteAsync)
    BY DEF BlockInUse, Underway
  <2> QED
    BY <1>0, <1>1, <2>1 DEF QueueInv
<1>3. Len(evQ) <= 1
  <2>1. CASE Len(evQ) >= 2
    BY <1>1, <1>2, <2>1, 2 \in 1 .. Len(evQ)
  <2> QED
    BY <1>1, <2>1
<1>4. evQ' = Append(evQ, Call(WriteAsync)) /\ UNCHANGED <<init, event_thread_working, wpc, event>>
  BY <1>1, <1>3 DEF event_thread_send, CanSend
<1>5. /\ Len(evQ') = Len(evQ) + 1
      /\ \A i \in 1 .. Len(evQ') : evQ'[i] = IF i <= Len(evQ) THEN evQ[i] ELSE Call(WriteAsync)
      /\ evQ' \in Seq(Event)
  BY <1>1, <1>4, Events
<1>6. EvTypeOK'
  BY <1>0, <1>1, <1>3, <1>4, <1>5 DEF EvTypeOK
<1>7. QueueInv'
  BY <1>1, <1>2, <1>3, <1>5, Events DEF QueueInv, Call
<1>8. evQ'[Len(evQ')] = Call(WriteAsync) /\ Len(evQ') \in 1 .. Len(evQ')
  BY <1>1, <1>5
<1>9. BlockInUse'
  BY <1>8 DEF BlockInUse, Underway, Call
<1>10. WorkerInv'
  BY <1>0, <1>4 DEF WorkerInv, Taken, Busy, BlockInUse, Underway, Call
<1> QED
  BY <1>6, <1>7, <1>9, <1>10 DEF BlockInUse

\* The worker takes an event.
LEMMA EventReceived ==
  ASSUME WriterInv, Receive, Nulls' = Nulls, Nulls \in 0 .. 2, fpc' = fpc
  PROVE  EvTypeOK' /\ QueueInv' /\ WorkerInv' /\ (BlockInUse' <=> BlockInUse)
<1>0. EvTypeOK /\ QueueInv /\ WorkerInv
  BY DEF WriterInv, IsoTypeOK
<1>1. Len(evQ) \in Nat /\ evQ \in Seq(Event) /\ evQ # <<>> /\ Len(evQ) >= 1
  BY <1>0 DEF EvTypeOK, Receive
<1>2. /\ evQ' \in Seq(Event) /\ Len(evQ') = Len(evQ) - 1
      /\ \A i \in 1 .. Len(evQ') : evQ'[i] = evQ[i + 1]
      /\ event' = evQ[1] /\ Head(evQ) = evQ[1]
  BY <1>1 DEF Receive
<1>3. evQ[1] \in {Call(Other), Call(WriteAsync), Call(NULL)}
  BY <1>0, <1>1 DEF QueueInv
<1>4. wpc = "receive" /\ wpc' = "dispatch" /\ UNCHANGED <<init, event_thread_working>>
  <2>1. evQ[1].code = "call"
    BY <1>3, Events
  <2> QED
    BY <1>2, <2>1 DEF Receive
<1>5. EvTypeOK'
  <2>1. event' \in Event /\ evQ' \in Seq(Event)
    BY <1>2, <1>3, Events
  <2>2. Len(evQ') <= QueueSize
    BY <1>0, <1>1, <1>2, QueueSizeAssumption DEF EvTypeOK
  <2> QED
    BY <1>0, <1>4, <2>1, <2>2 DEF EvTypeOK, WorkerPlaces
<1>6. QueueInv'
  BY <1>0, <1>1, <1>2, Events DEF QueueInv, Call
<1>7. Queued <=> Queued' \/ evQ[1] = Call(WriteAsync)
  <2>1. ASSUME Queued PROVE Queued' \/ evQ[1] = Call(WriteAsync)
    <3>1. PICK i \in 1 .. Len(evQ) : evQ[i] = Call(WriteAsync)
      BY <2>1 DEF Queued
    <3>2. CASE i # 1
      <4>1. i - 1 \in 1 .. Len(evQ') /\ evQ'[i - 1] = Call(WriteAsync)
        BY <1>1, <1>2, <3>1, <3>2
      <4> QED
        BY <4>1 DEF Queued, Call
    <3> QED
      BY <3>1, <3>2
  <2>2. ASSUME Queued' PROVE Queued
    <3>1. PICK i \in 1 .. Len(evQ') : evQ'[i] = Call(WriteAsync)
      BY <2>2 DEF Queued, Call
    <3>2. i + 1 \in 1 .. Len(evQ) /\ evQ[i + 1] = Call(WriteAsync)
      BY <1>1, <1>2, <3>1
    <3> QED
      BY <3>2 DEF Queued
  <2> QED
    BY <1>1, <2>1, <2>2 DEF Queued
<1>8. ~(Queued' /\ evQ[1] = Call(WriteAsync))
  <2>1. SUFFICES ASSUME Queued', evQ[1] = Call(WriteAsync) PROVE FALSE
    OBVIOUS
  <2>2. PICK i \in 1 .. Len(evQ') : evQ'[i] = Call(WriteAsync)
    BY <2>1 DEF Queued, Call
  <2>3. i + 1 \in 1 .. Len(evQ) /\ evQ[i + 1] = Call(WriteAsync) /\ i + 1 # 1
    BY <1>1, <1>2, <2>2
  <2> QED
    BY <1>0, <2>1, <2>3, Events DEF QueueInv
<1>9. ~Busy /\ ~Busy' /\ ~Taken
  BY <1>0, <1>4 DEF WorkerInv, Busy, Taken
<1>10. Taken' <=> evQ[1] = Call(WriteAsync)
  BY <1>2, <1>4 DEF Taken, Call
<1>11. WorkerInv'
  BY <1>0, <1>2, <1>3, <1>4, <1>8, <1>9, <1>10 DEF WorkerInv, Call
<1>12. BlockInUse' <=> BlockInUse
  BY <1>7, <1>9, <1>10 DEF BlockInUse, Underway, Queued, Taken, Busy
<1> QED
  BY <1>5, <1>6, <1>11, <1>12

\* The queue is looked at and left alone.
LEMMA QueueKept ==
  ASSUME QueueInv, evQ' = evQ, Nulls \in 0 .. 2, Nulls' \in 0 .. 2, Nulls' >= Nulls
  PROVE  QueueInv' /\ (Queued' <=> Queued)
<1>1. QueueInv'
  <2>1. SUFFICES ASSUME NEW i \in 1 .. Len(evQ), Len(evQ) \in Nat
                 PROVE  i > Len(evQ) - Nulls => i > Len(evQ) - Nulls'
    BY DEF QueueInv, Call
  <2> QED
    BY <2>1
<1> QED
  BY <1>1 DEF Queued, Call

\* The worker marks itself busy and calls the function, ...
LEMMA EventDispatched ==
  ASSUME WriterInv, Dispatch, Nulls' = Nulls, Nulls \in 0 .. 2,
         fpc' = IF event.func = WriteAsync THEN "test" ELSE "idle"
  PROVE  EvTypeOK' /\ QueueInv' /\ WorkerInv' /\ (BlockInUse' <=> BlockInUse) /\ fpc = "idle"
<1>0. EvTypeOK /\ QueueInv /\ WorkerInv
  BY DEF WriterInv, IsoTypeOK
<1>1. QueueInv' /\ (Queued' <=> Queued)
  BY <1>0, QueueKept DEF Dispatch
<1>2. EvTypeOK'
  BY <1>0 DEF EvTypeOK, Dispatch, WorkerPlaces
<1>3. event.func = NULL <=> event = Call(NULL)
  BY <1>0, Events DEF WorkerInv, Dispatch
<1>4. event.func = WriteAsync <=> event = Call(WriteAsync)
  BY <1>0, Events DEF WorkerInv, Dispatch
<1>5. ~Busy /\ (Busy' <=> Taken) /\ ~Taken'
  BY <1>0, <1>4 DEF WorkerInv, Dispatch, Busy, Taken
<1>6. WorkerInv'
  BY <1>0, <1>1, <1>3, <1>4, <1>5, Events DEF WorkerInv, Dispatch, Taken, Call
<1> QED
  BY <1>1, <1>2, <1>5, <1>6 DEF BlockInUse, Underway, Queued, Taken, Busy

\* ... the function returns, ...
LEMMA FunctionReturned ==
  ASSUME WriterInv, Return, Nulls' = Nulls, Nulls \in 0 .. 2, fpc' = "idle"
  PROVE  /\ EvTypeOK' /\ QueueInv' /\ WorkerInv'
         /\ ~Taken /\ (Busy => ~Queued)
         /\ BlockInUse' <=> Queued
<1>0. EvTypeOK /\ QueueInv /\ WorkerInv
  BY DEF WriterInv, IsoTypeOK
<1>1. QueueInv' /\ (Queued' <=> Queued)
  BY <1>0, QueueKept DEF Return
<1>2. EvTypeOK'
  BY <1>0 DEF EvTypeOK, Return, WorkerPlaces
<1>3. ~Taken /\ ~Taken' /\ ~Busy'
  BY DEF Taken, Return, Busy
<1>4. WorkerInv'
  BY <1>0, <1>1, <1>3, Events DEF WorkerInv, Return, Taken, Call
<1> QED
  BY <1>0, <1>1, <1>2, <1>3, <1>4 DEF BlockInUse, Underway, Queued, Taken, Busy, WorkerInv

\* ... and the worker is free again.
LEMMA WorkerCleared ==
  ASSUME WriterInv, Clear, Nulls' = Nulls, Nulls \in 0 .. 2, fpc' = fpc
  PROVE  EvTypeOK' /\ QueueInv' /\ WorkerInv' /\ (BlockInUse' <=> BlockInUse)
<1>0. EvTypeOK /\ QueueInv /\ WorkerInv
  BY DEF WriterInv, IsoTypeOK
<1>1. QueueInv' /\ (Queued' <=> Queued)
  BY <1>0, QueueKept DEF Clear
<1>2. EvTypeOK'
  BY <1>0 DEF EvTypeOK, Clear, WorkerPlaces
<1>3. ~Taken /\ ~Taken'
  BY DEF Taken, Clear
<1>4. WorkerInv'
  BY <1>0, <1>1, <1>3 DEF WorkerInv, Clear, Busy, Call
<1> QED
  BY <1>1, <1>2, <1>3, <1>4 DEF BlockInUse, Underway, Queued, Taken

\* A step that leaves the queue and the worker's place alone.
LEMMA EventsKept ==
  ASSUME WriterInv, UNCHANGED evVars, Nulls \in 0 .. 2, Nulls' \in 0 .. 2, Nulls' >= Nulls,
         fpc' \in {"test", "write", "store", "idle"}, fpc' = "idle" <=> fpc = "idle"
  PROVE  EvTypeOK' /\ QueueInv' /\ WorkerInv' /\ (BlockInUse' <=> BlockInUse)
<1>0. EvTypeOK /\ QueueInv /\ WorkerInv
  BY DEF WriterInv, IsoTypeOK
<1>1. QueueInv' /\ (Queued' <=> Queued)
  BY <1>0, QueueKept DEF evVars
<1>2. EvTypeOK'
  BY <1>0 DEF EvTypeOK, evVars, WorkerPlaces
<1>3. (Taken' <=> Taken) /\ (Busy' <=> Busy)
  BY DEF Taken, Call, Busy, evVars
<1>4. WorkerInv'
  BY <1>0, <1>1, <1>3 DEF WorkerInv, evVars, Call
<1> QED
  BY <1>1, <1>2, <1>3, <1>4 DEF BlockInUse, Underway, Queued, Taken, Busy

-----------------------------------------------------------------------------
(* Parts and sectors.                                                      *)

\* What division is, in the only way it is used.
LEMMA DivMod ==
  ASSUME NEW a \in Nat, NEW b \in Nat \ {0}
  PROVE  a \div b \in Nat /\ (a \div b) * b <= a /\ a < (a \div b) * b + b
  BY SMT

\* The quotient is determined by its bounds.
LEMMA DivIs ==
  ASSUME NEW a \in Nat, NEW b \in Nat \ {0}, NEW q \in Nat, q * b <= a, a < q * b + b
  PROVE  a \div b = q
  BY DivMod, SMT

\* Multiples of a positive number are ordered like their factors.
LEMMA Multiples ==
  ASSUME NEW b \in Nat \ {0}, NEW p \in Nat, NEW q \in Nat
  PROVE  /\ p * b \in Nat /\ (p + 1) * b = p * b + b
         /\ p < q => p * b + b <= q * b
  BY SMT

\* A part ends where the next begins, and a sector is in the part PartOf
\* says.
Fits == IsoTypeOK /\ (iso_split # 0 => Header <= SplitLba)

LEMMA PartBounds ==
  ASSUME Fits
  PROVE  /\ Parts \subseteq Nat /\ 0 \in Parts /\ Cur \in Parts
         /\ \A p \in Parts : Begin(p) \in Nat /\ End(p) \in Nat
         /\ iso_split # 0 => \A p, q \in Parts :
              Begin(p) <= End(p) /\ (p < q => End(p) <= Begin(q)) /\ Begin(p + 1) = End(p)
<1>1. SplitLba \in Nat \ {0} /\ Toc \in Nat /\ Header \in Nat \ {0} /\ Header <= Toc
  BY IsoAssumption DEF Fits, IsoTypeOK
<1>2. Toc \div SplitLba \in Nat
  BY <1>1, DivMod
<1>3. Parts \subseteq Nat /\ 0 \in Parts
  BY <1>2 DEF Parts
<1>4. Cur \in Parts
  <2>1. iso_split \in 0 .. Toc \div SplitLba + 1
    BY DEF Fits, IsoTypeOK
  <2> QED
    BY <1>2, <2>1 DEF Parts, Cur
<1>5. ASSUME NEW p \in Parts PROVE p * SplitLba \in Nat /\ (p + 1) * SplitLba = p * SplitLba + SplitLba
  BY <1>1, <1>3, Multiples
<1>6. \A p \in Parts : Begin(p) \in Nat /\ End(p) \in Nat
  BY <1>1, <1>5 DEF Begin, End
<1>7. ASSUME iso_split # 0, NEW p \in Parts, NEW q \in Parts
      PROVE  Begin(p) <= End(p) /\ (p < q => End(p) <= Begin(q)) /\ Begin(p + 1) = End(p)
  <2>1. Header <= SplitLba
    BY <1>7 DEF Fits
  <2>2. p < q => p * SplitLba + SplitLba <= q * SplitLba
    BY <1>1, <1>3, Multiples
  <2>3. 0 * SplitLba = 0 /\ p \in Nat /\ q \in Nat
    BY <1>1, <1>3
  <2> QED
    BY <1>1, <1>5, <1>7, <2>1, <2>2, <2>3 DEF Begin, End
<1> QED
  BY <1>3, <1>4, <1>6, <1>7

\* A sector of the image is in one part.
LEMMA SectorsPart ==
  ASSUME Fits, NEW lba \in Nat, lba < Toc
  PROVE  /\ PartOf(lba) \in Parts /\ lba < End(PartOf(lba))
         /\ Start <= lba => Begin(PartOf(lba)) <= lba
         /\ \A p \in Parts : iso_split # 0 /\ Begin(p) <= lba /\ lba < End(p) => PartOf(lba) = p
<1>1. SplitLba \in Nat \ {0} /\ Toc \in Nat /\ Header \in Nat \ {0} /\ Header <= Toc
  BY IsoAssumption DEF Fits, IsoTypeOK
<1>2. Parts \subseteq Nat /\ 0 \in Parts
  BY PartBounds
<1>3. CASE iso_split = 0
  BY <1>1, <1>2, <1>3 DEF PartOf, End, Start
<1>4. CASE iso_split # 0
  <2> DEFINE q == lba \div SplitLba
  <2>1. q \in Nat /\ q * SplitLba <= lba /\ lba < q * SplitLba + SplitLba
    BY <1>1, DivMod
  <2>2. PartOf(lba) = q
    BY <1>4 DEF PartOf
  <2>3. (q + 1) * SplitLba = q * SplitLba + SplitLba
    BY <1>1, <2>1, Multiples
  <2> HIDE DEF q
  <2>4. q <= Toc \div SplitLba
    <3> DEFINE t == Toc \div SplitLba
    <3>1. t \in Nat /\ Toc < t * SplitLba + SplitLba
      BY <1>1, DivMod
    <3> HIDE DEF t
    <3>2. t < q => t * SplitLba + SplitLba <= q * SplitLba
      BY <1>1, <2>1, <3>1, Multiples
    <3>3. q * SplitLba \in Nat /\ t * SplitLba \in Nat
      BY <1>1, <2>1, <3>1, Multiples
    <3> QED
      BY <1>1, <2>1, <3>1, <3>2, <3>3 DEF t
  <2>5. q \in Parts
    BY <2>1, <2>4, <1>1, DivMod DEF Parts
  <2>6. lba < End(q)
    BY <1>4, <2>1, <2>3 DEF End
  <2>7. Start <= lba => Begin(q) <= lba
    BY <1>4, <2>1 DEF Begin, Start
  <2>8. ASSUME NEW p \in Parts, Begin(p) <= lba, lba < End(p) PROVE p = q
    <3>1. p \in Nat /\ p * SplitLba \in Nat /\ (p + 1) * SplitLba = p * SplitLba + SplitLba
      BY <1>1, <1>2, Multiples
    <3>2. p * SplitLba <= lba
      BY <2>8, <3>1, <1>1, 0 * SplitLba = 0 DEF Begin
    <3>3. lba < p * SplitLba + SplitLba
      BY <1>4, <2>8, <3>1 DEF End
    <3> QED
      BY <1>1, <3>1, <3>2, <3>3, DivIs DEF q
  <2> QED
    BY <1>4, <2>2, <2>5, <2>6, <2>7, <2>8
<1> QED
  BY <1>3, <1>4

\* What the parts hold is a matter of the output alone.
LEMMA OutputKept ==
  ASSUME UNCHANGED <<layout, headerOk, iso_split, disk>>
  PROVE  /\ Frontier' = Frontier /\ Kept' = Kept /\ Start' = Start /\ Cur' = Cur
         /\ PartsInOrder' <=> PartsInOrder
  BY DEF Frontier, Kept, Start, Cur, PartsInOrder, FilledTo, OnDisk, PartOf, Begin, End, Parts, Header, Toc

\* Everything up to the frontier is in its part.
LEMMA FrontierIsKept ==
  ASSUME Fits, NEW n \in Frontier, n <= Toc
  PROVE  \A lba \in Start .. n - 1 : lba \in Kept
<1>1. Toc \in Nat /\ n \in Nat /\ Start \in Nat
  BY PartBounds DEF Fits, IsoTypeOK, Frontier, Start
<1>2. SUFFICES ASSUME NEW lba \in Nat, Start <= lba, lba < n PROVE OnDisk(lba)
  BY <1>1 DEF Kept
<1>3. PICK p \in Parts : p = PartOf(lba) /\ Begin(p) <= lba /\ lba < End(p)
  BY <1>1, <1>2, SectorsPart
<1>4. p \in Nat /\ Cur \in Nat /\ Cur \in Parts /\ Begin(p) \in Nat /\ End(p) \in Nat /\ Begin(Cur) \in Nat /\ End(Cur) \in Nat
  BY PartBounds
<1>5. FilledTo(n)
  BY DEF Frontier
<1>6. p <= Cur
  <2>1. CASE iso_split = 0
    BY <1>3, <2>1 DEF PartOf, Cur
  <2>2. CASE iso_split # 0 /\ Cur < p
    <3>1. End(Cur) <= Begin(p)
      BY <1>4, <2>2, PartBounds
    <3> QED
      BY <1>1, <1>2, <1>3, <1>4, <1>5, <3>1 DEF FilledTo
  <2> QED
    BY <1>4, <2>1, <2>2
<1>7. lba - Begin(p) + 1 \in 1 .. Len(disk[p])
  BY SMTT(30), <1>1, <1>2, <1>3, <1>4, <1>5, <1>6 DEF FilledTo
<1> QED
  BY <1>3, <1>7 DEF OnDisk

\* The next sector goes behind the others of the current part.
LEMMA SectorAppended ==
  ASSUME Fits, PartsInOrder, NEW n \in Frontier, n < Toc, iso_split = 0 \/ PartOf(n) = Cur,
         disk' = [disk EXCEPT ![Cur] = Append(@, n)],
         UNCHANGED <<layout, headerOk, iso_split>>
  PROVE  n + 1 \in Frontier' /\ Kept \subseteq Kept' /\ PartsInOrder' /\ disk' \in [Parts -> Seq(Nat)]
<1>1. Toc \in Nat /\ n \in Nat /\ disk \in [Parts -> Seq(Nat)] /\ FilledTo(n)
  BY DEF Fits, IsoTypeOK, Frontier
<1>2. Parts \subseteq Nat /\ Cur \in Parts /\ \A p \in Parts : Begin(p) \in Nat /\ End(p) \in Nat
  BY PartBounds
<1>3. n < End(Cur)
  BY <1>1, SectorsPart DEF End, Cur
<1>4. disk' \in [Parts -> Seq(Nat)]
  BY <1>1, <1>2
<1>5. \A p \in Parts : Len(disk[p]) \in Nat /\ Len(disk'[p]) = IF p = Cur THEN Len(disk[p]) + 1 ELSE Len(disk[p])
  BY <1>1, <1>2
<1>6. \A p \in Parts : \A i \in 1 .. Len(disk'[p]) :
        disk'[p][i] = IF p = Cur /\ i = Len(disk[p]) + 1 THEN n ELSE disk[p][i]
  BY <1>1, <1>2
<1>7. /\ Parts' = Parts /\ Cur' = Cur /\ Start' = Start
      /\ \A p : Begin(p)' = Begin(p) /\ End(p)' = End(p)
      /\ \A lba : PartOf(lba)' = PartOf(lba)
  BY DEF Parts, Cur, Begin, End, Header, Toc, PartOf, Start
<1>8. n + 1 \in Frontier'
  <2>2. ASSUME NEW p \in Parts
        PROVE  Len(disk'[p]) = IF p < Cur THEN End(p) - Begin(p) ELSE IF p = Cur THEN n + 1 - Begin(p) ELSE 0
    BY <1>1, <1>2, <1>5 DEF FilledTo
  <2>3. Begin(Cur) <= n + 1 /\ n + 1 <= End(Cur)
    BY <1>1, <1>2, <1>3 DEF FilledTo
  <2>4. FilledTo(n + 1)'
    BY <1>1, <1>2, <1>7, <2>2, <2>3 DEF FilledTo
  <2> QED
    BY <1>1, <2>4 DEF Frontier
<1>9. Kept \subseteq Kept'
  <2>1. SUFFICES ASSUME NEW lba \in Nat, OnDisk(lba) PROVE OnDisk(lba)'
    BY DEF Kept
  <2> QED
    BY <1>1, <1>2, <1>5, <2>1 DEF OnDisk, PartOf, Begin, Header
<1>10. PartsInOrder'
  <2>1. SUFFICES ASSUME NEW p \in Parts, NEW i \in 1 .. Len(disk'[p])
                 PROVE  disk'[p][i] = Begin(p) + i - 1 /\ disk'[p][i] < End(p)
    BY <1>7 DEF PartsInOrder, Begin, End, Parts, Header, Toc
  <2>2. CASE p = Cur /\ i = Len(disk[p]) + 1
    <3>1. disk'[p][i] = n
      BY <1>6, <2>2
    <3>2. Len(disk[p]) = n - Begin(p)
      BY <1>1, <1>2, <2>2 DEF FilledTo
    <3>3. Begin(p) \in Nat /\ n \in Nat /\ n < End(p) /\ i = Len(disk[p]) + 1
      BY <1>1, <1>2, <1>3, <2>2
    <3> QED
      BY <3>1, <3>2, <3>3
  <2>3. CASE ~(p = Cur /\ i = Len(disk[p]) + 1)
    <3>1. i \in 1 .. Len(disk[p]) /\ disk'[p][i] = disk[p][i]
      BY <1>5, <1>6, <2>3
    <3> QED
      BY <3>1 DEF PartsInOrder
  <2> QED
    BY <2>2, <2>3
<1> QED
  BY <1>4, <1>8, <1>9, <1>10

\* The next part is the one behind the current part, which is full.
LEMMA PartOpened ==
  ASSUME Fits, PartsInOrder, NEW n \in Frontier, n < Toc, iso_split # 0, PartOf(n) # iso_split - 1,
         iso_split' = PartOf(n) + 1,
         disk' = disk \/ disk' = [disk EXCEPT ![PartOf(n)] = <<>>],
         UNCHANGED <<layout, headerOk>>
  PROVE  /\ n \in Frontier' /\ Kept \subseteq Kept' /\ PartsInOrder'
         /\ disk' = disk /\ Cur' = PartOf(n) /\ PartOf(n) \in Parts
<1>1. Toc \in Nat /\ n \in Nat /\ disk \in [Parts -> Seq(Nat)] /\ FilledTo(n)
  BY DEF Fits, IsoTypeOK, Frontier
<1>2. Parts \subseteq Nat /\ Cur \in Parts /\ \A p \in Parts : Begin(p) \in Nat /\ End(p) \in Nat
  BY PartBounds
<1>3. PICK q \in Parts : q = PartOf(n) /\ n < End(q) /\ q # Cur
  BY <1>1, SectorsPart DEF Cur
<1>4. n = End(Cur)
  <2>1. ~(n < End(Cur))
    BY <1>1, <1>2, <1>3, SectorsPart DEF FilledTo
  <2> QED
    BY <1>1, <1>2, <2>1 DEF FilledTo
<1>5. Cur < q
  <2>1. q < Cur => End(q) <= Begin(Cur) /\ Begin(Cur) <= End(Cur)
    BY <1>2, PartBounds
  <2> QED
    BY <1>1, <1>2, <1>3, <1>4, <2>1
<1>6. q = Cur + 1 /\ Begin(q) = n
  <2>1. Cur + 1 \in Parts
    BY <1>2, <1>3, <1>5, DivMod, IsoAssumption, <1>1 DEF Parts
  <2>2. Begin(Cur + 1) = n /\ Begin(Cur + 1) \in Nat /\ End(Cur + 1) \in Nat
    BY <1>2, <1>4, <2>1, PartBounds
  <2>3. Cur + 1 < q => End(Cur + 1) <= Begin(q)
    BY <1>3, <2>1, PartBounds
  <2>4. n < End(Cur + 1)
    <3>1. End(Cur + 1) = Begin(Cur + 1) + SplitLba
      BY <1>2, IsoAssumption, Multiples DEF Begin, End
    <3> QED
      BY <1>1, <2>2, <3>1, IsoAssumption
  <2> QED
    BY <1>1, <1>3, <2>1, <2>2, <2>4, SectorsPart
<1>7. disk' = disk
  <2>1. Len(disk[q]) = 0 /\ disk[q] \in Seq(Nat)
    BY <1>1, <1>2, <1>3, <1>5 DEF FilledTo
  <2>2. disk[q] = <<>>
    BY <2>1
  <2> QED
    BY <1>1, <1>3, <2>2
<1>8. iso_split' # 0 /\ Cur' = q
  BY <1>2, <1>3 DEF Cur
<1>9. /\ Parts' = Parts
      /\ \A p : Begin(p)' = Begin(p) /\ End(p)' = End(p)
      /\ \A lba : PartOf(lba)' = PartOf(lba)
  BY <1>8 DEF Parts, Begin, End, Header, Toc, PartOf
<1>10. n \in Frontier'
  <2>1. ASSUME NEW p \in Parts
        PROVE  Len(disk[p]) = IF p < q THEN End(p) - Begin(p) ELSE IF p = q THEN n - Begin(p) ELSE 0
    BY SMTT(30), <1>1, <1>2, <1>4, <1>6 DEF FilledTo
  <2>2. FilledTo(n)'
    BY SMTT(30), <1>3, <1>6, <1>1, <1>2, <1>7, <1>8, <1>9, <2>1 DEF FilledTo
  <2> QED
    BY <1>1, <2>2 DEF Frontier
<1>11. Kept \subseteq Kept'
  BY <1>7, <1>9 DEF Kept, OnDisk
<1>12. PartsInOrder'
  BY <1>7, <1>9 DEF PartsInOrder
<1> QED
  BY <1>3, <1>7, <1>8, <1>10, <1>11, <1>12

\* build_file_iso reads a block.
LEMMA NextBlockInv ==
  ASSUME WriterInv, UNCHANGED layout, NextBlock
  PROVE  WriterInv'
<1>0. IsoTypeOK /\ QueueInv /\ WorkerInv /\ FlagsInv /\ AsyncInv /\ MainInv /\ DiskInv /\ PartsInOrder
  BY DEF WriterInv
<1>1. EvTypeOK' /\ QueueInv' /\ WorkerInv' /\ (BlockInUse' <=> BlockInUse)
  <2>1. Nulls \in 0 .. 2 /\ Nulls' \in 0 .. 2 /\ Nulls' >= Nulls
    BY DEF Nulls, NextBlock
  <2>2. UNCHANGED evVars /\ fpc' = fpc /\ fpc \in {"test", "write", "store", "idle"}
    BY <1>0 DEF NextBlock, worker, IsoTypeOK
  <2> QED
    BY <2>1, <2>2, EventsKept
<1>2. Frontier' = Frontier /\ Kept' = Kept /\ Start' = Start /\ Cur' = Cur /\ PartsInOrder'
  BY <1>0, OutputKept DEF NextBlock, output, ghosts
<1>3. IsoTypeOK'
  BY <1>0, <1>1 DEF IsoTypeOK, NextBlock, main, async, output, worker, ghosts, MainPlaces, Results, InputErrors, NoMemory, WriteError, Block, Header, Toc, Parts
<1>4. FlagsInv'
  BY <1>0, <1>1 DEF FlagsInv, NextBlock, main, async, output, worker, ghosts, IsoTypeOK
<1>5. AsyncInv'
  BY <1>0 DEF AsyncInv, NextBlock, main, async, output, worker, ghosts
<1>6. MainInv'
  BY <1>0 DEF MainInv, FlagsInv, InputErrors, NextBlock, main, async, output, worker, ghosts, IsoTypeOK, Header, Toc
<1>7. DiskInv'
  BY <1>0, <1>1, <1>2 DEF DiskInv, InputErrors, NextBlock, main, async, output, worker, ghosts, Header
<1> QED
  BY <1>1, <1>2, <1>3, <1>4, <1>5, <1>6, <1>7 DEF WriterInv

\* An input fails.
LEMMA InputFailsInv ==
  ASSUME WriterInv, UNCHANGED layout, InputFails
  PROVE  WriterInv'
<1>0. IsoTypeOK /\ QueueInv /\ WorkerInv /\ FlagsInv /\ AsyncInv /\ MainInv /\ DiskInv /\ PartsInOrder
  BY DEF WriterInv
<1>1. EvTypeOK' /\ QueueInv' /\ WorkerInv' /\ (BlockInUse' <=> BlockInUse)
  <2>1. Nulls \in 0 .. 2 /\ Nulls' \in 0 .. 2 /\ Nulls' >= Nulls
    BY DEF Nulls, InputFails
  <2>2. UNCHANGED evVars /\ fpc' = fpc /\ fpc \in {"test", "write", "store", "idle"}
    BY <1>0 DEF InputFails, worker, IsoTypeOK
  <2> QED
    BY <2>1, <2>2, EventsKept
<1>2. Frontier' = Frontier /\ Kept' = Kept /\ Start' = Start /\ Cur' = Cur /\ PartsInOrder'
  BY <1>0, OutputKept DEF InputFails, output, ghosts
<1>3. IsoTypeOK'
  BY <1>0, <1>1 DEF IsoTypeOK, InputFails, main, async, output, worker, ghosts, MainPlaces, Results, InputErrors, NoMemory, WriteError, Block, Header, Toc, Parts
<1>4. FlagsInv'
  BY <1>0, <1>1 DEF FlagsInv, InputFails, main, async, output, worker, ghosts, IsoTypeOK
<1>5. AsyncInv'
  BY <1>0 DEF AsyncInv, InputFails, main, async, output, worker, ghosts
<1>6. MainInv'
  BY <1>0 DEF MainInv, FlagsInv, InputErrors, InputFails, main, async, output, worker, ghosts, IsoTypeOK, Header, Toc
<1>7. DiskInv'
  BY <1>0, <1>1, <1>2 DEF DiskInv, InputErrors, InputFails, main, async, output, worker, ghosts, Header
<1> QED
  BY <1>1, <1>2, <1>3, <1>4, <1>5, <1>6, <1>7 DEF WriterInv

\* The last block was handed over.
LEMMA LastBlockInv ==
  ASSUME WriterInv, UNCHANGED layout, LastBlockHandedOver
  PROVE  WriterInv'
<1>0. IsoTypeOK /\ QueueInv /\ WorkerInv /\ FlagsInv /\ AsyncInv /\ MainInv /\ DiskInv /\ PartsInOrder
  BY DEF WriterInv
<1>1. EvTypeOK' /\ QueueInv' /\ WorkerInv' /\ (BlockInUse' <=> BlockInUse)
  <2>1. Nulls \in 0 .. 2 /\ Nulls' \in 0 .. 2 /\ Nulls' >= Nulls
    BY DEF Nulls, LastBlockHandedOver
  <2>2. UNCHANGED evVars /\ fpc' = fpc /\ fpc \in {"test", "write", "store", "idle"}
    BY <1>0 DEF LastBlockHandedOver, worker, IsoTypeOK
  <2> QED
    BY <2>1, <2>2, EventsKept
<1>2. Frontier' = Frontier /\ Kept' = Kept /\ Start' = Start /\ Cur' = Cur /\ PartsInOrder'
  BY <1>0, OutputKept DEF LastBlockHandedOver, output, ghosts
<1>3. IsoTypeOK'
  BY <1>0, <1>1 DEF IsoTypeOK, LastBlockHandedOver, main, async, output, worker, ghosts, MainPlaces, Results, InputErrors, NoMemory, WriteError, Block, Header, Toc, Parts
<1>4. FlagsInv'
  BY <1>0, <1>1 DEF FlagsInv, LastBlockHandedOver, main, async, output, worker, ghosts, IsoTypeOK
<1>5. AsyncInv'
  BY <1>0 DEF AsyncInv, LastBlockHandedOver, main, async, output, worker, ghosts
<1>6. MainInv'
  BY <1>0 DEF MainInv, FlagsInv, InputErrors, LastBlockHandedOver, main, async, output, worker, ghosts, IsoTypeOK, Header, Toc
<1>7. DiskInv'
  BY <1>0, <1>1, <1>2 DEF DiskInv, InputErrors, LastBlockHandedOver, main, async, output, worker, ghosts, Header
<1> QED
  BY <1>1, <1>2, <1>3, <1>4, <1>5, <1>6, <1>7 DEF WriterInv

\* The block before failed.
LEMMA write_split_failsInv ==
  ASSUME WriterInv, UNCHANGED layout, write_split_fails
  PROVE  WriterInv'
<1>0. IsoTypeOK /\ QueueInv /\ WorkerInv /\ FlagsInv /\ AsyncInv /\ MainInv /\ DiskInv /\ PartsInOrder
  BY DEF WriterInv
<1>1. EvTypeOK' /\ QueueInv' /\ WorkerInv' /\ (BlockInUse' <=> BlockInUse)
  <2>1. Nulls \in 0 .. 2 /\ Nulls' \in 0 .. 2 /\ Nulls' >= Nulls
    BY DEF Nulls, write_split_fails
  <2>2. UNCHANGED evVars /\ fpc' = fpc /\ fpc \in {"test", "write", "store", "idle"}
    BY <1>0 DEF write_split_fails, worker, IsoTypeOK
  <2> QED
    BY <2>1, <2>2, EventsKept
<1>2. Frontier' = Frontier /\ Kept' = Kept /\ Start' = Start /\ Cur' = Cur /\ PartsInOrder'
  BY <1>0, OutputKept DEF write_split_fails, output, ghosts
<1>3. IsoTypeOK'
  BY <1>0, <1>1 DEF IsoTypeOK, write_split_fails, main, async, output, worker, ghosts, MainPlaces, Results, InputErrors, NoMemory, WriteError, Block, Header, Toc, Parts
<1>4. FlagsInv'
  BY <1>0, <1>1 DEF FlagsInv, write_split_fails, main, async, output, worker, ghosts, IsoTypeOK
<1>5. AsyncInv'
  BY <1>0 DEF AsyncInv, write_split_fails, main, async, output, worker, ghosts
<1>6. MainInv'
  BY <1>0 DEF MainInv, FlagsInv, InputErrors, write_split_fails, main, async, output, worker, ghosts, IsoTypeOK, Header, Toc
<1>7. DiskInv'
  BY <1>0, <1>1, <1>2 DEF DiskInv, InputErrors, write_split_fails, main, async, output, worker, ghosts, Header
<1> QED
  BY <1>1, <1>2, <1>3, <1>4, <1>5, <1>6, <1>7 DEF WriterInv

\* The first check of the flags.
LEMMA FirstCheckInv ==
  ASSUME WriterInv, UNCHANGED layout, Check("check1", "wait1", "check2")
  PROVE  WriterInv'
<1>0. IsoTypeOK /\ QueueInv /\ WorkerInv /\ FlagsInv /\ AsyncInv /\ MainInv /\ DiskInv /\ PartsInOrder
  BY DEF WriterInv
<1>1. EvTypeOK' /\ QueueInv' /\ WorkerInv' /\ (BlockInUse' <=> BlockInUse)
  <2>1. CASE "ENABLE" \in flags
    <3>1. Nulls \in 0 .. 2 /\ Nulls' \in 0 .. 2 /\ Nulls' >= Nulls
      BY <2>1 DEF Nulls, Check
    <3>2. UNCHANGED evVars /\ fpc' = fpc /\ fpc \in {"test", "write", "store", "idle"}
      BY <1>0, <2>1 DEF Check, worker, IsoTypeOK
    <3> QED
      BY <3>1, <3>2, EventsKept
  <2>2. CASE "ENABLE" \notin flags
    <3>1. Nulls \in 0 .. 1 /\ Nulls' = Nulls + 1 /\ fpc' = fpc /\ event_thread_send(Call(NULL))
      BY <2>2 DEF Nulls, Check, worker
    <3> QED
      BY <3>1, NullSent
  <2> QED
    BY <2>1, <2>2
<1>2. Frontier' = Frontier /\ Kept' = Kept /\ Start' = Start /\ Cur' = Cur /\ PartsInOrder'
  BY <1>0, OutputKept DEF Check, output, ghosts
<1>3. IsoTypeOK'
  BY <1>0, <1>1 DEF IsoTypeOK, Check, main, async, output, worker, ghosts, MainPlaces, Results, InputErrors, NoMemory, WriteError, Block, Header, Toc, Parts
<1>4. FlagsInv'
  BY <1>0, <1>1 DEF FlagsInv, Check, main, async, output, worker, ghosts, IsoTypeOK
<1>5. AsyncInv'
  BY <1>0 DEF AsyncInv, Check, main, async, output, worker, ghosts
<1>6. MainInv'
  BY <1>0 DEF MainInv, FlagsInv, Check, main, async, output, worker, ghosts, IsoTypeOK, Header, Toc
<1>7. DiskInv'
  BY <1>0, <1>1, <1>2 DEF DiskInv, Check, main, async, output, worker, ghosts, Header
<1> QED
  BY <1>1, <1>2, <1>3, <1>4, <1>5, <1>6, <1>7 DEF WriterInv

\* The second check of the flags.
LEMMA SecondCheckInv ==
  ASSUME WriterInv, UNCHANGED layout, Check("check2", "wait2", "close")
  PROVE  WriterInv'
<1>0. IsoTypeOK /\ QueueInv /\ WorkerInv /\ FlagsInv /\ AsyncInv /\ MainInv /\ DiskInv /\ PartsInOrder
  BY DEF WriterInv
<1>1. EvTypeOK' /\ QueueInv' /\ WorkerInv' /\ (BlockInUse' <=> BlockInUse)
  <2>1. CASE "ENABLE" \in flags
    <3>1. Nulls \in 0 .. 2 /\ Nulls' \in 0 .. 2 /\ Nulls' >= Nulls
      BY <2>1 DEF Nulls, Check
    <3>2. UNCHANGED evVars /\ fpc' = fpc /\ fpc \in {"test", "write", "store", "idle"}
      BY <1>0, <2>1 DEF Check, worker, IsoTypeOK
    <3> QED
      BY <3>1, <3>2, EventsKept
  <2>2. CASE "ENABLE" \notin flags
    <3>1. Nulls \in 0 .. 1 /\ Nulls' = Nulls + 1 /\ fpc' = fpc /\ event_thread_send(Call(NULL))
      BY <2>2 DEF Nulls, Check, worker
    <3> QED
      BY <3>1, NullSent
  <2> QED
    BY <2>1, <2>2
<1>2. Frontier' = Frontier /\ Kept' = Kept /\ Start' = Start /\ Cur' = Cur /\ PartsInOrder'
  BY <1>0, OutputKept DEF Check, output, ghosts
<1>3. IsoTypeOK'
  BY <1>0, <1>1 DEF IsoTypeOK, Check, main, async, output, worker, ghosts, MainPlaces, Results, InputErrors, NoMemory, WriteError, Block, Header, Toc, Parts
<1>4. FlagsInv'
  BY <1>0, <1>1 DEF FlagsInv, Check, main, async, output, worker, ghosts, IsoTypeOK
<1>5. AsyncInv'
  BY <1>0 DEF AsyncInv, Check, main, async, output, worker, ghosts
<1>6. MainInv'
  BY <1>0 DEF MainInv, FlagsInv, Check, main, async, output, worker, ghosts, IsoTypeOK, Header, Toc
<1>7. DiskInv'
  BY <1>0, <1>1, <1>2 DEF DiskInv, Check, main, async, output, worker, ghosts, Header
<1> QED
  BY <1>1, <1>2, <1>3, <1>4, <1>5, <1>6, <1>7 DEF WriterInv

\* The first wait returns: a block in use is one that slipped through.
LEMMA FirstWaitInv ==
  ASSUME WriterInv, UNCHANGED layout, Wait("wait1", "clear1")
  PROVE  WriterInv'
<1>0. IsoTypeOK /\ QueueInv /\ WorkerInv /\ FlagsInv /\ AsyncInv /\ MainInv /\ DiskInv /\ PartsInOrder
  BY DEF WriterInv
<1>1. EvTypeOK' /\ QueueInv' /\ WorkerInv' /\ (BlockInUse' <=> BlockInUse)
  <2>1. Nulls \in 0 .. 2 /\ Nulls' \in 0 .. 2 /\ Nulls' >= Nulls
    BY DEF Nulls, Wait
  <2>2. UNCHANGED evVars /\ fpc' = fpc /\ fpc \in {"test", "write", "store", "idle"}
    BY <1>0 DEF Wait, worker, IsoTypeOK
  <2> QED
    BY <2>1, <2>2, EventsKept
<1>2. Frontier' = Frontier /\ Kept' = Kept /\ Start' = Start /\ Cur' = Cur /\ PartsInOrder'
  BY <1>0, OutputKept DEF Wait, output, ghosts
<1>8. BlockInUse => slipped'
  <2>1. ~Busy
    BY <1>0 DEF WorkerInv, Wait, wait_returns
  <2> QED
    BY <2>1, Zenon DEF BlockInUse, Busy, Wait
<1>9. slipped' \in BOOLEAN /\ (slipped => slipped')
  BY Zenon DEF Wait
<1>3. IsoTypeOK'
  BY <1>0, <1>1, <1>9 DEF IsoTypeOK, Wait, main, async, output, worker, ghosts, MainPlaces, Results, InputErrors, NoMemory, WriteError, Block, Header, Toc, Parts
<1>4. FlagsInv'
  BY <1>0, <1>1, <1>8, <1>9 DEF FlagsInv, Wait, main, async, output, worker, ghosts, IsoTypeOK
<1>5. AsyncInv'
  BY <1>0 DEF AsyncInv, Wait, main, async, output, worker, ghosts
<1>6. MainInv'
  BY <1>0 DEF MainInv, FlagsInv, Wait, main, async, output, worker, ghosts, IsoTypeOK, Header, Toc
<1>7. DiskInv'
  BY <1>0, <1>1, <1>2, <1>9 DEF DiskInv, Wait, main, async, output, worker, ghosts, Header
<1> QED
  BY <1>1, <1>2, <1>3, <1>4, <1>5, <1>6, <1>7 DEF WriterInv

\* The second wait returns: a block in use is one that slipped through.
LEMMA SecondWaitInv ==
  ASSUME WriterInv, UNCHANGED layout, Wait("wait2", "clear2")
  PROVE  WriterInv'
<1>0. IsoTypeOK /\ QueueInv /\ WorkerInv /\ FlagsInv /\ AsyncInv /\ MainInv /\ DiskInv /\ PartsInOrder
  BY DEF WriterInv
<1>1. EvTypeOK' /\ QueueInv' /\ WorkerInv' /\ (BlockInUse' <=> BlockInUse)
  <2>1. Nulls \in 0 .. 2 /\ Nulls' \in 0 .. 2 /\ Nulls' >= Nulls
    BY DEF Nulls, Wait
  <2>2. UNCHANGED evVars /\ fpc' = fpc /\ fpc \in {"test", "write", "store", "idle"}
    BY <1>0 DEF Wait, worker, IsoTypeOK
  <2> QED
    BY <2>1, <2>2, EventsKept
<1>2. Frontier' = Frontier /\ Kept' = Kept /\ Start' = Start /\ Cur' = Cur /\ PartsInOrder'
  BY <1>0, OutputKept DEF Wait, output, ghosts
<1>8. BlockInUse => slipped'
  <2>1. ~Busy
    BY <1>0 DEF WorkerInv, Wait, wait_returns
  <2> QED
    BY <2>1, Zenon DEF BlockInUse, Busy, Wait
<1>9. slipped' \in BOOLEAN /\ (slipped => slipped')
  BY Zenon DEF Wait
<1>3. IsoTypeOK'
  BY <1>0, <1>1, <1>9 DEF IsoTypeOK, Wait, main, async, output, worker, ghosts, MainPlaces, Results, InputErrors, NoMemory, WriteError, Block, Header, Toc, Parts
<1>4. FlagsInv'
  BY <1>0, <1>1, <1>8, <1>9 DEF FlagsInv, Wait, main, async, output, worker, ghosts, IsoTypeOK
<1>5. AsyncInv'
  BY <1>0 DEF AsyncInv, Wait, main, async, output, worker, ghosts
<1>6. MainInv'
  BY <1>0 DEF MainInv, FlagsInv, Wait, main, async, output, worker, ghosts, IsoTypeOK, Header, Toc
<1>7. DiskInv'
  BY <1>0, <1>1, <1>2, <1>9 DEF DiskInv, Wait, main, async, output, worker, ghosts, Header
<1> QED
  BY <1>1, <1>2, <1>3, <1>4, <1>5, <1>6, <1>7 DEF WriterInv

\* The flags are lowered, an error of the last block is taken over, the first time.
LEMMA FirstLowerInv ==
  ASSUME WriterInv, UNCHANGED layout, LowerFlags("clear1", "check2", FALSE)
  PROVE  WriterInv'
<1>0. IsoTypeOK /\ QueueInv /\ WorkerInv /\ FlagsInv /\ AsyncInv /\ MainInv /\ DiskInv /\ PartsInOrder
  BY DEF WriterInv
<1>1. EvTypeOK' /\ QueueInv' /\ WorkerInv' /\ (BlockInUse' <=> BlockInUse)
  <2>1. Nulls \in 0 .. 1 /\ Nulls' = Nulls + 1 /\ fpc' = fpc /\ event_thread_send(Call(NULL))
    BY DEF Nulls, LowerFlags, worker
  <2> QED
    BY <2>1, NullSent
<1>2. Frontier' = Frontier /\ Kept' = Kept /\ Start' = Start /\ Cur' = Cur /\ PartsInOrder'
  BY <1>0, OutputKept DEF LowerFlags, output, ghosts
<1>8. ret' \in Results /\ (ret' = 0 => ret = 0 /\ "ERROR" \notin flags)
  BY <1>0 DEF LowerFlags, ErrorOfTheLastBlock, LastBlockFailed, IsoTypeOK, FlagsInv
<1>3. IsoTypeOK'
  BY <1>0, <1>1, <1>8 DEF IsoTypeOK, LowerFlags, main, async, output, worker, ghosts, MainPlaces, Header, Toc, Parts
<1>4. FlagsInv'
  BY <1>0, <1>1 DEF FlagsInv, LowerFlags, main, async, output, worker, ghosts, IsoTypeOK
<1>5. AsyncInv'
  BY <1>0 DEF AsyncInv, LowerFlags, main, async, output, worker, ghosts
<1>6. MainInv'
  BY <1>0, <1>8 DEF MainInv, FlagsInv, LowerFlags, main, async, output, worker, ghosts, IsoTypeOK, Header, Toc
<1>7. DiskInv'
  BY <1>0, <1>1, <1>2, <1>8 DEF DiskInv, LowerFlags, main, async, output, worker, ghosts, Header
<1> QED
  BY <1>1, <1>2, <1>3, <1>4, <1>5, <1>6, <1>7 DEF WriterInv

\* The flags are lowered, an error of the last block is taken over, the second time.
LEMMA SecondLowerInv ==
  ASSUME WriterInv, UNCHANGED layout, LowerFlags("clear2", "close", TRUE)
  PROVE  WriterInv'
<1>0. IsoTypeOK /\ QueueInv /\ WorkerInv /\ FlagsInv /\ AsyncInv /\ MainInv /\ DiskInv /\ PartsInOrder
  BY DEF WriterInv
<1>1. EvTypeOK' /\ QueueInv' /\ WorkerInv' /\ (BlockInUse' <=> BlockInUse)
  <2>1. Nulls \in 0 .. 1 /\ Nulls' = Nulls + 1 /\ fpc' = fpc /\ event_thread_send(Call(NULL))
    BY DEF Nulls, LowerFlags, worker
  <2> QED
    BY <2>1, NullSent
<1>2. Frontier' = Frontier /\ Kept' = Kept /\ Start' = Start /\ Cur' = Cur /\ PartsInOrder'
  BY <1>0, OutputKept DEF LowerFlags, output, ghosts
<1>8. ret' \in Results /\ (ret' = 0 => ret = 0 /\ "ERROR" \notin flags)
  BY <1>0 DEF LowerFlags, ErrorOfTheLastBlock, LastBlockFailed, IsoTypeOK, FlagsInv
<1>3. IsoTypeOK'
  BY <1>0, <1>1, <1>8 DEF IsoTypeOK, LowerFlags, main, async, output, worker, ghosts, MainPlaces, Header, Toc, Parts
<1>4. FlagsInv'
  BY <1>0, <1>1 DEF FlagsInv, LowerFlags, main, async, output, worker, ghosts, IsoTypeOK
<1>5. AsyncInv'
  BY <1>0 DEF AsyncInv, LowerFlags, main, async, output, worker, ghosts
<1>6. MainInv'
  BY <1>0, <1>8 DEF MainInv, FlagsInv, LowerFlags, main, async, output, worker, ghosts, IsoTypeOK, Header, Toc
<1>7. DiskInv'
  BY <1>0, <1>1, <1>2, <1>8 DEF DiskInv, LowerFlags, main, async, output, worker, ghosts, Header
<1> QED
  BY <1>1, <1>2, <1>3, <1>4, <1>5, <1>6, <1>7 DEF WriterInv

\* The output is closed.
LEMMA CloseOutputInv ==
  ASSUME WriterInv, UNCHANGED layout, CloseOutput
  PROVE  WriterInv'
<1>0. IsoTypeOK /\ QueueInv /\ WorkerInv /\ FlagsInv /\ AsyncInv /\ MainInv /\ DiskInv /\ PartsInOrder
  BY DEF WriterInv
<1>1. EvTypeOK' /\ QueueInv' /\ WorkerInv' /\ (BlockInUse' <=> BlockInUse)
  <2>1. Nulls \in 0 .. 2 /\ Nulls' \in 0 .. 2 /\ Nulls' >= Nulls
    BY DEF Nulls, CloseOutput
  <2>2. UNCHANGED evVars /\ fpc' = fpc /\ fpc \in {"test", "write", "store", "idle"}
    BY <1>0 DEF CloseOutput, worker, IsoTypeOK
  <2> QED
    BY <2>1, <2>2, EventsKept
<1>2. Frontier' = Frontier /\ Kept' = Kept /\ Start' = Start /\ Cur' = Cur /\ PartsInOrder'
  BY <1>0, OutputKept DEF CloseOutput, output, ghosts
<1>3. IsoTypeOK'
  BY <1>0, <1>1 DEF IsoTypeOK, CloseOutput, main, async, output, worker, ghosts, MainPlaces, Results, InputErrors, NoMemory, WriteError, Block, Header, Toc, Parts
<1>4. FlagsInv'
  BY <1>0, <1>1 DEF FlagsInv, CloseOutput, main, async, output, worker, ghosts, IsoTypeOK
<1>5. AsyncInv'
  BY <1>0 DEF AsyncInv, CloseOutput, main, async, output, worker, ghosts
<1>6. MainInv'
  BY <1>0 DEF MainInv, FlagsInv, CloseOutput, main, async, output, worker, ghosts, IsoTypeOK, Header, Toc
<1>7. DiskInv'
  BY <1>0, <1>1, <1>2 DEF DiskInv, CloseOutput, main, async, output, worker, ghosts, Header
<1> QED
  BY <1>1, <1>2, <1>3, <1>4, <1>5, <1>6, <1>7 DEF WriterInv

\* The partial image is deleted or kept.
LEMMA DeletePartialInv ==
  ASSUME WriterInv, UNCHANGED layout, DeletePartial
  PROVE  WriterInv'
<1>0. IsoTypeOK /\ QueueInv /\ WorkerInv /\ FlagsInv /\ AsyncInv /\ MainInv /\ DiskInv /\ PartsInOrder
  BY DEF WriterInv
<1>1. EvTypeOK' /\ QueueInv' /\ WorkerInv' /\ (BlockInUse' <=> BlockInUse)
  <2>1. Nulls \in 0 .. 2 /\ Nulls' \in 0 .. 2 /\ Nulls' >= Nulls
    BY DEF Nulls, DeletePartial
  <2>2. UNCHANGED evVars /\ fpc' = fpc /\ fpc \in {"test", "write", "store", "idle"}
    BY <1>0 DEF DeletePartial, worker, IsoTypeOK
  <2> QED
    BY <2>1, <2>2, EventsKept
<1>2. Start' = Start /\ Cur' = Cur /\ PartsInOrder' /\ disk' \in [Parts -> Seq(Nat)]
  <2>1. CASE disk' = disk
    BY <1>0, <2>1, OutputKept DEF DeletePartial, ghosts, IsoTypeOK
  <2>2. CASE disk' = [p \in Parts |-> <<>>]
    BY <2>2 DEF DeletePartial, ghosts, Start, Cur, PartsInOrder, Parts, Begin, Header, Toc
  <2> QED
    BY <2>1, <2>2 DEF DeletePartial
<1>8. ret' # 0
  BY <1>0 DEF DeletePartial, MainInv
<1>3. IsoTypeOK'
  BY <1>0, <1>1, <1>2 DEF IsoTypeOK, DeletePartial, main, async, output, worker, ghosts, MainPlaces, Results, InputErrors, NoMemory, WriteError, Block, Header, Toc, Parts
<1>4. FlagsInv'
  BY <1>0, <1>1 DEF FlagsInv, DeletePartial, main, async, output, worker, ghosts, IsoTypeOK
<1>5. AsyncInv'
  BY <1>0 DEF AsyncInv, DeletePartial, main, async, output, worker, ghosts
<1>6. MainInv'
  BY <1>0 DEF MainInv, FlagsInv, DeletePartial, main, async, output, worker, ghosts, IsoTypeOK, Header, Toc
<1>7. DiskInv'
  BY <1>0, <1>1, <1>2, <1>8 DEF DiskInv, DeletePartial, main, async, output, worker, ghosts, Header
<1> QED
  BY <1>1, <1>2, <1>3, <1>4, <1>5, <1>6, <1>7 DEF WriterInv

\* The worker receives, ...
LEMMA WorkerReceiveInv ==
  ASSUME WriterInv, UNCHANGED layout, WorkerReceive
  PROVE  WriterInv'
<1>0. IsoTypeOK /\ QueueInv /\ WorkerInv /\ FlagsInv /\ AsyncInv /\ MainInv /\ DiskInv /\ PartsInOrder
  BY DEF WriterInv
<1>1. EvTypeOK' /\ QueueInv' /\ WorkerInv' /\ (BlockInUse' <=> BlockInUse)
  <2>1. Nulls' = Nulls /\ Nulls \in 0 .. 2
    BY DEF Nulls, WorkerReceive, main
  <2> QED
    BY <2>1, EventReceived DEF WorkerReceive, worker
<1>2. Frontier' = Frontier /\ Kept' = Kept /\ Start' = Start /\ Cur' = Cur /\ PartsInOrder'
  BY <1>0, OutputKept DEF WorkerReceive, output, ghosts
<1>3. IsoTypeOK'
  BY <1>0, <1>1 DEF IsoTypeOK, WorkerReceive, main, async, output, worker, ghosts, MainPlaces, Header, Toc, Parts
<1>4. FlagsInv'
  BY <1>0, <1>1 DEF FlagsInv, WorkerReceive, main, async, output, worker, ghosts, IsoTypeOK
<1>5. AsyncInv'
  BY <1>0 DEF AsyncInv, WorkerReceive, main, async, output, worker, ghosts
<1>6. MainInv'
  BY <1>0 DEF MainInv, WorkerReceive, main, async, output, worker, ghosts, IsoTypeOK, Header, Toc
<1>7. DiskInv'
  BY <1>0, <1>1, <1>2 DEF DiskInv, WorkerReceive, main, async, output, worker, ghosts, Header
<1> QED
  BY <1>1, <1>2, <1>3, <1>4, <1>5, <1>6, <1>7 DEF WriterInv

\* ... dispatches, ...
LEMMA WorkerDispatchInv ==
  ASSUME WriterInv, UNCHANGED layout, WorkerDispatch
  PROVE  WriterInv'
<1>0. IsoTypeOK /\ QueueInv /\ WorkerInv /\ FlagsInv /\ AsyncInv /\ MainInv /\ DiskInv /\ PartsInOrder
  BY DEF WriterInv
<1>1. EvTypeOK' /\ QueueInv' /\ WorkerInv' /\ (BlockInUse' <=> BlockInUse)
  <2>1. Nulls' = Nulls /\ Nulls \in 0 .. 2
    BY DEF Nulls, WorkerDispatch, main
  <2> QED
    BY <2>1, EventDispatched DEF WorkerDispatch
<1>2. Frontier' = Frontier /\ Kept' = Kept /\ Start' = Start /\ Cur' = Cur /\ PartsInOrder'
  BY <1>0, OutputKept DEF WorkerDispatch, output, ghosts
<1>8. fpc = "idle" /\ fpc' \in {"idle", "test"}
  <2>1. fpc = "idle"
    BY <1>0 DEF WorkerInv, Busy, WorkerDispatch, Dispatch
  <2> QED
    BY <2>1 DEF WorkerDispatch
<1>3. IsoTypeOK'
  BY <1>0, <1>1, <1>8 DEF IsoTypeOK, WorkerDispatch, main, async, output, worker, ghosts, MainPlaces, Header, Toc, Parts
<1>4. FlagsInv'
  BY <1>0, <1>1 DEF FlagsInv, WorkerDispatch, main, async, output, worker, ghosts, IsoTypeOK
<1>5. AsyncInv'
  BY <1>0, <1>8 DEF AsyncInv, WorkerDispatch, main, async, output, worker, ghosts
<1>6. MainInv'
  BY <1>0 DEF MainInv, WorkerDispatch, main, async, output, worker, ghosts, IsoTypeOK, Header, Toc
<1>7. DiskInv'
  BY <1>0, <1>1, <1>2, <1>8 DEF DiskInv, WorkerDispatch, main, async, output, worker, ghosts, Header
<1> QED
  BY <1>1, <1>2, <1>3, <1>4, <1>5, <1>6, <1>7 DEF WriterInv

\* ... and clears.
LEMMA WorkerClearInv ==
  ASSUME WriterInv, UNCHANGED layout, WorkerClear
  PROVE  WriterInv'
<1>0. IsoTypeOK /\ QueueInv /\ WorkerInv /\ FlagsInv /\ AsyncInv /\ MainInv /\ DiskInv /\ PartsInOrder
  BY DEF WriterInv
<1>1. EvTypeOK' /\ QueueInv' /\ WorkerInv' /\ (BlockInUse' <=> BlockInUse)
  <2>1. Nulls' = Nulls /\ Nulls \in 0 .. 2
    BY DEF Nulls, WorkerClear, main
  <2> QED
    BY <2>1, WorkerCleared DEF WorkerClear, worker
<1>2. Frontier' = Frontier /\ Kept' = Kept /\ Start' = Start /\ Cur' = Cur /\ PartsInOrder'
  BY <1>0, OutputKept DEF WorkerClear, output, ghosts
<1>3. IsoTypeOK'
  BY <1>0, <1>1 DEF IsoTypeOK, WorkerClear, main, async, output, worker, ghosts, MainPlaces, Header, Toc, Parts
<1>4. FlagsInv'
  BY <1>0, <1>1 DEF FlagsInv, WorkerClear, main, async, output, worker, ghosts, IsoTypeOK
<1>5. AsyncInv'
  BY <1>0 DEF AsyncInv, WorkerClear, main, async, output, worker, ghosts
<1>6. MainInv'
  BY <1>0 DEF MainInv, WorkerClear, main, async, output, worker, ghosts, IsoTypeOK, Header, Toc
<1>7. DiskInv'
  BY <1>0, <1>1, <1>2 DEF DiskInv, WorkerClear, main, async, output, worker, ghosts, Header
<1> QED
  BY <1>1, <1>2, <1>3, <1>4, <1>5, <1>6, <1>7 DEF WriterInv

\* The function of an earlier caller returns.
LEMMA OtherReturnsInv ==
  ASSUME WriterInv, UNCHANGED layout, OtherReturns
  PROVE  WriterInv'
<1>0. IsoTypeOK /\ QueueInv /\ WorkerInv /\ FlagsInv /\ AsyncInv /\ MainInv /\ DiskInv /\ PartsInOrder
  BY DEF WriterInv
<1>1. EvTypeOK' /\ QueueInv' /\ WorkerInv' /\ (BlockInUse' <=> BlockInUse)
  <2>1. Nulls' = Nulls /\ Nulls \in 0 .. 2
    BY DEF Nulls, OtherReturns, main
  <2>2. fpc = "idle" /\ fpc' = fpc /\ Return
    BY <1>0, Events DEF WorkerInv, Busy, OtherReturns, worker
  <2>3. BlockInUse <=> Queued
    BY <2>1, <2>2, FunctionReturned DEF BlockInUse, Underway, Queued, Taken
  <2> QED
    BY <2>1, <2>2, <2>3, FunctionReturned
<1>2. Frontier' = Frontier /\ Kept' = Kept /\ Start' = Start /\ Cur' = Cur /\ PartsInOrder'
  BY <1>0, OutputKept DEF OtherReturns, output, ghosts
<1>3. IsoTypeOK'
  BY <1>0, <1>1 DEF IsoTypeOK, OtherReturns, main, async, output, worker, ghosts, MainPlaces, Header, Toc, Parts
<1>4. FlagsInv'
  BY <1>0, <1>1 DEF FlagsInv, OtherReturns, main, async, output, worker, ghosts, IsoTypeOK
<1>5. AsyncInv'
  BY <1>0 DEF AsyncInv, OtherReturns, main, async, output, worker, ghosts
<1>6. MainInv'
  BY <1>0 DEF MainInv, OtherReturns, main, async, output, worker, ghosts, IsoTypeOK, Header, Toc
<1>7. DiskInv'
  BY <1>0, <1>1, <1>2 DEF DiskInv, OtherReturns, main, async, output, worker, ghosts, Header
<1> QED
  BY <1>1, <1>2, <1>3, <1>4, <1>5, <1>6, <1>7 DEF WriterInv

\* The block slipped through and is not written.
LEMMA NotEnabledInv ==
  ASSUME WriterInv, UNCHANGED layout, NotEnabled
  PROVE  WriterInv'
<1>0. IsoTypeOK /\ QueueInv /\ WorkerInv /\ FlagsInv /\ AsyncInv /\ MainInv /\ DiskInv /\ PartsInOrder
  BY DEF WriterInv
<1>1. EvTypeOK' /\ QueueInv' /\ WorkerInv' /\ ~BlockInUse'
  <2>1. Nulls' = Nulls /\ Nulls \in 0 .. 2
    BY DEF Nulls, NotEnabled, main
  <2>2. Busy /\ Return /\ fpc' = "idle"
    BY DEF Busy, NotEnabled
  <2> QED
    BY <2>1, <2>2, FunctionReturned
<1>2. Frontier' = Frontier /\ Kept' = Kept /\ Start' = Start /\ Cur' = Cur /\ PartsInOrder'
  BY <1>0, OutputKept DEF NotEnabled, output, ghosts
<1>8. BlockInUse
  BY DEF BlockInUse, NotEnabled
<1>9. slipped /\ ~first
  BY <1>0, <1>8 DEF FlagsInv, NotEnabled
<1>3. IsoTypeOK'
  BY <1>0, <1>1 DEF IsoTypeOK, NotEnabled, main, async, output, worker, ghosts, MainPlaces, Header, Toc, Parts
<1>4. FlagsInv'
  BY <1>0, <1>1, <1>8, <1>9 DEF FlagsInv, NotEnabled, main, async, output, worker, ghosts, IsoTypeOK
<1>5. AsyncInv'
  BY <1>0 DEF AsyncInv, NotEnabled, main, async, output, worker, ghosts
<1>6. MainInv'
  BY <1>0 DEF MainInv, NotEnabled, main, async, output, worker, ghosts, IsoTypeOK, Header, Toc
<1>7. DiskInv'
  BY <1>0, <1>1, <1>2, <1>9 DEF DiskInv, NotEnabled, main, async, output, worker, ghosts, Header
<1> QED
  BY <1>1, <1>2, <1>3, <1>4, <1>5, <1>6, <1>7 DEF WriterInv

\* my_func_async starts.
LEMMA EnabledInv ==
  ASSUME WriterInv, UNCHANGED layout, Enabled
  PROVE  WriterInv'
<1>0. IsoTypeOK /\ QueueInv /\ WorkerInv /\ FlagsInv /\ AsyncInv /\ MainInv /\ DiskInv /\ PartsInOrder
  BY DEF WriterInv
<1>1. EvTypeOK' /\ QueueInv' /\ WorkerInv' /\ (BlockInUse' <=> BlockInUse)
  <2>1. Nulls' = Nulls /\ Nulls \in 0 .. 2
    BY DEF Nulls, Enabled, main
  <2>2. UNCHANGED evVars /\ fpc # "idle" /\ fpc' \in {"test", "write", "store"}
    BY <1>0 DEF Enabled, IsoTypeOK, worker
  <2> QED
    BY <2>1, <2>2, EventsKept
<1>2. Frontier' = Frontier /\ Kept' = Kept /\ Start' = Start /\ Cur' = Cur /\ PartsInOrder'
  BY <1>0, OutputKept DEF Enabled, output, ghosts
<1>8. BlockInUse
  BY DEF BlockInUse, Enabled
<1>9. /\ f' \in [lba : Nat, n : 0 .. BlockMax, mem : BOOLEAN, ret : Results]
      /\ f'.lba = f.lba /\ f'.n = f.n /\ f'.mem = f.mem /\ f'.ret = NoMemory
  BY <1>0 DEF IsoTypeOK, Enabled, Results
<1>10. ~first /\ flags = {"ENABLE"}
  BY <1>0, <1>8 DEF FlagsInv, Enabled
<1>11. NoMemory \in Results /\ NoMemory # 0 /\ BlockMax \in Nat
  BY IsoAssumption DEF Results, NoMemory
<1>3. IsoTypeOK'
  BY <1>0, <1>1, <1>9, <1>10, <1>11 DEF IsoTypeOK, Enabled, main, async, output, worker, ghosts, MainPlaces, Header, Toc, Parts
<1>4. FlagsInv'
  BY <1>0, <1>1, <1>8, <1>9, <1>10 DEF FlagsInv, Enabled, main, async, output, worker, ghosts, IsoTypeOK
<1>5. AsyncInv'
  BY <1>0, <1>9, <1>10, <1>11, IsoTypeOK DEF AsyncInv, Enabled, main, async, output, worker, ghosts
<1>6. MainInv'
  BY <1>0, <1>9 DEF MainInv, Enabled, main, async, output, worker, ghosts, IsoTypeOK, Header, Toc
<1>7. DiskInv'
  BY <1>0, <1>1, <1>2, <1>8, <1>9, <1>10, <1>11 DEF DiskInv, Enabled, main, async, output, worker, ghosts, Header
<1> QED
  BY <1>1, <1>2, <1>3, <1>4, <1>5, <1>6, <1>7 DEF WriterInv

\* How my_func_async leaves the loop over the block.
LEMMA EndWritten ==
  ASSUME IsoTypeOK, NEW r \in Results, EndWrite(r)
  PROVE  /\ f' \in [lba : Nat, n : 0 .. BlockMax, mem : BOOLEAN, ret : Results]
         /\ f'.lba = f.lba /\ f'.n = f.n /\ ~f'.mem /\ f'.ret = r
         /\ wret' = r /\ r \in Results /\ fpc' = "store"
  BY DEF EndWrite, IsoTypeOK

\* A sector cannot be written.
LEMMA WriteFailsInv ==
  ASSUME WriterInv, UNCHANGED layout, WriteFails
  PROVE  WriterInv'
<1>0. IsoTypeOK /\ QueueInv /\ WorkerInv /\ FlagsInv /\ AsyncInv /\ MainInv /\ DiskInv /\ PartsInOrder
  BY DEF WriterInv
<1>1. EvTypeOK' /\ QueueInv' /\ WorkerInv' /\ (BlockInUse' <=> BlockInUse)
  <2>1. Nulls' = Nulls /\ Nulls \in 0 .. 2
    BY DEF Nulls, WriteFails, main
  <2>2. UNCHANGED evVars /\ fpc # "idle" /\ fpc' = "store"
    BY DEF WriteFails, EndWrite, Writing
  <2> QED
    BY <2>1, <2>2, EventsKept
<1>2. Frontier' = Frontier /\ Kept' = Kept /\ Start' = Start /\ Cur' = Cur /\ PartsInOrder'
  BY <1>0, OutputKept DEF WriteFails, WriteError, Writing, output, ghosts
<1>8. BlockInUse
  BY DEF BlockInUse, WriteFails, Writing
<1>9. PICK r \in {WriteError} : EndWrite(r)
  BY DEF WriteFails, NoMemory, WriteError
<1>10. /\ f' \in [lba : Nat, n : 0 .. BlockMax, mem : BOOLEAN, ret : Results]
       /\ f'.lba = f.lba /\ f'.n = f.n /\ ~f'.mem /\ f'.ret = r
       /\ wret' = r /\ r \in Results /\ fpc' = "store"
  <2>1. r \in Results
    BY DEF Results, NoMemory, WriteError
  <2> QED
    BY <1>0, <1>9, <2>1, EndWritten
<1>11. ~first /\ "ERROR" \notin flags
  BY <1>0, <1>8 DEF FlagsInv
<1>3. IsoTypeOK'
  BY <1>0, <1>1, <1>10, <1>11 DEF IsoTypeOK, WriteFails, WriteError, Writing, main, async, output, worker, ghosts, MainPlaces, Header, Toc, Parts
<1>4. FlagsInv'
  BY <1>0, <1>1, <1>8, <1>10, <1>11 DEF FlagsInv, WriteFails, WriteError, Writing, main, async, output, worker, ghosts, IsoTypeOK
<1>5. AsyncInv'
  BY <1>0, <1>10 DEF AsyncInv, WriteFails, WriteError, Writing, main, async, output, worker, ghosts
<1>6. MainInv'
  BY <1>0, <1>10 DEF MainInv, WriteFails, WriteError, Writing, main, async, output, worker, ghosts, IsoTypeOK, Header, Toc
<1>7. DiskInv'
  BY <1>0, <1>1, <1>2, <1>8, <1>9, <1>10, <1>11 DEF DiskInv, WriteFails, WriteError, Writing, main, async, output, worker, ghosts, Header
<1> QED
  BY <1>1, <1>2, <1>3, <1>4, <1>5, <1>6, <1>7 DEF WriterInv

\* The block is written.
LEMMA BlockWrittenInv ==
  ASSUME WriterInv, UNCHANGED layout, BlockWritten
  PROVE  WriterInv'
<1>0. IsoTypeOK /\ QueueInv /\ WorkerInv /\ FlagsInv /\ AsyncInv /\ MainInv /\ DiskInv /\ PartsInOrder
  BY DEF WriterInv
<1>1. EvTypeOK' /\ QueueInv' /\ WorkerInv' /\ (BlockInUse' <=> BlockInUse)
  <2>1. Nulls' = Nulls /\ Nulls \in 0 .. 2
    BY DEF Nulls, BlockWritten, main
  <2>2. UNCHANGED evVars /\ fpc # "idle" /\ fpc' = "store"
    BY DEF BlockWritten, EndWrite
  <2> QED
    BY <2>1, <2>2, EventsKept
<1>2. Frontier' = Frontier /\ Kept' = Kept /\ Start' = Start /\ Cur' = Cur /\ PartsInOrder'
  BY <1>0, OutputKept DEF BlockWritten, WriteError, output, ghosts
<1>8. BlockInUse
  BY DEF BlockInUse, BlockWritten
<1>9. PICK r \in {0} : EndWrite(r)
  BY DEF BlockWritten, NoMemory, WriteError
<1>10. /\ f' \in [lba : Nat, n : 0 .. BlockMax, mem : BOOLEAN, ret : Results]
       /\ f'.lba = f.lba /\ f'.n = f.n /\ ~f'.mem /\ f'.ret = r
       /\ wret' = r /\ r \in Results /\ fpc' = "store"
  <2>1. r \in Results
    BY DEF Results, NoMemory, WriteError
  <2> QED
    BY <1>0, <1>9, <2>1, EndWritten
<1>11. ~first /\ "ERROR" \notin flags
  BY <1>0, <1>8 DEF FlagsInv
<1>3. IsoTypeOK'
  BY <1>0, <1>1, <1>10, <1>11 DEF IsoTypeOK, BlockWritten, WriteError, main, async, output, worker, ghosts, MainPlaces, Header, Toc, Parts
<1>4. FlagsInv'
  BY <1>0, <1>1, <1>8, <1>10, <1>11 DEF FlagsInv, BlockWritten, WriteError, main, async, output, worker, ghosts, IsoTypeOK
<1>5. AsyncInv'
  BY <1>0, <1>10 DEF AsyncInv, BlockWritten, WriteError, main, async, output, worker, ghosts
<1>6. MainInv'
  BY <1>0, <1>10 DEF MainInv, BlockWritten, WriteError, main, async, output, worker, ghosts, IsoTypeOK, Header, Toc
<1>7. DiskInv'
  BY <1>0, <1>1, <1>2, <1>8, <1>9, <1>10, <1>11 DEF DiskInv, BlockWritten, WriteError, main, async, output, worker, ghosts, Header
<1> QED
  BY <1>1, <1>2, <1>3, <1>4, <1>5, <1>6, <1>7 DEF WriterInv

\* The worker writes somewhere else: makeps3iso has returned.
LEMMA StrayWriteInv ==
  ASSUME WriterInv, UNCHANGED layout, StrayWrite
  PROVE  WriterInv'
<1>0. IsoTypeOK /\ QueueInv /\ WorkerInv /\ FlagsInv /\ AsyncInv /\ MainInv /\ DiskInv /\ PartsInOrder
  BY DEF WriterInv
<1>1. EvTypeOK' /\ QueueInv' /\ WorkerInv' /\ (BlockInUse' <=> BlockInUse)
  <2>1. Nulls' = Nulls /\ Nulls \in 0 .. 2
    BY DEF Nulls, StrayWrite, main
  <2>2. UNCHANGED evVars /\ fpc # "idle" /\ fpc' = "store"
    BY DEF StrayWrite, EndWrite, FrameGone
  <2> QED
    BY <2>1, <2>2, EventsKept
<1>2. Frontier' = Frontier /\ Kept' = Kept /\ Start' = Start /\ Cur' = Cur /\ PartsInOrder'
  BY <1>0, OutputKept DEF StrayWrite, WriteError, FrameGone, output, ghosts
<1>8. BlockInUse
  BY DEF BlockInUse, StrayWrite, FrameGone
<1>9. PICK r \in {0, NoMemory, WriteError} : EndWrite(r)
  BY DEF StrayWrite, NoMemory, WriteError
<1>10. /\ f' \in [lba : Nat, n : 0 .. BlockMax, mem : BOOLEAN, ret : Results]
       /\ f'.lba = f.lba /\ f'.n = f.n /\ ~f'.mem /\ f'.ret = r
       /\ wret' = r /\ r \in Results /\ fpc' = "store"
  <2>1. r \in Results
    BY DEF Results, NoMemory, WriteError
  <2> QED
    BY <1>0, <1>9, <2>1, EndWritten
<1>11. ~first /\ "ERROR" \notin flags
  BY <1>0, <1>8 DEF FlagsInv
<1>3. IsoTypeOK'
  BY <1>0, <1>1, <1>10, <1>11 DEF IsoTypeOK, StrayWrite, WriteError, FrameGone, main, async, output, worker, ghosts, MainPlaces, Header, Toc, Parts
<1>4. FlagsInv'
  BY <1>0, <1>1, <1>8, <1>10, <1>11 DEF FlagsInv, StrayWrite, WriteError, FrameGone, main, async, output, worker, ghosts, IsoTypeOK
<1>5. AsyncInv'
  BY <1>0, <1>10 DEF AsyncInv, StrayWrite, WriteError, FrameGone, main, async, output, worker, ghosts
<1>6. MainInv'
  BY <1>0, <1>10 DEF MainInv, StrayWrite, WriteError, FrameGone, main, async, output, worker, ghosts, IsoTypeOK, Header, Toc
<1>7. DiskInv'
  BY <1>0, <1>1, <1>2, <1>8, <1>9, <1>10, <1>11 DEF DiskInv, StrayWrite, WriteError, FrameGone, main, async, output, worker, ghosts, Header
<1> QED
  BY <1>1, <1>2, <1>3, <1>4, <1>5, <1>6, <1>7 DEF WriterInv

\* my_func_async is through with the block.
LEMMA AsyncReturnsInv ==
  ASSUME WriterInv, UNCHANGED layout, AsyncReturns
  PROVE  WriterInv'
<1>0. IsoTypeOK /\ QueueInv /\ WorkerInv /\ FlagsInv /\ AsyncInv /\ MainInv /\ DiskInv /\ PartsInOrder
  BY DEF WriterInv
<1>1. EvTypeOK' /\ QueueInv' /\ WorkerInv' /\ ~BlockInUse'
  <2>1. Nulls' = Nulls /\ Nulls \in 0 .. 2
    BY DEF Nulls, AsyncReturns, main
  <2>2. Busy /\ Return /\ fpc' = "idle"
    BY DEF Busy, AsyncReturns
  <2> QED
    BY <2>1, <2>2, FunctionReturned
<1>2. Frontier' = Frontier /\ Kept' = Kept /\ Start' = Start /\ Cur' = Cur /\ PartsInOrder'
  BY <1>0, OutputKept DEF AsyncReturns, StoreFlags, output, ghosts
<1>8. BlockInUse
  BY DEF BlockInUse, AsyncReturns
<1>9. /\ flags' = IF wret # 0 THEN {"ERROR"} ELSE {}
      /\ fpc = "store" /\ f.ret = wret /\ ~f.mem
  BY <1>0 DEF AsyncReturns, StoreFlags, AsyncInv
<1>10. ~first
  BY <1>0, <1>8 DEF FlagsInv
<1>3. IsoTypeOK'
  BY <1>0, <1>1, <1>9 DEF IsoTypeOK, AsyncReturns, StoreFlags, main, async, output, worker, ghosts, MainPlaces, Header, Toc, Parts
<1>4. FlagsInv'
  BY <1>0, <1>1, <1>9, <1>10 DEF FlagsInv, AsyncReturns, StoreFlags, main, async, output, worker, ghosts, IsoTypeOK
<1>5. AsyncInv'
  BY <1>0 DEF AsyncInv, AsyncReturns, StoreFlags, main, async, output, worker, ghosts
<1>6. MainInv'
  BY <1>0 DEF MainInv, AsyncReturns, StoreFlags, main, async, output, worker, ghosts, IsoTypeOK, Header, Toc
<1>7. DiskInv'
  BY <1>0, <1>1, <1>2, <1>8, <1>9, <1>10 DEF FlagsInv, DiskInv, AsyncReturns, StoreFlags, main, async, output, worker, ghosts, Header
<1> QED
  BY <1>1, <1>2, <1>3, <1>4, <1>5, <1>6, <1>7 DEF WriterInv

\* A sector reaches the file.
LEMMA WriteSectorInv ==
  ASSUME WriterInv, UNCHANGED layout, WriteSector
  PROVE  WriterInv'
<1>0. IsoTypeOK /\ QueueInv /\ WorkerInv /\ FlagsInv /\ AsyncInv /\ MainInv /\ DiskInv /\ PartsInOrder
  BY DEF WriterInv
<1>1. EvTypeOK' /\ QueueInv' /\ WorkerInv' /\ (BlockInUse' <=> BlockInUse)
  <2>1. Nulls' = Nulls /\ Nulls \in 0 .. 2
    BY DEF Nulls, WriteSector, main
  <2>2. UNCHANGED evVars /\ fpc = "write" /\ fpc' = "write"
    BY DEF WriteSector, Writing
  <2> QED
    BY <2>1, <2>2, EventsKept
<1>8. BlockInUse
  BY DEF BlockInUse, WriteSector, Writing
<1>11. ~first /\ flags \in {{}, {"ENABLE"}}
  BY <1>0, <1>8 DEF FlagsInv
<1>12. /\ f.lba + wpos \in Frontier /\ NextSector = f.lba + wpos /\ NextSector \in Nat /\ NextSector < Toc
      /\ Fits /\ wpos < f.n /\ f.n \in Nat /\ fpc = "write" /\ mpc # "done"
  <2>1. fpc = "write" /\ mpc # "done" /\ NextSector = f.lba + wpos /\ wpos < f.n
    BY DEF WriteSector, Writing, FrameGone, NextSector
  <2>2. f.lba + wpos \in Frontier /\ Fits
    BY <1>0, <2>1 DEF DiskInv, Fits
  <2>3. f.lba + f.n <= Toc /\ f.lba \in Nat /\ wpos \in Nat /\ f.n \in Nat /\ Toc \in Nat
    BY <1>0, <1>11, IsoAssumption DEF MainInv, IsoTypeOK
  <2> QED
    BY <2>1, <2>2, <2>3
<1>2. /\ f.lba + wpos + 1 \in Frontier' /\ Kept \subseteq Kept' /\ PartsInOrder' /\ disk' \in [Parts -> Seq(Nat)]
      /\ Start' = Start /\ Cur' = Cur
  <2>1. disk' = [disk EXCEPT ![Cur] = Append(@, NextSector)] /\ UNCHANGED <<layout, headerOk, iso_split>>
    BY <1>0 DEF WriteSector, DiskInv, ghosts
  <2>2. iso_split = 0 \/ PartOf(NextSector) = Cur
    BY DEF WriteSector, MustSwitch, Cur
  <2>3. NextSector \in Frontier
    BY <1>12
  <2>4. NextSector + 1 \in Frontier' /\ Kept \subseteq Kept' /\ PartsInOrder' /\ disk' \in [Parts -> Seq(Nat)]
    BY <1>0, <1>12, <2>1, <2>2, <2>3, SectorAppended
  <2> QED
    BY <1>12, <2>1, <2>4 DEF Start, Cur, Begin, Header
<1>9. wpos \in Nat /\ wpos + 1 \in 0 .. BlockMax /\ f.lba \in Nat /\ f.lba + (wpos + 1) = f.lba + wpos + 1
  BY <1>0, <1>12, IsoAssumption DEF IsoTypeOK
<1>3. IsoTypeOK'
  BY SMTT(30), <1>0, <1>1, <1>2, <1>9 DEF IsoTypeOK, WriteSector, main, async, output, worker, ghosts, MainPlaces, Header, Toc, Parts
<1>4. FlagsInv'
  BY <1>0, <1>1 DEF FlagsInv, WriteSector, main, async, output, worker, ghosts, IsoTypeOK
<1>5. AsyncInv'
  BY <1>0, <1>9, <1>12 DEF AsyncInv, WriteSector, main, async, output, worker, ghosts
<1>6. MainInv'
  BY <1>0 DEF MainInv, WriteSector, main, async, output, worker, ghosts, IsoTypeOK, Header, Toc
<1>7. DiskInv'
  BY <1>0, <1>1, <1>2, <1>8, <1>9, <1>11, <1>12 DEF DiskInv, WriteSector, main, async, output, worker, ghosts, Header
<1> QED
  BY <1>1, <1>2, <1>3, <1>4, <1>5, <1>6, <1>7 DEF WriterInv

\* The next part is opened, or cannot be.
LEMMA NextPartInv ==
  ASSUME WriterInv, UNCHANGED layout, NextPart
  PROVE  WriterInv'
<1>0. IsoTypeOK /\ QueueInv /\ WorkerInv /\ FlagsInv /\ AsyncInv /\ MainInv /\ DiskInv /\ PartsInOrder
  BY DEF WriterInv
<1>1. EvTypeOK' /\ QueueInv' /\ WorkerInv' /\ (BlockInUse' <=> BlockInUse)
  <2>1. Nulls' = Nulls /\ Nulls \in 0 .. 2
    BY DEF Nulls, NextPart, main
  <2>2. UNCHANGED evVars /\ fpc = "write" /\ fpc' \in {"write", "store"}
    BY DEF NextPart, Writing, EndWrite, worker
  <2> QED
    BY <2>1, <2>2, EventsKept
<1>8. BlockInUse
  BY DEF BlockInUse, NextPart, Writing
<1>11. ~first /\ flags \in {{}, {"ENABLE"}}
  BY <1>0, <1>8 DEF FlagsInv
<1>12. /\ f.lba + wpos \in Frontier /\ NextSector = f.lba + wpos /\ NextSector \in Nat /\ NextSector < Toc
      /\ Fits /\ wpos < f.n /\ f.n \in Nat /\ fpc = "write" /\ mpc # "done"
  <2>1. fpc = "write" /\ mpc # "done" /\ NextSector = f.lba + wpos /\ wpos < f.n
    BY DEF NextPart, Writing, FrameGone, NextSector
  <2>2. f.lba + wpos \in Frontier /\ Fits
    BY <1>0, <2>1 DEF DiskInv, Fits
  <2>3. f.lba + f.n <= Toc /\ f.lba \in Nat /\ wpos \in Nat /\ f.n \in Nat /\ Toc \in Nat
    BY <1>0, <1>11, IsoAssumption DEF MainInv, IsoTypeOK
  <2> QED
    BY <2>1, <2>2, <2>3
<1>13. /\ f.lba + wpos \in Frontier' /\ Kept \subseteq Kept' /\ PartsInOrder'
       /\ disk' = disk /\ Start' = Start /\ Cur' = PartOf(NextSector) /\ PartOf(NextSector) \in Parts
  <2>1. /\ iso_split' = PartOf(NextSector) + 1 /\ UNCHANGED <<layout, headerOk>>
        /\ disk' = disk \/ disk' = [disk EXCEPT ![PartOf(NextSector)] = <<>>]
    BY DEF NextPart, ghosts
  <2>2. iso_split # 0 /\ PartOf(NextSector) # iso_split - 1
    BY DEF NextPart, MustSwitch
  <2>3. NextSector \in Frontier
    BY <1>12
  <2>4. /\ NextSector \in Frontier' /\ Kept \subseteq Kept' /\ PartsInOrder'
        /\ disk' = disk /\ Cur' = PartOf(NextSector) /\ PartOf(NextSector) \in Parts
    BY <1>0, <1>12, <2>1, <2>2, <2>3, PartOpened
  <2> QED
    BY <1>12, <2>1, <2>4 DEF Start, Begin, Header
<1>14. iso_split # 0 /\ iso_split' = PartOf(NextSector) + 1 /\ iso_split' \in 0 .. Toc \div SplitLba + 1
  <2>1. Toc \div SplitLba \in Nat
    BY <1>0, IsoAssumption, DivMod DEF IsoTypeOK
  <2> QED
    BY <1>13, <2>1 DEF NextPart, MustSwitch, Parts
<1>15. fd' = Closed \/ fd' = PartOf(NextSector)
  BY DEF NextPart
<1>16. \/ UNCHANGED <<f, worker>>
       \/ /\ f' \in [lba : Nat, n : 0 .. BlockMax, mem : BOOLEAN, ret : Results]
          /\ f'.lba = f.lba /\ f'.n = f.n /\ ~f'.mem /\ f'.ret = NoMemory
          /\ wret' = NoMemory /\ fpc' = "store" /\ UNCHANGED <<wpos, wflags>>
  <2>1. NoMemory \in Results
    BY DEF Results
  <2>2. CASE EndWrite(NoMemory) /\ UNCHANGED <<wpos, wflags>>
    BY <1>0, <2>1, <2>2, EndWritten
  <2> QED
    BY <2>2 DEF NextPart
<1>17. NoMemory \in Results /\ NoMemory # 0 /\ UNCHANGED <<evVars, main, flags, ghosts>> /\ Writing
  BY DEF Results, NoMemory, NextPart
<1>2. Kept \subseteq Kept' /\ PartsInOrder' /\ Start' = Start
  BY <1>13
<1>3. IsoTypeOK'
  BY ZenonT(60), <1>0, <1>1, <1>11, <1>13, <1>14, <1>15, <1>16, <1>17 DEF IsoTypeOK, Writing, main, async, output, worker, ghosts, MainPlaces, Header, Toc, Parts
<1>4. FlagsInv'
  BY <1>0, <1>1, <1>8, <1>11, <1>12, <1>16, <1>17 DEF FlagsInv, Writing, main, async, output, worker, ghosts, IsoTypeOK
<1>5. AsyncInv'
  BY <1>0, <1>12, <1>16, <1>17 DEF AsyncInv, Writing, main, async, output, worker, ghosts
<1>6. MainInv'
  BY <1>0, <1>16, <1>17 DEF MainInv, Writing, main, async, output, worker, ghosts, IsoTypeOK, Header, Toc
<1>7. DiskInv'
  BY <1>0, <1>1, <1>2, <1>8, <1>11, <1>12, <1>13, <1>14, <1>15, <1>16, <1>17 DEF DiskInv, Writing, main, async, output, worker, ghosts, Header
<1> QED
  BY <1>1, <1>2, <1>3, <1>4, <1>5, <1>6, <1>7 DEF WriterInv

\* write_split hands a block over: none is in use, and the parts end where
\* the block begins.
LEMMA write_splitInv ==
  ASSUME WriterInv, UNCHANGED layout, write_split
  PROVE  WriterInv' /\ ~BlockInUse
<1>0. IsoTypeOK /\ QueueInv /\ WorkerInv /\ FlagsInv /\ AsyncInv /\ MainInv /\ DiskInv /\ PartsInOrder
  BY DEF WriterInv
<1>1. ~BlockInUse
  BY <1>0 DEF FlagsInv, write_split, FreeToSubmit
<1>2. EvTypeOK' /\ QueueInv' /\ WorkerInv' /\ BlockInUse' /\ fpc = "idle" /\ fpc' = "idle"
  <2>1. Nulls = 0 /\ Nulls' = 0 /\ fpc' = fpc /\ event_thread_send(Call(WriteAsync))
    BY DEF Nulls, write_split, worker
  <2> QED
    BY <1>1, <2>1, BlockSent
<1>3. Frontier' = Frontier /\ Kept' = Kept /\ Start' = Start /\ Cur' = Cur /\ PartsInOrder'
  BY <1>0, OutputKept DEF write_split, output, ghosts
<1>4. PICK mem \in BOOLEAN : f' = [lba |-> blk.lba, n |-> blk.n, mem |-> mem, ret |-> NoMemory]
  BY DEF write_split
<1>5. /\ blk.lba \in Nat /\ blk.n \in 0 .. BlockMax /\ blk.lba = flba /\ blk.n >= 1
      /\ flba + blk.n \in Header .. Toc /\ flba \in Nat /\ flba <= Toc /\ ret = 0 /\ mpc = "try"
  BY <1>0, IsoAssumption DEF IsoTypeOK, MainInv, write_split, Block
<1>6. f' \in [lba : Nat, n : 0 .. BlockMax, mem : BOOLEAN, ret : Results] /\ f'.lba = flba /\ f'.n = blk.n
  BY <1>4, <1>5 DEF Results
<1>7. flba \in Frontier /\ ~slipped
  <2>1. ~slipped
    BY <1>0 DEF FlagsInv, write_split
  <2>4. ~first => flags = {}
    BY DEF write_split, FreeToSubmit
  <2>2. CASE first
    BY <1>0, <1>5, <2>1, <2>2 DEF DiskInv, MainInv
  <2>3. CASE ~first
    BY <1>0, <1>1, <1>5, <2>1, <2>3, <2>4 DEF DiskInv, MainInv
  <2> QED
    BY <2>2, <2>3
<1>8. \A lba \in Start .. flba - 1 : lba \in Kept
  BY <1>0, <1>5, <1>7, FrontierIsKept DEF Fits, DiskInv
<1>9. IsoTypeOK'
  BY <1>0, <1>2, <1>5, <1>6 DEF IsoTypeOK, write_split, output, worker, ghosts, MainPlaces, Header, Toc, Parts
<1>10. FlagsInv'
  BY <1>0, <1>2, <1>7 DEF FlagsInv, write_split, ghosts
<1>11. AsyncInv'
  BY <1>2 DEF AsyncInv
<1>12. MainInv'
  BY <1>0, <1>5, <1>6 DEF MainInv, write_split
<1>13. DiskInv'
  BY <1>0, <1>2, <1>3, <1>5, <1>6, <1>7, <1>8 DEF DiskInv, write_split, output, worker, ghosts, Header
<1> QED
  BY <1>1, <1>2, <1>3, <1>9, <1>10, <1>11, <1>12, <1>13 DEF WriterInv

-----------------------------------------------------------------------------
(* All steps.                                                              *)

\* A step of the extraction or a stutter.
LEMMA WriterUnchanged ==
  ASSUME WriterInv, UNCHANGED vars
  PROVE  WriterInv'
<1>0. IsoTypeOK /\ QueueInv /\ WorkerInv /\ FlagsInv /\ AsyncInv /\ MainInv /\ DiskInv /\ PartsInOrder
  BY DEF WriterInv
<1>1. UNCHANGED <<layout, evVars, main, async, output, worker, ghosts>>
  BY DEF vars
<1>2. /\ UNCHANGED <<layout, evVars>> /\ UNCHANGED <<mpc, ret, flba, blk, first>> /\ UNCHANGED <<f, flags>>
      /\ UNCHANGED <<iso_split, fd, disk>> /\ UNCHANGED <<fpc, wpos, wret, wflags>>
      /\ UNCHANGED <<headerOk, slipped, stray>>
  BY <1>1 DEF main, async, output, worker, ghosts
<1>3. EvTypeOK' /\ QueueInv' /\ WorkerInv' /\ (BlockInUse' <=> BlockInUse)
  <2>1. Nulls' = Nulls /\ Nulls \in 0 .. 2
    BY <1>2 DEF Nulls
  <2> QED
    BY <1>0, <1>2, <2>1, EventsKept DEF IsoTypeOK
<1>4. Frontier' = Frontier /\ Kept' = Kept /\ Start' = Start /\ Cur' = Cur /\ PartsInOrder'
  BY <1>0, <1>2, OutputKept
<1>5. IsoTypeOK'
  BY <1>0, <1>2, <1>3 DEF IsoTypeOK, Header, Toc, Parts
<1>6. FlagsInv' /\ AsyncInv' /\ MainInv'
  BY <1>0, <1>2, <1>3 DEF FlagsInv, AsyncInv, MainInv, Header, Toc
<1>7. DiskInv'
  BY <1>0, <1>2, <1>3, <1>4 DEF DiskInv, Header
<1> QED
  BY <1>3, <1>4, <1>5, <1>6, <1>7 DEF WriterInv

\* A step of makeps3iso.
LEMMA MainStep ==
  ASSUME WriterInv, Main
  PROVE  WriterInv'
<1>1. UNCHANGED layout
  BY DEF Main
<1>2. CASE NextBlock
  BY <1>1, <1>2, NextBlockInv
<1>3. CASE InputFails
  BY <1>1, <1>3, InputFailsInv
<1>4. CASE LastBlockHandedOver
  BY <1>1, <1>4, LastBlockInv
<1>5. CASE write_split
  BY <1>1, <1>5, write_splitInv
<1>6. CASE write_split_fails
  BY <1>1, <1>6, write_split_failsInv
<1>7. CASE build_file_iso_end
  BY <1>1, <1>7, FirstCheckInv, FirstWaitInv, FirstLowerInv DEF build_file_iso_end
<1>8. CASE makeps3iso_wait
  BY <1>1, <1>8, SecondCheckInv, SecondWaitInv, SecondLowerInv DEF makeps3iso_wait
<1>9. CASE CloseOutput
  BY <1>1, <1>9, CloseOutputInv
<1>10. CASE DeletePartial
  BY <1>1, <1>10, DeletePartialInv
<1> QED
  BY <1>2, <1>3, <1>4, <1>5, <1>6, <1>7, <1>8, <1>9, <1>10 DEF Main

\* A step of the event thread.
LEMMA WorkerStep ==
  ASSUME WriterInv, Worker
  PROVE  WriterInv'
  BY WorkerReceiveInv, WorkerDispatchInv, WorkerClearInv, OtherReturnsInv, NotEnabledInv, EnabledInv,
     NextPartInv, WriteSectorInv, WriteFailsInv, BlockWrittenInv, StrayWriteInv, AsyncReturnsInv DEF Worker

\* An image written earlier is left alone.
LEMMA NothingMovesAtRest ==
  ASSUME AtRest
  PROVE  ~Main /\ ~Worker
<1>1. mpc = "done" /\ wpc = "receive" /\ evQ = <<>> /\ fpc = "idle"
  BY DEF AtRest
<1>2. ~Main
  BY <1>1 DEF Main, NextBlock, InputFails, LastBlockHandedOver, write_split, write_split_fails, build_file_iso_end,
     makeps3iso_wait, Check, Wait, LowerFlags, CloseOutput, DeletePartial
<1>3. ~Worker
  BY <1>1 DEF Worker, WorkerReceive, Receive, WorkerDispatch, Dispatch, WorkerClear, Clear, OtherReturns, Return,
     NotEnabled, Enabled, NextPart, WriteSector, WriteFails, BlockWritten, StrayWrite, AsyncReturns, Writing
<1> QED
  BY <1>2, <1>3

LEMMA RestUnchanged ==
  ASSUME AtRest, UNCHANGED vars
  PROVE  AtRest'
  BY DEF AtRest, vars, evVars, main, async, output, worker, ghosts, ReturnIsSound, PartsInOrder, IsoTypeOK, EvTypeOK,
     SuccessLosesAtMostTheLastBlock, SuccessIsCompleteUnlessSlipped, WorkerQuietAtTheEnd, QueueNeverFills, Success,
     OnDisk, PartOf, Begin, End, Parts, Header, Toc, BlockInUse, Underway, Call

\* Every step keeps the invariant.
LEMMA StepInv ==
  ASSUME IInv, [Next]_<<vars, xvars>>
  PROVE  IInv'
<1>1. CASE AtRest
  <2>1. UNCHANGED vars
    BY <1>1, NothingMovesAtRest DEF Next, Extract
  <2> QED
    BY <1>1, <2>1, RestUnchanged DEF IInv
<1>2. CASE WriterInv
  <2>1. CASE Main
    BY <1>2, <2>1, MainStep DEF IInv
  <2>2. CASE Worker
    BY <1>2, <2>2, WorkerStep DEF IInv
  <2>3. CASE UNCHANGED vars
    BY <1>2, <2>3, WriterUnchanged DEF IInv
  <2> QED
    BY <2>1, <2>2, <2>3 DEF Next, Extract
<1> QED
  BY <1>1, <1>2 DEF IInv

-----------------------------------------------------------------------------
(* The initial states.                                                     *)

\* The sectors from a up to b.
LEMMA IntervalIs ==
  ASSUME NEW a \in Nat, NEW b \in Nat
  PROVE  /\ Interval(a, b) \in Seq(Nat)
         /\ Len(Interval(a, b)) = IF b > a THEN b - a ELSE 0
         /\ \A i \in 1 .. Len(Interval(a, b)) : Interval(a, b)[i] = a + i - 1
<1> DEFINE n == IF b > a THEN b - a ELSE 0
<1>1. n \in Nat
  OBVIOUS
<1>2. \A i \in 1 .. n : a + i - 1 \in Nat
  OBVIOUS
<1>3. Interval(a, b) = [i \in 1 .. n |-> a + i - 1]
  BY DEF Interval
<1> HIDE DEF n
<1>4. Interval(a, b) \in Seq(Nat) /\ Len(Interval(a, b)) = n
  BY <1>1, <1>2, <1>3
<1> QED
  BY <1>1, <1>3, <1>4 DEF n

\* What LayoutAssumption says of the image at hand.
LEMMA LayoutIsSound ==
  ASSUME Init
  PROVE  Header \in Nat \ {0} /\ Toc \in Nat /\ Header <= Toc /\ (folder \in Written => Header <= SplitLba)
<1>1. folder \in Folders /\ ~TooManyFolders(folder) /\ layout = LayoutOf(Image(folder))
  BY DEF Init
<1> QED
  BY <1>1, LayoutAssumption DEF Header, Toc

\* makeps3iso has opened its output.
LEMMA StartIsSound ==
  ASSUME StartWriting, Header \in Nat \ {0}, Toc \in Nat, Header <= Toc, Header <= SplitLba
  PROVE  WriterInv
<1>1. SplitLba \in Nat \ {0} /\ BlockMax \in Nat \ {0} /\ QueueSize \in Nat /\ QueueSize >= 4
  BY IsoAssumption, QueueSizeAssumption
<1>2. Toc \div SplitLba \in Nat /\ Parts \subseteq Nat /\ 0 \in Parts
  BY <1>1, DivMod DEF Parts
<1>3. /\ disk \in [Parts -> Seq(Nat)]
      /\ \A p \in Parts : Len(disk[p]) = IF p = 0 /\ headerOk THEN Header ELSE 0
      /\ \A p \in Parts : \A i \in 1 .. Len(disk[p]) : p = 0 /\ headerOk /\ disk[p][i] = i - 1
  <2>1. 0 \in Nat /\ Header \in Nat /\ Len(<<>>) = 0
    OBVIOUS
  <2>2. /\ Interval(0, Header) \in Seq(Nat) /\ Len(Interval(0, Header)) = Header
        /\ \A i \in 1 .. Header : Interval(0, Header)[i] = i - 1
    <3>1. /\ Interval(0, Header) \in Seq(Nat)
          /\ Len(Interval(0, Header)) = IF Header > 0 THEN Header - 0 ELSE 0
          /\ \A i \in 1 .. Len(Interval(0, Header)) : Interval(0, Header)[i] = 0 + i - 1
      BY <2>1, IntervalIs
    <3> QED
      BY <3>1
  <2>3. disk = [p \in Parts |-> IF p = 0 /\ headerOk THEN Interval(0, Header) ELSE <<>>]
    BY DEF StartWriting
  <2> QED
    BY <2>2, <2>3
<1>4. EvTypeOK /\ QueueInv /\ WorkerInv /\ ~BlockInUse
  <2>1. CASE EvStarted
    BY <1>1, <2>1 DEF StartWriting, EvStarted, EvTypeOK, Event, Exit, WorkerPlaces, QueueInv, WorkerInv, Queued, Taken,
       Busy, BlockInUse, Underway
  <2>2. CASE /\ init = 1 /\ event_thread_working = 0 /\ wpc = "receive"
             /\ event = Exit /\ evQ = <<Call(Other)>>
    <3>1. Len(evQ) = 1 /\ evQ[1] = Call(Other) /\ evQ \in Seq(Event) /\ event \in Event
      BY <2>2, Events DEF Exit, Event
    <3>2. QueueInv /\ ~Queued
      BY <3>1, Events DEF QueueInv, Queued
    <3>3. EvTypeOK
      BY <1>1, <2>2, <3>1 DEF EvTypeOK, WorkerPlaces
    <3>4. WorkerInv /\ ~BlockInUse
      BY <2>2, <3>2 DEF StartWriting, WorkerInv, Queued, Taken, Busy, BlockInUse, Underway
    <3> QED
      BY <3>2, <3>3, <3>4
  <2> QED
    BY <2>1, <2>2 DEF StartWriting
<1>5. IsoTypeOK
  <2>1. /\ blk \in Block /\ f \in [lba : Nat, n : 0 .. BlockMax, mem : BOOLEAN, ret : Results]
        /\ ret \in Results /\ wret \in Results
    BY <1>1 DEF StartWriting, Block, Results
  <2>2. iso_split \in 0 .. Toc \div SplitLba + 1 /\ fd \in Parts
    BY <1>2 DEF StartWriting
  <2>3. flba \in Header .. Toc /\ wpos \in 0 .. BlockMax /\ flags \in SUBSET {"ENABLE", "ERROR"}
    BY <1>1 DEF StartWriting
  <2> QED
    BY <1>3, <1>4, <2>1, <2>2, <2>3 DEF IsoTypeOK, StartWriting, MainPlaces
<1>6. FlagsInv /\ AsyncInv
  BY <1>4 DEF FlagsInv, AsyncInv, StartWriting
<1>7. MainInv
  BY DEF MainInv, StartWriting
<1>8. Cur = 0 /\ Begin(0) = (IF headerOk THEN 0 ELSE Header) /\ Header <= End(0) /\ End(0) \in Nat
  <2>1. iso_split \in {0, 1} /\ (0 + 1) * SplitLba = SplitLba
    BY <1>1 DEF StartWriting
  <2> QED
    BY <1>1, <2>1 DEF Cur, Begin, End
<1>9. Header \in Frontier
  <2>1. \A p \in Parts : Len(disk[p]) = IF p < Cur THEN End(p) - Begin(p) ELSE IF p = Cur THEN Header - Begin(p) ELSE 0
    BY <1>2, <1>3, <1>8
  <2> QED
    BY <1>8, <2>1 DEF Frontier, FilledTo
<1>10. DiskInv
  BY <1>8, <1>9 DEF DiskInv, StartWriting
<1>11. PartsInOrder
  BY <1>2, <1>3, <1>8 DEF PartsInOrder
<1> QED
  BY <1>4, <1>5, <1>6, <1>7, <1>10, <1>11 DEF WriterInv

\* An image written earlier is complete.
LEMMA EarlierIsSound ==
  ASSUME AlreadyWritten, Header \in Nat \ {0}, Toc \in Nat, Header <= Toc
  PROVE  AtRest
<1>1. SplitLba \in Nat \ {0} /\ BlockMax \in Nat \ {0} /\ QueueSize \in Nat /\ QueueSize >= 4
  BY IsoAssumption, QueueSizeAssumption
<1>2. Toc \div SplitLba \in Nat /\ Parts \subseteq Nat /\ 0 \in Parts
  BY <1>1, DivMod DEF Parts
<1>3. /\ mpc = "done" /\ ret = 0 /\ wpc = "receive" /\ evQ = <<>> /\ fpc = "idle"
      /\ blk.lba = Toc /\ headerOk = TRUE /\ slipped = FALSE /\ stray = FALSE
  BY DEF AlreadyWritten, EvStarted
<1>4. iso_split \in 0 .. Toc \div SplitLba + 1 /\ (iso_split # 0 => Header <= SplitLba)
  <2>1. CASE iso_split = 0
    BY <1>2, <2>1
  <2>2. CASE iso_split # 0
    <3> DEFINE q == (Toc - 1) \div SplitLba
               t == Toc \div SplitLba
    <3>1. iso_split = q + 1 /\ Header <= SplitLba
      BY <2>2 DEF AlreadyWritten
    <3>2. Toc - 1 \in Nat
      OBVIOUS
    <3>3. q \in Nat /\ q * SplitLba <= Toc - 1 /\ t \in Nat /\ Toc < t * SplitLba + SplitLba
      BY <1>1, <3>2, DivMod
    <3> HIDE DEF q, t
    <3>4. t < q => t * SplitLba + SplitLba <= q * SplitLba
      BY <1>1, <3>3, Multiples
    <3>5. q * SplitLba \in Nat /\ t * SplitLba \in Nat
      BY <1>1, <3>3, Multiples
    <3>6. q <= t
      BY <1>1, <3>3, <3>4, <3>5
    <3> QED
      BY <3>1, <3>3, <3>6 DEF t
  <2> QED
    BY <2>1, <2>2
<1>5. ASSUME NEW p \in Parts
      PROVE  /\ Begin(p) \in Nat /\ End(p) \in Nat /\ disk[p] \in Seq(Nat)
             /\ \A i \in 1 .. Len(disk[p]) : disk[p][i] = Begin(p) + i - 1 /\ disk[p][i] < End(p)
             /\ \A lba \in Nat : Begin(p) <= lba /\ lba < End(p) /\ lba < Toc /\ (iso_split = 0 => p = 0) =>
                  lba - Begin(p) + 1 \in 1 .. Len(disk[p])
  <2>1. p \in Nat /\ p * SplitLba \in Nat /\ (p + 1) * SplitLba = p * SplitLba + SplitLba /\ 0 * SplitLba = 0
    BY <1>1, <1>2, Multiples
  <2>2. CASE iso_split = 0
    <3>1. disk[p] = IF p = 0 THEN Interval(0, Toc) ELSE <<>>
      BY <2>2 DEF AlreadyWritten
    <3>2. CASE p = 0
      <4>1. /\ disk[p] \in Seq(Nat) /\ Len(disk[p]) = Toc
            /\ \A i \in 1 .. Toc : disk[p][i] = 0 + i - 1
        <5>1. /\ Interval(0, Toc) \in Seq(Nat)
              /\ Len(Interval(0, Toc)) = IF Toc > 0 THEN Toc - 0 ELSE 0
              /\ \A i \in 1 .. Len(Interval(0, Toc)) : Interval(0, Toc)[i] = 0 + i - 1
          BY 0 \in Nat, IntervalIs
        <5> QED
          BY <3>1, <3>2, <5>1
      <4>2. Begin(p) = 0 /\ End(p) = Toc
        BY <1>3, <2>2, <3>2 DEF Begin, End
      <4> QED
        BY <4>1, <4>2
    <3>3. CASE p # 0
      BY <1>3, <2>1, <2>2, <3>1, <3>3 DEF Begin, End
    <3> QED
      BY <3>2, <3>3
  <2>3. CASE iso_split # 0
    <3> DEFINE b == IF p = Toc \div SplitLba THEN Toc ELSE (p + 1) * SplitLba
    <3>1. disk[p] = Interval(p * SplitLba, b)
      BY <2>3 DEF AlreadyWritten
    <3>2. b \in Nat /\ b <= p * SplitLba + SplitLba /\ (b = Toc \/ b = p * SplitLba + SplitLba)
      <4>1. Toc < (Toc \div SplitLba) * SplitLba + SplitLba
        BY <1>1, DivMod
      <4> QED
        BY <1>1, <2>1, <4>1
    <3>3. Begin(p) = p * SplitLba /\ End(p) = p * SplitLba + SplitLba
      BY <1>3, <2>1, <2>3 DEF Begin, End
    <3> HIDE DEF b
    <3>4. /\ disk[p] \in Seq(Nat) /\ Len(disk[p]) = IF b > p * SplitLba THEN b - p * SplitLba ELSE 0
          /\ \A i \in 1 .. Len(disk[p]) : disk[p][i] = p * SplitLba + i - 1
      <4> DEFINE a == p * SplitLba
      <4>1. a \in Nat
        BY <2>1
      <4> HIDE DEF a
      <4>2. /\ Interval(a, b) \in Seq(Nat)
            /\ Len(Interval(a, b)) = IF b > a THEN b - a ELSE 0
            /\ \A i \in 1 .. Len(Interval(a, b)) : Interval(a, b)[i] = a + i - 1
        BY <3>2, <4>1, IntervalIs
      <4> QED
        BY <3>1, <4>2 DEF a
    <3>5. End(p) \in Nat
      BY <1>1, <2>1, <3>3
    <3> QED
      BY SMTT(30), <2>1, <3>2, <3>3, <3>4, <3>5
  <2> QED
    BY <2>2, <2>3
<1>6. EvTypeOK
  BY <1>1 DEF AlreadyWritten, EvStarted, EvTypeOK, Event, Exit, WorkerPlaces
<1>7. disk \in [Parts -> Seq(Nat)]
  <2>1. disk = [p \in Parts |-> disk[p]]
    BY DEF AlreadyWritten
  <2> QED
    BY <1>5, <2>1
<1>8. IsoTypeOK
  <2>1. /\ blk \in Block /\ f \in [lba : Nat, n : 0 .. BlockMax, mem : BOOLEAN, ret : Results]
        /\ ret \in Results /\ wret \in Results
    BY <1>1 DEF AlreadyWritten, Block, Results
  <2>2. flba \in Header .. Toc /\ wpos \in 0 .. BlockMax /\ flags \in SUBSET {"ENABLE", "ERROR"}
    BY <1>1 DEF AlreadyWritten
  <2> QED
    BY <1>4, <1>6, <1>7, <2>1, <2>2 DEF IsoTypeOK, AlreadyWritten, MainPlaces
<1>9. \A lba \in Start .. Toc - 1 : OnDisk(lba)
  <2>1. Start = 0
    BY <1>3 DEF Start, Begin
  <2>2. SUFFICES ASSUME NEW lba \in Nat, lba < Toc PROVE OnDisk(lba)
    BY <2>1
  <2>3. PICK p \in Parts : p = PartOf(lba) /\ Begin(p) <= lba /\ lba < End(p)
    BY <1>4, <1>8, <2>1, <2>2, SectorsPart DEF Fits
  <2>4. iso_split = 0 => p = 0
    BY <2>3 DEF PartOf
  <2>5. lba - Begin(p) + 1 \in 1 .. Len(disk[p])
    BY <1>5, <2>2, <2>3, <2>4
  <2> QED
    BY <2>3, <2>5 DEF OnDisk
<1>10. PartsInOrder
  BY <1>5 DEF PartsInOrder
<1>11. ~BlockInUse /\ ~f.mem
  BY DEF BlockInUse, Underway, AlreadyWritten, EvStarted
<1>12. ReturnIsSound
  BY <1>3, <1>8, <1>9, <1>11 DEF ReturnIsSound, SuccessLosesAtMostTheLastBlock, SuccessIsCompleteUnlessSlipped,
     WorkerQuietAtTheEnd, QueueNeverFills, Start
<1> QED
  BY <1>3, <1>10, <1>12 DEF AtRest

\* The initial states satisfy the invariant.
LEMMA InitInv == Init => IInv
  BY LayoutIsSound, StartIsSound, EarlierIsSound DEF Init, IInv

-----------------------------------------------------------------------------
(* THEOREMS                                                                *)

(* The invariant of the writer holds throughout.                           *)
THEOREM WriterInvariant == Spec => []IInv
<1>1. Init => IInv
  BY InitInv
<1>2. IInv /\ [Next]_<<vars, xvars>> => IInv'
  BY StepInv
<1> QED
  BY <1>1, <1>2, PTL DEF Spec

(* What the invariant says about the return of makeps3iso.                 *)
LEMMA InvReturnIsSound ==
  ASSUME IInv
  PROVE  ReturnIsSound
<1>1. SUFFICES ASSUME WriterInv PROVE ReturnIsSound
  BY DEF IInv, AtRest
<1>2. IsoTypeOK /\ QueueInv /\ FlagsInv /\ MainInv /\ DiskInv
  BY <1>1 DEF WriterInv
<1>3. Fits /\ Toc \in Nat /\ Header \in Nat /\ Header <= Toc /\ Start \in Nat
  BY <1>2, PartBounds DEF Fits, DiskInv, IsoTypeOK, Start
<1>4. SuccessLosesAtMostTheLastBlock
  <2>1. SUFFICES ASSUME mpc = "done", ret = 0 PROVE \A lba \in Start .. blk.lba - 1 : lba \in Kept
    BY DEF SuccessLosesAtMostTheLastBlock, Success, Start, Kept
  <2>2. CASE first
    BY <1>2, <1>3, <2>1, <2>2, FrontierIsKept DEF MainInv, DiskInv
  <2>3. CASE ~first
    BY <1>2, <2>1, <2>3 DEF MainInv, DiskInv
  <2> QED
    BY <2>2, <2>3
<1>5. SuccessIsCompleteUnlessSlipped
  <2>1. SUFFICES ASSUME mpc = "done", ret = 0, ~slipped, "ERROR" \notin flags
                 PROVE  \A lba \in Start .. Toc - 1 : lba \in Kept
    BY DEF SuccessIsCompleteUnlessSlipped, Success, Start, Kept
  <2>2. ~BlockInUse
    BY <1>2, <2>1 DEF FlagsInv
  <2>3. Toc \in Frontier
    BY <1>2, <2>1, <2>2 DEF MainInv, DiskInv
  <2> QED
    BY <1>3, <2>3, FrontierIsKept
<1>6. WorkerQuietAtTheEnd
  BY <1>2 DEF FlagsInv, WorkerQuietAtTheEnd
<1>7. QueueNeverFills
  <2>1. Nulls \in 0 .. 2
    BY DEF Nulls
  <2>2. Len(evQ) <= 2 + Nulls /\ Len(evQ) \in Nat
    BY <1>2, <2>1, QueueIsShort DEF IsoTypeOK, EvTypeOK
  <2> QED
    BY <2>1, <2>2 DEF QueueNeverFills
<1> QED
  BY <1>2, <1>4, <1>5, <1>6, <1>7 DEF ReturnIsSound

(* Whatever fails, and wherever the boundaries of blocks and parts fall,   *)
(* the parts hold the right sectors in order (write_split0).               *)
THEOREM PartsAlwaysInOrder == Spec => []PartsInOrder
<1>1. IInv => PartsInOrder
  BY DEF IInv, AtRest, WriterInv
<1> QED
  BY <1>1, WriterInvariant, PTL

(* What makeps3iso returns is sound: types; success loses at most the last *)
(* block, and not even that unless it failed unread or slipped; the worker *)
(* is through with the file; the queue never fills.                        *)
THEOREM ReturnIsAlwaysSound == Spec => []ReturnIsSound
  BY InvReturnIsSound, WriterInvariant, PTL

(* write_split never replaces a block the worker still needs.              *)
THEOREM BlocksAreNotOverwritten == Spec => NoOverwriteInUse
<1>1. IInv /\ [Next]_<<vars, xvars>> => [f' # f /\ main' # main => ~BlockInUse]_vars
  <2>1. SUFFICES ASSUME IInv, [Next]_<<vars, xvars>>, f' # f, main' # main PROVE ~BlockInUse
    OBVIOUS
  <2>2. ~UNCHANGED vars
    BY <2>1 DEF vars
  <2>3. ~Worker
    BY <2>1 DEF Worker, WorkerReceive, WorkerDispatch, WorkerClear, OtherReturns, NotEnabled, Enabled, NextPart,
       WriteSector, WriteFails, BlockWritten, StrayWrite, AsyncReturns
  <2>4. Main
    BY <2>1, <2>2, <2>3 DEF Next, Extract
  <2>5. write_split
    BY <2>1, <2>4 DEF Main, NextBlock, InputFails, LastBlockHandedOver, write_split_fails, build_file_iso_end,
       makeps3iso_wait, Check, Wait, LowerFlags, CloseOutput, DeletePartial, async
  <2>6. WriterInv
    BY <2>1, <2>4, NothingMovesAtRest DEF IInv
  <2> QED
    BY <2>4, <2>5, <2>6, write_splitInv DEF Main
<1> QED
  BY <1>1, WriterInvariant, PTL DEF Spec, NoOverwriteInUse
=============================================================================
