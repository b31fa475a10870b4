----------------------------- MODULE ArchiveProofs -----------------------------
(***************************************************************************)
(* Theorems about the copies and moves of the archive manager              *)
(* (ArchiveCopy), for all jobs, items, files, parts and lengths of the     *)
(* event queue.                                                            *)
(***************************************************************************)
EXTENDS ArchiveCopy, WellFoundedInduction, TLAPS

-----------------------------------------------------------------------------
(* Sums. The provers know no induction; but every set of naturals has a    *)
(* least element, and that suffices.                                       *)

\* The least element of a set of naturals.
LEMMA SmallestOf ==
  ASSUME NEW T \in SUBSET Nat, T # {}
  PROVE  \E n \in T : \A m \in T : n <= m
<1>1. PICK n \in T : \A m \in T : ~ (<<m, n>> \in OpToRel(<, Nat))
  BY WFMin, NatLessThanWellFounded
<1>2. \A m \in T : ~ (m < n)
  BY <1>1 DEF OpToRel
<1> QED
  BY <1>2

\* Induction, over a set: what holds of 0 and goes on to n + 1 holds up to m.
LEMMA UpTo ==
  ASSUME NEW m \in Nat, NEW T, 0 \in T, \A n \in 0 .. m - 1 : n \in T => n + 1 \in T
  PROVE  \A n \in 0 .. m : n \in T
<1>1. SUFFICES ASSUME NEW k \in 0 .. m, k \notin T PROVE FALSE
  OBVIOUS
<1> DEFINE U == {n \in 0 .. m : n \notin T}
<1>2. U \in SUBSET Nat /\ U # {}
  BY <1>1
<1>3. PICK n \in U : \A i \in U : n <= i
  BY <1>2, SmallestOf
<1>4. n \in 0 .. m /\ n \notin T /\ n # 0
  BY <1>3
<1>5. n - 1 \in 0 .. m - 1 /\ n - 1 \notin U
  BY <1>3, <1>4
<1>6. n - 1 \in T /\ (n - 1) + 1 = n
  BY <1>4, <1>5
<1> QED
  BY <1>4, <1>5, <1>6

\* The sums of a sequence are what adding its elements one by one gives.
LEMMA SumsAt ==
  ASSUME NEW s \in Seq(Nat)
  PROVE  /\ Sums(s) \in [0 .. Len(s) -> Nat] /\ Sums(s)[0] = 0
         /\ \A i \in 1 .. Len(s) : Sums(s)[i] = Sums(s)[i - 1] + s[i]
         /\ Sum(s) = Sums(s)[Len(s)] /\ Sum(s) \in Nat
<1> DEFINE IsSums(g, n) == g = [i \in 0 .. n |-> IF i = 0 THEN 0 ELSE g[i - 1] + s[i]]
           T == {n \in 0 .. Len(s) : \E g \in [0 .. n -> Nat] : IsSums(g, n)}
<1>1. Len(s) \in Nat /\ \A i \in 1 .. Len(s) : s[i] \in Nat
  OBVIOUS
<1>2. 0 \in T
  <2> DEFINE z == [i \in 0 .. 0 |-> 0]
  <2>1. z \in [0 .. 0 -> Nat] /\ \A i \in 0 .. 0 : z[i] = IF i = 0 THEN 0 ELSE z[i - 1] + s[i]
    OBVIOUS
  <2>2. IsSums(z, 0)
    BY <2>1
  <2>3. 0 \in 0 .. Len(s)
    BY <1>1
  <2> QED
    BY <2>1, <2>2, <2>3
<1>3. ASSUME NEW n \in 0 .. Len(s) - 1, n \in T
      PROVE  n + 1 \in T
  <2>1. PICK g \in [0 .. n -> Nat] : IsSums(g, n)
    BY <1>3
  <2> DEFINE h == [i \in 0 .. n + 1 |-> IF i = n + 1 THEN g[n] + s[n + 1] ELSE g[i]]
  <2>2. h \in [0 .. n + 1 -> Nat]
    BY <1>1
  <2>3. ASSUME NEW i \in 0 .. n + 1 PROVE h[i] = IF i = 0 THEN 0 ELSE h[i - 1] + s[i]
    <3>1. n \in Nat
      BY <1>1
    <3>2. CASE i = n + 1
      BY <3>1, <3>2
    <3>3. CASE i # n + 1
      <4>1. i \in 0 .. n /\ (i # 0 => i - 1 \in 0 .. n /\ i - 1 # n + 1)
        BY <3>1, <3>3
      <4>2. g[i] = IF i = 0 THEN 0 ELSE g[i - 1] + s[i]
        BY <2>1, <4>1
      <4>3. h[i] = g[i] /\ (i # 0 => h[i - 1] = g[i - 1])
        BY <3>1, <3>3, <4>1
      <4> QED
        BY <4>2, <4>3
    <3> QED
      BY <3>2, <3>3
  <2>4. IsSums(h, n + 1)
    BY <2>2, <2>3
  <2>5. n + 1 \in 0 .. Len(s)
    BY <1>1
  <2> QED
    BY <2>2, <2>4, <2>5
<1>4. PICK g \in [0 .. Len(s) -> Nat] : IsSums(g, Len(s))
  <2> HIDE DEF T
  <2>1. \A n \in 0 .. Len(s) : n \in T
    BY <1>1, <1>2, <1>3, UpTo
  <2>2. Len(s) \in T
    BY <1>1, <2>1
  <2> QED
    BY <2>2 DEF T
<1>5. Sums(s) = CHOOSE f : IsSums(f, Len(s))
  BY DEF Sums
<1>6. IsSums(Sums(s), Len(s))
  BY <1>4, <1>5, Zenon
<1> DEFINE f == Sums(s)
<1>7. f = [i \in 0 .. Len(s) |-> IF i = 0 THEN 0 ELSE f[i - 1] + s[i]]
  BY <1>6
<1> HIDE DEF f
<1>8. f[0] = 0 /\ \A i \in 1 .. Len(s) : f[i] = f[i - 1] + s[i]
  <2>1. \A i \in 1 .. Len(s) : i \in 0 .. Len(s) /\ i # 0
    BY <1>1
  <2>2. 0 \in 0 .. Len(s)
    BY <1>1
  <2> QED
    BY SMTT(30), <1>7, <2>1, <2>2
<1>9. DOMAIN f = 0 .. Len(s) /\ f = [i \in 0 .. Len(s) |-> f[i]]
  BY <1>7
<1> DEFINE V == {i \in 0 .. Len(s) : f[i] \in Nat}
<1>10. 0 \in V /\ \A n \in 0 .. Len(s) - 1 : n \in V => n + 1 \in V
  <2>1. ASSUME NEW n \in 0 .. Len(s) - 1, f[n] \in Nat
        PROVE  n + 1 \in 0 .. Len(s) /\ f[n + 1] \in Nat
    <3>1. n + 1 \in 1 .. Len(s) /\ (n + 1) - 1 = n
      BY <1>1
    <3>2. f[n + 1] = f[n] + s[n + 1] /\ s[n + 1] \in Nat
      BY <1>1, <1>8, <3>1
    <3> QED
      BY <2>1, <3>1, <3>2
  <2> QED
    BY <1>1, <1>8, <2>1
<1>11. \A n \in 0 .. Len(s) : n \in V
  <2> HIDE DEF V
  <2> QED
    BY <1>1, <1>10, UpTo
<1>12. f \in [0 .. Len(s) -> Nat]
  BY <1>9, <1>11
<1> QED
  BY <1>1, <1>8, <1>12 DEF Sum, f

-----------------------------------------------------------------------------
(* The invariant. PlaceInv and WorkerInv hold always, JobInv in every job  *)
(* that did not begin before the last block of the one before was written. *)

CurrentPlaces == {"part", "fd", "write", "bar", "skip", "cancelWait", "filed"}
BlockPlaces == {"fd", "write", "bar"}
Copying == pc \in BlockPlaces \cup {"part"}

(* Where the main thread is.                                               *)
PlaceInv ==
  /\ ArTypeOK
  /\ deleted \subseteq 1 .. item
  /\ pc \in CurrentPlaces \cup {"itemEnd"} => item <= Len(Items)
  /\ pc \in CurrentPlaces => file <= Len(Items[item].files)
  /\ pc = "part" => part <= Len(File.parts) + 1
  /\ pc \in BlockPlaces =>
       /\ part <= Len(File.parts) /\ pos <= File.parts[part] /\ File.kind # "part"
       /\ pc = "write" => pos < File.parts[part]
       /\ pc = "fd" => pos < File.parts[part] \/ pos = 0
  /\ Copying \/ pc = "item" => ok
  /\ pc \in BlockPlaces \/ (pc = "part" /\ part > 1) => outs # <<>>

(* What the event thread may find.                                         *)
WorkerInv ==
  /\ wpc = "run" => event.func # NULL
  /\ w.at # "check" => wpc = "run"
  /\ ~Quiet => v.fd \in 1 .. Len(outs)
  /\ Enabled => ~Failed

(* Of this job at most one block is on its way, that in my_f_async.        *)
Sent == use_async_fd # 128
OneBlock ==
  /\ \A e1, e2 \in DOMAIN evQ : evQ[e1].func # NULL /\ evQ[e2].func # NULL => e1 = e2
  /\ InHand # <<>> /\ event.func # NULL => \A e \in DOMAIN evQ : evQ[e].func = NULL
  /\ ~Quiet => Enabled /\ Sent
  /\ w.at = "write" => w.flags = v.flags
  /\ w.at = "close" => w.flags \in {v.flags, v.flags \cup {"ERROR"}}

(* The block in my_f_async is not written, or not yet.                     *)
Unwritten ==
  /\ Sent
  /\ IF Enabled THEN w.at # "close" \/ "ERROR" \in w.flags ELSE Failed
Lack(o) == IF o = v.fd /\ Unwritten THEN 1 ELSE 0
HandedOver(o) == Len(outs[o].got) + Lack(o)

(* The files of the job, in the order in which they are met. The last one  *)
(* is Current while its item is in hand and not deleted.                   *)
O == Len(outs)
Current == HasOutput /\ item \notin deleted
OrderInv ==
  /\ \A o \in DOMAIN outs : outs[o].item <= item /\ (outs[o].item = item => outs[o].file <= file)
  /\ pc = "item" => \A o \in DOMAIN outs : outs[o].item < item
  /\ item \in deleted => pc \in {"end", "endWait", "idle"}
  /\ pc = "part" /\ part = 1 => ~HasOutput
  /\ pc \in BlockPlaces \/ (pc = "part" /\ part > 1) => HasOutput /\ outs[O].kind = File.kind
  /\ pc \in BlockPlaces \/ (pc = "part" /\ part > 1 /\ File.kind = "join") => outs[O].want = Wanted

(* How much of every file was handed over.                                 *)
LastHandedOver ==
  IF pc \in BlockPlaces THEN BlockNumber - 1
  ELSE IF File.kind = "join" THEN Sums(File.parts)[part - 1] ELSE outs[O].want
Unfinished == Current /\ (Copying \/ ~ok)
Spoiled == Current /\ ~ok
CountInv ==
  /\ ~Quiet /\ v.mem # NULL => v.mem.n = Len(outs[v.fd].got) + 1
  /\ HasOutput /\ Copying => HandedOver(O) = LastHandedOver
  /\ \A o \in DOMAIN outs :
       \/ HandedOver(o) = outs[o].want
       \/ use_async_fd = 0 /\ o = v.fd /\ Len(outs[o].got) + 1 >= outs[o].want
       \/ o = O /\ Unfinished
       \/ "short" \in odd
  /\ \A o \in DOMAIN outs : outs[o].kept \/ (o = O /\ Spoiled) \/ "undone" \in odd

(* What is open still.                                                     *)
Closes(o) == o = v.fd /\ Sent /\ Enabled /\ "FCLOSE" \in v.flags
Opening == Current /\ (~ok \/ pc \in {"fd", "write"} \/ (pc = "bar" /\ pos < File.parts[part]))
OpenInv ==
  \A o \in DOMAIN outs : outs[o].open =>
    outs[o].want = 0 \/ Joined(outs[o]) \/ Closes(o) \/ (o = O /\ Opening)

(* The block in my_f_async is one of a file of this job, once the job has  *)
(* handed one over.                                                        *)
SentInv == Sent /\ pc # "idle" => v.fd \in 1 .. O

JobInv == OneBlock /\ OrderInv /\ BlocksInOrder /\ CountInv /\ OpenInv
ArInv == PlaceInv /\ WorkerInv /\ SentInv /\ ("slipped" \notin odd => JobInv)

(* If the queue has room for two events of every job, no event is lost:    *)
(* what a job may still send counts like what it has sent.                 *)
Bit(b) == IF b THEN 1 ELSE 0
Owed == Len(evQ) + Bit(InHand # <<>>) + Bit(pc # "idle") + Bit(use_async_fd = 128) - Bit(Enabled)
QueueInv == (Enabled => ~Quiet) /\ Owed <= 2 * jobs

-----------------------------------------------------------------------------
(* What the type invariant gives.                                          *)

\* The file in hand is one of the job.
LEMMA FileTyped ==
  ASSUME PlaceInv, pc \in CurrentPlaces
  PROVE  /\ item \in 1 .. Len(Items) /\ file \in 1 .. Len(Items[item].files)
         /\ File \in Files /\ File.kind \in Kinds /\ File.parts \in Seq(Nat)
         /\ Len(File.parts) \in Nat
<1>1. /\ job \in Job /\ item \in Nat \ {0} /\ file \in Nat \ {0}
      /\ item <= Len(Items) /\ file <= Len(Items[item].files)
  BY DEF PlaceInv, ArTypeOK
<1>2. Items \in Seq(Item) /\ Len(Items) \in Nat
  BY <1>1 DEF Job, Items
<1>3. item \in 1 .. Len(Items) /\ Items[item] \in Item
  BY <1>1, <1>2
<1>4. Items[item].files \in Seq(Files) /\ Len(Items[item].files) \in Nat
  BY <1>3 DEF Item
<1>5. file \in 1 .. Len(Items[item].files) /\ Items[item].files[file] \in Files
  BY <1>1, <1>4
<1>6. File \in Files
  BY <1>5 DEF File
<1>7. File.kind \in Kinds /\ File.parts \in Seq(Nat)
  BY <1>6 DEF Files
<1> QED
  BY <1>3, <1>5, <1>6, <1>7

\* The files written so far.
LEMMA OutsTyped ==
  ASSUME PlaceInv
  PROVE  /\ outs \in Seq(Output) /\ O \in Nat /\ DOMAIN outs = 1 .. O
         /\ outs # <<>> => O \in 1 .. O
         /\ \A o \in 1 .. O : /\ outs[o] \in Output /\ outs[o].item \in Nat /\ outs[o].file \in Nat
                              /\ outs[o].kind \in Kinds /\ outs[o].want \in Nat
                              /\ outs[o].got \in Seq(Nat \ {0}) /\ Len(outs[o].got) \in Nat
                              /\ outs[o].open \in BOOLEAN /\ outs[o].kept \in BOOLEAN
<1>1. outs \in Seq(Output)
  BY DEF PlaceInv, ArTypeOK
<1>2. O \in Nat /\ DOMAIN outs = 1 .. O /\ (outs # <<>> => O \in 1 .. O)
  BY <1>1 DEF O
<1>3. ASSUME NEW o \in 1 .. O
      PROVE  outs[o] \in Output
  BY <1>1, <1>2, <1>3 DEF O
<1> QED
  BY <1>1, <1>2, <1>3 DEF Output

\* What a file that is opened wants, and what it is when it is.
LEMMA OpenedTyped ==
  ASSUME PlaceInv, pc = "part", part <= Len(File.parts)
  PROVE  /\ Wanted \in Nat /\ Opened \in Seq(Output) /\ Len(Opened) = O + 1
         /\ Opened[O + 1] = [item |-> item, file |-> file, kind |-> File.kind, want |-> Wanted,
                             got |-> <<>>, open |-> TRUE, kept |-> TRUE]
         /\ \A o \in 1 .. O : Opened[o] = outs[o]
<1>1. File.kind \in Kinds /\ File.parts \in Seq(Nat) /\ part \in 1 .. Len(File.parts)
  BY FileTyped DEF CurrentPlaces, PlaceInv, ArTypeOK
<1>2. Wanted \in Nat
  BY <1>1, SumsAt DEF Wanted
<1> DEFINE new == [item |-> item, file |-> file, kind |-> File.kind, want |-> Wanted,
                   got |-> <<>>, open |-> TRUE, kept |-> TRUE]
<1>3. new \in Output
  BY <1>1, <1>2 DEF Output, PlaceInv, ArTypeOK
<1>4. outs \in Seq(Output) /\ O \in Nat /\ O = Len(outs)
  BY OutsTyped DEF O
<1>5. Opened = Append(outs, new)
  BY DEF Opened
<1> HIDE DEF new
<1>6. Opened \in Seq(Output) /\ Len(Opened) = O + 1 /\ Opened[O + 1] = new
      /\ \A o \in 1 .. O : Opened[o] = outs[o]
  BY <1>3, <1>4, <1>5
<1> QED
  BY <1>2, <1>6 DEF new

\* A block is numbered from one, wherever it is in its file.
LEMMA BlockTyped ==
  ASSUME PlaceInv, pc \in BlockPlaces
  PROVE  /\ part \in 1 .. Len(File.parts) /\ File.parts[part] \in Nat /\ pos \in 0 .. File.parts[part]
         /\ File.kind = "join" => Sums(File.parts)[part - 1] \in Nat
         /\ BlockNumber \in Nat \ {0} /\ BlockNumber - 1 \in Nat /\ outs # <<>>
<1>1. /\ File.parts \in Seq(Nat) /\ Len(File.parts) \in Nat
      /\ part \in 1 .. Len(File.parts) /\ pos <= File.parts[part] /\ pos \in Nat /\ outs # <<>>
  BY FileTyped DEF CurrentPlaces, BlockPlaces, PlaceInv, ArTypeOK
<1>2. File.parts[part] \in Nat
  BY <1>1
<1>3. part - 1 \in 0 .. Len(File.parts)
  BY <1>1
<1>4. Sums(File.parts)[part - 1] \in Nat
  BY <1>1, <1>3, SumsAt
<1>5. BlockNumber \in Nat \ {0} /\ BlockNumber - 1 \in Nat
  <2> DEFINE before == IF File.kind = "join" THEN Sums(File.parts)[part - 1] ELSE 0
  <2>1. BlockNumber = pos + 1 + before
    BY DEF BlockNumber
  <2>2. before \in Nat
    BY <1>4
  <2> HIDE DEF before
  <2> QED
    BY <1>1, <2>1, <2>2
<1> QED
  BY <1>1, <1>2, <1>4, <1>5

\* The queue and the worker as they were.
LEMMA QueueKept ==
  ASSUME UNCHANGED evs
  PROVE  /\ EvTypeOK => EvTypeOK'
         /\ UNCHANGED <<init, evQ, event_thread_working, wpc, event>>
         /\ Quiet' = Quiet /\ InHand' = InHand
<1>1. UNCHANGED <<init, evQ, event_thread_working, wpc, event>>
  BY DEF evs
<1> QED
  BY <1>1 DEF EvTypeOK, Quiet, InHand

\* An event that is sent is the last of the queue, or lost.
LEMMA EventSent ==
  ASSUME EvTypeOK, NEW e \in Event, event_thread_send(e)
  PROVE  /\ EvTypeOK' /\ UNCHANGED <<init, event_thread_working, wpc, event>> /\ InHand' = InHand
         /\ \/ evQ' = evQ /\ Len(evQ) = QueueSize
            \/ /\ evQ' = Append(evQ, e) /\ Len(evQ') = Len(evQ) + 1 /\ Len(evQ) < QueueSize
               /\ evQ'[Len(evQ) + 1] = e /\ \A i \in 1 .. Len(evQ) : evQ'[i] = evQ[i]
         /\ evQ \in Seq(Event) /\ evQ' \in Seq(Event) /\ Len(evQ) \in Nat
<1>1. /\ evQ \in Seq(Event) /\ Len(evQ) \in Nat /\ Len(evQ) <= QueueSize /\ QueueSize \in Nat
      /\ evQ' = (IF CanSend THEN Append(evQ, e) ELSE evQ)
      /\ UNCHANGED <<init, event_thread_working, wpc, event>>
  BY QueueSizeAssumption DEF EvTypeOK, event_thread_send
<1>2. CASE CanSend
  <2>1. evQ' = Append(evQ, e) /\ Len(evQ) < QueueSize
    BY <1>1, <1>2 DEF CanSend
  <2>2. /\ evQ' \in Seq(Event) /\ Len(evQ') = Len(evQ) + 1
        /\ evQ'[Len(evQ) + 1] = e /\ \A i \in 1 .. Len(evQ) : evQ'[i] = evQ[i]
    BY <1>1, <2>1
  <2>3. EvTypeOK'
    BY <1>1, <2>1, <2>2 DEF EvTypeOK
  <2> QED
    BY <1>1, <2>1, <2>2, <2>3 DEF InHand
<1>3. CASE ~CanSend
  BY <1>1, <1>3 DEF CanSend, EvTypeOK, InHand
<1> QED
  BY <1>2, <1>3

\* What is sent is an event; a block is only ever asked of my_func_async.
LEMMA Asked ==
  /\ Call(NULL) \in Event /\ Call(NULL).func = NULL
  /\ Call(my_func_async) \in Event /\ Call(my_func_async).func # NULL
  /\ \A e \in Event : e.func # NULL => e.func = my_func_async
<1>1. Funcs = {my_func_async} /\ NULL # my_func_async
  BY ArchiveCopyAssumption, NullAssumption
<1> QED
  BY <1>1 DEF Call, Event

\* The steps of the event thread between its functions, and their end.
LEMMA WorkerTyped ==
  ASSUME EvTypeOK, Receive \/ Dispatch \/ Clear \/ Return
  PROVE  EvTypeOK'
<1>1. evQ \in Seq(Event) /\ Len(evQ) \in Nat /\ event \in Event
  BY DEF EvTypeOK
<1>2. CASE Receive
  <2>1. Head(evQ) \in Event /\ Tail(evQ) \in Seq(Event) /\ Len(Tail(evQ)) = Len(evQ) - 1
    BY <1>1, <1>2 DEF Receive
  <2>2. Len(Tail(evQ)) <= QueueSize
    BY <1>1, <2>1, QueueSizeAssumption DEF EvTypeOK
  <2> QED
    BY <1>2, <2>1, <2>2 DEF Receive, EvTypeOK, WorkerPlaces
<1>3. CASE Dispatch
  BY <1>1, <1>3 DEF Dispatch, EvTypeOK, WorkerPlaces
<1>4. CASE Clear
  BY <1>1, <1>4 DEF Clear, EvTypeOK, WorkerPlaces
<1>5. CASE Return
  BY <1>1, <1>5 DEF Return, EvTypeOK, WorkerPlaces
<1> QED
  BY <1>2, <1>3, <1>4, <1>5

-----------------------------------------------------------------------------
(* Types.                                                                  *)

\* The file that is written last is removed.
LEMMA RemovedTyped ==
  ASSUME PlaceInv, Removed
  PROVE  /\ outs' \in Seq(Output) /\ Len(outs') = O /\ odd' \subseteq OddThings
         /\ ("slipped" \in odd' <=> "slipped" \in odd) /\ odd \subseteq odd'
         /\ \A o \in 1 .. O : o # O \/ ~HasOutput => outs'[o] = outs[o]
         /\ HasOutput => outs'[O] = [outs[O] EXCEPT !.kept = FALSE]
         /\ HasOutput /\ ok' => "undone" \in odd'
         /\ ~HasOutput => outs' = outs /\ odd' = odd
<1>1. outs \in Seq(Output) /\ O \in Nat /\ Len(outs) = O /\ odd \subseteq OddThings
  BY OutsTyped DEF O, PlaceInv, ArTypeOK
<1>2. CASE HasOutput
  <2>1. O \in 1 .. O /\ outs[O] \in Output
    BY <1>2, OutsTyped DEF HasOutput
  <2>2. outs' = [outs EXCEPT ![O].kept = FALSE] /\ odd' = (IF ok' THEN odd \cup {"undone"} ELSE odd)
    BY <1>2 DEF Removed, O
  <2> DEFINE new == [outs[O] EXCEPT !.kept = FALSE]
  <2>3. new \in Output
    BY <2>1 DEF Output
  <2>4. outs' = [outs EXCEPT ![O] = new]
    BY <2>2
  <2> HIDE DEF new
  <2>5. /\ outs' \in Seq(Output) /\ Len(outs') = O /\ outs'[O] = new
        /\ \A o \in 1 .. O : o # O => outs'[o] = outs[o]
    BY <1>1, <2>1, <2>3, <2>4
  <2> QED
    BY <1>1, <1>2, <2>2, <2>5 DEF new, OddThings
<1>3. CASE ~HasOutput
  BY <1>1, <1>3 DEF Removed
<1> QED
  BY <1>2, <1>3

\* The block in my_f_async is written to the file it is for.
LEMMA WrittenTyped ==
  ASSUME PlaceInv, v.fd \in 1 .. O, v.mem \in Block
  PROVE  /\ Written(v.mem) \in Seq(Output) /\ Len(Written(v.mem)) = O
         /\ Written(v.mem)[v.fd] = [outs[v.fd] EXCEPT !.got = Append(@, v.mem.n)]
         /\ \A o \in 1 .. O : o # v.fd => Written(v.mem)[o] = outs[o]
<1>1. outs \in Seq(Output) /\ O \in Nat /\ Len(outs) = O /\ outs[v.fd] \in Output
      /\ outs[v.fd].got \in Seq(Nat \ {0})
  BY OutsTyped DEF O
<1> DEFINE new == [outs[v.fd] EXCEPT !.got = Append(@, v.mem.n)]
<1>2. v.mem.n \in Nat \ {0}
  BY DEF Block
<1>3. Append(outs[v.fd].got, v.mem.n) \in Seq(Nat \ {0})
  BY <1>1, <1>2
<1>4. new \in Output
  BY <1>1, <1>3 DEF Output
<1>5. Written(v.mem) = [outs EXCEPT ![v.fd] = new]
  BY DEF Written
<1> HIDE DEF new
<1>6. /\ Written(v.mem) \in Seq(Output) /\ Len(Written(v.mem)) = O /\ Written(v.mem)[v.fd] = new
      /\ \A o \in 1 .. O : o # v.fd => Written(v.mem)[o] = outs[o]
  BY <1>1, <1>4, <1>5
<1> QED
  BY <1>6 DEF new

\* The file of the block is closed.
LEMMA ClosedTyped ==
  ASSUME PlaceInv, v.fd \in 1 .. O, NEW s, s = [outs EXCEPT ![v.fd].open = FALSE]
  PROVE  /\ s \in Seq(Output) /\ Len(s) = O /\ s[v.fd] = [outs[v.fd] EXCEPT !.open = FALSE]
         /\ \A o \in 1 .. O : o # v.fd => s[o] = outs[o]
<1>1. outs \in Seq(Output) /\ O \in Nat /\ Len(outs) = O /\ outs[v.fd] \in Output
  BY OutsTyped DEF O
<1> DEFINE new == [outs[v.fd] EXCEPT !.open = FALSE]
<1>2. new \in Output
  BY <1>1 DEF Output
<1>3. s = [outs EXCEPT ![v.fd] = new]
  OBVIOUS
<1> HIDE DEF new
<1>4. /\ s \in Seq(Output) /\ Len(s) = O /\ s[v.fd] = new
      /\ \A o \in 1 .. O : o # v.fd => s[o] = outs[o]
  BY <1>1, <1>2, <1>3
<1> QED
  BY <1>4 DEF new

\* Every step of the main thread keeps the types.
LEMMA MainTyped ==
  ASSUME PlaceInv, StartJob \/ Main
  PROVE  ArTypeOK'
<1>0. ArTypeOK /\ outs \in Seq(Output) /\ EvTypeOK
  BY OutsTyped DEF PlaceInv, ArTypeOK
<1>1. CASE StartJob
  <2>1. jobs' \in 0 .. MaxJobs /\ job' \in Job
    BY <1>0, <1>1, ArchiveCopyAssumption DEF StartJob, ArTypeOK
  <2>2. outs' \in Seq(Output) /\ odd' \subseteq OddThings /\ EvTypeOK'
    BY <1>0, <1>1, QueueKept DEF StartJob, OddThings
  <2> QED
    BY <1>0, <1>1, <2>1, <2>2 DEF StartJob, ArTypeOK
<1>2. ASSUME NEW place_, At(place_), place_ \in {"item", "part", "fd", "write", "bar", "skip",
              "cancelWait", "filed", "itemEnd", "end", "endWait"}, pc # "idle",
             item' \in Nat \ {0}, file' \in Nat \ {0}, part' \in Nat \ {0}, pos' \in Nat,
             progress_action' \in {0, 2}, ok' \in BOOLEAN, outs' \in Seq(Output),
             deleted' \subseteq Nat, odd' \subseteq OddThings
      PROVE  ArTypeOK'
  <2>1. EvTypeOK' /\ UNCHANGED <<jobs, job, use_async_fd, v, w>> /\ pc' = place_
    BY <1>0, <1>2, QueueKept DEF At
  <2> QED
    BY <1>0, <1>2, <2>1 DEF ArTypeOK
<1>3. /\ item \in Nat \ {0} /\ file \in Nat \ {0} /\ part \in Nat \ {0} /\ pos \in Nat
      /\ progress_action \in {0, 2} /\ ok \in BOOLEAN /\ deleted \subseteq Nat
      /\ odd \subseteq OddThings
  BY <1>0 DEF ArTypeOK
<1>4. CASE NextItem \/ FolderFails \/ PartsEnd
  <2>1. CASE NextItem
    <3>1. At("end") \/ At("itemEnd") \/ At("part")
      BY <2>1 DEF NextItem
    <3> QED
      BY <1>0, <1>2, <1>3, <2>1, <3>1 DEF NextItem
  <2>2. CASE FolderFails \/ PartsEnd
    BY <1>0, <1>2, <1>3, <2>2 DEF FolderFails, PartsEnd, place
  <2> QED
    BY <1>4, <2>1, <2>2
<1>5. CASE PartsEndTooSoon
  BY <1>0, <1>2, <1>3, <1>5 DEF PartsEndTooSoon, place, OddThings
<1>6. CASE PartOpens \/ PartFails
  <2>1. Opened \in Seq(Output)
    BY <1>6, OpenedTyped DEF PartOpens, PartFails
  <2>2. CASE PartOpens
    BY <1>0, <1>2, <1>3, <2>1, <2>2 DEF PartOpens
  <2>3. CASE PartFails
    <3>1. outs' \in Seq(Output)
      BY <1>0, <2>1, <2>3 DEF PartFails
    <3> QED
      BY <1>0, <1>2, <1>3, <2>3, <3>1 DEF PartFails, place
  <2> QED
    BY <1>6, <2>2, <2>3
<1>7. CASE ReadBlock \/ ReadNothing \/ SendFails
  BY <1>0, <1>2, <1>3, <1>7 DEF ReadBlock, ReadNothing, SendFails, place
<1>8. CASE SendBlock
  <2>1. PICK allocated \in BOOLEAN :
          v' = [flags |-> {"ENABLE"} \cup (IF LastBlock THEN {"FCLOSE"} ELSE {}), fd |-> Len(outs),
                mem |-> IF allocated THEN [out |-> Len(outs), n |-> BlockNumber] ELSE NULL]
    BY <1>8 DEF SendBlock
  <2>2. BlockNumber \in Nat \ {0} /\ Len(outs) \in Nat
    BY <1>8, BlockTyped, OutsTyped DEF SendBlock, BlockPlaces, O
  <2>3. [out |-> Len(outs), n |-> BlockNumber] \in Block
    BY <2>2 DEF Block
  <2>4. {"ENABLE"} \cup (IF LastBlock THEN {"FCLOSE"} ELSE {}) \in SUBSET Flags
    BY DEF Flags
  <2>5. v' \in [flags : SUBSET Flags, fd : Nat, mem : Block \cup {NULL}]
    BY <2>1, <2>2, <2>3, <2>4
  <2>6. EvTypeOK'
    BY <1>0, <1>8, Asked, EventSent DEF SendBlock
  <2>7. pos' \in Nat /\ pc' \in {"skip", "bar"} /\ ok' \in BOOLEAN /\ use_async_fd' = 1
    <3>1. pos' = pos + 1 /\ use_async_fd' = 1
      BY <1>8 DEF SendBlock
    <3>2. (pc' = "skip" /\ ok' = FALSE) \/ (pc' = "bar" /\ ok' = ok)
      BY <1>8 DEF SendBlock
    <3>3. pos' \in Nat
      BY <1>3, <3>1
    <3>4. pc' \in {"skip", "bar"} /\ ok' \in BOOLEAN
      BY <1>3, <3>2, Zenon
    <3> QED
      BY <3>1, <3>3, <3>4
  <2> QED
    BY <1>0, <1>8, <2>5, <2>6, <2>7 DEF SendBlock, ArTypeOK
<1>9. CASE DrawBar
  BY <1>0, <1>2, <1>3, <1>9 DEF DrawBar
<1>10. CASE NotCancelled \/ NextFile
  <2>1. CASE NotCancelled
    BY <1>0, <1>2, <1>3, <2>1 DEF NotCancelled, place
  <2>2. CASE NextFile
    <3>1. \/ At("part") /\ file' = file + 1 /\ part' = 1 /\ pos' = 0
          \/ At("itemEnd") /\ UNCHANGED <<file, part, pos>>
      BY <2>2 DEF NextFile
    <3> QED
      BY <1>0, <1>2, <1>3, <2>2, <3>1 DEF NextFile
  <2> QED
    BY <1>10, <2>1, <2>2
<1>11. CASE Cancelled
  <2>1. outs' \in Seq(Output) /\ odd' \subseteq OddThings /\ ok' \in BOOLEAN
    BY <1>0, <1>3, <1>11, RemovedTyped DEF Cancelled
  <2> QED
    BY <1>0, <1>2, <1>3, <1>11, <2>1 DEF Cancelled, place
<1>12. CASE CancelWaits
  <2>1. outs' \in Seq(Output) /\ odd' \subseteq OddThings /\ ok' \in BOOLEAN
    BY <1>0, <1>3, <1>12, RemovedTyped DEF CancelWaits
  <2> QED
    BY <1>0, <1>2, <1>3, <1>12, <2>1 DEF CancelWaits, place
<1>13. CASE DeleteSource
  <2>1. PICK works \in BOOLEAN :
          LET done == works /\ ~WrongName
          IN  /\ deleted' = IF done \/ Items[item].dir THEN deleted \cup {item} ELSE deleted
              /\ ItemEnds(done)
    BY <1>13 DEF DeleteSource
  <2>2. deleted' \subseteq Nat
    BY <1>3, <2>1
  <2>3. ok' \in BOOLEAN
    BY <2>1 DEF ItemEnds, WrongName
  <2> QED
    BY <1>0, <1>2, <1>3, <1>13, <2>1, <2>2, <2>3 DEF DeleteSource, ItemEnds
<1>14. CASE KeepSource
  BY <1>0, <1>2, <1>3, <1>14 DEF KeepSource, ItemEnds
<1>15. CASE JobEndsAtOnce \/ JobEndsAfterWait
  <2>1. Finishes /\ ok' \in BOOLEAN
    BY <1>3, <1>15 DEF JobEndsAtOnce, JobEndsAfterWait
  <2>2. EvTypeOK'
    BY <1>0, <2>1, Asked, EventSent DEF Finishes
  <2> QED
    BY <1>0, <2>1, <2>2 DEF Finishes, ArTypeOK, place
<1>16. CASE JobWaits
  BY <1>0, <1>2, <1>3, <1>16 DEF JobWaits, place
<1> QED
  BY <1>1, <1>4, <1>5, <1>6, <1>7, <1>8, <1>9, <1>10, <1>11, <1>12, <1>13, <1>14, <1>15, <1>16
  DEF Main

\* So does every step of the event thread.
LEMMA EventTyped ==
  ASSUME PlaceInv, WorkerInv, Worker
  PROVE  ArTypeOK'
<1>0. /\ ArTypeOK /\ outs \in Seq(Output) /\ EvTypeOK
      /\ v \in [flags : SUBSET Flags, fd : Nat, mem : Block \cup {NULL}]
      /\ w \in [at : {"check", "write", "close"}, flags : SUBSET Flags]
  BY OutsTyped DEF PlaceInv, ArTypeOK
<1>1. ASSUME Idles, EvTypeOK', outs' \in Seq(Output),
             v' \in [flags : SUBSET Flags, fd : Nat, mem : Block \cup {NULL}],
             w' \in [at : {"check", "write", "close"}, flags : SUBSET Flags]
      PROVE  ArTypeOK'
  BY <1>0, <1>1 DEF Idles, place, ArTypeOK
<1>2. wpc = "run" => v.fd \in 1 .. O
  BY DEF WorkerInv, Quiet, InHand, O
<1>3. CASE (Receive \/ Dispatch \/ Clear) /\ Idles /\ UNCHANGED <<v, w, outs>>
  BY <1>0, <1>1, <1>3, WorkerTyped
<1>4. CASE AsyncChecks
  <2>1. EvTypeOK'
    BY <1>0, <1>4, WorkerTyped, QueueKept DEF AsyncChecks
  <2>2. w' \in [at : {"check", "write", "close"}, flags : SUBSET Flags]
    BY <1>0, <1>4 DEF AsyncChecks
  <2> QED
    BY <1>0, <1>1, <1>4, <2>1, <2>2 DEF AsyncChecks
<1>5. CASE AsyncWrites
  <2>1. EvTypeOK' /\ Idles
    BY <1>0, <1>5, QueueKept DEF AsyncWrites
  <2>2. w' \in [at : {"check", "write", "close"}, flags : SUBSET Flags]
    BY <1>0, <1>5 DEF AsyncWrites, Flags
  <2>3. v' \in [flags : SUBSET Flags, fd : Nat, mem : Block \cup {NULL}]
    BY <1>0, <1>5 DEF AsyncWrites
  <2>4. outs' \in Seq(Output)
    BY <1>0, <1>2, <1>5, WrittenTyped DEF AsyncWrites
  <2> QED
    BY <1>1, <2>1, <2>2, <2>3, <2>4
<1>6. CASE AsyncEnds
  <2>1. EvTypeOK' /\ Idles
    BY <1>0, <1>6, WorkerTyped DEF AsyncEnds
  <2>2. w' \in [at : {"check", "write", "close"}, flags : SUBSET Flags]
    BY <1>6 DEF AsyncEnds
  <2>3. v' \in [flags : SUBSET Flags, fd : Nat, mem : Block \cup {NULL}]
    BY <1>0, <1>6 DEF AsyncEnds, Lowered
  <2>4. outs' \in Seq(Output)
    BY <1>0, <1>2, <1>6, ClosedTyped DEF AsyncEnds
  <2> QED
    BY <1>1, <2>1, <2>2, <2>3, <2>4
<1> QED
  BY <1>3, <1>4, <1>5, <1>6 DEF Worker

-----------------------------------------------------------------------------
(* Where the main thread is.                                               *)

\* Of a step that stays with the file and the block.
LEMMA FileKept ==
  ASSUME UNCHANGED <<job, item, file>>
  PROVE  Items' = Items /\ File' = File
  BY DEF Items, File

\* Every step of the main thread keeps PlaceInv.
LEMMA MainPlaced ==
  ASSUME PlaceInv, StartJob \/ Main
  PROVE  PlaceInv'
<1>0. ArTypeOK' /\ ArTypeOK
  BY MainTyped DEF PlaceInv
<1>1. CASE StartJob
  BY <1>0, <1>1 DEF StartJob, PlaceInv, ArTypeOK, CurrentPlaces, BlockPlaces, Copying
<1>2. CASE NextItem
  <2>1. \/ pc' = "end"
        \/ /\ item <= Len(Items) /\ Items[item].files = <<>> /\ pc' = "itemEnd"
        \/ /\ item <= Len(Items) /\ Items[item].files # <<>> /\ pc' = "part"
    <3>1. item \in Nat /\ Len(Items) \in Nat
      BY <1>0 DEF ArTypeOK, Job, Items
    <3> QED
      BY <1>2, <3>1 DEF NextItem, At
  <2>2. /\ UNCHANGED <<job, item, ok, outs, deleted>> /\ file' = 1 /\ part' = 1 /\ pc = "item"
    BY <1>2 DEF NextItem, At
  <2>3. item <= Len(Items) => Items[item].files \in Seq(Files)
    <3>1. Items \in Seq(Item) /\ item \in Nat \ {0}
      BY <1>0 DEF ArTypeOK, Job, Items
    <3>2. item <= Len(Items) => Items[item] \in Item
      BY <3>1
    <3> QED
      BY <3>2 DEF Item
  <2>4. pc' = "part" => Len(Items[item].files) >= 1
    BY <2>1, <2>3
  <2>5. pc' = "part" => File' \in Files
    <3>1. pc' = "part" => Items[item].files[1] \in Files
      BY <2>1, <2>3, <2>4
    <3> QED
      BY <2>2, <3>1 DEF File, Items
  <2>6. pc' = "part" => Len(File'.parts) \in Nat
    BY <2>5 DEF Files
  <2>7. Items' = Items
    BY <2>2 DEF Items
  <2> QED
    BY <1>0, <2>1, <2>2, <2>4, <2>6, <2>7 DEF PlaceInv, CurrentPlaces, BlockPlaces, Copying
<1>3. CASE FolderFails
  BY <1>0, <1>3, FileKept DEF FolderFails, At, place, PlaceInv, CurrentPlaces, BlockPlaces, Copying
<1>4. CASE PartsEnd \/ PartsEndTooSoon
  BY <1>0, <1>4, FileKept
  DEF PartsEnd, PartsEndTooSoon, At, place, PlaceInv, CurrentPlaces, BlockPlaces, Copying
<1>5. CASE PartOpens
  <2>1. outs' # <<>>
    <3>1. part \in Nat \ {0}
      BY <1>0 DEF ArTypeOK
    <3>2. OpensOutput => outs' = Opened /\ Len(Opened) = O + 1 /\ O \in Nat
      BY <1>5, OpenedTyped, OutsTyped DEF PartOpens
    <3>3. ~OpensOutput => outs' = outs /\ part > 1
      BY <1>5, <3>1 DEF PartOpens, OpensOutput
    <3> QED
      BY <1>5, <3>2, <3>3 DEF PlaceInv, PartOpens
  <2>2. File.parts \in Seq(Nat) /\ part \in 1 .. Len(File.parts)
    BY <1>0, <1>5, FileTyped DEF PartOpens, CurrentPlaces, ArTypeOK
  <2>3. File.parts[part] \in Nat
    BY <2>2
  <2> QED
    BY <1>0, <1>5, <2>1, <2>2, <2>3, FileKept
    DEF PartOpens, At, PlaceInv, CurrentPlaces, BlockPlaces, Copying
<1>6. CASE PartFails
  BY <1>0, <1>6, FileKept DEF PartFails, At, place, PlaceInv, CurrentPlaces, BlockPlaces, Copying
<1>7. CASE ReadBlock
  <2>1. /\ UNCHANGED <<job, item, file, part, pos, outs, deleted>> /\ pc = "fd"
        /\ pos < File.parts[part] /\ (pc' = "skip" \/ (pc' = "write" /\ ok' = ok))
    BY <1>7 DEF ReadBlock, At, place
  <2>2. /\ item <= Len(Items) /\ file <= Len(Items[item].files) /\ part <= Len(File.parts)
        /\ pos <= File.parts[part] /\ File.kind # "part" /\ outs # <<>> /\ ok
        /\ deleted \subseteq 1 .. item
    BY <2>1 DEF PlaceInv, CurrentPlaces, BlockPlaces, Copying
  <2>3. Items' = Items /\ File' = File
    BY <2>1, FileKept
  <2> QED
    BY <1>0, <2>1, <2>2, <2>3 DEF PlaceInv, CurrentPlaces, BlockPlaces, Copying
<1>8. CASE ReadNothing
  BY <1>0, <1>8, FileKept DEF ReadNothing, At, place, PlaceInv, CurrentPlaces, BlockPlaces, Copying
<1>9. CASE SendFails
  BY <1>0, <1>9, FileKept DEF SendFails, At, place, PlaceInv, CurrentPlaces, BlockPlaces, Copying
<1>10. CASE SendBlock
  <2>1. /\ pos' = pos + 1 /\ UNCHANGED <<job, item, file, part, outs, deleted>> /\ pc = "write"
    BY <1>10 DEF SendBlock
  <2>2. (pc' = "skip" /\ ok' = FALSE) \/ (pc' = "bar" /\ ok' = ok)
    BY <1>10 DEF SendBlock
  <2>3. pos \in Nat /\ File.parts[part] \in Nat /\ pos < File.parts[part]
    BY <2>1, BlockTyped DEF PlaceInv, BlockPlaces
  <2>4. pos' <= File.parts[part]
    BY <2>1, <2>3
  <2> QED
    BY <1>0, <2>1, <2>2, <2>4, FileKept DEF PlaceInv, CurrentPlaces, BlockPlaces, Copying
<1>11. CASE DrawBar
  <2>1. /\ UNCHANGED <<job, item, file, pos, ok, outs, deleted>> /\ pc = "bar" /\ part \in Nat \ {0}
        /\ \/ pos < File.parts[part] /\ pc' = "fd" /\ part' = part
           \/ pc' = "part" /\ part' = part + 1
    BY <1>0, <1>11 DEF DrawBar, At, ArTypeOK
  <2>2. Len(File.parts) \in Nat
    BY <2>1, FileTyped DEF CurrentPlaces
  <2> QED
    BY <1>0, <2>1, <2>2, FileKept DEF PlaceInv, CurrentPlaces, BlockPlaces, Copying
<1>12. CASE NotCancelled
  BY <1>0, <1>12, FileKept DEF NotCancelled, At, place, PlaceInv, CurrentPlaces, BlockPlaces, Copying
<1>13. CASE Cancelled \/ CancelWaits
  BY <1>0, <1>13, FileKept
  DEF Cancelled, CancelWaits, At, place, PlaceInv, CurrentPlaces, BlockPlaces, Copying
<1>14. CASE NextFile
  <2>1. /\ UNCHANGED <<job, item, ok, outs, deleted>> /\ pc = "filed" /\ Items' = Items
        /\ \/ ok /\ file < Len(Items[item].files) /\ pc' = "part" /\ file' = file + 1 /\ part' = 1
           \/ pc' = "itemEnd"
    BY <1>14 DEF NextFile, At, Items
  <2>2. /\ item \in 1 .. Len(Items) /\ file \in 1 .. Len(Items[item].files)
        /\ Items[item].files \in Seq(Files)
    <3>1. item \in 1 .. Len(Items) /\ Items \in Seq(Item) /\ file \in 1 .. Len(Items[item].files)
      BY <1>0, <2>1, FileTyped DEF CurrentPlaces, ArTypeOK, Job, Items
    <3>2. Items[item] \in Item
      BY <3>1
    <3> QED
      BY <3>1, <3>2 DEF Item
  <2>3. pc' = "part" => file' <= Len(Items[item].files) /\ Len(File'.parts) \in Nat
    <3>1. SUFFICES ASSUME pc' = "part"
                   PROVE  file' <= Len(Items[item].files) /\ Len(File'.parts) \in Nat
      OBVIOUS
    <3>2. file' \in 1 .. Len(Items[item].files)
      BY <2>1, <2>2, <3>1
    <3>3. Items[item].files[file'] \in Files
      BY <2>2, <3>2
    <3>4. File' \in Files
      BY <2>1, <3>3 DEF File
    <3> QED
      BY <3>2, <3>4 DEF Files
  <2> QED
    BY <1>0, <2>1, <2>2, <2>3 DEF PlaceInv, CurrentPlaces, BlockPlaces, Copying
<1>15. CASE DeleteSource \/ KeepSource
  <2>1. /\ pc = "itemEnd" /\ job' = job
        /\ \/ ok' /\ pc' = "item" /\ item' = item + 1
           \/ pc' = "end" /\ item' = item
    BY <1>15 DEF DeleteSource, KeepSource, ItemEnds, At
  <2>2. deleted' \subseteq deleted \cup {item} /\ item \in Nat \ {0}
    BY <1>0, <1>15 DEF DeleteSource, KeepSource, ArTypeOK
  <2>3. deleted' \subseteq 1 .. item'
    BY <2>1, <2>2 DEF PlaceInv
  <2> QED
    BY <1>0, <2>1, <2>3 DEF PlaceInv, CurrentPlaces, BlockPlaces, Copying
<1>16. CASE JobEndsAtOnce \/ JobEndsAfterWait \/ JobWaits
  BY <1>0, <1>16
  DEF JobEndsAtOnce, JobEndsAfterWait, JobWaits, Finishes, At, place, PlaceInv, CurrentPlaces,
      BlockPlaces, Copying
<1> QED
  BY <1>1, <1>2, <1>3, <1>4, <1>5, <1>6, <1>7, <1>8, <1>9, <1>10, <1>11, <1>12, <1>13, <1>14,
     <1>15, <1>16 DEF Main

\* And so does every step of the event thread.
LEMMA EventPlaced ==
  ASSUME PlaceInv, WorkerInv, Worker
  PROVE  PlaceInv'
<1>0. ArTypeOK'
  BY EventTyped
<1>1. Idles
  BY DEF Worker, AsyncChecks, AsyncWrites, AsyncEnds
<1>2. outs' # <<>> \/ outs = <<>>
  <2>1. wpc = "run" => v.fd \in 1 .. O
    BY DEF WorkerInv, Quiet, InHand, O
  <2>2. Len(outs') = O \/ outs' = outs
    BY <2>1, WrittenTyped, ClosedTyped
    DEF Worker, AsyncChecks, AsyncWrites, AsyncEnds, PlaceInv, ArTypeOK
  <2> QED
    BY <2>2, OutsTyped DEF O
<1> QED
  BY <1>0, <1>1, <1>2, FileKept DEF Idles, place, PlaceInv, CurrentPlaces, BlockPlaces, Copying

-----------------------------------------------------------------------------
(* What the event thread may find.                                         *)

\* A step of the main thread that neither sends nor reads WorkerInv's flags,
\* and forgets no file.
LEMMA WorkerKept ==
  ASSUME WorkerInv, UNCHANGED <<evs, v, w>>, O \in Nat, O' \in Nat, O' >= O \/ Quiet
  PROVE  WorkerInv' /\ (UNCHANGED use_async_fd /\ OneBlock => OneBlock')
<1>1. /\ UNCHANGED <<init, evQ, event_thread_working, wpc, event>>
      /\ Quiet' = Quiet /\ InHand' = InHand
  BY QueueKept
<1>2. Enabled' = Enabled /\ Failed' = Failed
  BY DEF Enabled, Failed
<1> QED
  BY <1>1, <1>2 DEF WorkerInv, OneBlock, Sent, O

\* The events the event thread has, after one more was sent.
LEMMA QuietSent ==
  ASSUME EvTypeOK, NEW e \in Event, event_thread_send(e)
  PROVE  /\ e.func = NULL => (Quiet' <=> Quiet)
         /\ Quiet /\ e.func # NULL => (Quiet' <=> evQ' = evQ)
         /\ ~Quiet => ~Quiet'
<1>1. /\ UNCHANGED <<wpc, event>> /\ InHand' = InHand /\ DOMAIN evQ = 1 .. Len(evQ)
      /\ DOMAIN evQ' = 1 .. Len(evQ') /\ Len(evQ) \in Nat
      /\ \/ evQ' = evQ
         \/ /\ Len(evQ') = Len(evQ) + 1
            /\ evQ'[Len(evQ) + 1] = e /\ \A i \in 1 .. Len(evQ) : evQ'[i] = evQ[i]
  BY EventSent
<1>2. CASE evQ' = evQ
  BY <1>1, <1>2 DEF Quiet
<1>3. CASE /\ Len(evQ') = Len(evQ) + 1
           /\ evQ'[Len(evQ) + 1] = e /\ \A i \in 1 .. Len(evQ) : evQ'[i] = evQ[i]
  <2>1. Quiet' <=> Quiet /\ e.func = NULL
    <3>1. \A i \in DOMAIN evQ' : i \in DOMAIN evQ \/ i = Len(evQ) + 1
      BY <1>1, <1>3
    <3>2. \A i \in DOMAIN evQ : i \in DOMAIN evQ' /\ evQ'[i] = evQ[i]
      BY <1>1, <1>3
    <3>3. Len(evQ) + 1 \in DOMAIN evQ'
      BY <1>1, <1>3
    <3> QED
      BY <1>1, <1>3, <3>1, <3>2, <3>3, Zenon DEF Quiet
  <2>2. evQ' # evQ
    BY <1>1, <1>3
  <2> QED
    BY <2>1, <2>2
<1> QED
  BY <1>1, <1>2, <1>3

\* Every step of the main thread keeps WorkerInv.
LEMMA MainWorkers ==
  ASSUME PlaceInv, WorkerInv, StartJob \/ Main
  PROVE  WorkerInv'
<1>0. O \in Nat /\ O' \in Nat /\ EvTypeOK
  <2>1. PlaceInv'
    BY MainPlaced
  <2>2. outs' \in Seq(Output)
    BY <2>1 DEF PlaceInv, ArTypeOK
  <2> QED
    BY <2>2, OutsTyped DEF O, PlaceInv, ArTypeOK
<1>1. CASE StartJob
  <2>1. O' = O \/ Quiet
    BY <1>1 DEF StartJob, O
  <2> QED
    BY <1>0, <1>1, <2>1, WorkerKept DEF StartJob
<1>2. CASE SendBlock
  <2>1. /\ \E allocated \in BOOLEAN :
             v' = [flags |-> {"ENABLE"} \cup (IF LastBlock THEN {"FCLOSE"} ELSE {}), fd |-> O,
                   mem |-> IF allocated THEN [out |-> O, n |-> BlockNumber] ELSE NULL]
        /\ UNCHANGED <<w, outs, wpc, event>>
    BY <1>0, <1>2, Asked, EventSent DEF SendBlock, O
  <2>2. v'.flags = {"ENABLE"} \cup (IF LastBlock THEN {"FCLOSE"} ELSE {}) /\ v'.fd = O
    BY <2>1
  <2>3. ~Failed'
    BY <2>2 DEF Failed
  <2>4. O \in 1 .. O /\ O' = O
    BY <1>2, <2>1, OutsTyped, BlockTyped DEF SendBlock, O, BlockPlaces
  <2> QED
    BY <2>1, <2>2, <2>3, <2>4 DEF WorkerInv, O
<1>3. CASE JobEndsAtOnce \/ JobEndsAfterWait
  <2>1. event_thread_send(Call(NULL)) /\ UNCHANGED <<v, w, outs>>
    BY <1>3 DEF JobEndsAtOnce, JobEndsAfterWait, Finishes
  <2>2. (Quiet' <=> Quiet) /\ UNCHANGED <<wpc, event>>
    BY <1>0, <2>1, Asked, EventSent, QuietSent
  <2> QED
    BY <2>1, <2>2 DEF WorkerInv, Enabled, Failed
<1>4. CASE /\ UNCHANGED <<evs, v, w>>
           /\ outs' = outs \/ Len(outs') = O \/ (pc = "part" /\ outs' = Opened /\ part <= Len(File.parts))
  <2>1. O' >= O
    BY <1>0, <1>4, OpenedTyped DEF O
  <2> QED
    BY <1>0, <1>4, <2>1, WorkerKept
<1>5. CASE PartOpens \/ PartFails
  BY <1>4, <1>5 DEF PartOpens, PartFails, At
<1>6. CASE Cancelled \/ CancelWaits
  BY <1>4, <1>6, RemovedTyped DEF Cancelled, CancelWaits, At
<1> QED
  BY <1>1, <1>2, <1>3, <1>4, <1>5, <1>6
  DEF Main, At, NextItem, FolderFails, PartsEnd, PartsEndTooSoon, ReadBlock, ReadNothing, SendFails,
      DrawBar, NotCancelled, NextFile, DeleteSource, KeepSource, ItemEnds, JobWaits

\* The event thread takes an event, begins with it, or is done with it.
LEMMA EventMoves ==
  ASSUME EvTypeOK, WorkerInv, Receive \/ Dispatch \/ Clear
  PROVE  /\ Quiet' <=> Quiet
         /\ wpc' = "run" => event'.func # NULL
         /\ wpc # "run"
<1>0. evQ \in Seq(Event) /\ Len(evQ) \in Nat
  BY DEF EvTypeOK
<1>1. CASE Receive
  <2>1. /\ evQ # <<>> /\ event' = Head(evQ) /\ evQ' = Tail(evQ) /\ wpc = "receive"
        /\ wpc' = (IF Head(evQ).code = "exit" THEN "exited" ELSE "dispatch")
    BY <1>1 DEF Receive
  <2>2. /\ Head(evQ) = evQ[1] /\ evQ[1] \in Event /\ Len(evQ) \in Nat \ {0}
        /\ DOMAIN evQ = 1 .. Len(evQ) /\ DOMAIN evQ' = 1 .. Len(evQ) - 1
        /\ \A i \in 1 .. Len(evQ) - 1 : evQ'[i] = evQ[i + 1]
    BY <1>0, <2>1
  <2>3. Head(evQ).code = "exit" => Head(evQ).func = NULL
    BY <2>2 DEF Event
  <2>4. (\A i \in DOMAIN evQ : evQ[i].func = NULL)
          <=> Head(evQ).func = NULL /\ (\A i \in DOMAIN evQ' : evQ'[i].func = NULL)
    <3>1. ASSUME NEW i \in DOMAIN evQ, i # 1
          PROVE  i - 1 \in DOMAIN evQ' /\ evQ'[i - 1] = evQ[i]
      <4>1. i - 1 \in 1 .. Len(evQ) - 1 /\ (i - 1) + 1 = i
        BY <2>2, <3>1
      <4> QED
        BY <2>2, <4>1
    <3>2. \A i \in DOMAIN evQ' : i + 1 \in DOMAIN evQ /\ evQ'[i] = evQ[i + 1]
      BY <2>2
    <3>3. 1 \in DOMAIN evQ
      BY <2>2
    <3>4. ASSUME \A i \in DOMAIN evQ : evQ[i].func = NULL
          PROVE  Head(evQ).func = NULL /\ \A i \in DOMAIN evQ' : evQ'[i].func = NULL
      BY <2>2, <3>2, <3>3, <3>4, Zenon
    <3>5. ASSUME Head(evQ).func = NULL, \A i \in DOMAIN evQ' : evQ'[i].func = NULL
          PROVE  \A i \in DOMAIN evQ : evQ[i].func = NULL
      <4>1. TAKE i \in DOMAIN evQ
      <4>2. CASE i = 1
        BY <2>2, <3>5, <4>2
      <4>3. CASE i # 1
        <5>1. i - 1 \in DOMAIN evQ' /\ evQ'[i - 1] = evQ[i]
          BY <3>1, <4>3
        <5> QED
          BY <3>5, <5>1, Zenon
      <4> QED
        BY <4>2, <4>3
    <3> QED
      BY <3>4, <3>5
  <2>5. /\ InHand = <<>>
        /\ InHand' # <<>> <=> Head(evQ).code # "exit"
    BY <2>1 DEF InHand
  <2> QED
    BY <2>1, <2>3, <2>4, <2>5 DEF Quiet
<1>2. CASE Dispatch
  <2>1. /\ wpc = "dispatch" /\ UNCHANGED <<evQ, event>>
        /\ wpc' = (IF event.func = NULL THEN "clear" ELSE "run")
    BY <1>2 DEF Dispatch
  <2> QED
    BY <2>1 DEF Quiet, InHand
<1>3. CASE Clear
  BY <1>3 DEF Clear, Quiet, InHand
<1> QED
  BY <1>1, <1>2, <1>3

\* Every step of the event thread keeps WorkerInv.
LEMMA EventWorkers ==
  ASSUME PlaceInv, WorkerInv, Worker
  PROVE  WorkerInv'
<1>0. EvTypeOK /\ O \in Nat /\ w \in [at : {"check", "write", "close"}, flags : SUBSET Flags]
      /\ v \in [flags : SUBSET Flags, fd : Nat, mem : Block \cup {NULL}]
  BY OutsTyped DEF PlaceInv, ArTypeOK
<1>1. CASE (Receive \/ Dispatch \/ Clear) /\ Idles /\ UNCHANGED <<v, w, outs>>
  BY <1>0, <1>1, EventMoves DEF WorkerInv, Enabled, Failed
<1>2. wpc = "run" => ~Quiet /\ v.fd \in 1 .. O
  BY DEF WorkerInv, Quiet, InHand, O
<1>3. CASE AsyncChecks
  <2>1. CASE Enabled
    <3>1. UNCHANGED <<wpc, event>> /\ Quiet' = Quiet
      BY <1>3, <2>1, QueueKept DEF AsyncChecks
    <3> QED
      BY <1>3, <2>1, <3>1 DEF AsyncChecks, WorkerInv, Enabled, Failed
  <2>2. CASE ~Enabled
    <3>1. wpc = "run" /\ wpc' = "clear" /\ UNCHANGED <<v, w, outs, evQ, event>> /\ w.at = "check"
      BY <1>3, <2>2 DEF AsyncChecks, Return
    <3>2. Quiet' => Quiet \/ v.fd \in 1 .. O
      BY <1>2, <3>1
    <3> QED
      BY <1>2, <3>1, <3>2 DEF WorkerInv, Enabled, Failed, O
  <2> QED
    BY <2>1, <2>2
<1>4. CASE AsyncWrites
  <2>1. UNCHANGED <<wpc, event>> /\ Quiet' = Quiet /\ wpc = "run"
    BY <1>4, QueueKept DEF AsyncWrites
  <2>2. Len(outs') = O
    BY <1>0, <1>2, <1>4, <2>1, WrittenTyped DEF AsyncWrites, O
  <2>3. v'.flags = v.flags /\ v'.fd = v.fd
    BY <1>0, <1>4 DEF AsyncWrites
  <2> QED
    BY <1>2, <2>1, <2>2, <2>3 DEF WorkerInv, Enabled, Failed
<1>5. CASE AsyncEnds
  <2>1. wpc = "run" /\ wpc' = "clear" /\ w'.at = "check" /\ Idles
    BY <1>5 DEF AsyncEnds, Return
  <2>2. v'.flags = w.flags \ {"ENABLE"} /\ v'.fd = v.fd
    BY <1>0, <1>5 DEF AsyncEnds, Lowered
  <2>3. Len(outs') = O
    BY <1>2, <1>5, <2>1, ClosedTyped DEF AsyncEnds, O
  <2> QED
    BY <1>2, <2>1, <2>2, <2>3 DEF WorkerInv, Enabled
<1> QED
  BY <1>1, <1>3, <1>4, <1>5 DEF Worker

-----------------------------------------------------------------------------
(* The blocks and the files of a job, while the event thread runs.         *)

\* What the main thread has stays as it is, and so do the names of files.
LEMMA MainIdles ==
  ASSUME PlaceInv, Idles, outs' \in Seq(Output), Len(outs') = O,
         \A o \in 1 .. O : /\ outs'[o].item = outs[o].item /\ outs'[o].file = outs[o].file
                           /\ outs'[o].kind = outs[o].kind /\ outs'[o].want = outs[o].want
  PROVE  /\ O' = O /\ DOMAIN outs' = 1 .. O /\ DOMAIN outs = 1 .. O
         /\ HasOutput' <=> HasOutput
         /\ Current' <=> Current
         /\ Copying' <=> Copying
         /\ Unfinished' <=> Unfinished
         /\ Spoiled' <=> Spoiled
         /\ Opening' <=> Opening
         /\ Sent' <=> Sent
         /\ OrderInv => OrderInv'
         /\ HasOutput => LastHandedOver' = LastHandedOver
<1>1. UNCHANGED <<pc, jobs, job, item, file, part, pos, ok, progress_action, use_async_fd,
                  deleted, odd>>
  BY DEF Idles, place
<1>2. O' = O /\ DOMAIN outs' = 1 .. O /\ DOMAIN outs = 1 .. O /\ O \in Nat
      /\ (outs # <<>> <=> outs' # <<>>) /\ (outs # <<>> => O \in 1 .. O)
  BY OutsTyped DEF O
<1>3. HasOutput' <=> HasOutput
  BY <1>1, <1>2 DEF HasOutput, O
<1>4. File' = File /\ Items' = Items
  BY <1>1, FileKept
<1>5. Current' <=> Current
  BY <1>1, <1>3 DEF Current
<1>6. Copying' <=> Copying
  BY <1>1 DEF Copying, BlockPlaces
<1>7. (Unfinished' <=> Unfinished) /\ (Spoiled' <=> Spoiled)
  BY <1>1, <1>5, <1>6 DEF Unfinished, Spoiled
<1>8. Opening' <=> Opening
  BY <1>1, <1>4, <1>5 DEF Opening
<1>9. HasOutput => O \in 1 .. O
  BY <1>2 DEF HasOutput
<1>10. Wanted' = Wanted
  BY <1>1, <1>4 DEF Wanted
<1>11. OrderInv => OrderInv'
  BY <1>1, <1>2, <1>3, <1>4, <1>9, <1>10 DEF OrderInv, BlockPlaces
<1>12. HasOutput => LastHandedOver' = LastHandedOver
  BY <1>1, <1>2, <1>4, <1>9 DEF LastHandedOver, BlockNumber, BlockPlaces
<1> QED
  BY <1>1, <1>2, <1>3, <1>5, <1>6, <1>7, <1>8, <1>11, <1>12 DEF Sent

\* Between its functions the event thread touches no block.
LEMMA MovesKeepJob ==
  ASSUME PlaceInv, WorkerInv, JobInv, "slipped" \notin odd,
         Receive \/ Dispatch \/ Clear, Idles, UNCHANGED <<v, w, outs>>
  PROVE  JobInv'
<1>0. EvTypeOK /\ outs \in Seq(Output) /\ Len(outs) = O /\ OneBlock /\ w' = w /\ v' = v /\ outs' = outs
  BY OutsTyped DEF PlaceInv, ArTypeOK, JobInv, O
<1>1. (Quiet' <=> Quiet) /\ wpc # "run"
  BY <1>0, EventMoves
<1>2. /\ O' = O /\ (HasOutput' <=> HasOutput) /\ (Copying' <=> Copying)
      /\ (Unfinished' <=> Unfinished) /\ (Spoiled' <=> Spoiled) /\ (Opening' <=> Opening)
      /\ (Sent' <=> Sent) /\ OrderInv' /\ (HasOutput => LastHandedOver' = LastHandedOver)
  BY <1>0, MainIdles DEF JobInv
<1>3. (Enabled' <=> Enabled) /\ (Failed' <=> Failed) /\ use_async_fd' = use_async_fd /\ odd' = odd
  BY DEF Enabled, Failed, Idles
<1>4. \A o : Lack(o)' = Lack(o)
  BY <1>2, <1>3 DEF Lack, Unwritten
<1>5. \A o : HandedOver(o)' = HandedOver(o)
  BY <1>4 DEF HandedOver
<1>6. OneBlock'
  <2>1. /\ \A e1, e2 \in DOMAIN evQ' :
             evQ'[e1].func # NULL /\ evQ'[e2].func # NULL => e1 = e2
        /\ InHand' # <<>> /\ event'.func # NULL => \A e \in DOMAIN evQ' : evQ'[e].func = NULL
    <3>1. evQ \in Seq(Event) /\ Len(evQ) \in Nat
      BY <1>0 DEF EvTypeOK
    <3>2. CASE Receive
      <4>1. /\ evQ # <<>> /\ event' = Head(evQ) /\ evQ' = Tail(evQ)
        BY <3>2 DEF Receive
      <4>2. /\ Head(evQ) = evQ[1] /\ DOMAIN evQ = 1 .. Len(evQ) /\ DOMAIN evQ' = 1 .. Len(evQ) - 1
            /\ \A i \in 1 .. Len(evQ) - 1 : evQ'[i] = evQ[i + 1]
        BY <3>1, <4>1
      <4>3. \A i \in DOMAIN evQ' : i + 1 \in DOMAIN evQ /\ i + 1 # 1 /\ evQ'[i] = evQ[i + 1]
        BY <3>1, <4>2
      <4>4. 1 \in DOMAIN evQ
        BY <3>1, <4>1
      <4>5. \A e1, e2 \in DOMAIN evQ' : e1 + 1 = e2 + 1 => e1 = e2
        BY <4>2
      <4>6. ASSUME NEW e1 \in DOMAIN evQ', NEW e2 \in DOMAIN evQ',
                   evQ'[e1].func # NULL, evQ'[e2].func # NULL
            PROVE  e1 = e2
        <5>1. e1 + 1 = e2 + 1
          BY <1>0, <4>3, <4>6, Zenon DEF OneBlock
        <5> QED
          BY <4>5, <5>1
      <4>7. ASSUME event'.func # NULL, NEW e \in DOMAIN evQ', evQ'[e].func # NULL
            PROVE  FALSE
        <5>1. e + 1 = 1
          BY <1>0, <4>1, <4>2, <4>3, <4>4, <4>7, Zenon DEF OneBlock
        <5> QED
          BY <4>3, <5>1
      <4> QED
        BY <4>6, <4>7, Zenon
    <3>3. CASE Dispatch
      BY <1>0, <3>3 DEF Dispatch, InHand, OneBlock
    <3>4. CASE Clear
      BY <1>0, <3>4 DEF Clear, InHand, OneBlock
    <3> QED
      BY <3>2, <3>3, <3>4
  <2> QED
    BY <1>0, <1>1, <1>2, <1>3, <2>1 DEF OneBlock
<1>7. BlocksInOrder'
  BY <1>0, <1>3 DEF JobInv, BlocksInOrder
<1>8. CountInv'
  BY <1>0, <1>1, <1>2, <1>3, <1>5 DEF JobInv, CountInv
<1>9. OpenInv'
  <2>1. \A o : Closes(o)' <=> Closes(o)
    BY <1>0, <1>2, <1>3 DEF Closes
  <2> QED
    BY <1>0, <1>2, <2>1 DEF JobInv, OpenInv, Joined
<1> QED
  BY <1>2, <1>6, <1>7, <1>8, <1>9 DEF JobInv

\* While my_func_async runs, the block in my_f_async is on its way.
LEMMA Running ==
  ASSUME PlaceInv, WorkerInv, JobInv, wpc = "run"
  PROVE  /\ ~Quiet /\ Enabled /\ ~Failed /\ Sent /\ v.fd \in 1 .. O
         /\ \A e \in DOMAIN evQ : evQ[e].func = NULL
         /\ w.at = "check" \/ (w.at = "write" /\ w.flags = v.flags)
            \/ (w.at = "close" /\ w.flags \in {v.flags, v.flags \cup {"ERROR"}})
<1>1. InHand # <<>> /\ event.func # NULL
  BY DEF WorkerInv, InHand
<1>2. ~Quiet
  BY <1>1 DEF Quiet
<1>3. w.at \in {"check", "write", "close"}
  BY DEF PlaceInv, ArTypeOK
<1> QED
  BY <1>1, <1>2, <1>3 DEF WorkerInv, JobInv, OneBlock, O

\* my_func_async begins with the block: it keeps a copy of the flags.
LEMMA ChecksKeepJob ==
  ASSUME PlaceInv, WorkerInv, JobInv, "slipped" \notin odd, AsyncChecks
  PROVE  JobInv'
<1>0. outs \in Seq(Output) /\ Len(outs) = O /\ wpc = "run" /\ v' = v /\ outs' = outs /\ Idles
  BY OutsTyped DEF AsyncChecks, O
<1>1. ~Quiet /\ Enabled /\ ~Failed
  BY <1>0, Running
<1>2. w' = [at |-> "write", flags |-> v.flags] /\ UNCHANGED evs /\ w.at = "check"
  BY <1>1 DEF AsyncChecks
<1>3. Quiet' = Quiet /\ InHand' = InHand /\ UNCHANGED <<evQ, event>>
  BY <1>2, QueueKept
<1>4. /\ O' = O /\ (HasOutput' <=> HasOutput) /\ (Copying' <=> Copying)
      /\ (Unfinished' <=> Unfinished) /\ (Spoiled' <=> Spoiled) /\ (Opening' <=> Opening)
      /\ (Sent' <=> Sent) /\ OrderInv' /\ (HasOutput => LastHandedOver' = LastHandedOver)
  BY <1>0, MainIdles DEF JobInv
<1>5. Enabled' /\ (Failed' <=> Failed) /\ use_async_fd' = use_async_fd /\ odd' = odd
  BY <1>0, <1>1 DEF Enabled, Failed, Idles
<1>6. \A o : HandedOver(o)' = HandedOver(o)
  BY <1>0, <1>1, <1>2, <1>4, <1>5 DEF HandedOver, Lack, Unwritten
<1>7. OneBlock'
  BY <1>0, <1>2, <1>3, <1>4, <1>5 DEF JobInv, OneBlock
<1>8. BlocksInOrder'
  BY <1>0, <1>5 DEF JobInv, BlocksInOrder
<1>9. CountInv'
  BY <1>0, <1>3, <1>4, <1>5, <1>6 DEF JobInv, CountInv
<1>10. OpenInv'
  <2>1. \A o : Closes(o)' <=> Closes(o)
    BY <1>0, <1>1, <1>4, <1>5 DEF Closes
  <2> QED
    BY <1>0, <1>4, <2>1 DEF JobInv, OpenInv, Joined
<1> QED
  BY <1>4, <1>7, <1>8, <1>9, <1>10 DEF JobInv

\* It writes the block, which is the next one of its file, or fails.
LEMMA WritesKeepJob ==
  ASSUME PlaceInv, WorkerInv, JobInv, "slipped" \notin odd, AsyncWrites
  PROVE  JobInv'
<1>0. /\ wpc = "run" /\ w.at = "write" /\ Idles /\ UNCHANGED evs /\ O \in Nat
      /\ v \in [flags : SUBSET Flags, fd : Nat, mem : Block \cup {NULL}]
      /\ w \in [at : {"check", "write", "close"}, flags : SUBSET Flags]
  BY OutsTyped DEF AsyncWrites, PlaceInv, ArTypeOK
<1>1. ~Quiet /\ Enabled /\ ~Failed /\ Sent /\ v.fd \in 1 .. O /\ w.flags = v.flags
  BY <1>0, Running
<1>2. v'.fd = v.fd /\ v'.flags = v.flags /\ v'.mem = NULL
  BY <1>0 DEF AsyncWrites
<1>3. Quiet' = Quiet /\ InHand' = InHand /\ UNCHANGED <<evQ, event>>
  BY <1>0, QueueKept
<1>4. \/ /\ v.mem # NULL /\ v.mem \in Block /\ outs[v.fd].open /\ outs' = Written(v.mem)
         /\ w'.at = "close" /\ w'.flags = w.flags
      \/ outs' = outs /\ w'.at = "close" /\ w'.flags = w.flags \cup {"ERROR"}
  BY <1>0 DEF AsyncWrites
<1>5. /\ outs' \in Seq(Output) /\ Len(outs') = O
      /\ \A o \in 1 .. O : /\ outs'[o].item = outs[o].item /\ outs'[o].file = outs[o].file
                           /\ outs'[o].kind = outs[o].kind /\ outs'[o].want = outs[o].want
                           /\ outs'[o].kept = outs[o].kept /\ outs'[o].open = outs[o].open
                           /\ o # v.fd => outs'[o].got = outs[o].got
      /\ \/ outs'[v.fd].got = Append(outs[v.fd].got, v.mem.n) /\ v.mem # NULL /\ "ERROR" \notin w'.flags
         \/ outs'[v.fd].got = outs[v.fd].got /\ "ERROR" \in w'.flags
  <2>1. CASE /\ v.mem # NULL /\ v.mem \in Block /\ outs[v.fd].open /\ outs' = Written(v.mem)
             /\ w'.at = "close" /\ w'.flags = w.flags
    <3>1. /\ outs' \in Seq(Output) /\ Len(outs') = O
          /\ outs'[v.fd] = [outs[v.fd] EXCEPT !.got = Append(@, v.mem.n)]
          /\ \A o \in 1 .. O : o # v.fd => outs'[o] = outs[o]
      BY <1>1, <2>1, WrittenTyped
    <3>2. outs[v.fd] \in Output
      BY <1>1, OutsTyped
    <3>3. /\ outs'[v.fd].got = Append(outs[v.fd].got, v.mem.n)
          /\ outs'[v.fd].item = outs[v.fd].item /\ outs'[v.fd].file = outs[v.fd].file
          /\ outs'[v.fd].kind = outs[v.fd].kind /\ outs'[v.fd].want = outs[v.fd].want
          /\ outs'[v.fd].kept = outs[v.fd].kept /\ outs'[v.fd].open = outs[v.fd].open
      BY <3>1, <3>2 DEF Output
    <3>4. "ERROR" \notin w'.flags
      BY <1>1, <2>1 DEF Failed
    <3> QED
      BY <2>1, <3>1, <3>3, <3>4
  <2>2. CASE outs' = outs /\ w'.at = "close" /\ w'.flags = w.flags \cup {"ERROR"}
    BY <2>2, OutsTyped DEF O
  <2> QED
    BY <1>4, <2>1, <2>2
<1>6. /\ O' = O /\ DOMAIN outs' = 1 .. O /\ DOMAIN outs = 1 .. O
      /\ (HasOutput' <=> HasOutput) /\ (Copying' <=> Copying)
      /\ (Unfinished' <=> Unfinished) /\ (Spoiled' <=> Spoiled) /\ (Opening' <=> Opening)
      /\ (Sent' <=> Sent) /\ OrderInv' /\ (HasOutput => LastHandedOver' = LastHandedOver)
  BY <1>0, <1>5, MainIdles DEF JobInv
<1>7. Enabled' /\ ~Failed' /\ use_async_fd' = use_async_fd /\ odd' = odd
  BY <1>0, <1>1, <1>2 DEF Enabled, Failed, Idles
<1>8. OneBlock'
  <2>1. w'.at = "close" /\ w'.flags \in {v'.flags, v'.flags \cup {"ERROR"}}
    BY <1>1, <1>2, <1>4
  <2> QED
    BY <1>3, <1>6, <1>7, <2>1 DEF JobInv, OneBlock
<1>9. outs[v.fd].got \in Seq(Nat \ {0}) /\ Len(outs[v.fd].got) \in Nat
  BY <1>1, OutsTyped
<1>10. v.mem # NULL => v.mem.n = Len(outs[v.fd].got) + 1
  BY <1>1 DEF JobInv, CountInv
<1>11. BlocksInOrder'
  <2>1. \A o \in 1 .. O : \A k \in DOMAIN outs[o].got : outs[o].got[k] = k
    BY <1>6 DEF JobInv, BlocksInOrder
  <2>2. ASSUME NEW o \in 1 .. O, NEW k \in DOMAIN outs'[o].got
        PROVE  outs'[o].got[k] = k
    <3>1. CASE outs'[o].got = outs[o].got
      BY <2>1, <2>2, <3>1
    <3>2. CASE o = v.fd /\ v.mem # NULL /\ outs'[v.fd].got = Append(outs[v.fd].got, v.mem.n)
      <4>1. k \in 1 .. Len(outs[v.fd].got) + 1 /\ DOMAIN outs[v.fd].got = 1 .. Len(outs[v.fd].got)
        BY <1>9, <2>2, <3>2
      <4>2. CASE k = Len(outs[v.fd].got) + 1
        BY <1>9, <1>10, <3>2, <4>2
      <4>3. CASE k # Len(outs[v.fd].got) + 1
        BY <1>9, <2>1, <3>2, <4>1, <4>3
      <4> QED
        BY <4>2, <4>3
    <3> QED
      BY <1>5, <3>1, <3>2
  <2> QED
    BY <1>6, <2>2 DEF BlocksInOrder
<1>12. \A o \in 1 .. O : HandedOver(o)' = HandedOver(o) /\ Len(outs'[o].got) >= Len(outs[o].got)
  <2>1. TAKE o \in 1 .. O
  <2>2. Len(outs[o].got) \in Nat
    BY OutsTyped
  <2>3. CASE o # v.fd
    BY <1>2, <1>5, <2>2, <2>3 DEF HandedOver, Lack
  <2>4. CASE o = v.fd
    <3>1. Lack(o) = 1
      BY <1>0, <1>1, <2>4 DEF Lack, Unwritten
    <3>2. Lack(o)' = IF "ERROR" \in w'.flags THEN 1 ELSE 0
      BY <1>2, <1>4, <1>6, <1>7, <1>1, <2>4 DEF Lack, Unwritten
    <3>3. CASE outs'[v.fd].got = Append(outs[v.fd].got, v.mem.n) /\ "ERROR" \notin w'.flags
      <4>1. Len(outs'[o].got) = Len(outs[o].got) + 1
        BY <1>9, <2>4, <3>3
      <4> QED
        BY <2>2, <3>1, <3>2, <3>3, <4>1 DEF HandedOver
    <3>4. CASE outs'[v.fd].got = outs[v.fd].got /\ "ERROR" \in w'.flags
      BY <2>2, <2>4, <3>1, <3>2, <3>4 DEF HandedOver
    <3> QED
      BY <1>5, <3>3, <3>4
  <2> QED
    BY <2>3, <2>4
<1>13. CountInv'
  <2>1. v'.mem = NULL
    BY <1>2
  <2>2. HasOutput => O \in 1 .. O
    BY OutsTyped DEF HasOutput
  <2>3. HasOutput' /\ Copying' => HandedOver(O)' = LastHandedOver'
    BY <1>6, <1>12, <2>2 DEF JobInv, CountInv
  <2>4. ASSUME NEW o \in 1 .. O
        PROVE  \/ HandedOver(o)' = outs'[o].want
               \/ use_async_fd' = 0 /\ o = v'.fd /\ Len(outs'[o].got) + 1 >= outs'[o].want
               \/ o = O' /\ Unfinished'
               \/ "short" \in odd'
    <3>1. /\ outs[o].want \in Nat /\ Len(outs[o].got) \in Nat /\ Len(outs'[o].got) >= Len(outs[o].got)
          /\ HandedOver(o)' = HandedOver(o) /\ outs'[o].want = outs[o].want
          /\ Len(outs'[o].got) \in Nat
      BY <1>5, <1>12, <1>9, OutsTyped
    <3>2. \/ HandedOver(o) = outs[o].want
          \/ use_async_fd = 0 /\ o = v.fd /\ Len(outs[o].got) + 1 >= outs[o].want
          \/ o = O /\ Unfinished
          \/ "short" \in odd
      BY <1>6 DEF JobInv, CountInv
    <3>3. Len(outs[o].got) + 1 >= outs[o].want => Len(outs'[o].got) + 1 >= outs'[o].want
      BY <3>1
    <3> QED
      BY <1>2, <1>6, <1>7, <3>1, <3>2, <3>3
  <2>5. \A o \in 1 .. O : outs'[o].kept \/ (o = O' /\ Spoiled') \/ "undone" \in odd'
    BY <1>5, <1>6, <1>7 DEF JobInv, CountInv
  <2> QED
    BY <1>6, <2>1, <2>3, <2>4, <2>5 DEF CountInv
<1>14. OpenInv'
  <2>1. \A o : Closes(o)' <=> Closes(o)
    BY <1>1, <1>2, <1>6, <1>7 DEF Closes
  <2> QED
    BY <1>5, <1>6, <2>1 DEF JobInv, OpenInv, Joined
<1> QED
  BY <1>6, <1>8, <1>11, <1>13, <1>14 DEF JobInv

\* It is done with the block: the file may be closed, the next block come.
LEMMA EndsKeepJob ==
  ASSUME PlaceInv, WorkerInv, JobInv, "slipped" \notin odd, AsyncEnds
  PROVE  JobInv'
<1>0. /\ wpc = "run" /\ w.at = "close" /\ Idles /\ O \in Nat /\ wpc' = "clear"
      /\ UNCHANGED <<evQ, event>> /\ w'.at = "check"
      /\ v \in [flags : SUBSET Flags, fd : Nat, mem : Block \cup {NULL}]
  BY OutsTyped DEF AsyncEnds, Return, PlaceInv, ArTypeOK
<1>1. /\ ~Quiet /\ Enabled /\ ~Failed /\ Sent /\ v.fd \in 1 .. O
      /\ w.flags \in {v.flags, v.flags \cup {"ERROR"}}
      /\ \A e \in DOMAIN evQ : evQ[e].func = NULL
  BY <1>0, Running
<1>2. v'.fd = v.fd /\ v'.flags = w.flags \ {"ENABLE"}
  BY <1>0 DEF AsyncEnds, Lowered
<1>3. Quiet' /\ InHand' = <<>>
  BY <1>0, <1>1 DEF Quiet, InHand
<1>4. /\ outs' \in Seq(Output) /\ Len(outs') = O
      /\ \A o \in 1 .. O : /\ outs'[o].item = outs[o].item /\ outs'[o].file = outs[o].file
                           /\ outs'[o].kind = outs[o].kind /\ outs'[o].want = outs[o].want
                           /\ outs'[o].kept = outs[o].kept /\ outs'[o].got = outs[o].got
                           /\ o # v.fd => outs'[o].open = outs[o].open
      /\ outs'[v.fd].open => outs[v.fd].open /\ w.flags \cap {"ERROR", "FCLOSE"} = {}
  <2>1. CASE w.flags \cap {"ERROR", "FCLOSE"} # {}
    <3>1. outs' = [outs EXCEPT ![v.fd].open = FALSE]
      BY <2>1 DEF AsyncEnds
    <3>2. /\ outs' \in Seq(Output) /\ Len(outs') = O
          /\ outs'[v.fd] = [outs[v.fd] EXCEPT !.open = FALSE]
          /\ \A o \in 1 .. O : o # v.fd => outs'[o] = outs[o]
      BY <1>1, <3>1, ClosedTyped
    <3>3. outs[v.fd] \in Output
      BY <1>1, OutsTyped
    <3>4. /\ outs'[v.fd].item = outs[v.fd].item /\ outs'[v.fd].file = outs[v.fd].file
          /\ outs'[v.fd].kind = outs[v.fd].kind /\ outs'[v.fd].want = outs[v.fd].want
          /\ outs'[v.fd].kept = outs[v.fd].kept /\ outs'[v.fd].got = outs[v.fd].got
          /\ ~outs'[v.fd].open
      BY <3>2, <3>3 DEF Output
    <3> QED
      BY <3>2, <3>4
  <2>2. CASE w.flags \cap {"ERROR", "FCLOSE"} = {}
    <3>1. outs' = outs
      BY <2>2 DEF AsyncEnds
    <3> QED
      BY <2>2, <3>1, OutsTyped DEF O
  <2> QED
    BY <2>1, <2>2
<1>5. /\ O' = O /\ DOMAIN outs' = 1 .. O /\ DOMAIN outs = 1 .. O
      /\ (HasOutput' <=> HasOutput) /\ (Copying' <=> Copying)
      /\ (Unfinished' <=> Unfinished) /\ (Spoiled' <=> Spoiled) /\ (Opening' <=> Opening)
      /\ (Sent' <=> Sent) /\ OrderInv' /\ (HasOutput => LastHandedOver' = LastHandedOver)
  BY <1>0, <1>4, MainIdles DEF JobInv
<1>6. ~Enabled' /\ (Failed' <=> "ERROR" \in w.flags) /\ use_async_fd' = use_async_fd /\ odd' = odd
  BY <1>0, <1>2 DEF Enabled, Failed, Idles
<1>7. OneBlock'
  BY <1>0, <1>1, <1>3 DEF OneBlock
<1>8. BlocksInOrder'
  BY <1>4, <1>5, <1>6 DEF JobInv, BlocksInOrder
<1>9. \A o \in 1 .. O : HandedOver(o)' = HandedOver(o)
  BY <1>0, <1>1, <1>2, <1>4, <1>5, <1>6 DEF HandedOver, Lack, Unwritten
<1>10. CountInv'
  <2>1. HasOutput => O \in 1 .. O
    BY OutsTyped DEF HasOutput
  <2>2. HasOutput' /\ Copying' => HandedOver(O)' = LastHandedOver'
    BY <1>5, <1>9, <2>1 DEF JobInv, CountInv
  <2>3. \A o \in 1 .. O : \/ HandedOver(o)' = outs'[o].want
                          \/ use_async_fd' = 0 /\ o = v'.fd /\ Len(outs'[o].got) + 1 >= outs'[o].want
                          \/ o = O' /\ Unfinished'
                          \/ "short" \in odd'
    BY <1>2, <1>4, <1>5, <1>6, <1>9 DEF JobInv, CountInv
  <2>4. \A o \in 1 .. O : outs'[o].kept \/ (o = O' /\ Spoiled') \/ "undone" \in odd'
    BY <1>4, <1>5, <1>6 DEF JobInv, CountInv
  <2> QED
    BY <1>3, <1>5, <2>2, <2>3, <2>4 DEF CountInv
<1>11. OpenInv'
  <2>1. ASSUME NEW o \in 1 .. O, outs'[o].open
        PROVE  outs[o].open /\ ~Closes(o)
    <3>1. CASE o = v.fd
      <4>1. "FCLOSE" \notin v.flags
        BY <1>1, <1>4, <2>1, <3>1
      <4> QED
        BY <1>4, <2>1, <3>1, <4>1 DEF Closes
    <3>2. CASE o # v.fd
      BY <1>4, <2>1, <3>2 DEF Closes
    <3> QED
      BY <3>1, <3>2
  <2> QED
    BY <1>4, <1>5, <2>1 DEF JobInv, OpenInv, Joined
<1> QED
  BY <1>5, <1>7, <1>8, <1>10, <1>11 DEF JobInv

\* Every step of the event thread keeps the invariant of a job.
LEMMA EventJob ==
  ASSUME PlaceInv, WorkerInv, JobInv, "slipped" \notin odd, Worker
  PROVE  JobInv'
<1>1. CASE (Receive \/ Dispatch \/ Clear) /\ Idles /\ UNCHANGED <<v, w, outs>>
  BY <1>1, MovesKeepJob
<1>2. CASE AsyncChecks
  BY <1>2, ChecksKeepJob
<1>3. CASE AsyncWrites
  BY <1>3, WritesKeepJob
<1>4. CASE AsyncEnds
  BY <1>4, EndsKeepJob
<1> QED
  BY <1>1, <1>2, <1>3, <1>4 DEF Worker

-----------------------------------------------------------------------------
(* The blocks and the files of a job, while the main thread runs.          *)

\* The last file has its blocks, or what befell it is known.
LastIsDone == HandedOver(O) = outs[O].want \/ "short" \in odd'

\* A step that hands nothing over and opens no file, if it may leave the
\* file it leaves.
LEMMA MovesOn ==
  ASSUME PlaceInv, WorkerInv, JobInv, "slipped" \notin odd,
         UNCHANGED <<evs, v, w, use_async_fd, outs>>, odd \subseteq odd', OrderInv',
         Unfinished => Unfinished' \/ LastIsDone,
         Spoiled => Spoiled',
         Opening /\ outs[O].open => Opening' \/ outs[O].want = 0 \/ Joined(outs[O]) \/ Closes(O),
         HasOutput' /\ Copying' => HandedOver(O) = LastHandedOver'
  PROVE  JobInv'
<1>1. /\ UNCHANGED <<init, evQ, event_thread_working, wpc, event>>
      /\ Quiet' = Quiet /\ InHand' = InHand
  BY QueueKept
<1>2. (Enabled' <=> Enabled) /\ (Failed' <=> Failed) /\ (Sent' <=> Sent) /\ O' = O
  BY DEF Enabled, Failed, Sent, O
<1>3. \A o : HandedOver(o)' = HandedOver(o) /\ (Closes(o)' <=> Closes(o))
  BY <1>2 DEF HandedOver, Lack, Unwritten, Closes
<1>4. OneBlock'
  BY <1>1, <1>2 DEF JobInv, OneBlock
<1>5. BlocksInOrder'
  BY DEF JobInv, BlocksInOrder
<1>6. CountInv'
  <2>1. HasOutput' /\ Copying' => HandedOver(O)' = LastHandedOver'
    BY <1>2, <1>3
  <2>2. \A o \in DOMAIN outs : \/ HandedOver(o)' = outs[o].want
                               \/ use_async_fd' = 0 /\ o = v'.fd /\ Len(outs[o].got) + 1 >= outs[o].want
                               \/ o = O /\ Unfinished'
                               \/ "short" \in odd'
    BY <1>3 DEF JobInv, CountInv, LastIsDone
  <2>3. \A o \in DOMAIN outs : outs[o].kept \/ (o = O /\ Spoiled') \/ "undone" \in odd'
    BY DEF JobInv, CountInv
  <2> QED
    BY <1>1, <1>2, <2>1, <2>2, <2>3 DEF JobInv, CountInv
<1>7. OpenInv'
  BY <1>2, <1>3 DEF JobInv, OpenInv, Joined
<1> QED
  BY <1>4, <1>5, <1>6, <1>7 DEF JobInv

\* A step that moves on with the same file in hand, past its blocks.
LEMMA StaysWithFile ==
  ASSUME PlaceInv, WorkerInv, JobInv, "slipped" \notin odd,
         UNCHANGED <<evs, job, place, use_async_fd, v, w, outs, deleted>>, odd \subseteq odd',
         \/ pc \in CurrentPlaces /\ pc' \in {"skip", "cancelWait", "filed", "itemEnd"}
         \/ pc = "end" /\ pc' = "endWait",
         ok' => ok /\ (Current /\ Copying => LastIsDone),
         ok' /\ Opening /\ outs[O].open => outs[O].want = 0 \/ Joined(outs[O]) \/ Closes(O)
  PROVE  JobInv'
<1>1. /\ UNCHANGED <<item, file, part, pos, deleted, outs, job>> /\ O' = O
      /\ (HasOutput' <=> HasOutput) /\ (Current' <=> Current) /\ ~Copying'
  BY DEF place, O, HasOutput, Current, Copying, BlockPlaces
<1>2. OrderInv'
  BY <1>1 DEF JobInv, OrderInv, CurrentPlaces, BlockPlaces
<1>3. Unfinished => Unfinished' \/ LastIsDone
  BY <1>1 DEF Unfinished
<1>4. Spoiled => Spoiled'
  BY <1>1 DEF Spoiled
<1>5. Opening /\ outs[O].open => Opening' \/ outs[O].want = 0 \/ Joined(outs[O]) \/ Closes(O)
  BY <1>1 DEF Opening
<1> QED
  BY <1>1, <1>2, <1>3, <1>4, <1>5, MovesOn

\* The next item of the job, or its end.
LEMMA NextItemKeepsJob ==
  ASSUME PlaceInv, WorkerInv, JobInv, "slipped" \notin odd, NextItem
  PROVE  JobInv'
<1>1. /\ pc = "item" /\ UNCHANGED <<evs, job, item, ok, use_async_fd, v, w, outs, deleted, odd>>
      /\ pc' \in {"end", "itemEnd", "part"} /\ part' = 1 /\ O' = O
  BY DEF NextItem, At, O
<1>2. \A o \in DOMAIN outs : outs[o].item < item /\ outs[o].item # item
  BY <1>1, OutsTyped DEF JobInv, OrderInv, PlaceInv, ArTypeOK
<1>3. ~HasOutput /\ ~HasOutput'
  BY <1>1, <1>2, OutsTyped DEF HasOutput, O
<1>4. OrderInv'
  <2>1. item \notin deleted
    BY <1>1 DEF JobInv, OrderInv
  <2>2. \A o \in DOMAIN outs : outs[o].item <= item
    BY <1>2, OutsTyped DEF JobInv, OrderInv
  <2> QED
    BY <1>1, <1>2, <1>3, <2>1, <2>2 DEF OrderInv, BlockPlaces
<1> QED
  BY <1>1, <1>3, <1>4, MovesOn DEF Unfinished, Spoiled, Opening, Current

\* The folder cannot be opened.
LEMMA FolderFailsKeepsJob ==
  ASSUME PlaceInv, WorkerInv, JobInv, "slipped" \notin odd, FolderFails
  PROVE  JobInv'
<1>1. /\ pc = "item" /\ UNCHANGED <<evs, job, item, file, use_async_fd, v, w, outs, deleted, odd>>
      /\ pc' = "itemEnd" /\ O' = O
  BY DEF FolderFails, At, O, place
<1>2. \A o \in DOMAIN outs : outs[o].item < item /\ outs[o].item # item
  BY <1>1, OutsTyped DEF JobInv, OrderInv, PlaceInv, ArTypeOK
<1>3. ~HasOutput /\ ~HasOutput'
  BY <1>1, <1>2, OutsTyped DEF HasOutput, O
<1>4. OrderInv'
  <2>1. item \notin deleted
    BY <1>1 DEF JobInv, OrderInv
  <2> QED
    BY <1>1, <1>3, <2>1 DEF JobInv, OrderInv, BlockPlaces
<1> QED
  BY <1>1, <1>3, <1>4, MovesOn DEF Unfinished, Spoiled, Opening, Current

\* All the parts of a file are copied, or those that were found.
LEMMA PartsEndKeepsJob ==
  ASSUME PlaceInv, WorkerInv, JobInv, "slipped" \notin odd, PartsEnd \/ PartsEndTooSoon
  PROVE  JobInv'
<1>1. /\ pc = "part" /\ pc' = "skip" /\ odd \subseteq odd'
      /\ UNCHANGED <<evs, job, place, ok, use_async_fd, v, w, outs, deleted>>
  BY DEF PartsEnd, PartsEndTooSoon, At
<1>2. ok
  BY <1>1 DEF PlaceInv, Copying
<1>3. Current => LastIsDone
  <2>1. CASE PartsEndTooSoon
    BY <2>1 DEF PartsEndTooSoon, LastIsDone
  <2>2. CASE PartsEnd
    <3>1. SUFFICES ASSUME Current PROVE LastIsDone
      OBVIOUS
    <3>2. HasOutput /\ part # 1 /\ part \in Nat \ {0}
      BY <1>1, <3>1 DEF Current, JobInv, OrderInv, PlaceInv, ArTypeOK
    <3>3. HandedOver(O) = LastHandedOver
      BY <1>1, <3>2 DEF JobInv, CountInv, Copying
    <3>4. CASE File.kind = "join"
      <4>1. File.parts \in Seq(Nat) /\ Len(File.parts) \in Nat /\ part <= Len(File.parts) + 1
        BY <1>1, FileTyped DEF CurrentPlaces, PlaceInv
      <4>2. part - 1 = Len(File.parts)
        BY <2>2, <3>2, <3>4, <4>1 DEF PartsEnd
      <4>3. outs[O].want = Sums(File.parts)[Len(File.parts)]
        BY <1>1, <3>2, <3>4 DEF JobInv, OrderInv, Wanted, Sum
      <4>4. LastHandedOver = Sums(File.parts)[part - 1]
        BY <1>1, <3>4 DEF LastHandedOver, BlockPlaces
      <4> QED
        BY <3>3, <4>2, <4>3, <4>4 DEF LastIsDone
    <3>5. CASE File.kind # "join"
      BY <1>1, <3>3, <3>5 DEF LastHandedOver, BlockPlaces, LastIsDone
    <3> QED
      BY <3>4, <3>5
  <2> QED
    BY <2>1, <2>2
<1>4. ~Opening
  BY <1>1, <1>2 DEF Opening
<1> QED
  BY <1>1, <1>2, <1>3, <1>4, StaysWithFile DEF CurrentPlaces

\* A block is read, or cannot be.
LEMMA ReadBlockKeepsJob ==
  ASSUME PlaceInv, WorkerInv, JobInv, "slipped" \notin odd, ReadBlock
  PROVE  JobInv'
<1>1. /\ pc = "fd" /\ UNCHANGED <<evs, job, place, use_async_fd, v, w, outs, deleted, odd>>
      /\ (pc' = "write" /\ ok' = ok) \/ (pc' = "skip" /\ ok' = FALSE)
  BY DEF ReadBlock, At
<1>2. CASE pc' = "skip" /\ ok' = FALSE
  BY <1>1, <1>2, StaysWithFile DEF CurrentPlaces
<1>3. CASE pc' = "write" /\ ok' = ok
  <2>1. /\ UNCHANGED <<item, file, part, pos, outs, deleted, job>> /\ O' = O /\ File' = File
        /\ (HasOutput' <=> HasOutput) /\ (Current' <=> Current) /\ Copying /\ Copying'
    BY <1>1, <1>3, FileKept DEF place, O, HasOutput, Current, Copying, BlockPlaces
  <2>2. OrderInv'
    <3>1. Wanted' = Wanted
      BY <2>1 DEF Wanted
    <3> QED
      BY <1>1, <1>3, <2>1, <3>1 DEF JobInv, OrderInv, BlockPlaces
  <2>3. LastHandedOver' = LastHandedOver
    BY <1>1, <1>3, <2>1 DEF LastHandedOver, BlockPlaces, BlockNumber
  <2>4. HasOutput' /\ Copying' => HandedOver(O) = LastHandedOver'
    BY <2>1, <2>3 DEF JobInv, CountInv
  <2>5. (Unfinished => Unfinished') /\ (Spoiled => Spoiled') /\ (Opening => Opening')
    BY <1>3, <2>1 DEF Unfinished, Spoiled, Opening
  <2> QED
    BY <1>1, <2>2, <2>4, <2>5, MovesOn
<1> QED
  BY <1>1, <1>2, <1>3

\* The part of the file is empty.
LEMMA ReadNothingKeepsJob ==
  ASSUME PlaceInv, WorkerInv, JobInv, "slipped" \notin odd, ReadNothing
  PROVE  JobInv'
<1>1. /\ pc = "fd" /\ UNCHANGED <<evs, job, place, ok, use_async_fd, v, w, outs, deleted, odd>>
      /\ pc' = "bar" /\ File.parts[part] = 0
  BY DEF ReadNothing, At
<1>2. /\ UNCHANGED <<item, file, part, pos, outs, deleted, job>> /\ O' = O /\ File' = File
      /\ (HasOutput' <=> HasOutput) /\ (Current' <=> Current) /\ Copying /\ Copying'
  BY <1>1, FileKept DEF place, O, HasOutput, Current, Copying, BlockPlaces
<1>3. Wanted' = Wanted
  BY <1>2 DEF Wanted
<1>4. OrderInv'
  BY <1>1, <1>2, <1>3 DEF JobInv, OrderInv, BlockPlaces
<1>5. LastHandedOver' = LastHandedOver
  BY <1>1, <1>2 DEF LastHandedOver, BlockPlaces, BlockNumber
<1>6. HasOutput' /\ Copying' => HandedOver(O) = LastHandedOver'
  BY <1>2, <1>5 DEF JobInv, CountInv
<1>7. (Unfinished => Unfinished') /\ (Spoiled => Spoiled')
  BY <1>1, <1>2 DEF Unfinished, Spoiled
<1>8. outs[O].want = 0 \/ Joined(outs[O])
  <2>1. outs[O].kind = File.kind /\ outs[O].want = Wanted
    BY <1>1 DEF JobInv, OrderInv, BlockPlaces
  <2> QED
    BY <1>1, <2>1 DEF Wanted, Joined
<1> QED
  BY <1>1, <1>4, <1>6, <1>7, <1>8, MovesOn

\* The block before it was not written.
LEMMA SendFailsKeepsJob ==
  ASSUME PlaceInv, WorkerInv, JobInv, "slipped" \notin odd, SendFails
  PROVE  JobInv'
<1>1. /\ pc = "write" /\ UNCHANGED <<evs, job, place, use_async_fd, v, w, outs, deleted, odd>>
      /\ pc' = "skip" /\ ok' = FALSE
  BY DEF SendFails, At
<1> QED
  BY <1>1, StaysWithFile DEF CurrentPlaces

\* The bar is drawn: the next block of the part, or the next part.
LEMMA DrawBarKeepsJob ==
  ASSUME PlaceInv, WorkerInv, JobInv, "slipped" \notin odd, DrawBar
  PROVE  JobInv'
<1>1. /\ pc = "bar" /\ UNCHANGED <<evs, job, item, file, pos, ok, use_async_fd, v, w, outs, deleted, odd>>
      /\ \/ pos < File.parts[part] /\ pc' = "fd" /\ part' = part
         \/ ~(pos < File.parts[part]) /\ pc' = "part" /\ part' = part + 1
  BY DEF DrawBar, At
<1>2. /\ File.parts \in Seq(Nat) /\ part \in 1 .. Len(File.parts) /\ pos \in 0 .. File.parts[part]
      /\ ok /\ File.parts[part] \in Nat
  BY <1>1, BlockTyped, FileTyped DEF BlockPlaces, CurrentPlaces, PlaceInv, Copying
<1>3. /\ O' = O /\ File' = File /\ (HasOutput' <=> HasOutput) /\ (Current' <=> Current)
      /\ Copying /\ Copying'
  BY <1>1, FileKept DEF O, HasOutput, Current, Copying, BlockPlaces
<1>4. HasOutput /\ outs[O].kind = File.kind /\ outs[O].want = Wanted
      /\ HandedOver(O) = LastHandedOver
  BY <1>1, <1>3 DEF JobInv, OrderInv, CountInv, BlockPlaces
<1>5. pc' = "part" => part' > 1 /\ part' # 1
  <2>1. part \in Nat \ {0}
    BY DEF PlaceInv, ArTypeOK
  <2> QED
    BY <1>1, <2>1
<1>6. OrderInv'
  <2>1. pc' = "fd" \/ File.kind = "join" => Wanted' = Wanted
    BY <1>1, <1>3 DEF Wanted
  <2> QED
    BY <1>1, <1>3, <1>4, <1>5, <2>1 DEF JobInv, OrderInv, BlockPlaces
<1>7. HandedOver(O) = LastHandedOver'
  <2>1. LastHandedOver = BlockNumber - 1
    BY <1>1 DEF LastHandedOver, BlockPlaces
  <2>2. CASE pc' = "fd"
    <3>1. LastHandedOver' = BlockNumber' - 1 /\ part' = part
      BY <1>1, <2>2 DEF LastHandedOver, BlockPlaces
    <3>2. BlockNumber' = BlockNumber
      BY <1>1, <1>3, <3>1 DEF BlockNumber
    <3> QED
      BY <1>4, <2>1, <3>1, <3>2
  <2>3. CASE pc' = "part"
    <3>1. pos = File.parts[part] /\ part' - 1 = part
      BY <1>1, <1>2, <2>3
    <3>2. LastHandedOver' = IF File.kind = "join" THEN Sums(File.parts)[part] ELSE outs[O].want
      BY <1>1, <1>3, <2>3, <3>1 DEF LastHandedOver, BlockPlaces
    <3>3. CASE File.kind = "join"
      <4>1. /\ Sums(File.parts)[part] = Sums(File.parts)[part - 1] + File.parts[part]
            /\ Sums(File.parts)[part - 1] \in Nat
        BY <1>1, <1>2, <3>3, SumsAt, BlockTyped DEF BlockPlaces
      <4>2. BlockNumber - 1 = Sums(File.parts)[part - 1] + pos
        <5> DEFINE before == Sums(File.parts)[part - 1]
        <5>1. BlockNumber = pos + 1 + before /\ before \in Nat
          BY <3>3, <4>1 DEF BlockNumber
        <5>2. pos \in Nat
          BY <1>2
        <5> HIDE DEF before
        <5>3. BlockNumber - 1 = before + pos
          BY <5>1, <5>2
        <5> QED
          BY <5>3 DEF before
      <4> QED
        BY <1>2, <1>4, <2>1, <3>1, <3>2, <3>3, <4>1, <4>2
    <3>4. CASE File.kind # "join"
      <4>1. BlockNumber - 1 = pos
        BY <1>2, <3>4 DEF BlockNumber
      <4> QED
        BY <1>4, <2>1, <3>1, <3>2, <3>4, <4>1 DEF Wanted
    <3> QED
      BY <3>3, <3>4
  <2> QED
    BY <1>1, <2>2, <2>3
<1>8. (Unfinished => Unfinished') /\ (Spoiled => Spoiled') /\ (Opening => Opening')
  BY <1>1, <1>2, <1>3 DEF Unfinished, Spoiled, Opening
<1> QED
  BY <1>1, <1>6, <1>7, <1>8, MovesOn

\* CopyFile ends, uncancelled, or waits for the block that is on its way.
LEMMA NotCancelledKeepsJob ==
  ASSUME PlaceInv, WorkerInv, JobInv, "slipped" \notin odd,
         NotCancelled \/ (Cancelled /\ Enabled) \/ JobWaits
  PROVE  JobInv'
<1>1. /\ UNCHANGED <<evs, job, place, ok, use_async_fd, v, w, outs, deleted, odd>>
      /\ \/ pc = "skip" /\ pc' \in {"filed", "cancelWait"}
         \/ pc = "end" /\ pc' = "endWait"
  BY DEF NotCancelled, Cancelled, JobWaits, At
<1>2. ~Copying /\ (ok => ~Opening)
  BY <1>1 DEF Copying, BlockPlaces, Opening
<1> QED
  BY <1>1, <1>2, StaysWithFile DEF CurrentPlaces

\* What was cancelled is removed.
LEMMA RemovedKeepsJob ==
  ASSUME PlaceInv, WorkerInv, JobInv, "slipped" \notin odd,
         (Cancelled /\ ~Enabled) \/ CancelWaits
  PROVE  JobInv'
<1>1. /\ pc \in {"skip", "cancelWait"} /\ pc' = "filed" /\ Removed
      /\ UNCHANGED <<evs, job, place, use_async_fd, v, w, deleted>> /\ (ok' => ok)
  BY DEF Cancelled, CancelWaits, At
<1>2. /\ outs' \in Seq(Output) /\ Len(outs') = O /\ "slipped" \notin odd' /\ odd \subseteq odd'
      /\ \A o \in 1 .. O : o # O \/ ~HasOutput => outs'[o] = outs[o]
      /\ HasOutput => outs'[O] = [outs[O] EXCEPT !.kept = FALSE]
      /\ HasOutput /\ ok' => "undone" \in odd'
  BY <1>1, RemovedTyped
<1>3. /\ UNCHANGED <<init, evQ, event_thread_working, wpc, event, item, file, part, pos>>
      /\ Quiet' = Quiet /\ InHand' = InHand
  BY <1>1, QueueKept DEF place
<1>4. /\ O' = O /\ DOMAIN outs' = 1 .. O /\ DOMAIN outs = 1 .. O
      /\ \A o \in 1 .. O : /\ outs'[o].item = outs[o].item /\ outs'[o].file = outs[o].file
                           /\ outs'[o].kind = outs[o].kind /\ outs'[o].want = outs[o].want
                           /\ outs'[o].open = outs[o].open /\ outs'[o].got = outs[o].got
                           /\ o # O \/ ~HasOutput => outs'[o].kept = outs[o].kept
  <2>1. /\ O' = O /\ DOMAIN outs' = 1 .. O /\ DOMAIN outs = 1 .. O
    BY <1>2, OutsTyped DEF O
  <2>2. ASSUME NEW o \in 1 .. O, o = O, HasOutput
        PROVE  /\ outs'[o].item = outs[o].item /\ outs'[o].file = outs[o].file
               /\ outs'[o].kind = outs[o].kind /\ outs'[o].want = outs[o].want
               /\ outs'[o].open = outs[o].open /\ outs'[o].got = outs[o].got
    <3>1. outs[o] \in Output
      BY OutsTyped
    <3> QED
      BY <1>2, <2>2, <3>1 DEF Output
  <2> QED
    BY <1>2, <2>1, <2>2
<1>5. /\ outs # <<>> <=> outs' # <<>>
      /\ HasOutput => O \in 1 .. O
  BY <1>2, OutsTyped DEF O, HasOutput
<1>6. (HasOutput' <=> HasOutput) /\ (Current' <=> Current) /\ ~Copying /\ ~Copying'
  <2>1. HasOutput' <=> HasOutput
    BY <1>3, <1>4, <1>5, OutsTyped DEF HasOutput, O
  <2> QED
    BY <1>1, <2>1, <1>3 DEF Current, Copying, BlockPlaces
<1>7. (Enabled' <=> Enabled) /\ (Failed' <=> Failed) /\ (Sent' <=> Sent)
  BY <1>1 DEF Enabled, Failed, Sent
<1>8. \A o \in 1 .. O : HandedOver(o)' = HandedOver(o) /\ (Closes(o)' <=> Closes(o))
  BY <1>1, <1>4, <1>7 DEF HandedOver, Lack, Unwritten, Closes
<1>9. OneBlock'
  BY <1>1, <1>3, <1>7 DEF JobInv, OneBlock
<1>10. OrderInv'
  BY <1>1, <1>3, <1>4, <1>6 DEF JobInv, OrderInv, BlockPlaces
<1>11. BlocksInOrder'
  BY <1>2, <1>4 DEF JobInv, BlocksInOrder
<1>12. CountInv'
  <2>1. ~Quiet' /\ v'.mem # NULL => v'.mem.n = Len(outs'[v'.fd].got) + 1
    <3>1. ~Quiet => v.fd \in 1 .. O
      BY DEF WorkerInv, O
    <3> QED
      BY <1>1, <1>3, <1>4, <3>1 DEF JobInv, CountInv
  <2>2. \A o \in 1 .. O : \/ HandedOver(o)' = outs'[o].want
                          \/ use_async_fd' = 0 /\ o = v'.fd /\ Len(outs'[o].got) + 1 >= outs'[o].want
                          \/ o = O' /\ Unfinished'
                          \/ "short" \in odd'
    BY <1>1, <1>2, <1>4, <1>6, <1>8 DEF JobInv, CountInv, Unfinished
  <2>3. \A o \in 1 .. O : outs'[o].kept \/ (o = O' /\ Spoiled') \/ "undone" \in odd'
    <3>1. HasOutput => Current
      BY <1>1 DEF Current, JobInv, OrderInv
    <3> QED
      BY <1>1, <1>2, <1>4, <1>6, <3>1 DEF JobInv, CountInv, Spoiled
  <2> QED
    BY <1>4, <1>6, <2>1, <2>2, <2>3 DEF CountInv
<1>13. OpenInv'
  <2>1. Opening => Opening'
    BY <1>1, <1>6 DEF Opening
  <2> QED
    BY <1>4, <1>8, <2>1 DEF JobInv, OpenInv, Joined
<1> QED
  BY <1>9, <1>10, <1>11, <1>12, <1>13 DEF JobInv

\* The next file of the folder, or the end of the item.
LEMMA NextFileKeepsJob ==
  ASSUME PlaceInv, WorkerInv, JobInv, "slipped" \notin odd, NextFile
  PROVE  JobInv'
<1>1. /\ pc = "filed" /\ UNCHANGED <<evs, job, item, ok, use_async_fd, v, w, outs, deleted, odd>>
      /\ \/ ok /\ pc' = "part" /\ file' = file + 1 /\ part' = 1
         \/ pc' = "itemEnd" /\ UNCHANGED <<file, part, pos>>
  BY DEF NextFile, At
<1>2. CASE pc' = "itemEnd" /\ UNCHANGED <<file, part, pos>>
  <2>1. ~Copying /\ (ok => ~Opening)
    BY <1>1 DEF Copying, BlockPlaces, Opening
  <2> QED
    BY <1>1, <1>2, <2>1, StaysWithFile DEF CurrentPlaces, place
<1>3. CASE ok /\ pc' = "part" /\ file' = file + 1 /\ part' = 1
  <2>1. \A o \in DOMAIN outs : outs[o].item <= item /\ (outs[o].item = item => outs[o].file <= file)
    BY DEF JobInv, OrderInv
  <2>2. file \in Nat /\ \A o \in DOMAIN outs : outs[o].file \in Nat
    BY OutsTyped DEF PlaceInv, ArTypeOK
  <2>3. \A o \in DOMAIN outs : /\ outs[o].item <= item
                               /\ outs[o].item = item => outs[o].file <= file + 1 /\ outs[o].file # file + 1
    BY <2>1, <2>2
  <2>4. ~HasOutput' /\ O' = O
    BY <1>1, <1>3, <2>3, OutsTyped DEF HasOutput, O
  <2>5. item \notin deleted
    BY <1>1 DEF JobInv, OrderInv
  <2>6. OrderInv'
    BY <1>1, <1>3, <2>3, <2>4, <2>5 DEF OrderInv, BlockPlaces
  <2>7. ~Unfinished /\ ~Spoiled /\ ~Opening
    BY <1>1, <1>3 DEF Unfinished, Spoiled, Opening, Copying, BlockPlaces
  <2> QED
    BY <1>1, <2>4, <2>6, <2>7, MovesOn
<1> QED
  BY <1>1, <1>2, <1>3

\* An item is done, and its source deleted or not.
LEMMA ItemEndKeepsJob ==
  ASSUME PlaceInv, WorkerInv, JobInv, "slipped" \notin odd, DeleteSource \/ KeepSource
  PROVE  JobInv'
<1>1. /\ pc = "itemEnd" /\ UNCHANGED <<evs, job, file, part, pos, use_async_fd, v, w, outs, odd>>
      /\ \/ ok /\ pc' = "item" /\ item' = item + 1
         \/ ok /\ pc' = "end" /\ item' = item
         \/ ~ok' /\ pc' = "end" /\ item' = item /\ deleted' = deleted
  BY DEF DeleteSource, KeepSource, ItemEnds, Deletes, At
<1>2. ~Copying /\ ~Copying' /\ O' = O /\ (ok => ~Opening /\ ~Unfinished /\ ~Spoiled)
  BY <1>1 DEF Copying, BlockPlaces, Opening, Unfinished, Spoiled, O
<1>3. \A o \in DOMAIN outs : outs[o].item <= item /\ (outs[o].item = item => outs[o].file <= file)
  BY DEF JobInv, OrderInv
<1>4. item \in Nat /\ file \in Nat /\ \A o \in DOMAIN outs : outs[o].item \in Nat
  BY OutsTyped DEF PlaceInv, ArTypeOK
<1>5. CASE ok /\ pc' = "item" /\ item' = item + 1
  <2>1. \A o \in DOMAIN outs : outs[o].item < item + 1 /\ outs[o].item <= item + 1 /\ outs[o].item # item + 1
    BY <1>3, <1>4
  <2>2. item + 1 \notin deleted'
    <3>1. PlaceInv' /\ deleted \subseteq 1 .. item
      BY MainPlaced DEF Main, PlaceInv
    <3>2. deleted' \subseteq deleted \cup {item}
      BY DEF DeleteSource, KeepSource
    <3> QED
      BY <1>4, <3>1, <3>2
  <2>3. OrderInv'
    BY <1>1, <1>5, <2>1, <2>2 DEF OrderInv, BlockPlaces
  <2> QED
    BY <1>1, <1>2, <1>5, <2>3, MovesOn
<1>6. CASE pc' = "end" /\ item' = item
  <2>1. OrderInv'
    BY <1>1, <1>3, <1>6 DEF OrderInv, BlockPlaces
  <2>2. CASE ok
    BY <1>1, <1>2, <2>1, <2>2, MovesOn
  <2>3. CASE ~ok /\ ~ok' /\ deleted' = deleted
    <3>1. (Current' <=> Current)
      BY <1>1, <1>6, <2>3 DEF Current, HasOutput
    <3> QED
      BY <1>1, <1>2, <2>1, <2>3, <3>1, MovesOn DEF Unfinished, Spoiled, Opening
  <2> QED
    BY <1>1, <1>6, <2>2, <2>3
<1> QED
  BY <1>1, <1>5, <1>6

\* Every step keeps SentInv.
LEMMA SentKept ==
  ASSUME PlaceInv, WorkerInv, SentInv, Next
  PROVE  SentInv'
<1>0. O \in Nat /\ v \in [flags : SUBSET Flags, fd : Nat, mem : Block \cup {NULL}] /\ EvTypeOK
  BY OutsTyped DEF PlaceInv, ArTypeOK
<1>1. CASE StartJob \/ JobEndsAtOnce \/ JobEndsAfterWait
  BY <1>1 DEF StartJob, JobEndsAtOnce, JobEndsAfterWait, Finishes, SentInv, Sent
<1>2. CASE SendBlock
  <2>1. v'.fd = O /\ O' = O
    BY <1>2 DEF SendBlock, O
  <2>2. O \in 1 .. O
    BY <1>2, OutsTyped, BlockTyped DEF SendBlock, BlockPlaces
  <2> QED
    BY <2>1, <2>2 DEF SentInv
<1>3. CASE UNCHANGED use_async_fd /\ v'.fd = v.fd /\ pc # "idle" /\ O' \in Nat /\ O' >= O
  BY <1>0, <1>3 DEF SentInv, Sent
<1>4. CASE Worker
  <2>1. Idles /\ v'.fd = v.fd
    BY <1>0, <1>4 DEF Worker, AsyncChecks, AsyncWrites, AsyncEnds
  <2>2. O' = O
    <3>1. wpc = "run" => v.fd \in 1 .. O
      BY DEF WorkerInv, Quiet, InHand, O
    <3> QED
      BY <1>4, <3>1, WrittenTyped, ClosedTyped
      DEF Worker, AsyncChecks, AsyncWrites, AsyncEnds, PlaceInv, ArTypeOK, O
  <2> QED
    BY <1>0, <2>1, <2>2 DEF Idles, SentInv, Sent
<1>5. CASE PartOpens \/ PartFails
  <2>1. O' \in Nat /\ O' >= O
    BY <1>0, <1>5, OpenedTyped DEF PartOpens, PartFails, O
  <2> QED
    BY <1>3, <1>5, <2>1 DEF PartOpens, PartFails, At
<1>6. CASE Cancelled \/ CancelWaits
  <2>1. O' = O
    BY <1>0, <1>6, RemovedTyped DEF Cancelled, CancelWaits, O
  <2> QED
    BY <1>0, <1>3, <1>6, <2>1 DEF Cancelled, CancelWaits, At
<1>7. CASE outs' = outs /\ UNCHANGED <<use_async_fd, v>> /\ pc # "idle"
  BY <1>0, <1>7 DEF SentInv, Sent, O
<1> QED
  BY <1>1, <1>2, <1>4, <1>5, <1>6, <1>7
  DEF Next, Main, At, NextItem, FolderFails, PartsEnd, PartsEndTooSoon, ReadBlock, ReadNothing, SendFails,
      DrawBar, NotCancelled, NextFile, DeleteSource, KeepSource, ItemEnds, JobWaits

-----------------------------------------------------------------------------
(* A file is opened, a block handed over, a job begun and done.            *)

\* The files, when one more is opened.
LEMMA OutsOpened ==
  ASSUME PlaceInv, pc = "part", part <= Len(File.parts), outs' = Opened
  PROVE  /\ O' = O + 1 /\ DOMAIN outs' = 1 .. O + 1 /\ outs' # <<>>
         /\ \A o \in 1 .. O : outs'[o] = outs[o]
         /\ outs'[O + 1].item = item /\ outs'[O + 1].file = file /\ outs'[O + 1].kind = File.kind
         /\ outs'[O + 1].want = Wanted /\ outs'[O + 1].got = <<>> /\ outs'[O + 1].kept
<1>1. outs' \in Seq(Output) /\ Len(outs') = O + 1 /\ O \in Nat
  BY OpenedTyped, OutsTyped
<1>2. /\ outs'[O + 1] = [item |-> item, file |-> file, kind |-> File.kind, want |-> Wanted,
                         got |-> <<>>, open |-> TRUE, kept |-> TRUE]
      /\ \A o \in 1 .. O : outs'[o] = outs[o]
  BY OpenedTyped
<1> QED
  BY <1>1, <1>2 DEF O

\* A file is opened, the one before has its blocks.
LEMMA OpenedKeepsJob ==
  ASSUME PlaceInv, WorkerInv, SentInv, JobInv, "slipped" \notin odd,
         pc = "part", part <= Len(File.parts), OpensOutput, outs' = Opened,
         UNCHANGED <<evs, job, item, file, part, use_async_fd, v, w, deleted, odd>>,
         (pc' = "fd" /\ ok' = ok /\ pos' = 0) \/ (pc' = "skip" /\ ok' = FALSE)
  PROVE  JobInv'
<1>1. /\ O' = O + 1 /\ DOMAIN outs' = 1 .. O + 1 /\ outs' # <<>> /\ O \in Nat /\ DOMAIN outs = 1 .. O
      /\ \A o \in 1 .. O : outs'[o] = outs[o]
      /\ outs'[O + 1].item = item /\ outs'[O + 1].file = file /\ outs'[O + 1].kind = File.kind
      /\ outs'[O + 1].want = Wanted /\ outs'[O + 1].got = <<>> /\ outs'[O + 1].kept
  BY OutsOpened, OutsTyped
<1>2. /\ UNCHANGED <<init, evQ, event_thread_working, wpc, event>>
      /\ Quiet' = Quiet /\ InHand' = InHand /\ File' = File /\ Wanted' = Wanted
  <2>1. File' = File
    BY FileKept
  <2> QED
    BY <2>1, QueueKept DEF Wanted
<1>3. (Enabled' <=> Enabled) /\ (Failed' <=> Failed) /\ (Sent' <=> Sent) /\ ok
  BY DEF Enabled, Failed, Sent, PlaceInv, Copying
<1>4. item \notin deleted /\ HasOutput' /\ Current'
  BY <1>1, OutsTyped DEF JobInv, OrderInv, HasOutput, Current, O
<1>5. (~Quiet => v.fd \in 1 .. O) /\ (Sent => v.fd \in 1 .. O)
  BY DEF WorkerInv, SentInv, O
<1>6. /\ \A o \in 1 .. O : HandedOver(o)' = HandedOver(o) /\ (Closes(o)' <=> Closes(o))
      /\ HandedOver(O)' = 0
  <2>1. (Unwritten' <=> Unwritten) /\ \A o : Lack(o)' = Lack(o) /\ (Closes(o)' <=> Closes(o))
    BY <1>3 DEF Lack, Unwritten, Closes
  <2>2. ~ (O + 1 = v.fd /\ Unwritten)
    BY <1>1, <1>5 DEF Unwritten
  <2>3. Lack(O)' = 0
    BY <1>1, <2>1, <2>2 DEF Lack
  <2>4. Len(outs'[O'].got) = 0
    BY <1>1
  <2>5. HandedOver(O)' = 0
    BY <2>3, <2>4 DEF HandedOver
  <2> QED
    BY <1>1, <2>1, <2>5 DEF HandedOver
<1>7. OneBlock'
  BY <1>2, <1>3 DEF JobInv, OneBlock
<1>8. OrderInv'
  <2>1. \A o \in 1 .. O + 1 : o \in 1 .. O \/ o = O + 1
    BY <1>1
  <2>2. \A o \in 1 .. O + 1 : /\ outs'[o].item <= item
                              /\ outs'[o].item = item => outs'[o].file <= file
    <3>1. item <= item /\ file <= file
      BY DEF PlaceInv, ArTypeOK
    <3> QED
      BY <1>1, <2>1, <3>1 DEF JobInv, OrderInv
  <2>3. item' = item /\ file' = file /\ deleted' = deleted /\ part' = part
    OBVIOUS
  <2>4. outs'[O'] = outs'[O + 1]
    BY <1>1
  <2> QED
    BY <1>1, <1>2, <1>4, <2>2, <2>3, <2>4 DEF OrderInv, BlockPlaces
<1>9. BlocksInOrder'
  <2>1. \A o \in 1 .. O : \A k \in DOMAIN outs'[o].got : outs'[o].got[k] = k
    BY <1>1 DEF JobInv, BlocksInOrder
  <2>2. DOMAIN outs'[O + 1].got = {}
    BY <1>1
  <2>3. \A o \in 1 .. O + 1 : o \in 1 .. O \/ o = O + 1
    BY <1>1
  <2> QED
    BY <1>1, <2>1, <2>2, <2>3 DEF BlocksInOrder
<1>10. \A o \in 1 .. O : \/ HandedOver(o) = outs[o].want
                         \/ use_async_fd = 0 /\ o = v.fd /\ Len(outs[o].got) + 1 >= outs[o].want
                         \/ "short" \in odd
  <2>1. ASSUME Unfinished PROVE HandedOver(O) = outs[O].want
    <3>1. HasOutput /\ part # 1 /\ File.kind # "join" /\ Copying
      BY <2>1 DEF Unfinished, Current, JobInv, OrderInv, OpensOutput, Copying
    <3>2. HandedOver(O) = LastHandedOver
      BY <3>1 DEF JobInv, CountInv
    <3> QED
      BY <3>1, <3>2 DEF LastHandedOver, BlockPlaces
  <2> QED
    BY <1>1, <2>1 DEF JobInv, CountInv
<1>11. pc' = "fd" => LastHandedOver' = 0
  <2>1. SUFFICES ASSUME pc' = "fd" PROVE LastHandedOver' = 0
    OBVIOUS
  <2>2. pos' = 0 /\ part' = part /\ LastHandedOver' = BlockNumber' - 1
    BY <2>1 DEF LastHandedOver, BlockPlaces
  <2>3. CASE File.kind = "join"
    <3>1. part = 1 /\ Sums(File.parts)[0] = 0
      BY <2>3, FileTyped, SumsAt DEF OpensOutput, CurrentPlaces
    <3>2. BlockNumber' = 0 + 1 + Sums(File.parts)[1 - 1]
      BY <1>2, <2>2, <2>3, <3>1 DEF BlockNumber
    <3> QED
      BY <2>2, <3>1, <3>2
  <2>4. CASE File.kind # "join"
    BY <1>2, <2>2, <2>4 DEF BlockNumber
  <2> QED
    BY <2>3, <2>4
<1>12. CountInv'
  <2>1. ~Quiet' /\ v'.mem # NULL => v'.mem.n = Len(outs'[v'.fd].got) + 1
    BY <1>1, <1>2, <1>5 DEF JobInv, CountInv
  <2>2. HasOutput' /\ Copying' => HandedOver(O)' = LastHandedOver'
    BY <1>6, <1>11 DEF Copying, BlockPlaces
  <2>4. ASSUME NEW o \in 1 .. O + 1
        PROVE  \/ HandedOver(o)' = outs'[o].want
               \/ use_async_fd' = 0 /\ o = v'.fd /\ Len(outs'[o].got) + 1 >= outs'[o].want
               \/ o = O' /\ Unfinished'
               \/ "short" \in odd'
    <3>1. CASE o = O + 1
      BY <1>1, <1>4, <3>1 DEF Unfinished, Copying, BlockPlaces
    <3>2. CASE o \in 1 .. O
      BY <1>1, <1>6, <1>10, <3>2
    <3> QED
      BY <1>1, <3>1, <3>2
  <2>5. ASSUME NEW o \in 1 .. O + 1
        PROVE  outs'[o].kept \/ (o = O' /\ Spoiled') \/ "undone" \in odd'
    <3>1. CASE o = O + 1
      BY <1>1, <3>1
    <3>2. CASE o \in 1 .. O
      BY <1>1, <1>3, <3>2 DEF JobInv, CountInv, Spoiled
    <3> QED
      BY <1>1, <3>1, <3>2
  <2> QED
    BY <1>1, <2>1, <2>2, <2>4, <2>5 DEF CountInv
<1>13. OpenInv'
  <2>1. ~Opening
    BY <1>3 DEF Opening
  <2>2. Opening'
    BY <1>4 DEF Opening
  <2>3. ASSUME NEW o \in 1 .. O + 1, outs'[o].open
        PROVE  outs'[o].want = 0 \/ Joined(outs'[o]) \/ Closes(o)' \/ (o = O' /\ Opening')
    <3>1. CASE o = O + 1
      BY <1>1, <2>2, <3>1
    <3>2. CASE o \in 1 .. O
      BY <1>1, <1>6, <2>1, <2>3, <3>2 DEF JobInv, OpenInv
    <3> QED
      BY <1>1, <3>1, <3>2
  <2> QED
    BY <1>1, <2>3 DEF OpenInv, Joined
<1> QED
  BY <1>7, <1>8, <1>9, <1>12, <1>13 DEF JobInv

\* CopyFile opens the files of a part, or fails.
LEMMA PartKeepsJob ==
  ASSUME PlaceInv, WorkerInv, SentInv, JobInv, "slipped" \notin odd, PartOpens \/ PartFails
  PROVE  JobInv'
<1>1. /\ pc = "part" /\ part <= Len(File.parts) /\ File.kind # "part"
      /\ UNCHANGED <<evs, job, item, file, part, use_async_fd, v, w, deleted, odd>>
      /\ \/ pc' = "fd" /\ ok' = ok /\ pos' = 0
         \/ pc' = "skip" /\ ok' = FALSE /\ pos' = pos
      /\ \/ OpensOutput /\ outs' = Opened
         \/ outs' = outs /\ pc' = "skip"
         \/ outs' = outs /\ pc' = "fd" /\ ~OpensOutput
  BY DEF PartOpens, PartFails, At, place, OpensOutput
<1>2. CASE OpensOutput /\ outs' = Opened
  BY <1>1, <1>2, OpenedKeepsJob
<1>3. CASE outs' = outs /\ pc' = "skip" /\ ok' = FALSE
  BY <1>1, <1>3, StaysWithFile DEF CurrentPlaces, place
<1>4. CASE outs' = outs /\ pc' = "fd" /\ ~OpensOutput
  <2>1. ok' = ok /\ pos' = 0 /\ File.kind = "join" /\ part # 1 /\ part \in Nat \ {0}
    BY <1>1, <1>4 DEF OpensOutput, PlaceInv, ArTypeOK
  <2>2. /\ UNCHANGED <<item, file, part, outs, deleted, job>> /\ O' = O /\ File' = File
        /\ (HasOutput' <=> HasOutput) /\ (Current' <=> Current) /\ Copying /\ Copying' /\ Wanted' = Wanted
    <3>1. /\ UNCHANGED <<item, file, part, outs, deleted, job>> /\ O' = O /\ File' = File
      BY <1>1, <1>4, FileKept DEF O
    <3> QED
      BY <1>1, <1>4, <3>1 DEF HasOutput, Current, Copying, BlockPlaces, Wanted
  <2>3. OrderInv'
    BY <1>1, <1>4, <2>1, <2>2 DEF JobInv, OrderInv, BlockPlaces
  <2>4. HasOutput' /\ Copying' => HandedOver(O) = LastHandedOver'
    <3>1. LastHandedOver = Sums(File.parts)[part - 1]
      BY <1>1, <2>1 DEF LastHandedOver, BlockPlaces
    <3>2. Sums(File.parts)[part - 1] \in Nat
      <4>1. /\ File.parts \in Seq(Nat) /\ Len(File.parts) \in Nat
            /\ Sums(File.parts) \in [0 .. Len(File.parts) -> Nat]
        BY <1>1, FileTyped, SumsAt DEF CurrentPlaces
      <4>2. part - 1 \in 0 .. Len(File.parts)
        BY <1>1, <2>1, <4>1
      <4> QED
        BY <4>1, <4>2
    <3>3. BlockNumber' = 0 + 1 + Sums(File.parts)[part - 1]
      BY <2>1, <2>2 DEF BlockNumber
    <3>4. LastHandedOver' = BlockNumber' - 1
      BY <1>4 DEF LastHandedOver, BlockPlaces
    <3>5. LastHandedOver' = Sums(File.parts)[part - 1]
      BY <3>2, <3>3, <3>4
    <3> QED
      BY <2>2, <3>1, <3>5 DEF JobInv, CountInv
  <2>5. (Unfinished => Unfinished') /\ (Spoiled => Spoiled') /\ (Opening => Opening')
    BY <1>1, <1>4, <2>1, <2>2 DEF Unfinished, Spoiled, Opening
  <2> QED
    BY <1>1, <1>4, <2>3, <2>4, <2>5, MovesOn
<1> QED
  BY <1>1, <1>2, <1>3, <1>4

\* Where the loop may hand a block over, that before it is written.
LEMMA FreeMeansWritten ==
  ASSUME PlaceInv, WorkerInv, JobInv, pc = "write", FreeToSend, ~BlockFailed
  PROVE  /\ Quiet /\ w.at = "check" /\ ~Unwritten /\ use_async_fd # 0
         /\ \A o : HandedOver(o) = Len(outs[o].got) + 0 /\ ~Closes(o)
<1>1. Quiet
  BY DEF JobInv, OneBlock, FreeToSend, Sent
<1>2. w.at = "check"
  BY <1>1 DEF WorkerInv, Quiet, InHand
<1>3. ~Unwritten
  BY DEF Unwritten, FreeToSend, BlockFailed, Sent
<1>4. use_async_fd # 0
  BY DEF PlaceInv, ArTypeOK
<1>5. \A o : ~Closes(o)
  BY DEF Closes, FreeToSend, Sent
<1> QED
  BY <1>1, <1>2, <1>3, <1>4, <1>5 DEF HandedOver, Lack

\* The block that is handed over is the next of the last file.
LEMMA SendKeepsJob ==
  ASSUME PlaceInv, WorkerInv, JobInv, "slipped" \notin odd, SendBlock
  PROVE  JobInv'
<1>1. /\ pc = "write" /\ FreeToSend /\ ~BlockFailed
      /\ event_thread_send(Call(my_func_async)) /\ use_async_fd' = 1 /\ pos' = pos + 1
      /\ (pc' = "skip" /\ ok' = FALSE) \/ (pc' = "bar" /\ ok' = ok)
      /\ UNCHANGED <<job, item, file, part, w, outs, deleted, odd>>
  BY DEF SendBlock
<1>2. /\ v'.flags = {"ENABLE"} \cup (IF LastBlock THEN {"FCLOSE"} ELSE {}) /\ v'.fd = O
      /\ v'.mem # NULL => v'.mem.n = BlockNumber
  <2>1. PICK allocated \in BOOLEAN :
          v' = [flags |-> {"ENABLE"} \cup (IF LastBlock THEN {"FCLOSE"} ELSE {}), fd |-> Len(outs),
                mem |-> IF allocated THEN [out |-> Len(outs), n |-> BlockNumber] ELSE NULL]
    BY DEF SendBlock
  <2> QED
    BY <2>1 DEF O
<1>3. /\ Quiet /\ w.at = "check" /\ ~Unwritten /\ use_async_fd # 0
      /\ \A o : HandedOver(o) = Len(outs[o].got) + 0 /\ ~Closes(o)
  BY <1>1, FreeMeansWritten
<1>4. Enabled' /\ ~Failed' /\ Sent' /\ O' = O /\ File' = File /\ Wanted' = Wanted
  <2>1. File' = File
    BY <1>1, FileKept
  <2> QED
    BY <1>1, <1>2, <2>1 DEF Enabled, Failed, Sent, O, Wanted
<1>5. /\ HasOutput /\ outs[O].kind = File.kind /\ outs[O].want = Wanted
      /\ item \notin deleted /\ Copying /\ ok
  BY <1>1 DEF JobInv, OrderInv, PlaceInv, Copying, BlockPlaces
<1>6. (HasOutput' <=> HasOutput) /\ (Current' <=> Current) /\ Current
  BY <1>1, <1>4, <1>5 DEF HasOutput, Current
<1>7. /\ O \in 1 .. O /\ DOMAIN outs = 1 .. O
      /\ \A o \in 1 .. O : Len(outs[o].got) \in Nat /\ outs[o].want \in Nat
  BY <1>5, OutsTyped DEF HasOutput
<1>8. /\ part \in 1 .. Len(File.parts) /\ File.parts[part] \in Nat /\ pos \in Nat
      /\ pos < File.parts[part] /\ BlockNumber \in Nat \ {0} /\ BlockNumber - 1 \in Nat
      /\ BlockNumber' = BlockNumber + 1
  <2>1. /\ part \in 1 .. Len(File.parts) /\ File.parts[part] \in Nat /\ pos \in Nat
        /\ File.kind = "join" => Sums(File.parts)[part - 1] \in Nat
        /\ pos < File.parts[part] /\ BlockNumber \in Nat \ {0} /\ BlockNumber - 1 \in Nat
    BY <1>1, BlockTyped DEF BlockPlaces, PlaceInv
  <2>2. BlockNumber' = BlockNumber + 1
    <3>1. /\ File.kind' = File.kind /\ Sums(File.parts)' = Sums(File.parts) /\ part' = part
          /\ pos' = pos + 1
      BY <1>1, <1>4 DEF File
    <3>2. CASE File.kind = "join"
      <4>1. /\ BlockNumber = pos + 1 + Sums(File.parts)[part - 1]
            /\ BlockNumber' = pos + 1 + 1 + Sums(File.parts)[part - 1]
            /\ Sums(File.parts)[part - 1] \in Nat
        BY <1>4, <2>1, <3>1, <3>2 DEF BlockNumber
      <4> QED
        BY SMTT(30), <2>1, <4>1
    <3>3. CASE File.kind # "join"
      BY <1>4, <2>1, <3>1, <3>3 DEF BlockNumber
    <3> QED
      BY <3>2, <3>3
  <2> QED
    BY <2>1, <2>2
<1>9. Len(outs[O].got) = BlockNumber - 1 /\ Len(outs[O].got) + 1 = BlockNumber
  <2>1. HandedOver(O) = LastHandedOver
    BY <1>5 DEF JobInv, CountInv
  <2>2. LastHandedOver = BlockNumber - 1
    BY <1>1 DEF LastHandedOver, BlockPlaces
  <2> QED
    BY <1>3, <1>7, <1>8, <2>1, <2>2
<1>10. /\ \A o \in 1 .. O : o # O => HandedOver(o)' = HandedOver(o)
       /\ HandedOver(O)' = BlockNumber
  <2>1. Unwritten'
    BY <1>1, <1>3, <1>4 DEF Unwritten
  <2>2. \A o \in 1 .. O : o # O => HandedOver(o)' = HandedOver(o)
    BY <1>1, <1>2, <1>3, <1>7 DEF HandedOver, Lack
  <2>3. Lack(O)' = 1
    BY <1>2, <1>4, <2>1 DEF Lack
  <2>4. HandedOver(O)' = Len(outs[O].got) + 1
    BY <1>1, <1>4, <2>3 DEF HandedOver
  <2> QED
    BY <1>9, <2>2, <2>4
<1>11. OneBlock'
  <2>1. /\ UNCHANGED <<wpc, event>> /\ InHand' = InHand /\ EvTypeOK
        /\ evQ \in Seq(Event) /\ evQ' \in Seq(Event) /\ Len(evQ) \in Nat
        /\ \/ evQ' = evQ
           \/ /\ Len(evQ') = Len(evQ) + 1
              /\ \A i \in 1 .. Len(evQ) : evQ'[i] = evQ[i]
    BY <1>1, Asked, EventSent DEF PlaceInv, ArTypeOK
  <2>2. \A e \in DOMAIN evQ' : evQ'[e].func # NULL => e = Len(evQ) + 1
    <3>1. \A e \in 1 .. Len(evQ) : evQ[e].func = NULL
      BY <1>3, <2>1 DEF Quiet
    <3>2. DOMAIN evQ = 1 .. Len(evQ) /\ DOMAIN evQ' = 1 .. Len(evQ')
      BY <2>1
    <3>3. \A e \in DOMAIN evQ' : e = Len(evQ) + 1 \/ (e \in 1 .. Len(evQ) /\ evQ'[e] = evQ[e])
      <4>1. CASE evQ' = evQ
        BY <3>2, <4>1
      <4>2. CASE Len(evQ') = Len(evQ) + 1 /\ \A i \in 1 .. Len(evQ) : evQ'[i] = evQ[i]
        <5>1. \A e \in 1 .. Len(evQ) + 1 : e = Len(evQ) + 1 \/ e \in 1 .. Len(evQ)
          BY <2>1
        <5> QED
          BY <3>2, <4>2, <5>1
      <4> QED
        BY <2>1, <4>1, <4>2
    <3> QED
      BY <3>1, <3>3
  <2>3. InHand' # <<>> => event'.func = NULL
    BY <1>3, <2>1 DEF Quiet
  <2> QED
    BY <1>1, <1>3, <1>4, <2>2, <2>3 DEF OneBlock
<1>12. OrderInv'
  BY <1>1, <1>4, <1>5, <1>6 DEF JobInv, OrderInv, BlockPlaces
<1>13. BlocksInOrder'
  BY <1>1 DEF JobInv, BlocksInOrder
<1>14. CountInv'
  <2>1. v'.mem # NULL => v'.mem.n = Len(outs'[v'.fd].got) + 1
    BY <1>1, <1>2, <1>9
  <2>2. HasOutput' /\ Copying' => HandedOver(O)' = LastHandedOver'
    <3>1. Copying' => pc' = "bar"
      BY <1>1 DEF Copying, BlockPlaces
    <3>2. pc' = "bar" => LastHandedOver' = BlockNumber' - 1
      BY DEF LastHandedOver, BlockPlaces
    <3>3. BlockNumber' - 1 = BlockNumber
      BY <1>8
    <3> QED
      BY <1>10, <3>1, <3>2, <3>3
  <2>3. Unfinished'
    BY <1>1, <1>6 DEF Unfinished, Copying, BlockPlaces
  <2>4. \A o \in 1 .. O : \/ HandedOver(o)' = outs'[o].want
                          \/ use_async_fd' = 0 /\ o = v'.fd /\ Len(outs'[o].got) + 1 >= outs'[o].want
                          \/ o = O' /\ Unfinished'
                          \/ "short" \in odd'
    BY <1>1, <1>3, <1>4, <1>7, <1>10, <2>3 DEF JobInv, CountInv
  <2>5. \A o \in 1 .. O : outs'[o].kept \/ (o = O' /\ Spoiled') \/ "undone" \in odd'
    BY <1>1, <1>5, <1>7 DEF JobInv, CountInv, Spoiled
  <2> QED
    BY <1>1, <1>7, <2>1, <2>2, <2>4, <2>5 DEF CountInv
<1>15. OpenInv'
  <2>1. LastBlock => Closes(O)'
    BY <1>2, <1>4 DEF Closes
  <2>2. ~LastBlock => Joined(outs[O]) \/ pos + 1 < File.parts[part]
    BY <1>5, <1>8 DEF LastBlock, Joined
  <2>3. pos + 1 < File.parts[part] => Opening'
    BY <1>1, <1>4, <1>6 DEF Opening
  <2>4. \A o \in 1 .. O : o # O /\ outs[o].open => outs[o].want = 0 \/ Joined(outs[o])
    BY <1>3, <1>7 DEF JobInv, OpenInv
  <2> QED
    BY <1>1, <1>4, <1>7, <2>1, <2>2, <2>3, <2>4 DEF OpenInv, Joined, Closes
<1> QED
  BY <1>11, <1>12, <1>13, <1>14, <1>15 DEF JobInv

\* The job ends: what my_f_async still owes is one block of one file.
LEMMA FinishKeepsJob ==
  ASSUME PlaceInv, WorkerInv, JobInv, "slipped" \notin odd, JobEndsAtOnce \/ JobEndsAfterWait
  PROVE  JobInv'
<1>0. ok' => ok
  BY Zenon DEF JobEndsAtOnce, JobEndsAfterWait
<1>1. /\ pc \in {"end", "endWait"} /\ pc' = "idle" /\ use_async_fd' = 0 /\ (ok' => ok)
      /\ event_thread_send(Call(NULL))
      /\ UNCHANGED <<job, item, file, part, pos, v, w, outs, deleted, odd>>
  BY <1>0 DEF JobEndsAtOnce, JobEndsAfterWait, Finishes, place
<1>2. (Enabled' <=> Enabled) /\ (Failed' <=> Failed) /\ Sent' /\ O' = O /\ use_async_fd # 0
  BY <1>1 DEF Enabled, Failed, Sent, O, PlaceInv, ArTypeOK
<1>3. /\ (HasOutput' <=> HasOutput) /\ (Current' <=> Current) /\ ~Copying /\ ~Copying'
  BY <1>1 DEF HasOutput, Current, Copying, BlockPlaces
<1>4. /\ UNCHANGED <<wpc, event>> /\ InHand' = InHand /\ (Quiet' <=> Quiet)
      /\ evQ \in Seq(Event) /\ evQ' \in Seq(Event) /\ Len(evQ) \in Nat
      /\ \/ evQ' = evQ
         \/ /\ Len(evQ') = Len(evQ) + 1 /\ evQ'[Len(evQ) + 1] = Call(NULL)
            /\ \A i \in 1 .. Len(evQ) : evQ'[i] = evQ[i]
  BY <1>1, Asked, EventSent, QuietSent DEF PlaceInv, ArTypeOK
<1>5. /\ DOMAIN outs = 1 .. O
      /\ \A o \in 1 .. O : Len(outs[o].got) \in Nat /\ outs[o].want \in Nat
  BY OutsTyped
<1>6. OneBlock'
  <2>1. \A e \in DOMAIN evQ' : evQ'[e].func # NULL => e \in DOMAIN evQ /\ evQ[e].func # NULL
    <3>1. CASE evQ' = evQ
      BY <3>1
    <3>2. CASE /\ Len(evQ') = Len(evQ) + 1 /\ evQ'[Len(evQ) + 1] = Call(NULL)
               /\ \A i \in 1 .. Len(evQ) : evQ'[i] = evQ[i]
      <4>1. \A e \in 1 .. Len(evQ) + 1 : e = Len(evQ) + 1 \/ e \in 1 .. Len(evQ)
        BY <1>4
      <4>2. DOMAIN evQ = 1 .. Len(evQ) /\ DOMAIN evQ' = 1 .. Len(evQ) + 1
        BY <1>4, <3>2
      <4> QED
        BY <3>2, <4>1, <4>2, Asked
    <3> QED
      BY <1>4, <3>1, <3>2
  <2>2. /\ \A e1, e2 \in DOMAIN evQ' :
             evQ'[e1].func # NULL /\ evQ'[e2].func # NULL => e1 = e2
        /\ InHand' # <<>> /\ event'.func # NULL => \A e \in DOMAIN evQ' : evQ'[e].func = NULL
    BY <1>4, <2>1, Zenon DEF JobInv, OneBlock
  <2>3. ~Quiet' => Enabled' /\ Sent'
    BY <1>2, <1>4 DEF JobInv, OneBlock
  <2>4. /\ w'.at = "write" => w'.flags = v'.flags
        /\ w'.at = "close" => w'.flags \in {v'.flags, v'.flags \cup {"ERROR"}}
    BY <1>1 DEF JobInv, OneBlock
  <2> QED
    BY <2>2, <2>3, <2>4 DEF OneBlock
<1>7. OrderInv'
  BY <1>1, <1>2, <1>3 DEF JobInv, OrderInv, BlockPlaces
<1>8. BlocksInOrder'
  BY <1>1 DEF JobInv, BlocksInOrder
<1>9. CountInv'
  <2>1. ~Quiet' /\ v'.mem # NULL => v'.mem.n = Len(outs'[v'.fd].got) + 1
    BY <1>1, <1>4 DEF JobInv, CountInv
  <2>2. ASSUME NEW o \in 1 .. O
        PROVE  \/ HandedOver(o)' = outs'[o].want
               \/ use_async_fd' = 0 /\ o = v'.fd /\ Len(outs'[o].got) + 1 >= outs'[o].want
               \/ o = O' /\ Unfinished'
               \/ "short" \in odd'
    <3>1. CASE HandedOver(o) = outs[o].want
      <4>1. CASE o = v.fd
        <5>1. Lack(o) \in {0, 1} /\ Len(outs[o].got) + Lack(o) = outs[o].want
          BY <3>1 DEF HandedOver, Lack
        <5>2. Len(outs[o].got) + 1 >= outs[o].want
          BY <1>5, <5>1
        <5> QED
          BY <1>1, <4>1, <5>2
      <4>2. CASE o # v.fd
        BY <1>1, <3>1, <4>2 DEF HandedOver, Lack
      <4> QED
        BY <4>1, <4>2
    <3>2. CASE o = O /\ Unfinished
      BY <1>1, <1>2, <1>3, <3>2 DEF Unfinished
    <3> QED
      BY <1>1, <1>2, <1>5, <3>1, <3>2 DEF JobInv, CountInv
  <2>3. \A o \in 1 .. O : outs'[o].kept \/ (o = O' /\ Spoiled') \/ "undone" \in odd'
    BY <1>1, <1>2, <1>3, <1>5 DEF JobInv, CountInv, Spoiled
  <2> QED
    BY <1>1, <1>3, <1>5, <2>1, <2>2, <2>3 DEF CountInv
<1>10. OpenInv'
  <2>1. \A o : Closes(o) => Closes(o)'
    BY <1>1, <1>2 DEF Closes
  <2>2. Opening => Opening'
    BY <1>1, <1>3 DEF Opening
  <2> QED
    BY <1>1, <1>2, <2>1, <2>2 DEF JobInv, OpenInv, Joined
<1> QED
  BY <1>6, <1>7, <1>8, <1>9, <1>10 DEF JobInv

\* A job that begins when nothing is on its way begins with no file.
LEMMA StartMakesJob ==
  ASSUME PlaceInv, WorkerInv, StartJob, "slipped" \notin odd'
  PROVE  JobInv'
<1>1. /\ Quiet /\ outs' = <<>> /\ deleted' = {} /\ pc' = "item" /\ UNCHANGED <<evs, v, w>>
  BY DEF StartJob
<1>2. /\ UNCHANGED <<init, evQ, event_thread_working, wpc, event>>
      /\ Quiet' = Quiet /\ InHand' = InHand
  BY <1>1, QueueKept
<1>3. w.at = "check"
  BY <1>1 DEF WorkerInv, Quiet, InHand
<1>4. DOMAIN outs' = {} /\ ~HasOutput'
  BY <1>1 DEF HasOutput
<1>5. OneBlock'
  BY <1>1, <1>2, <1>3 DEF OneBlock, Quiet
<1>6. OrderInv'
  BY <1>1, <1>4 DEF OrderInv, BlockPlaces
<1>7. BlocksInOrder'
  BY <1>4 DEF BlocksInOrder
<1>8. CountInv'
  BY <1>1, <1>2, <1>4 DEF CountInv
<1>9. OpenInv'
  BY <1>4 DEF OpenInv
<1> QED
  BY <1>5, <1>6, <1>7, <1>8, <1>9 DEF JobInv

-----------------------------------------------------------------------------
(* The invariant holds, and what follows from it.                          *)

\* Every step of the main thread keeps the invariant of a job.
LEMMA MainJob ==
  ASSUME PlaceInv, WorkerInv, SentInv, JobInv, "slipped" \notin odd, Main
  PROVE  JobInv'
<1>1. CASE Cancelled
  BY <1>1, NotCancelledKeepsJob, RemovedKeepsJob
<1> QED
  BY <1>1, NextItemKeepsJob, FolderFailsKeepsJob, PartsEndKeepsJob, PartKeepsJob, ReadBlockKeepsJob,
     ReadNothingKeepsJob, SendFailsKeepsJob, SendKeepsJob, DrawBarKeepsJob, NotCancelledKeepsJob,
     RemovedKeepsJob, NextFileKeepsJob, ItemEndKeepsJob, FinishKeepsJob
  DEF Main

\* A step that changes nothing keeps everything.
LEMMA StillKeepsAr ==
  ASSUME ArInv, UNCHANGED vars
  PROVE  ArInv'
<1>1. /\ UNCHANGED <<init, evQ, event_thread_working, wpc, event>> /\ UNCHANGED <<item, file, part, pos>>
      /\ UNCHANGED <<pc, jobs, job, ok, progress_action, use_async_fd, v, w, outs, deleted, odd>>
  BY DEF vars, evs, place
<1>2. PlaceInv'
  BY SMTT(30), <1>1 DEF ArInv, PlaceInv, ArTypeOK, EvTypeOK, Copying, Items, File
<1>3. /\ (Quiet' <=> Quiet) /\ InHand' = InHand /\ (Enabled' <=> Enabled) /\ (Failed' <=> Failed)
      /\ File' = File /\ O' = O /\ (Sent' <=> Sent) /\ (HasOutput' <=> HasOutput)
  BY <1>1 DEF Quiet, InHand, Enabled, Failed, File, Items, O, Sent, HasOutput
<1>4. WorkerInv' /\ SentInv'
  BY <1>1, <1>3 DEF ArInv, WorkerInv, SentInv
<1>5. (Current' <=> Current) /\ (Copying' <=> Copying) /\ Wanted' = Wanted
  BY <1>1, <1>3 DEF Current, Copying, Wanted
<1>6. /\ (Unfinished' <=> Unfinished) /\ (Spoiled' <=> Spoiled) /\ (Opening' <=> Opening)
      /\ LastHandedOver' = LastHandedOver
  BY <1>1, <1>3, <1>5 DEF Unfinished, Spoiled, Opening, LastHandedOver, BlockNumber
<1>7. ASSUME JobInv PROVE JobInv'
  <2>1. OneBlock' /\ OrderInv' /\ BlocksInOrder'
    BY <1>1, <1>3, <1>5, <1>7 DEF JobInv, OneBlock, OrderInv, BlocksInOrder
  <2>2. \A o : (Closes(o)' <=> Closes(o)) /\ HandedOver(o)' = HandedOver(o)
    BY <1>1, <1>3 DEF Closes, HandedOver, Lack, Unwritten
  <2>3. CountInv' /\ OpenInv'
    BY <1>1, <1>3, <1>5, <1>6, <1>7, <2>2 DEF JobInv, CountInv, OpenInv, Joined
  <2> QED
    BY <2>1, <2>3 DEF JobInv
<1> QED
  BY <1>1, <1>2, <1>4, <1>7 DEF ArInv

\* Only the start of a job may slip.
LEMMA OnlyStartSlips ==
  ASSUME PlaceInv, Main \/ Worker
  PROVE  "slipped" \in odd' <=> "slipped" \in odd
<1>1. CASE odd' = odd
  BY <1>1
<1>2. CASE PartsEndTooSoon
  BY <1>2 DEF PartsEndTooSoon
<1>3. CASE Cancelled \/ CancelWaits
  BY <1>1, <1>3, RemovedTyped DEF Cancelled, CancelWaits
<1>4. CASE Worker
  BY <1>1, <1>4 DEF Worker, AsyncChecks, AsyncWrites, AsyncEnds, Idles
<1> QED
  BY <1>1, <1>2, <1>3, <1>4
  DEF Main, NextItem, FolderFails, PartsEnd, PartOpens, PartFails, ReadBlock, ReadNothing, SendFails,
      SendBlock, DrawBar, NotCancelled, NextFile, DeleteSource, KeepSource, ItemEnds, JobWaits,
      JobEndsAtOnce, JobEndsAfterWait, Finishes

\* The invariant holds first, and every step keeps it.
LEMMA ArInvInductive == (Init => ArInv) /\ (ArInv /\ [Next]_vars => ArInv')
<1>1. ASSUME Init PROVE ArInv
  <2>1. EvTypeOK /\ evQ = <<>> /\ wpc = "receive" /\ Quiet /\ DOMAIN evQ = {} /\ InHand = <<>>
    <3>1. EvTypeOK
      BY <1>1, QueueSizeAssumption DEF Init, EvStarted, EvTypeOK, WorkerPlaces, Event, Exit
    <3> QED
      BY <1>1, <3>1 DEF Init, EvStarted, Quiet, InHand
  <2>2. job \in Job
    <3>1. <<>> \in Seq(Item)
      OBVIOUS
    <3> QED
      BY <1>1, <3>1 DEF Init, NoJob, Job
  <2>3. ArTypeOK
    <3>1. <<>> \in Seq(Output)
      OBVIOUS
    <3> QED
      BY <1>1, <2>1, <2>2, <3>1, ArchiveCopyAssumption DEF Init, ArTypeOK, Flags, OddThings, Block
  <2>4. PlaceInv
    BY <1>1, <2>3 DEF Init, PlaceInv, CurrentPlaces, BlockPlaces, Copying
  <2>5. WorkerInv /\ SentInv
    BY <1>1, <2>1 DEF Init, WorkerInv, SentInv, Enabled
  <2>6. DOMAIN outs = {} /\ ~HasOutput
    BY <1>1 DEF Init, HasOutput
  <2>7. OneBlock /\ OrderInv /\ BlocksInOrder /\ CountInv /\ OpenInv
    BY <1>1, <2>1, <2>6 DEF Init, OneBlock, OrderInv, BlocksInOrder, CountInv, OpenInv, BlockPlaces
  <2> QED
    BY <2>4, <2>5, <2>7 DEF ArInv, JobInv
<1>2. ASSUME ArInv, Next PROVE ArInv'
  <2>1. PlaceInv /\ WorkerInv /\ SentInv
    BY <1>2 DEF ArInv
  <2>2. PlaceInv'
    BY <1>2, <2>1, MainPlaced, EventPlaced DEF Next
  <2>3. WorkerInv'
    BY <1>2, <2>1, MainWorkers, EventWorkers DEF Next
  <2>4. SentInv'
    BY <1>2, <2>1, SentKept
  <2>5. ASSUME "slipped" \notin odd' PROVE JobInv'
    <3>1. CASE StartJob
      BY <2>1, <2>5, <3>1, StartMakesJob
    <3>2. CASE Main
      BY <1>2, <2>1, <2>5, <3>2, OnlyStartSlips, MainJob DEF ArInv
    <3>3. CASE Worker
      BY <1>2, <2>1, <2>5, <3>3, OnlyStartSlips, EventJob DEF ArInv
    <3> QED
      BY <1>2, <3>1, <3>2, <3>3 DEF Next
  <2> QED
    BY <2>2, <2>3, <2>4, <2>5 DEF ArInv
<1> QED
  BY <1>1, <1>2, StillKeepsAr

\* The invariant of the copies and moves holds in every reachable state:
\* copy_archive_manager, move_archive_manager, CopyFile, CopyFd and
\* my_func_async in every interleaving, with everything that may fail.
THEOREM ArchiveInvariant == Spec => []ArInv
  BY ArInvInductive, PTL DEF Spec

\* Every file holds the first blocks of its source, in order, in every job
\* that did not begin too early.
THEOREM ArchiveBlocksInOrder == Spec => []BlocksInOrder
<1>1. ArInv => BlocksInOrder
  BY DEF ArInv, JobInv, BlocksInOrder
<1> QED
  BY <1>1, ArchiveInvariant, PTL

\* In a job of which nothing odd befell, a file is kept, and all of it is
\* written but at most the block in my_f_async, if it is not the one in hand.
LEMMA WrittenButTheLast ==
  ASSUME ArInv, odd = {}, NEW o \in DOMAIN outs, ~ (o = O /\ Unfinished), ~ (o = O /\ Spoiled)
  PROVE  AllButTheLastBlock(o)
<1>1. PlaceInv /\ JobInv /\ outs[o].kept
  BY DEF ArInv, JobInv, CountInv
<1>2. outs[o].want \in Nat /\ Len(outs[o].got) \in Nat
  BY <1>1, OutsTyped
<1>3. \/ HandedOver(o) = outs[o].want
      \/ o = v.fd /\ Len(outs[o].got) + 1 >= outs[o].want
  BY <1>1 DEF JobInv, CountInv
<1>4. CASE o = v.fd
  <2>1. Lack(o) \in {0, 1}
    BY DEF Lack
  <2>2. Len(outs[o].got) + 1 >= outs[o].want
    BY <1>2, <1>3, <2>1 DEF HandedOver
  <2> QED
    BY <1>1, <1>2, <1>4, <2>2 DEF AllButTheLastBlock
<1>5. CASE o # v.fd
  <2>1. Len(outs[o].got) = outs[o].want
    BY <1>2, <1>3, <1>5 DEF HandedOver, Lack
  <2> QED
    BY <1>1, <1>2, <1>5, <2>1 DEF AllButTheLastBlock
<1> QED
  BY <1>4, <1>5

\* DeletedIsCopied: a move deletes the source only of what is written, but for
\* the last block handed over (move_archive_manager and CopyDirectory).
THEOREM MovedIsCopied == Spec => []DeletedIsCopied
<1>1. ArInv => DeletedIsCopied
  <2>1. SUFFICES ASSUME ArInv, odd = {}, NEW o \in DOMAIN outs, outs[o].item \in deleted
                 PROVE  AllButTheLastBlock(o)
    BY DEF DeletedIsCopied
  <2>2. ~ (o = O /\ Current)
    BY <2>1 DEF Current, HasOutput, O
  <2> QED
    BY <2>1, <2>2, WrittenButTheLast DEF Unfinished, Spoiled
<1> QED
  BY <1>1, ArchiveInvariant, PTL

\* A job that reports success has lost at most the last block it handed over.
LEMMA SuccessIsWritten ==
  ASSUME ArInv
  PROVE  SuccessLosesAtMostTheLastBlock
<1>1. SUFFICES ASSUME pc = "idle", ok, odd = {}, NEW o \in DOMAIN outs
               PROVE  AllButTheLastBlock(o)
  BY DEF SuccessLosesAtMostTheLastBlock
<1>2. ~Unfinished /\ ~Spoiled
  BY <1>1 DEF Unfinished, Spoiled, Copying, BlockPlaces
<1> QED
  BY <1>1, <1>2, WrittenButTheLast

-----------------------------------------------------------------------------
(* No event is lost while the queue has room for those of all the jobs.    *)

\* What is owed does not grow if none of its parts does.
LEMMA OwedKept ==
  ASSUME QueueInv, PlaceInv, jobs' = jobs, Len(evQ') \in Nat,
         Len(evQ') + Bit(InHand' # <<>>) - Bit(Enabled') <= Len(evQ) + Bit(InHand # <<>>) - Bit(Enabled),
         Bit(pc' # "idle") + Bit(use_async_fd' = 128) <= Bit(pc # "idle") + Bit(use_async_fd = 128)
  PROVE  Owed' <= 2 * jobs'
<1> DEFINE n == Len(evQ)    n1 == Len(evQ')
           h == Bit(InHand # <<>>)    h1 == Bit(InHand' # <<>>)
           e == Bit(Enabled)    e1 == Bit(Enabled')
           p == Bit(pc # "idle")    p1 == Bit(pc' # "idle")
           u == Bit(use_async_fd = 128)    u1 == Bit(use_async_fd' = 128)
<1>1. h \in Int /\ h1 \in Int /\ e \in Int /\ e1 \in Int /\ p \in Int /\ p1 \in Int /\ u \in Int /\ u1 \in Int
  BY DEF Bit
<1>2. n \in Nat /\ n1 \in Nat /\ jobs \in Nat
  BY DEF PlaceInv, ArTypeOK, EvTypeOK
<1>3. n1 + h1 - e1 <= n + h - e /\ p1 + u1 <= p + u /\ n + h + p + u - e <= 2 * jobs
  BY DEF QueueInv, Owed
<1>4. Owed' = n1 + h1 + p1 + u1 - e1
  BY DEF Owed, Bit
<1> HIDE DEF n, n1, h, h1, e, e1, p, p1, u, u1
<1>5. n1 + h1 + p1 + u1 - e1 <= 2 * jobs
  BY <1>1, <1>2, <1>3
<1> QED
  BY <1>4, <1>5

\* The steps of the event thread take events out of the queue.
LEMMA EventQueue ==
  ASSUME QueueInv, PlaceInv, WorkerInv, Worker
  PROVE  QueueInv'
<1>0. /\ EvTypeOK /\ evQ \in Seq(Event) /\ Len(evQ) \in Nat
      /\ v \in [flags : SUBSET Flags, fd : Nat, mem : Block \cup {NULL}]
  BY DEF PlaceInv, ArTypeOK, EvTypeOK
<1>1. Idles
  BY DEF Worker, AsyncChecks, AsyncWrites, AsyncEnds
<1>2. CASE (Receive \/ Dispatch \/ Clear) /\ UNCHANGED v
  <2>1. (Quiet' <=> Quiet) /\ (Enabled' <=> Enabled)
    BY <1>0, <1>2, EventMoves DEF Enabled
  <2>2. Len(evQ') \in Nat /\ Len(evQ') + Bit(InHand' # <<>>) <= Len(evQ) + Bit(InHand # <<>>)
    <3>1. CASE Receive
      <4>1. Len(evQ') = Len(evQ) - 1 /\ Len(evQ') \in Nat
        BY <1>0, <3>1 DEF Receive
      <4>2. Bit(InHand # <<>>) = 0 /\ Bit(InHand' # <<>>) \in {0, 1}
        BY <3>1 DEF Receive, InHand, Bit
      <4> QED
        BY <1>0, <4>1, <4>2
    <3>2. CASE Dispatch
      <4>1. evQ' = evQ /\ Bit(InHand # <<>>) = 1 /\ Bit(InHand' # <<>>) \in {0, 1}
        BY <3>2 DEF Dispatch, InHand, Bit
      <4> QED
        BY <1>0, <4>1
    <3>3. CASE Clear
      <4>1. evQ' = evQ /\ Bit(InHand # <<>>) = 0 /\ Bit(InHand' # <<>>) = 0
        BY <3>3 DEF Clear, InHand, Bit
      <4> QED
        BY <1>0, <4>1
    <3> QED
      BY <1>2, <3>1, <3>2, <3>3
  <2>3. Bit(Enabled') = Bit(Enabled) /\ Bit(Enabled) \in {0, 1}
    BY <2>1 DEF Bit
  <2>4. Bit(InHand # <<>>) \in {0, 1} /\ Bit(InHand' # <<>>) \in {0, 1}
    BY DEF Bit
  <2>5. Len(evQ') + Bit(InHand' # <<>>) - Bit(Enabled') <= Len(evQ) + Bit(InHand # <<>>) - Bit(Enabled)
    <3> HIDE DEF Bit
    <3> QED
      BY <1>0, <2>2, <2>3, <2>4
  <2>6. Bit(pc' # "idle") + Bit(use_async_fd' = 128) <= Bit(pc # "idle") + Bit(use_async_fd = 128)
    BY <1>1 DEF Idles, Bit
  <2>7. Owed' <= 2 * jobs'
    BY <1>1, <2>2, <2>5, <2>6, OwedKept DEF Idles
  <2> QED
    BY <2>1, <2>7 DEF QueueInv
<1>3. CASE UNCHANGED evs /\ (Enabled' <=> Enabled)
  <2>1. /\ UNCHANGED <<init, evQ, event_thread_working, wpc, event>>
        /\ Quiet' = Quiet /\ InHand' = InHand
    BY <1>3, QueueKept
  <2>2. Len(evQ') + Bit(InHand' # <<>>) - Bit(Enabled') <= Len(evQ) + Bit(InHand # <<>>) - Bit(Enabled)
    BY <1>0, <1>3, <2>1 DEF Bit
  <2>3. Bit(pc' # "idle") + Bit(use_async_fd' = 128) <= Bit(pc # "idle") + Bit(use_async_fd = 128)
    BY <1>1 DEF Idles, Bit
  <2>4. Owed' <= 2 * jobs'
    BY <1>0, <1>1, <2>1, <2>2, <2>3, OwedKept DEF Idles
  <2> QED
    BY <1>3, <2>1, <2>4 DEF QueueInv
<1>4. CASE Return /\ ~Enabled'
  <2>1. evQ' = evQ /\ Bit(InHand # <<>>) = 1 /\ Bit(InHand' # <<>>) = 0
    BY <1>4 DEF Return, InHand, Bit
  <2>2. Bit(Enabled') = 0 /\ Bit(Enabled) \in {0, 1}
    BY <1>4 DEF Bit
  <2>3. Len(evQ') + Bit(InHand' # <<>>) - Bit(Enabled') <= Len(evQ) + Bit(InHand # <<>>) - Bit(Enabled)
    BY <1>0, <2>1, <2>2
  <2>4. Bit(pc' # "idle") + Bit(use_async_fd' = 128) <= Bit(pc # "idle") + Bit(use_async_fd = 128)
    BY <1>1 DEF Idles, Bit
  <2>5. Owed' <= 2 * jobs'
    BY <1>0, <1>1, <2>1, <2>3, <2>4, OwedKept DEF Idles
  <2> QED
    BY <1>4, <2>5 DEF QueueInv
<1>5. CASE AsyncChecks
  <2>1. (Enabled' <=> Enabled) /\ (UNCHANGED evs \/ (Return /\ ~Enabled))
    BY <1>5 DEF AsyncChecks, Enabled
  <2> QED
    BY <1>3, <1>4, <2>1
<1>6. CASE AsyncWrites
  <2>1. (Enabled' <=> Enabled) /\ UNCHANGED evs
    BY <1>0, <1>6 DEF AsyncWrites, Enabled
  <2> QED
    BY <1>3, <2>1
<1>7. CASE AsyncEnds
  <2>1. Return /\ ~Enabled'
    BY <1>0, <1>7 DEF AsyncEnds, Enabled, Lowered
  <2> QED
    BY <1>4, <2>1
<1> QED
  BY <1>2, <1>5, <1>6, <1>7 DEF Worker

\* So do those of the main thread: the queue has room for what they send.
LEMMA MainQueue ==
  ASSUME QueueInv, PlaceInv, PlaceInv', StartJob \/ Main, 2 * MaxJobs <= QueueSize
  PROVE  QueueInv'
<1>0. /\ EvTypeOK /\ evQ \in Seq(Event) /\ Len(evQ) \in Nat /\ jobs \in Nat /\ jobs <= MaxJobs
      /\ MaxJobs \in Nat /\ QueueSize \in Nat
  BY ArchiveCopyAssumption, QueueSizeAssumption DEF PlaceInv, ArTypeOK, EvTypeOK
<1>1. CASE StartJob
  <2>1. /\ UNCHANGED <<init, evQ, event_thread_working, wpc, event>>
        /\ Quiet' = Quiet /\ InHand' = InHand /\ (Enabled' <=> Enabled) /\ jobs' = jobs + 1
    BY <1>1, QueueKept DEF StartJob, Enabled
  <2>2. pc = "idle" /\ pc' = "item" /\ use_async_fd = 0 /\ use_async_fd' = 128
    BY <1>1 DEF StartJob, PlaceInv, ArTypeOK
  <2> DEFINE h == Bit(InHand # <<>>)    e == Bit(Enabled)
  <2>3. /\ Owed = Len(evQ) + h + 0 + 0 - e /\ Owed' = Len(evQ) + h + 1 + 1 - e
        /\ h \in Int /\ e \in Int
    <3>1. /\ Bit(pc # "idle") = 0 /\ Bit(pc' # "idle") = 1
          /\ Bit(use_async_fd = 128) = 0 /\ Bit(use_async_fd' = 128) = 1
      BY <2>2 DEF Bit
    <3>2. Bit(InHand' # <<>>) = h /\ Bit(Enabled') = e /\ h \in Int /\ e \in Int
      BY <2>1 DEF Bit
    <3>3. Owed = Len(evQ) + h + Bit(pc # "idle") + Bit(use_async_fd = 128) - e
      BY DEF Owed
    <3>4. Owed' = Len(evQ') + Bit(InHand' # <<>>) + Bit(pc' # "idle") + Bit(use_async_fd' = 128) - Bit(Enabled')
      BY DEF Owed, Bit
    <3> QED
      BY <2>1, <3>1, <3>2, <3>3, <3>4
  <2> HIDE DEF h, e
  <2>4. Owed' <= 2 * jobs'
    BY <1>0, <2>1, <2>3 DEF QueueInv
  <2> QED
    BY <2>1, <2>4 DEF QueueInv
<1>2. CASE SendBlock
  <2>1. /\ pc = "write" /\ (use_async_fd = 128 \/ ~Enabled) /\ use_async_fd' = 1
        /\ pc' \in {"skip", "bar"} /\ jobs' = jobs /\ Enabled' /\ event_thread_send(Call(my_func_async))
    BY <1>2 DEF SendBlock, FreeToSend, Enabled
  <2>2. /\ InHand' = InHand /\ (Quiet => (Quiet' <=> evQ' = evQ)) /\ (~Quiet => ~Quiet')
        /\ \/ evQ' = evQ /\ Len(evQ) = QueueSize
           \/ Len(evQ') = Len(evQ) + 1
    BY <1>0, <2>1, Asked, EventSent, QuietSent
  <2> DEFINE h == Bit(InHand # <<>>)    e == Bit(Enabled)    u == Bit(use_async_fd = 128)
             n == Len(evQ)
  <2>3. Owed = n + h + 1 + u - e /\ Owed' = Len(evQ') + h + 1 + 0 - 1
    <3>1. /\ Bit(pc # "idle") = 1 /\ Bit(pc' # "idle") = 1
          /\ Bit(use_async_fd' = 128) = 0 /\ Bit(Enabled') = 1
      BY <2>1 DEF Bit
    <3>2. Bit(InHand' # <<>>) = h
      BY <2>2 DEF Bit
    <3>3. Owed = n + h + Bit(pc # "idle") + u - e
      BY DEF Owed
    <3>4. Owed' = Len(evQ') + Bit(InHand' # <<>>) + Bit(pc' # "idle") + Bit(use_async_fd' = 128) - Bit(Enabled')
      BY DEF Owed, Bit
    <3> QED
      BY <3>1, <3>2, <3>3, <3>4
  <2>5. h \in {0, 1} /\ u - e \in {0, 1}
    BY <2>1 DEF Bit
  <2>6. n < QueueSize
    <3> HIDE DEF h, e, u, n
    <3>1. n + h + 1 + u - e <= QueueSize /\ n \in Nat /\ u \in Int /\ e \in Int
      BY <1>0, <2>3 DEF QueueInv, n, u, e, Bit
    <3> QED
      BY <1>0, <2>5, <3>1
  <2>7. Len(evQ') = n + 1 /\ evQ' # evQ
    BY <1>0, <2>2, <2>6
  <2>8. Owed' <= 2 * jobs'
    <3> HIDE DEF h, e, u, n
    <3>1. n + h + 1 + u - e <= 2 * jobs /\ n \in Nat /\ u \in Int /\ e \in Int
      BY <1>0, <2>3 DEF QueueInv, n, u, e, Bit
    <3>2. Owed' = (n + 1) + h + 1 + 0 - 1
      BY <2>3, <2>7
    <3> QED
      BY <1>0, <2>1, <2>5, <3>1, <3>2
  <2> QED
    BY <2>2, <2>7, <2>8 DEF QueueInv
<1>3. CASE JobEndsAtOnce \/ JobEndsAfterWait
  <2>1. /\ pc # "idle" /\ pc' = "idle" /\ use_async_fd' = 0 /\ jobs' = jobs /\ (Enabled' <=> Enabled)
        /\ event_thread_send(Call(NULL))
    BY <1>3 DEF JobEndsAtOnce, JobEndsAfterWait, Finishes, Enabled
  <2>2. /\ InHand' = InHand /\ (Quiet' <=> Quiet)
        /\ Len(evQ') = Len(evQ) \/ Len(evQ') = Len(evQ) + 1
    BY <1>0, <2>1, Asked, EventSent, QuietSent
  <2> DEFINE h == Bit(InHand # <<>>)    e == Bit(Enabled)    u == Bit(use_async_fd = 128)
             n == Len(evQ)
  <2>3. Owed = n + h + 1 + u - e /\ Owed' = Len(evQ') + h + 0 + 0 - e
    <3>1. /\ Bit(pc # "idle") = 1 /\ Bit(pc' # "idle") = 0
          /\ Bit(use_async_fd' = 128) = 0 /\ Bit(Enabled') = e
      BY <2>1 DEF Bit
    <3>2. Bit(InHand' # <<>>) = h
      BY <2>2 DEF Bit
    <3>3. Owed = n + h + Bit(pc # "idle") + u - e
      BY DEF Owed
    <3>4. Owed' = Len(evQ') + Bit(InHand' # <<>>) + Bit(pc' # "idle") + Bit(use_async_fd' = 128) - Bit(Enabled')
      BY DEF Owed, Bit
    <3> QED
      BY <3>1, <3>2, <3>3, <3>4
  <2>4. h \in {0, 1} /\ u \in {0, 1} /\ e \in {0, 1}
    BY DEF Bit
  <2>5. Owed' <= 2 * jobs'
    <3>1. Owed <= 2 * jobs
      BY DEF QueueInv
    <3>2. n \in Nat /\ Len(evQ') \in {n, n + 1} /\ jobs' = jobs /\ jobs \in Nat
      BY <1>0, <2>1, <2>2
    <3> HIDE DEF h, e, u, n
    <3> QED
      BY <2>3, <2>4, <3>1, <3>2
  <2> QED
    BY <2>1, <2>2, <2>5 DEF QueueInv
<1>4. CASE UNCHANGED <<evs, jobs, use_async_fd, v>> /\ pc # "idle"
  <2>1. /\ UNCHANGED <<init, evQ, event_thread_working, wpc, event>>
        /\ Quiet' = Quiet /\ InHand' = InHand /\ (Enabled' <=> Enabled)
    BY <1>4, QueueKept DEF Enabled
  <2>2. Len(evQ') + Bit(InHand' # <<>>) - Bit(Enabled') <= Len(evQ) + Bit(InHand # <<>>) - Bit(Enabled)
    BY <1>0, <2>1 DEF Bit
  <2>3. Bit(pc' # "idle") + Bit(use_async_fd' = 128) <= Bit(pc # "idle") + Bit(use_async_fd = 128)
    BY <1>4 DEF Bit
  <2>4. Owed' <= 2 * jobs'
    BY <1>0, <1>4, <2>1, <2>2, <2>3, OwedKept
  <2> QED
    BY <2>1, <2>4 DEF QueueInv
<1> QED
  BY <1>1, <1>2, <1>3, <1>4
  DEF Main, At, NextItem, FolderFails, PartsEnd, PartsEndTooSoon, PartOpens, PartFails, ReadBlock,
      ReadNothing, SendFails, DrawBar, NotCancelled, Cancelled, CancelWaits, NextFile, DeleteSource,
      KeepSource, ItemEnds, JobWaits

\* QueueInv holds first, and every step keeps it.
LEMMA QueueInvInductive ==
  ASSUME 2 * MaxJobs <= QueueSize
  PROVE  (Init => QueueInv) /\ (QueueInv /\ ArInv /\ ArInv' /\ [Next]_vars => QueueInv')
<1>1. ASSUME Init PROVE QueueInv
  <2>1. ~Enabled /\ Owed = 0 /\ jobs = 0
    BY <1>1 DEF Init, EvStarted, Enabled, InHand, Owed, Bit
  <2> QED
    BY <2>1 DEF QueueInv
<1>2. ASSUME QueueInv, ArInv, ArInv', Next PROVE QueueInv'
  <2>1. PlaceInv /\ WorkerInv /\ PlaceInv'
    BY <1>2 DEF ArInv
  <2> QED
    BY <1>2, <2>1, MainQueue, EventQueue DEF Next
<1>3. ASSUME QueueInv, UNCHANGED vars PROVE QueueInv'
  BY <1>3 DEF QueueInv, Owed, Enabled, Quiet, InHand, Bit, vars, evs
<1> QED
  BY <1>1, <1>2, <1>3

\* CopiesAreSound, while the queue has room for two events of every job (the
\* block that it does not wait for, and the empty call that ends it): blocks
\* in order, success that loses a last block at most, no file left open.
THEOREM CopiesStaySound ==
  ASSUME 2 * MaxJobs <= QueueSize
  PROVE  Spec => []CopiesAreSound
<1>1. Init => QueueInv
  BY QueueInvInductive
<1>2. QueueInv /\ ArInv /\ ArInv' /\ [Next]_vars => QueueInv'
  BY QueueInvInductive
<1>3. Spec => []QueueInv
  BY <1>1, <1>2, ArchiveInvariant, PTL DEF Spec
<1>4. ArInv /\ QueueInv => CopiesAreSound
  <2>1. SUFFICES ASSUME ArInv, QueueInv PROVE CopiesAreSound
    OBVIOUS
  <2>2. OnlyEmptyAndJoinedStayOpen
    <3>1. SUFFICES ASSUME pc = "idle", ok, odd = {}, Quiet, NEW o \in DOMAIN outs, outs[o].open
                   PROVE  outs[o].want = 0 \/ Joined(outs[o])
      BY DEF OnlyEmptyAndJoinedStayOpen
    <3>2. ~Closes(o) /\ ~Opening
      BY <2>1, <3>1 DEF QueueInv, Closes, Opening
    <3> QED
      BY <2>1, <3>1, <3>2 DEF ArInv, JobInv, OpenInv
  <2>3. SuccessLosesAtMostTheLastBlock
    BY <2>1, SuccessIsWritten
  <2> QED
    BY <2>1, <2>2, <2>3 DEF CopiesAreSound, ArInv, PlaceInv, JobInv, BlocksInOrder
<1> QED
  BY <1>3, <1>4, ArchiveInvariant, PTL
=============================================================================
