--------------------------- MODULE TransfersProofs ---------------------------
(***************************************************************************)
(* Theorems about the transfers (Transfers): packages, covers and memory   *)
(* cards, for all plans, packages, games, cards and lengths of the queue,  *)
(* and any number of stops and saves.                                      *)
(***************************************************************************)
EXTENDS Transfers, TLAPS

-----------------------------------------------------------------------------
(* The invariant.                                                          *)

CoverTasks == {"cover", "covers"}
TaskNames == {"packages", "cover", "covers", "launch", "scan"}
LoopPlaces == {"recv", "write", "bar"}
EndPlaces == {"err", "errWait", "close"}
Transferring == {"setup"} \cup LoopPlaces \cup EndPlaces \cup {"after"}

Contents == Seq(Block) \cup {NULL}
TypeInv ==
  /\ TrTypeOK
  /\ task \in TaskNames \cup {"none"} /\ n \in Nat \ {0} /\ tasks \in Seq(TaskNames)
  /\ t \in [kind : {"none", "update", "file", "copy"}, to : Files, data : Seq(Block)]
  /\ v \in [flags : SUBSET {"ENABLE", "ERROR"}, mem : Block \cup {NULL}, open : BOOLEAN]
  /\ w \in [at : {"check", "write", "end"}, flags : SUBSET {"ENABLE", "ERROR"}]
  /\ disk \in [Files -> Contents] /\ why \in [Files -> SUBSET Why]
  /\ newest \in 1 .. MaxSaves

(* Where the tasks are, and what they transfer.                            *)
TaskInv ==
  /\ pc = "package" => task = "packages"
  /\ pc \in {"cover", "ask", "replace", "next"} => task \in CoverTasks
  /\ pc \in {"launch", "play"} => task = "launch"
  /\ task \in CoverTasks => n \in 1 .. Games
  /\ pc \in {"ask", "replace"} => t.to = Tmp

PackageTransfer ==
  /\ task = "packages" /\ t.kind = "update"
  /\ n \in DOMAIN Packages /\ t.to = Pkg(n) /\ t.data = Blocks(Pkg(n), Packages[n])
PageTransfer == task \in CoverTasks /\ t.kind = "file" /\ t.to = Page /\ t.data = Html
PictureTransfer ==
  /\ task \in CoverTasks /\ t.kind = "file"
  /\ t.to \in {Cover(n), Tmp} /\ t.data \in {Picture(n), Html}
CardTransfer ==
  /\ t.kind = "copy"
  /\ \/ task = "launch" /\ t.to = HddCard
     \/ task = "scan" /\ t.to = UsbCard
  /\ t.data = disk[OtherCard(t.to)] /\ ~Absent(OtherCard(t.to))
TransferInv ==
  pc \in Transferring => PackageTransfer \/ PageTransfer \/ PictureTransfer \/ CardTransfer

(* The block in my_f_async belongs to the transfer that is under way.      *)
WorkerInv ==
  /\ wpc \in {"run", "clear"} => event_thread_working = 1
  /\ w.at # "check" => wpc = "run" /\ Enabled
  /\ w.at = "write" => w.flags = {"ENABLE"}
  /\ w.at = "end" => "ENABLE" \in w.flags
  /\ v.flags \in {{}, {"ENABLE"}, {"ERROR"}}
  /\ Enabled => pc \in LoopPlaces \cup {"err", "errWait"} /\ fp # "none" /\ use_async_fd = 1
  /\ Enabled /\ w.at # "end" => v.mem = t.data[pos]

(* The loop, and what its end finds.                                       *)
LoopInv ==
  /\ fp # "none" => pc \in LoopPlaces \cup EndPlaces /\ ~Absent(t.to)
  /\ pc \in LoopPlaces => ret = "ok"
  /\ pc = "setup" => pos = 0 /\ ret = "ok"
  /\ pc = "write" => pos < Len(t.data)
  /\ pc \in EndPlaces /\ fp = "none" /\ t.kind = "copy" => ret # "ok"
  /\ fp = "closed" => ret = "error"
  /\ pc \in LoopPlaces \cup EndPlaces => (use_async_fd = 128 => pos = 0 /\ v.flags = {})
  /\ use_async_fd = 1 /\ fp # "none" => pos > 0

(* The file of the transfer holds the blocks handed over; the last of them *)
(* is missing while it is not written, and when it failed or slipped.      *)
Missed(what) == what \in why[t.to] /\ (IsCard(t.to) => odd # {})
Unwritten ==
  /\ use_async_fd = 1
  /\ IF Enabled THEN w.at # "end" \/ "ERROR" \in w.flags
     ELSE Failed \/ (pc = "close" /\ (fp = "closed" \/ Missed("slipped")))
FileInv ==
  fp # "none" =>
    /\ disk[t.to] = SubSeq(t.data, 1, pos) \/ (disk[t.to] = SubSeq(t.data, 1, pos - 1) /\ Unwritten)
    /\ Enabled /\ w.at # "end" => disk[t.to] = SubSeq(t.data, 1, pos - 1)
    /\ pc \in EndPlaces /\ ret = "ok" => pos = Len(t.data) \/ Missed("cut")
    /\ t.kind = "copy" => why[OtherCard(t.to)] \subseteq why[t.to]

(* Every other file is settled, and so is that of a transfer when it is    *)
(* over, but for a page that was taken for a picture.                      *)
Settled(f) == Absent(f) \/ Whole(f) \/ why[f] # {}
PageForPicture == IsPicture /\ ret = "ok" /\ disk[t.to] = Html
SettledInv == \A f \in Files : Settled(f) \/ (f = t.to /\ (fp # "none" \/ PageForPicture))

(* The cards. While nothing odd has happened to the save, the card on the  *)
(* hard disk is the newest when there is one, unless it is being made.     *)
Newest(f) == disk[f] = Card(newest)
Copying == pc \in Transferring /\ t.kind = "copy"
MakingHdd == Copying /\ t.to = HddCard
MakingUsb == Copying /\ t.to = UsbCard
CopyInv ==
  Copying =>
    /\ Absent(t.to) \/ \E k \in 0 .. Len(t.data) : disk[t.to] = SubSeq(t.data, 1, k)
    /\ pc = "after" /\ ret = "ok" /\ odd = {} => disk[t.to] = t.data
SaveInv ==
  odd = {} =>
    /\ ~MakingHdd /\ ~Absent(HddCard) => Newest(HddCard)
    /\ MakingHdd \/ Absent(HddCard) => Newest(UsbCard)
    /\ pc \notin {"boot", "play"} /\ ~Copying => Absent(HddCard) \/ Absent(UsbCard)

TrInv ==
  /\ TypeInv /\ TaskInv /\ TransferInv /\ WorkerInv /\ LoopInv
  /\ FileInv /\ BlocksInOrder /\ SettledInv /\ CopyInv /\ SaveInv

-----------------------------------------------------------------------------
(* The files, and what they are copies of.                                 *)

\* No file is missing and there at once.
LEMMA NullIsNoFile == \A c \in Seq(Block) : c # NULL
  BY TransfersAssumption

\* The first components of the names tell the kinds of files apart.
LEMMA Names ==
  /\ \A i \in DOMAIN Packages : Pkg(i) \in Files /\ Pkg(i)[1] = "pkg" /\ Pkg(i)[2] = i /\ ~IsCard(Pkg(i))
  /\ \A g \in 1 .. Games : Cover(g) \in Files /\ Cover(g)[1] = "cover" /\ ~IsCard(Cover(g))
  /\ Tmp \in Files /\ Tmp[1] = "tmp" /\ ~IsCard(Tmp)
  /\ Page \in Files /\ Page[1] = "page" /\ ~IsCard(Page)
  /\ UsbCard \in Files /\ HddCard \in Files /\ UsbCard # HddCard
  /\ OtherCard(UsbCard) = HddCard /\ OtherCard(HddCard) = UsbCard
  /\ Page # Tmp /\ \A g \in 1 .. Games : Page # Cover(g) /\ Tmp # Cover(g)
  BY DEF Files, Pkg, Cover, Tmp, Page, UsbCard, HddCard, IsCard, OtherCard

\* The blocks of a source, in order.
LEMMA BlocksFacts ==
  ASSUME NEW of \in {"pkg", "picture", "page", "card"} \X Nat, NEW count \in Nat
  PROVE  /\ Blocks(of, count) \in Seq(Block) /\ Len(Blocks(of, count)) = count
         /\ \A i \in 1 .. count : Blocks(of, count)[i] = [of |-> of, n |-> i]
         /\ InOrder(Blocks(of, count))
<1>1. \A i \in 1 .. count : [of |-> of, n |-> i] \in Block
  BY DEF Block
<1> QED
  BY <1>1 DEF Blocks, InOrder

\* What is transferred: pictures, pages, cards and packages.
LEMMA Sources ==
  /\ \A i \in DOMAIN Packages : Blocks(Pkg(i), Packages[i]) \in Seq(Block) /\ InOrder(Blocks(Pkg(i), Packages[i]))
  /\ \A g \in Nat : Picture(g) \in Seq(Block) /\ InOrder(Picture(g))
  /\ Html \in Seq(Block) /\ InOrder(Html) /\ Html # <<>> /\ Html[1].of[1] = "page"
  /\ \A save \in Nat : Card(save) \in Seq(Block) /\ InOrder(Card(save)) /\ Len(Card(save)) = CardBlocks
<1>1. ASSUME NEW i \in DOMAIN Packages
      PROVE  Blocks(Pkg(i), Packages[i]) \in Seq(Block) /\ InOrder(Blocks(Pkg(i), Packages[i]))
  <2>1. Pkg(i) \in {"pkg", "picture", "page", "card"} \X Nat /\ Packages[i] \in Nat
    BY TransfersAssumption DEF Pkg
  <2> QED
    BY <2>1, BlocksFacts
<1>2. ASSUME NEW g \in Nat PROVE Picture(g) \in Seq(Block) /\ InOrder(Picture(g))
  <2>1. <<"picture", g>> \in {"pkg", "picture", "page", "card"} \X Nat
    OBVIOUS
  <2> QED
    BY <2>1, BlocksFacts DEF Picture
<1>3. Html \in Seq(Block) /\ InOrder(Html) /\ Html # <<>> /\ Html[1].of[1] = "page"
  <2>1. Page \in {"pkg", "picture", "page", "card"} \X Nat /\ Page[1] = "page"
    BY DEF Page
  <2>2. /\ Blocks(Page, 1) \in Seq(Block) /\ Len(Blocks(Page, 1)) = 1
        /\ \A i \in 1 .. 1 : Blocks(Page, 1)[i] = [of |-> Page, n |-> i]
        /\ InOrder(Blocks(Page, 1))
    BY <2>1, BlocksFacts
  <2> QED
    BY <2>1, <2>2 DEF Html
<1>4. ASSUME NEW save \in Nat
      PROVE  Card(save) \in Seq(Block) /\ InOrder(Card(save)) /\ Len(Card(save)) = CardBlocks
  <2>1. <<"card", save>> \in {"pkg", "picture", "page", "card"} \X Nat /\ CardBlocks \in Nat
    BY TransfersAssumption
  <2> QED
    BY <2>1, BlocksFacts DEF Card
<1> QED
  BY <1>1, <1>2, <1>3, <1>4

\* The beginning of a sequence in order is in order.
LEMMA PrefixInOrder ==
  ASSUME NEW s \in Seq(Block), NEW k \in 0 .. Len(s)
  PROVE  /\ SubSeq(s, 1, k) \in Seq(Block) /\ Len(SubSeq(s, 1, k)) = k
         /\ InOrder(s) => InOrder(SubSeq(s, 1, k))
         /\ \A m \in 0 .. k : SubSeq(SubSeq(s, 1, k), 1, m) = SubSeq(s, 1, m)
         /\ k = Len(s) => SubSeq(s, 1, k) = s
         /\ k > 0 => SubSeq(s, 1, k) = Append(SubSeq(s, 1, k - 1), s[k])
<1>1. SubSeq(s, 1, k) \in Seq(Block) /\ Len(SubSeq(s, 1, k)) = k
  OBVIOUS
<1>2. \A i \in 1 .. k : SubSeq(s, 1, k)[i] = s[i]
  OBVIOUS
<1>3. InOrder(s) => InOrder(SubSeq(s, 1, k))
  BY <1>1, <1>2 DEF InOrder
<1>4. ASSUME NEW m \in 0 .. k PROVE SubSeq(SubSeq(s, 1, k), 1, m) = SubSeq(s, 1, m)
  BY <1>1, <1>2
<1>5. k = Len(s) => SubSeq(s, 1, k) = s
  BY <1>1, <1>2
<1>6. k > 0 => SubSeq(s, 1, k) = Append(SubSeq(s, 1, k - 1), s[k])
  OBVIOUS
<1> QED
  BY <1>1, <1>3, <1>4, <1>5, <1>6

-----------------------------------------------------------------------------
(* Types.                                                                  *)

\* The functions of the event thread keep its types.
LEMMA EvStep == TrInv /\ Next => EvTypeOK'
<1>1. SUFFICES ASSUME TrInv, Next PROVE EvTypeOK'
  OBVIOUS
<1>2. EvTypeOK
  BY <1>1 DEF TrInv, TypeInv, TrTypeOK
<1>3. Call(my_func_async) \in Event /\ Call(NULL) \in Event /\ Exit \in Event
  BY TransfersAssumption DEF Call, Exit, Event
<1>4. ASSUME UNCHANGED evs PROVE EvTypeOK'
  BY <1>2, <1>4 DEF evs, EvTypeOK
<1>5. ASSUME NEW e \in Event, event_thread_send(e) PROVE EvTypeOK'
  BY <1>2, <1>5, QueueSizeAssumption DEF event_thread_send, EvTypeOK, CanSend
<1>6. ASSUME Receive \/ Dispatch \/ Return \/ Clear PROVE EvTypeOK'
  BY <1>2, <1>6, QueueSizeAssumption DEF Receive, Dispatch, Return, Clear, EvTypeOK, WorkerPlaces
<1>7. ASSUME Fresh PROVE EvTypeOK'
  BY <1>3, <1>7, QueueSizeAssumption DEF Fresh, EvTypeOK, WorkerPlaces
<1>8. CASE StartTask
  BY <1>4, <1>8 DEF StartTask
<1>9. CASE Setup \/ Loop \/ Err \/ ErrWaits \/ Close
  BY <1>3, <1>4, <1>5, <1>9
     DEF Loop, Setup, Calls, RecvBlock, RecvEnd, RecvFails, SendFails, SendBlock, DrawBar, Err, ErrWaits, Close
<1>10. CASE \/ NextPackage \/ PackageEnds \/ StartCover \/ PageAgain \/ PageRead \/ PageMissing
            \/ PictureBad \/ PictureGood \/ Choose \/ Replace \/ NextCover
  BY <1>4, <1>10
     DEF Stays, NextPackage, PackageEnds, StartCover, PageAgain, PageRead, PageMissing, PictureBad,
         PictureGood, Choose, Replace, NextCover
<1>11. CASE MakeCard \/ LaunchWithout \/ LaunchCopies \/ LaunchEnds \/ Scan \/ ScanEnds
  BY <1>4, <1>11 DEF Stays, MakeCard, LaunchWithout, LaunchCopies, LaunchEnds, Scan, ScanEnds
<1>12. CASE Worker
  BY <1>4, <1>6, <1>12 DEF Worker, AsyncChecks, AsyncWrites, AsyncEnds
<1>13. CASE Play \/ Crash
  BY <1>7, <1>13 DEF Play, Crash
<1> QED
  BY <1>1, <1>8, <1>9, <1>10, <1>11, <1>12, <1>13 DEF Next, Main

\* The beginning of a transfer.
LEMMA StartTransferType ==
  ASSUME TypeInv, NEW kind \in {"update", "file", "copy"}, NEW to \in Files, NEW data \in Seq(Block),
         StartTransfer(kind, to, data)
  PROVE  /\ pc' = "setup" /\ t' \in [kind : {"none", "update", "file", "copy"}, to : Files, data : Seq(Block)]
         /\ t'.kind = kind /\ t'.to = to /\ t'.data = data
         /\ pos' = 0 /\ pos' \in 0 .. Len(t'.data) /\ ret' = "ok" /\ fp' = "none" /\ use_async_fd' = use_async_fd
  BY DEF StartTransfer, At

\* A file that was removed is missing, and the others are as before.
LEMMA UnlinkedFacts ==
  ASSUME disk \in [Files -> Contents], why \in [Files -> SUBSET Why], NEW f \in Files, Unlinked(f)
  PROVE  /\ disk' \in [Files -> Contents] /\ why' \in [Files -> SUBSET Why]
         /\ disk'[f] = NULL /\ why'[f] = {}
         /\ \A g \in Files \ {f} : disk'[g] = disk[g] /\ why'[g] = why[g]
  BY DEF Unlinked, Contents

\* What is noted of a file is noted of no other.
LEMMA HappenedFacts ==
  ASSUME why \in [Files -> SUBSET Why], NEW f \in Files, NEW what \in Why, Happened(f, what)
  PROVE  /\ why' \in [Files -> SUBSET Why]
         /\ why'[f] = why[f] \cup {what} /\ \A g \in Files \ {f} : why'[g] = why[g]
         /\ what \in why'[f] /\ why[f] \subseteq why'[f] /\ odd \subseteq odd'
         /\ IsCard(f) /\ what # "kept" => odd' # {}
<1>1. why' = [why EXCEPT ![f] = @ \cup {what}]
  BY DEF Happened
<1>2. odd' = IF IsCard(f) /\ what # "kept" THEN odd \cup {what} ELSE odd
  BY DEF Happened
<1>3. odd \subseteq odd' /\ (IsCard(f) /\ what # "kept" => odd' # {})
  BY <1>2
<1> QED
  BY <1>1, <1>3

\* The files and the games of the tasks in hand.
LEMMA FilesInHand ==
  ASSUME TypeInv, TaskInv
  PROVE  /\ task \in CoverTasks => Cover(n) \in Files /\ Picture(n) \in Seq(Block)
         /\ n \in DOMAIN Packages => Pkg(n) \in Files /\ Blocks(Pkg(n), Packages[n]) \in Seq(Block)
         /\ n <= Len(Packages) => n \in DOMAIN Packages
         /\ \A f \in Files : ~Absent(f) => disk[f] \in Seq(Block)
<1>1. task \in CoverTasks => n \in 1 .. Games /\ n \in Nat
  BY TransfersAssumption DEF TypeInv, TaskInv
<1>2. task \in CoverTasks => Cover(n) \in Files /\ Picture(n) \in Seq(Block)
  BY <1>1, Names, Sources
<1>3. n \in DOMAIN Packages => Pkg(n) \in Files /\ Blocks(Pkg(n), Packages[n]) \in Seq(Block)
  BY Names, Sources
<1>4. n <= Len(Packages) => n \in DOMAIN Packages
  BY TransfersAssumption DEF TypeInv
<1>5. \A f \in Files : ~Absent(f) => disk[f] \in Seq(Block)
  BY DEF TypeInv, Contents, Absent
<1> QED
  BY <1>2, <1>3, <1>4, <1>5

\* A page is only loaded for a cover, a card only copied for a game.
LEMMA PageTasks ==
  ASSUME TransferInv, pc \in Transferring
  PROVE  /\ t.to = Page => task \in CoverTasks
         /\ t.to = Page => t.kind = "file"
<1>1. Page[1] = "page" /\ Page # HddCard /\ Page # UsbCard
  BY DEF Page, HddCard, UsbCard
<1>2. \A i \in DOMAIN Packages : Pkg(i) # Page
  BY DEF Page, Pkg
<1> QED
  BY <1>1, <1>2 DEF TransferInv, PackageTransfer, PageTransfer, PictureTransfer, CardTransfer

\* TypeInv, apart from the event thread, which EvStep treats.
Places ==
  {"boot", "idle", "package", "cover", "setup", "recv", "write", "bar", "err", "errWait", "close",
   "after", "launch", "ask", "replace", "next", "play"}
ControlTypes ==
  /\ pc \in Places /\ ret \in {"ok", "error", "cancelled"} /\ fp \in {"none", "open", "closed"}
  /\ (pc \in {"recv", "write", "bar"} => fp = "open")
  /\ task \in TaskNames \cup {"none"} /\ n \in Nat \ {0} /\ tasks \in Seq(TaskNames)
  /\ progress_action \in {0, 2} /\ use_async_fd \in {1, 128}
TransferTypes ==
  /\ t \in [kind : {"none", "update", "file", "copy"}, to : Files, data : Seq(Block)]
  /\ pos \in 0 .. Len(t.data)
BlockTypes ==
  /\ v \in [flags : SUBSET {"ENABLE", "ERROR"}, mem : Block \cup {NULL}, open : BOOLEAN]
  /\ w \in [at : {"check", "write", "end"}, flags : SUBSET {"ENABLE", "ERROR"}]
DiskTypes ==
  /\ disk \in [Files -> Contents] /\ why \in [Files -> SUBSET Why]
  /\ (pc = "recv" => ~Absent(t.to)) /\ newest \in 1 .. MaxSaves

\* TypeInv, in these parts.
LEMMA TypeParts == TypeInv <=> EvTypeOK /\ ControlTypes /\ TransferTypes /\ BlockTypes /\ DiskTypes
  BY DEF TypeInv, TrTypeOK, ControlTypes, TransferTypes, BlockTypes, DiskTypes, Places

\* The same of the next state.
LEMMA TypePartsNext ==
  EvTypeOK' /\ ControlTypes' /\ TransferTypes' /\ BlockTypes' /\ DiskTypes' => TypeInv'
  BY DEF TypeInv, TrTypeOK, ControlTypes, TransferTypes, BlockTypes, DiskTypes, Places

\* Every step keeps the types.
LEMMA TypeStep == TrInv /\ Next => TypeInv'
<1>1. SUFFICES ASSUME TrInv, Next PROVE TypeInv'
  OBVIOUS
<1>2. EvTypeOK'
  BY <1>1, EvStep
<1>3. TypeInv /\ TaskInv /\ LoopInv
  BY <1>1 DEF TrInv
<1>4. ControlTypes /\ TransferTypes /\ BlockTypes /\ DiskTypes
  BY <1>3, TypeParts
<1> DEFINE T == ControlTypes' /\ TransferTypes' /\ BlockTypes' /\ DiskTypes'
<1>5. SUFFICES T
  BY <1>2, TypePartsNext
<1>6. TransferTypes /\ UNCHANGED <<t, pos>> => TransferTypes'
  BY DEF TransferTypes
<1>7. UNCHANGED <<v, w>> => BlockTypes'
  BY <1>4 DEF BlockTypes
<1>8. UNCHANGED <<disk, why, newest>> /\ (pc' = "recv" => ~Absent(t.to) /\ t' = t) => DiskTypes'
  BY <1>4 DEF DiskTypes, Absent
<1>9. CASE StartTask
  <2>1. task' \in TaskNames /\ tasks' \in Seq(TaskNames)
    BY <1>4, <1>9 DEF StartTask, ControlTypes
  <2>2. ControlTypes'
    BY <1>4, <1>9, <2>1 DEF StartTask, ControlTypes, TaskNames, At, Places, transfer
  <2>3. TransferTypes'
    BY <1>4, <1>6, <1>9 DEF StartTask, transfer
  <2>4. BlockTypes'
    BY <1>7, <1>9 DEF StartTask
  <2>5. pc' # "recv"
    BY <1>9, <2>1 DEF StartTask, At, TaskNames
  <2>6. DiskTypes'
    BY <1>8, <1>9, <2>5 DEF StartTask
  <2> QED
    BY <2>2, <2>3, <2>4, <2>6
<1>10. CASE Setup
  <2>1. t.to \in Files /\ OtherCard(t.to) \in Files
    BY <1>4, Names DEF TransferTypes, OtherCard
  <2>2. ControlTypes' /\ TransferTypes'
    BY <1>4, <1>10 DEF Setup, Calls, bounds, ControlTypes, TransferTypes, At, Places
  <2>3. BlockTypes'
    BY <1>4, <1>10 DEF Setup, Calls, BlockTypes
  <2>4. <<>> \in Contents /\ <<>> # NULL
    <3>1. <<>> \in Seq(Block)
      OBVIOUS
    <3> QED
      BY <3>1, NullIsNoFile DEF Contents
  <2>5. DiskTypes'
    BY <1>4, <1>10, <2>1, <2>4 DEF Setup, Calls, DiskTypes, At, Absent, Why
  <2> QED
    BY <2>2, <2>3, <2>5
<1>11. CASE RecvBlock \/ RecvEnd \/ RecvFails \/ DrawBar \/ Err
  <2>1. why' \in [Files -> SUBSET Why]
    BY <1>4, <1>11, HappenedFacts
       DEF RecvBlock, RecvEnd, RecvFails, DrawBar, Err, DiskTypes, TransferTypes, Why
  <2>2. ControlTypes' /\ TransferTypes'
    BY <1>4, <1>11
       DEF RecvBlock, RecvEnd, RecvFails, DrawBar, Err, Keeps, bounds, ControlTypes, TransferTypes, At, Places
  <2>3. BlockTypes'
    BY <1>4, <1>11 DEF RecvBlock, RecvEnd, RecvFails, DrawBar, Err, BlockTypes
  <2>4. ~Absent(t.to) \/ pc' # "recv"
    BY <1>3, <1>4, <1>11
       DEF RecvBlock, RecvEnd, RecvFails, DrawBar, Err, LoopInv, ControlTypes, At
  <2>5. DiskTypes'
    BY <1>4, <1>11, <2>1, <2>4
       DEF RecvBlock, RecvEnd, RecvFails, DrawBar, Err, Keeps, bounds, DiskTypes, Absent
  <2> QED
    BY <2>2, <2>3, <2>5
<1>12. CASE SendFails \/ ErrWaits
  <2>1. why' \in [Files -> SUBSET Why]
    BY <1>4, <1>12, HappenedFacts DEF SendFails, ErrWaits, KeepsPart, DiskTypes, TransferTypes, Why
  <2>2. ControlTypes' /\ TransferTypes'
    BY <1>4, <1>12
       DEF SendFails, ErrWaits, KeepsPart, Keeps, bounds, ControlTypes, TransferTypes, At, Places
  <2>3. BlockTypes'
    BY <1>4, <1>12 DEF SendFails, ErrWaits, BlockTypes, Failed
  <2>4. DiskTypes'
    BY <1>4, <1>12, <2>1 DEF SendFails, ErrWaits, At, Keeps, bounds, DiskTypes, Absent
  <2> QED
    BY <2>2, <2>3, <2>4
<1>13. CASE SendBlock
  <2>1. pos \in 0 .. Len(t.data) - 1 /\ t.data[pos + 1] \in Block
    BY <1>3, <1>4, <1>13 DEF SendBlock, LoopInv, TransferTypes
  <2>2. ControlTypes'
    BY <1>4, <1>13 DEF SendBlock, Keeps, bounds, ControlTypes, At, Places
  <2>3. TransferTypes'
    BY <1>4, <1>13, <2>1 DEF SendBlock, Keeps, TransferTypes
  <2>4. BlockTypes'
    BY <1>4, <1>13, <2>1 DEF SendBlock, BlockTypes
  <2>5. DiskTypes'
    BY <1>4, <1>13 DEF SendBlock, Keeps, bounds, DiskTypes, At
  <2> QED
    BY <2>2, <2>3, <2>4, <2>5
<1>14. CASE Close
  <2>1. Unlinked(t.to) \/ (UNCHANGED disk /\ why' \in [Files -> SUBSET Why])
    BY <1>4, <1>14, HappenedFacts DEF Close, DiskTypes, TransferTypes, Why
  <2>2. disk' \in [Files -> Contents] /\ why' \in [Files -> SUBSET Why]
    BY <1>4, <2>1, UnlinkedFacts DEF DiskTypes, TransferTypes
  <2>3. ControlTypes' /\ TransferTypes'
    BY <1>4, <1>14 DEF Close, Result, bounds, ControlTypes, TransferTypes, At, Places
  <2>4. BlockTypes'
    BY <1>4, <1>14 DEF Close, BlockTypes
  <2>5. DiskTypes'
    BY <1>4, <1>14, <2>2 DEF Close, DiskTypes, At
  <2> QED
    BY <2>3, <2>4, <2>5
<1>15. CASE AsyncChecks \/ AsyncEnds \/ ((Receive \/ Dispatch \/ Clear) /\ Idles /\ UNCHANGED <<v, w, disk>>)
  <2>1. BlockTypes'
    BY <1>4, <1>15 DEF AsyncChecks, AsyncEnds, Lowered, BlockTypes
  <2>2. ControlTypes' /\ TransferTypes' /\ DiskTypes'
    BY <1>4, <1>15
       DEF AsyncChecks, AsyncEnds, Idles, bounds, transfer, ControlTypes, TransferTypes, DiskTypes, Absent
  <2> QED
    BY <2>1, <2>2
<1>16. CASE AsyncWrites
  <2>1. BlockTypes'
    BY <1>4, <1>16 DEF AsyncWrites, BlockTypes
  <2>2. ~Absent(t.to) /\ t.to \in Files
    BY <1>1, <1>4, <1>16 DEF TrInv, AsyncWrites, WorkerInv, LoopInv, TransferTypes
  <2>3. disk[t.to] \in Seq(Block)
    BY <1>4, <2>2 DEF DiskTypes, Contents, Absent
  <2>4. disk' \in [Files -> Contents] /\ disk'[t.to] # NULL
    <3>1. CASE UNCHANGED disk
      BY <1>4, <2>2, <3>1 DEF DiskTypes, Absent
    <3>2. CASE v.mem # NULL /\ disk' = [disk EXCEPT ![t.to] = Append(@, v.mem)]
      <4>1. v.mem \in Block
        BY <1>4, <3>2 DEF BlockTypes
      <4>2. Append(disk[t.to], v.mem) \in Seq(Block)
        BY <2>3, <4>1
      <4>3. disk'[t.to] = Append(disk[t.to], v.mem)
        BY <1>4, <2>2, <3>2 DEF DiskTypes
      <4> QED
        BY <1>4, <2>2, <3>2, <4>2, <4>3, NullIsNoFile DEF DiskTypes, Contents
    <3> QED
      BY <1>16, <3>1, <3>2 DEF AsyncWrites
  <2>5. ControlTypes' /\ TransferTypes'
    BY <1>4, <1>16 DEF AsyncWrites, Idles, bounds, transfer, ControlTypes, TransferTypes
  <2>6. DiskTypes'
    BY <1>4, <1>16, <2>4 DEF AsyncWrites, Idles, transfer, DiskTypes, Absent
  <2> QED
    BY <2>1, <2>5, <2>6
<1>17. CASE NextPackage \/ PackageEnds
  <2>1. \/ StartTransfer("update", Pkg(n), Blocks(Pkg(n), Packages[n])) /\ n \in DOMAIN Packages /\ UNCHANGED n
        \/ UNCHANGED transfer /\ n' \in Nat \ {0} /\ pc' \in {"package", "idle"}
    BY <1>3, <1>4, <1>17, FilesInHand
       DEF NextPackage, PackageEnds, Rests, At, transfer, ControlTypes
  <2>2. ControlTypes' /\ TransferTypes'
    <3>1. CASE UNCHANGED transfer /\ n' \in Nat \ {0} /\ pc' \in {"package", "idle"}
      BY <1>4, <1>17, <3>1
         DEF NextPackage, PackageEnds, Stays, bounds, transfer, ControlTypes, TransferTypes, Places
    <3>2. CASE StartTransfer("update", Pkg(n), Blocks(Pkg(n), Packages[n])) /\ n \in DOMAIN Packages /\ UNCHANGED n
      BY <1>3, <1>4, <1>17, <3>2, FilesInHand, StartTransferType
         DEF NextPackage, PackageEnds, Stays, bounds, ControlTypes, TransferTypes, Places
    <3> QED
      BY <2>1, <3>1, <3>2
  <2>3. pc' # "recv"
    BY <2>1 DEF StartTransfer, At
  <2> QED
    BY <1>7, <1>8, <1>17, <2>2, <2>3 DEF NextPackage, PackageEnds, Stays
<1>18. CASE StartCover \/ PageAgain
  <2>1. \/ UNCHANGED transfer /\ pc' = "next"
        \/ StartTransfer("file", Page, Html)
    BY <1>18 DEF StartCover, PageAgain, CoverEnds, At
  <2>2. ControlTypes' /\ TransferTypes' /\ pc' # "recv"
    <3>1. CASE UNCHANGED transfer /\ pc' = "next"
      BY <1>4, <1>18, <3>1
         DEF StartCover, PageAgain, Stays, bounds, transfer, ControlTypes, TransferTypes, Places
    <3>2. CASE StartTransfer("file", Page, Html)
      <4>1. Page \in Files /\ Html \in Seq(Block)
        BY Names, Sources
      <4>2. TransferTypes' /\ pc' = "setup" /\ ret' = "ok" /\ fp' = "none" /\ use_async_fd' = use_async_fd
        BY <1>3, <3>2, <4>1, StartTransferType DEF TransferTypes
      <4> QED
        BY <1>4, <1>18, <4>2 DEF StartCover, PageAgain, Stays, bounds, ControlTypes, Places
    <3> QED
      BY <2>1, <3>1, <3>2
  <2> QED
    BY <1>7, <1>8, <1>18, <2>2 DEF StartCover, PageAgain, Stays
<1>19. CASE PageRead \/ PageMissing
  <2>1. \/ UNCHANGED transfer /\ pc' = "next"
        \/ \E to \in {Cover(n), Tmp}, data \in {Picture(n), Html} : StartTransfer("file", to, data)
    BY <1>19 DEF PageRead, PageMissing, CoverEnds, At, FetchPicture
  <2>2. task \in CoverTasks
    BY <1>1, <1>19, PageTasks DEF TrInv, PageRead, PageMissing, Transferring
  <2>3. {Cover(n), Tmp} \subseteq Files /\ {Picture(n), Html} \subseteq Seq(Block)
    BY <1>3, <2>2, Names, Sources, FilesInHand
  <2>4. ControlTypes' /\ TransferTypes' /\ pc' # "recv"
    BY <1>3, <1>4, <1>19, <2>1, <2>3, StartTransferType
       DEF PageRead, PageMissing, Stays, bounds, transfer, ControlTypes, TransferTypes, Places
  <2>5. disk' \in [Files -> Contents] /\ why' \in [Files -> SUBSET Why]
    BY <1>4, <1>19, UnlinkedFacts, Names DEF PageRead, PageMissing, DiskTypes
  <2> QED
    BY <1>4, <1>7, <1>19, <2>4, <2>5 DEF PageRead, PageMissing, Stays, DiskTypes
<1>20. CASE PictureBad \/ PictureGood \/ Choose \/ Replace
  <2>1. UNCHANGED transfer /\ pc' \in {"next", "ask", "replace"}
    BY <1>20 DEF PictureBad, PictureGood, Choose, Replace, CoverEnds, At
  <2>2. ControlTypes' /\ TransferTypes'
    BY <1>4, <1>20, <2>1
       DEF PictureBad, PictureGood, Choose, Replace, Stays, bounds, transfer, ControlTypes, TransferTypes, Places
  <2>3. pc \in {"ask", "replace"} => Cover(n) \in Files
    BY <1>3, FilesInHand DEF TaskInv
  <2>4. disk' \in [Files -> Contents] /\ why' \in [Files -> SUBSET Why]
    <3>1. CASE PictureBad \/ PictureGood \/ Choose
      BY <1>4, <2>3, <3>1, UnlinkedFacts, Names
         DEF PictureBad, PictureGood, Choose, DiskTypes, TransferTypes
    <3>2. CASE Replace
      BY <1>4, <2>3, <3>2, Names DEF Replace, DiskTypes, Contents
    <3> QED
      BY <1>20, <3>1, <3>2
  <2> QED
    BY <1>4, <1>7, <1>20, <2>1, <2>2, <2>4
       DEF PictureBad, PictureGood, Choose, Replace, Stays, DiskTypes
<1>21. CASE NextCover
  <2>1. n' \in Nat \ {0} /\ pc' \in {"cover", "idle"}
    BY <1>4, <1>21 DEF NextCover, At, ControlTypes
  <2> QED
    BY <1>4, <1>6, <1>7, <1>8, <1>21, <2>1 DEF NextCover, transfer, bounds, ControlTypes, Places
<1>22. CASE MakeCard \/ LaunchWithout
  <2>1. ControlTypes' /\ TransferTypes' /\ pc' # "recv"
    BY <1>4, <1>22 DEF MakeCard, LaunchWithout, Stays, bounds, At, ControlTypes, TransferTypes, Places
  <2>2. Card(0) \in Contents
    BY Sources DEF Contents
  <2>3. disk' \in [Files -> Contents] /\ why' \in [Files -> SUBSET Why]
    BY <1>4, <1>22, <2>2, Names DEF MakeCard, LaunchWithout, DiskTypes
  <2> QED
    BY <1>4, <1>7, <1>22, <2>1, <2>3 DEF MakeCard, LaunchWithout, Stays, DiskTypes
<1>23. CASE LaunchCopies \/ (Scan /\ ~Absent(HddCard))
  <2>1. \/ StartTransfer("copy", HddCard, disk[UsbCard]) /\ ~Absent(UsbCard)
        \/ StartTransfer("copy", UsbCard, disk[HddCard]) /\ ~Absent(HddCard)
    BY <1>23 DEF LaunchCopies, Scan
  <2>2. ControlTypes' /\ TransferTypes' /\ pc' # "recv"
    BY <1>3, <1>4, <1>23, <2>1, Names, FilesInHand, StartTransferType
       DEF LaunchCopies, Scan, Stays, bounds, ControlTypes, TransferTypes, Places, TaskNames
  <2>3. disk' \in [Files -> Contents] /\ why' \in [Files -> SUBSET Why]
    BY <1>4, <1>23, UnlinkedFacts, Names DEF LaunchCopies, Scan, DiskTypes
  <2> QED
    BY <1>4, <1>7, <1>23, <2>2, <2>3 DEF LaunchCopies, Scan, Stays, DiskTypes
<1>24. CASE LaunchEnds \/ ScanEnds \/ (Scan /\ Absent(HddCard))
  <2>1. ControlTypes' /\ TransferTypes' /\ pc' # "recv"
    BY <1>4, <1>24
       DEF LaunchEnds, ScanEnds, Scan, Rests, Stays, bounds, transfer, At, ControlTypes, TransferTypes, Places,
           TaskNames
  <2>2. \/ UNCHANGED <<disk, why>> \/ Unlinked(HddCard) \/ Unlinked(UsbCard)
    BY <1>24 DEF LaunchEnds, ScanEnds, Scan, RemovesCard
  <2>3. disk' \in [Files -> Contents] /\ why' \in [Files -> SUBSET Why]
    BY <1>4, <2>2, UnlinkedFacts, Names DEF DiskTypes
  <2> QED
    BY <1>4, <1>7, <1>24, <2>1, <2>3 DEF LaunchEnds, ScanEnds, Scan, Stays, DiskTypes
<1>25. CASE Play \/ Crash
  <2>1. ControlTypes' /\ TransferTypes' /\ BlockTypes' /\ pc' = "boot"
    <3>1. Fresh /\ UNCHANGED tasks
      BY <1>25 DEF Play, Crash, bounds
    <3>2. ControlTypes' /\ pc' = "boot"
      BY <1>4, <3>1 DEF Fresh, At, ControlTypes, Places, TaskNames
    <3>3. <<>> \in Seq(Block) /\ Len(<<>>) = 0
      OBVIOUS
    <3>4. TransferTypes'
      BY <3>1, <3>3, Names DEF Fresh, NoTransfer, TransferTypes
    <3>5. BlockTypes'
      BY <3>1 DEF Fresh, BlockTypes
    <3> QED
      BY <3>2, <3>4, <3>5
  <2>2. newest' \in 1 .. MaxSaves
    BY <1>4, <1>25, TransfersAssumption DEF Play, Crash, DiskTypes
  <2>3. disk' \in [Files -> Contents]
    <3>1. CASE Play
      <4>1. Card(newest + 1) \in Contents
        BY <1>4, Sources DEF DiskTypes, Contents
      <4> QED
        BY <1>4, <3>1, <4>1, Names DEF Play, DiskTypes
    <3>2. CASE Crash
      <4>1. t.to \in Files /\ (fp # "none" => disk[t.to] \in Seq(Block))
        BY <1>3, <1>4, FilesInHand DEF LoopInv, TransferTypes
      <4>2. CASE fp = "none"
        BY <1>4, <3>2, <4>2 DEF Crash, DiskTypes
      <4>3. CASE fp # "none"
        <5>1. PICK kept \in 0 .. Len(disk[t.to]) : disk' = [disk EXCEPT ![t.to] = SubSeq(@, 1, kept)]
          BY <3>2, <4>3 DEF Crash
        <5>2. SubSeq(disk[t.to], 1, kept) \in Contents
          BY <4>1, <4>3, <5>1, PrefixInOrder DEF Contents
        <5> QED
          BY <1>4, <5>1, <5>2 DEF DiskTypes
      <4> QED
        BY <4>2, <4>3
    <3> QED
      BY <1>25, <3>1, <3>2
  <2>4. why' \in [Files -> SUBSET Why]
    BY <1>4, <1>25, Names DEF Play, Crash, DiskTypes, Why, TransferTypes
  <2> QED
    BY <2>1, <2>2, <2>3, <2>4 DEF DiskTypes
<1> QED
  BY <1>1, <1>9, <1>10, <1>11, <1>12, <1>13, <1>14, <1>15, <1>16, <1>17, <1>18, <1>19, <1>20, <1>21,
     <1>22, <1>23, <1>24, <1>25
     DEF Next, Main, Loop, Worker

-----------------------------------------------------------------------------
(* What every step of a task, and every step of a transfer, leaves alone.  *)

TaskStep ==
  \/ StartTask \/ NextPackage \/ PackageEnds
  \/ StartCover \/ PageAgain \/ PageRead \/ PageMissing \/ PictureBad \/ PictureGood \/ Choose \/ Replace \/ NextCover
  \/ MakeCard \/ LaunchWithout \/ LaunchCopies \/ LaunchEnds \/ Scan \/ ScanEnds
TransferStep == Setup \/ Loop \/ Err \/ ErrWaits \/ Close \/ Worker

\* These, and the two that start the program again, are all the steps.
LEMMA Steps == Next => TaskStep \/ TransferStep \/ Play \/ Crash
  BY DEF Next, Main, TaskStep, TransferStep

\* No block is under way, and no file open, outside a transfer.
LEMMA NothingUnderWay ==
  ASSUME TrInv, pc \notin LoopPlaces \cup EndPlaces
  PROVE  fp = "none" /\ ~Enabled /\ w.at = "check"
<1>1. fp = "none"
  BY DEF TrInv, TypeInv, TrTypeOK, LoopInv
<1>2. ~Enabled
  BY <1>1 DEF TrInv, WorkerInv
<1> QED
  BY <1>1, <1>2 DEF TrInv, WorkerInv

\* Where a step of a task is taken, and where it leads.
LEMMA TaskStepPlaces ==
  ASSUME TrInv, TaskStep
  PROVE  /\ pc \in {"idle", "package", "after", "cover", "ask", "replace", "next", "launch", "boot"}
         /\ pc' \in {"idle", "package", "cover", "setup", "launch", "ask", "replace", "next", "play", "boot"}
<1>1. CASE StartTask
  <2>1. task' \in TaskNames
    BY <1>1 DEF TrInv, TypeInv, StartTask
  <2>2. pc' \in {"package", "cover", "launch", "boot"}
    <3>1. CASE task' = "packages"
      BY <1>1, <3>1 DEF StartTask, At
    <3>2. CASE task' \in {"cover", "covers"}
      BY <1>1, <3>2 DEF StartTask, At
    <3>3. CASE task' = "launch"
      BY <1>1, <3>3 DEF StartTask, At
    <3>4. CASE task' = "scan"
      BY <1>1, <3>4 DEF StartTask, At
    <3> QED
      BY <2>1, <3>1, <3>2, <3>3, <3>4 DEF TaskNames
  <2> QED
    BY <1>1, <2>2 DEF StartTask
<1>2. CASE NextPackage \/ PackageEnds
  BY <1>2 DEF NextPackage, PackageEnds, Rests, At, StartTransfer
<1>3. CASE StartCover \/ PageAgain \/ PageRead \/ PageMissing
  BY <1>3 DEF StartCover, PageAgain, PageRead, PageMissing, CoverEnds, FetchPicture, StartTransfer, At
<1>4. CASE PictureBad \/ PictureGood \/ Choose \/ Replace \/ NextCover
  BY <1>4 DEF PictureBad, PictureGood, Choose, Replace, NextCover, CoverEnds, At, IsPicture
<1>5. CASE MakeCard \/ LaunchWithout \/ LaunchCopies \/ LaunchEnds
  BY <1>5 DEF MakeCard, LaunchWithout, LaunchCopies, LaunchEnds, StartTransfer, At
<1>6. CASE Scan \/ ScanEnds
  BY <1>6 DEF Scan, ScanEnds, Rests, StartTransfer, At
<1> QED
  BY <1>1, <1>2, <1>3, <1>4, <1>5, <1>6 DEF TaskStep

\* A step of a task starts no transfer and goes on with the one it had, or
\* it starts one, of a package, a page, a picture or a card.
StartsPackage ==
  /\ task = "packages" /\ task' = "packages" /\ n \in DOMAIN Packages
  /\ StartTransfer("update", Pkg(n), Blocks(Pkg(n), Packages[n])) /\ UNCHANGED <<disk, why>>
StartsCover ==
  /\ task \in CoverTasks /\ task' = task
  /\ \/ StartTransfer("file", Page, Html) /\ UNCHANGED <<disk, why>>
     \/ \E to \in {Cover(n), Tmp}, data \in {Picture(n), Html} :
          StartTransfer("file", to, data) /\ (Unlinked(Page) \/ UNCHANGED <<disk, why>>)
StartsLaunch ==
  /\ pc = "launch" /\ task = "launch" /\ task' = "launch" /\ ~Absent(UsbCard)
  /\ Unlinked(HddCard) /\ StartTransfer("copy", HddCard, disk[UsbCard])
StartsScan ==
  /\ pc = "boot" /\ task' = "scan" /\ ~Absent(HddCard)
  /\ Unlinked(UsbCard) /\ StartTransfer("copy", UsbCard, disk[HddCard])
Starts == UNCHANGED n /\ (StartsPackage \/ StartsCover \/ StartsLaunch \/ StartsScan)

\* One of the two is so.
LEMMA StartsOrNot ==
  ASSUME TrInv, TaskStep
  PROVE  \/ pc' # "setup" /\ t' = t
         \/ pc' = "setup" /\ Starts
<1>1. TaskInv /\ TransferInv
  BY DEF TrInv
<1>2. CASE StartTask
  <2>1. task' \in TaskNames
    BY <1>2 DEF TrInv, TypeInv, StartTask
  <2> QED
    BY <1>2, <2>1 DEF StartTask, At, transfer, TaskNames
<1>3. CASE NextPackage \/ PackageEnds
  <2>1. n <= Len(Packages) => n \in DOMAIN Packages
    BY FilesInHand DEF TrInv
  <2> QED
    BY <1>1, <1>3, <2>1
       DEF NextPackage, PackageEnds, Rests, At, transfer, StartTransfer, Starts, StartsPackage, TaskInv
<1>4. CASE StartCover \/ PageAgain
  <2>1. task \in CoverTasks
    BY <1>1, <1>4, PageTasks DEF StartCover, PageAgain, TaskInv, Transferring
  <2> QED
    BY <1>4, <2>1 DEF StartCover, PageAgain, CoverEnds, transfer, StartTransfer, At, Starts, StartsCover
<1>5. CASE PageRead \/ PageMissing
  <2>1. task \in CoverTasks
    BY <1>1, <1>5, PageTasks DEF PageRead, PageMissing, Transferring
  <2>2. \/ CoverEnds
        \/ \E to \in {Cover(n), Tmp}, data \in {Picture(n), Html} :
             StartTransfer("file", to, data) /\ (Unlinked(Page) \/ UNCHANGED <<disk, why>>)
    BY <1>5 DEF PageRead, PageMissing, FetchPicture
  <2>3. UNCHANGED <<n, task>>
    BY <1>5 DEF PageRead, PageMissing
  <2> QED
    BY <2>1, <2>2, <2>3 DEF CoverEnds, transfer, StartTransfer, At, Starts, StartsCover
<1>6. CASE PictureBad \/ PictureGood \/ Choose \/ Replace \/ NextCover
  BY <1>6 DEF PictureBad, PictureGood, Choose, Replace, NextCover, CoverEnds, transfer, At
<1>7. CASE MakeCard \/ LaunchWithout \/ LaunchEnds \/ ScanEnds
  BY <1>7 DEF MakeCard, LaunchWithout, LaunchEnds, ScanEnds, Rests, transfer, At
<1>8. CASE LaunchCopies
  BY <1>1, <1>8 DEF LaunchCopies, StartTransfer, At, Starts, StartsLaunch, TaskInv
<1>9. CASE Scan
  BY <1>9 DEF Scan, Rests, transfer, StartTransfer, At, Starts, StartsScan
<1> QED
  BY <1>2, <1>3, <1>4, <1>5, <1>6, <1>7, <1>8, <1>9 DEF TaskStep

\* It leaves the event thread, its block and the file pointer alone.
LEMMA TaskStepFacts ==
  ASSUME TrInv, TaskStep
  PROVE  /\ UNCHANGED <<evs, v, w, newest>> /\ fp = "none" /\ fp' = "none"
         /\ ~Enabled /\ w.at = "check" /\ (odd' = {} => odd = {})
<1>1. fp = "none" /\ ~Enabled /\ w.at = "check"
  BY TaskStepPlaces, NothingUnderWay DEF LoopPlaces, EndPlaces
<1>2. CASE StartTask
  BY <1>1, <1>2 DEF StartTask, transfer
<1>3. CASE NextPackage \/ PackageEnds \/ StartCover \/ PageAgain \/ PageRead \/ PageMissing
  BY <1>1, <1>3
     DEF NextPackage, PackageEnds, StartCover, PageAgain, PageRead, PageMissing, Rests, CoverEnds, FetchPicture,
         StartTransfer, transfer, Stays
<1>4. CASE PictureBad \/ PictureGood \/ Choose \/ Replace \/ NextCover
  BY <1>1, <1>4 DEF PictureBad, PictureGood, Choose, Replace, NextCover, CoverEnds, transfer, Stays
<1>5. CASE MakeCard \/ LaunchWithout \/ LaunchCopies \/ LaunchEnds \/ Scan \/ ScanEnds
  BY <1>1, <1>5
     DEF MakeCard, LaunchWithout, LaunchCopies, LaunchEnds, Scan, ScanEnds, Rests, StartTransfer, transfer, Stays
<1> QED
  BY <1>1, <1>2, <1>3, <1>4, <1>5 DEF TaskStep

\* A step of a transfer keeps to its own file.
LEMMA TransferStepFacts ==
  ASSUME TrInv, TransferStep
  PROVE  /\ UNCHANGED <<task, n, t, newest>> /\ t.to \in Files
         /\ \A f \in Files \ {t.to} : disk'[f] = disk[f] /\ why'[f] = why[f]
         /\ odd \subseteq odd'
         /\ pc \in Transferring \/ UNCHANGED <<pc, disk, why, odd>>
         /\ pc' \in Transferring \/ pc' = pc
<1>1. /\ t.to \in Files /\ disk \in [Files -> Contents] /\ why \in [Files -> SUBSET Why]
  BY DEF TrInv, TypeInv
<1>2. CASE Setup
  BY <1>1, <1>2 DEF Setup, Calls, At, Transferring, LoopPlaces, EndPlaces
<1>3. CASE Loop \/ Err \/ ErrWaits
  BY <1>1, <1>3, HappenedFacts
     DEF Loop, RecvBlock, RecvEnd, RecvFails, SendFails, SendBlock, DrawBar, Err, ErrWaits, KeepsPart, Keeps, At,
         Transferring, LoopPlaces, EndPlaces, Why
<1>4. CASE Close
  BY <1>1, <1>4, HappenedFacts, UnlinkedFacts DEF Close, At, Transferring, EndPlaces, Why
<1>5. CASE Worker
  <2>1. UNCHANGED <<task, n, t, newest, pc, why, odd>>
    BY <1>5 DEF Worker, AsyncChecks, AsyncWrites, AsyncEnds, Idles, transfer
  <2>2. UNCHANGED disk \/ AsyncWrites
    BY <1>5 DEF Worker, AsyncChecks, AsyncEnds
  <2>3. CASE AsyncWrites
    <3>1. pc \in Transferring
      BY <2>3 DEF AsyncWrites, TrInv, WorkerInv, Transferring, EndPlaces
    <3> QED
      BY <1>1, <2>1, <2>3, <3>1 DEF AsyncWrites
  <2> QED
    BY <1>1, <2>1, <2>2, <2>3
<1> QED
  BY <1>2, <1>3, <1>4, <1>5 DEF TransferStep

-----------------------------------------------------------------------------
(* The tasks, and their transfers.                                         *)

\* Every step keeps TaskInv.
LEMMA TaskKept == TrInv /\ Next => TaskInv'
<1>1. SUFFICES ASSUME TrInv, Next PROVE TaskInv'
  OBVIOUS
<1>2. TypeInv /\ TaskInv /\ TransferInv
  BY <1>1 DEF TrInv
<1>3. n \in Nat \ {0} /\ tasks \in Seq(TaskNames) /\ Games \in Nat \ {0}
  BY <1>2, TransfersAssumption DEF TypeInv
<1>4. CASE TransferStep
  <2>1. UNCHANGED <<task, n, t>>
    BY <1>1, <1>4, TransferStepFacts
  <2>2. pc' \in Transferring \/ pc' = pc
    BY <1>1, <1>4, TransferStepFacts
  <2> QED
    BY <1>2, <2>1, <2>2 DEF TaskInv, Transferring, LoopPlaces, EndPlaces
<1>5. CASE StartTask
  <2>1. task' \in TaskNames /\ n' = 1
    BY <1>3, <1>5 DEF StartTask
  <2>2. /\ task' = "packages" => pc' = "package"
        /\ task' \in {"cover", "covers"} => pc' = "cover"
        /\ task' = "launch" => pc' = "launch"
        /\ task' = "scan" => pc' = "boot"
    <3>1. CASE task' = "packages"
      BY <1>5, <3>1 DEF StartTask, At
    <3>2. CASE task' \in {"cover", "covers"}
      BY <1>5, <3>2 DEF StartTask, At
    <3>3. CASE task' = "launch"
      BY <1>5, <3>3 DEF StartTask, At
    <3>4. CASE task' = "scan"
      BY <1>5, <3>4 DEF StartTask, At
    <3> QED
      BY <2>1, <3>1, <3>2, <3>3, <3>4 DEF TaskNames
  <2> QED
    BY <1>3, <2>1, <2>2 DEF TaskInv, TaskNames, CoverTasks
<1>6. CASE NextPackage \/ PackageEnds
  BY <1>2, <1>6
     DEF NextPackage, PackageEnds, Rests, At, transfer, StartTransfer, TaskInv, CoverTasks
<1>7. CASE StartCover \/ PageAgain \/ PageRead \/ PageMissing
  <2>1. task \in CoverTasks
    BY <1>2, <1>7, PageTasks DEF StartCover, PageAgain, PageRead, PageMissing, TaskInv, Transferring
  <2>2. pc' \in {"next", "setup"} /\ UNCHANGED <<task, n>>
    BY <1>7
       DEF StartCover, PageAgain, PageRead, PageMissing, CoverEnds, FetchPicture, StartTransfer, At
  <2> QED
    BY <1>2, <2>1, <2>2 DEF TaskInv
<1>8. CASE PictureBad \/ PictureGood \/ Choose \/ Replace
  <2>1. task \in CoverTasks /\ UNCHANGED <<task, n, t>>
    BY <1>2, <1>8
       DEF PictureBad, PictureGood, Choose, Replace, IsPicture, CoverEnds, transfer, TaskInv, CoverTasks
  <2>2. pc' \in {"next", "ask", "replace"} /\ (pc' \in {"ask", "replace"} => t.to = Tmp)
    BY <1>2, <1>8 DEF PictureBad, PictureGood, Choose, Replace, CoverEnds, At, TaskInv
  <2> QED
    BY <1>2, <2>1, <2>2 DEF TaskInv
<1>9. CASE NextCover
  <2>1. task \in CoverTasks /\ task' = task /\ n \in 1 .. Games
    BY <1>2, <1>9 DEF NextCover, TaskInv
  <2>2. pc' \in {"cover", "idle"} /\ n' \in 1 .. Games
    BY <1>3, <1>9, <2>1 DEF NextCover, At
  <2> QED
    BY <2>1, <2>2 DEF TaskInv
<1>10. CASE MakeCard \/ LaunchWithout \/ LaunchCopies \/ LaunchEnds
  <2>1. task = "launch" /\ task' = task /\ n' = n
    BY <1>2, <1>10 DEF MakeCard, LaunchWithout, LaunchCopies, LaunchEnds, TaskInv
  <2>2. pc' \in {"launch", "play", "setup"}
    BY <1>10 DEF MakeCard, LaunchWithout, LaunchCopies, LaunchEnds, StartTransfer, At
  <2> QED
    BY <2>1, <2>2 DEF TaskInv, CoverTasks
<1>11. CASE Scan \/ ScanEnds
  <2>1. task' = "scan" /\ pc' \in {"idle", "setup"}
    BY <1>11 DEF Scan, ScanEnds, Rests, StartTransfer, At
  <2> QED
    BY <2>1 DEF TaskInv, CoverTasks
<1>12. CASE Play \/ Crash
  <2>1. Fresh
    BY <1>12 DEF Play, Crash
  <2> QED
    BY <2>1 DEF Fresh, At, TaskInv, CoverTasks
<1> QED
  BY <1>1, <1>4, <1>5, <1>6, <1>7, <1>8, <1>9, <1>10, <1>11, <1>12, Steps DEF TaskStep

\* Every step keeps TransferInv.
LEMMA TransferKept == TrInv /\ Next => TransferInv'
<1>1. SUFFICES ASSUME TrInv, Next, pc' \in Transferring
               PROVE  (PackageTransfer \/ PageTransfer \/ PictureTransfer \/ CardTransfer)'
  BY DEF TransferInv
<1>2. TypeInv /\ TaskInv /\ TransferInv
  BY <1>1 DEF TrInv
<1>3. CASE TransferStep
  <2>1. /\ UNCHANGED <<task, n, t>> /\ t.to \in Files
        /\ \A f \in Files \ {t.to} : disk'[f] = disk[f]
    BY <1>1, <1>3, TransferStepFacts
  <2>2. pc \in Transferring
    BY <1>1, <1>3, TransferStepFacts
  <2>3. PackageTransfer \/ PageTransfer \/ PictureTransfer \/ CardTransfer
    BY <1>2, <2>2 DEF TransferInv
  <2>4. CASE PackageTransfer \/ PageTransfer \/ PictureTransfer
    BY <2>1, <2>4 DEF PackageTransfer, PageTransfer, PictureTransfer
  <2>5. CASE CardTransfer
    <3>1. OtherCard(t.to) \in Files \ {t.to}
      BY <2>5, Names DEF CardTransfer
    <3>2. disk'[OtherCard(t.to)] = disk[OtherCard(t.to)]
      BY <2>1, <3>1
    <3> QED
      BY <2>1, <2>5, <3>2 DEF CardTransfer, Absent, OtherCard
  <2> QED
    BY <2>3, <2>4, <2>5
<1>4. CASE TaskStep
  <2>1. pc' = "setup"
    BY <1>1, <1>4, TaskStepPlaces DEF Transferring, LoopPlaces, EndPlaces
  <2>2. Starts
    BY <1>1, <1>4, <2>1, StartsOrNot
  <2>3. ASSUME NEW kind, NEW to, NEW data, StartTransfer(kind, to, data)
        PROVE  t'.kind = kind /\ t'.to = to /\ t'.data = data
    BY <2>3 DEF StartTransfer
  <2>4. CASE StartsPackage
    BY <2>2, <2>3, <2>4 DEF Starts, StartsPackage, PackageTransfer
  <2>5. CASE StartsCover
    BY <2>2, <2>3, <2>5 DEF Starts, StartsCover, PageTransfer, PictureTransfer
  <2>6. CASE StartsLaunch
    <3>1. disk'[UsbCard] = disk[UsbCard] /\ disk[UsbCard] # NULL
      BY <1>2, <2>6, Names, UnlinkedFacts DEF StartsLaunch, TypeInv, Absent
    <3>2. t'.kind = "copy" /\ t'.to = HddCard /\ t'.data = disk[UsbCard]
      BY <2>3, <2>6 DEF StartsLaunch
    <3> QED
      BY <2>6, <3>1, <3>2, Names DEF StartsLaunch, CardTransfer, Absent, OtherCard
  <2>7. CASE StartsScan
    <3>1. disk'[HddCard] = disk[HddCard] /\ disk[HddCard] # NULL
      BY <1>2, <2>7, Names, UnlinkedFacts DEF StartsScan, TypeInv, Absent
    <3>2. t'.kind = "copy" /\ t'.to = UsbCard /\ t'.data = disk[HddCard]
      BY <2>3, <2>7 DEF StartsScan
    <3> QED
      BY <2>7, <3>1, <3>2, Names DEF StartsScan, CardTransfer, Absent, OtherCard
  <2> QED
    BY <2>2, <2>4, <2>5, <2>6, <2>7 DEF Starts
<1>5. CASE Play \/ Crash
  BY <1>1, <1>5 DEF Play, Crash, Fresh, At, Transferring, LoopPlaces, EndPlaces
<1> QED
  BY <1>1, <1>3, <1>4, <1>5, Steps

-----------------------------------------------------------------------------
(* The block under way, and the loop.                                      *)

\* Every step keeps WorkerInv.
LEMMA WorkerKept == TrInv /\ Next => WorkerInv'
<1>1. SUFFICES ASSUME TrInv, Next PROVE WorkerInv'
  OBVIOUS
<1>2. WorkerInv /\ LoopInv
  BY <1>1 DEF TrInv
<1>3. /\ v \in [flags : SUBSET {"ENABLE", "ERROR"}, mem : Block \cup {NULL}, open : BOOLEAN]
      /\ w \in [at : {"check", "write", "end"}, flags : SUBSET {"ENABLE", "ERROR"}]
      /\ event_thread_working \in {0, 1} /\ fp \in {"none", "open", "closed"} /\ pos \in Nat
      /\ (pc \in {"recv", "write", "bar"} => fp = "open")
  BY <1>1 DEF TrInv, TypeInv, TrTypeOK, EvTypeOK
<1>4. CASE TaskStep
  <2>1. UNCHANGED <<evs, v, w>> /\ ~Enabled /\ w.at = "check"
    BY <1>1, <1>4, TaskStepFacts
  <2> QED
    BY <1>2, <2>1 DEF WorkerInv, Enabled, evs
<1>5. CASE Setup
  <2>1. ~Enabled /\ w.at = "check"
    BY <1>1, <1>5, NothingUnderWay DEF Setup, LoopPlaces, EndPlaces
  <2> QED
    BY <1>2, <1>3, <1>5, <2>1 DEF Setup, Calls, evs, WorkerInv, Enabled
<1>6. CASE RecvBlock \/ RecvEnd \/ DrawBar
  BY <1>2, <1>6
     DEF RecvBlock, RecvEnd, DrawBar, Keeps, At, evs, WorkerInv, Enabled, LoopPlaces
<1>7. CASE RecvFails
  BY <1>2, <1>3, <1>7 DEF RecvFails, Keeps, At, evs, WorkerInv, Enabled, LoopPlaces
<1>8. CASE SendFails
  <2>1. ~Enabled /\ w.at = "check"
    BY <1>2, <1>8 DEF SendFails, BlockFailed, Failed, Enabled, WorkerInv
  <2> QED
    BY <1>2, <1>3, <1>8, <2>1 DEF SendFails, Keeps, evs, WorkerInv, Enabled
<1>9. CASE SendBlock
  <2>1. ~Enabled /\ w.at = "check"
    BY <1>2, <1>9 DEF SendBlock, FreeToSend, LoopInv, LoopPlaces, Enabled, WorkerInv
  <2>2. /\ v'.flags = {"ENABLE"} /\ v'.mem = t.data[pos + 1] /\ pos' = pos + 1
        /\ pc' \in {"err", "bar"} /\ fp' = "open" /\ use_async_fd' = 1 /\ UNCHANGED <<t, w, wpc, event_thread_working>>
    BY <1>3, <1>9 DEF SendBlock, event_thread_send, Keeps, At
  <2> QED
    BY <1>2, <2>1, <2>2 DEF WorkerInv, Enabled, LoopPlaces
<1>10. CASE Err
  BY <1>2, <1>10 DEF Err, Keeps, At, evs, WorkerInv, Enabled, LoopPlaces
<1>11. CASE ErrWaits
  <2>1. w.at = "check"
    BY <1>2, <1>11 DEF ErrWaits, wait_returns, WorkerInv
  <2>2. v'.flags = {} /\ w' = w /\ UNCHANGED evs
    BY <1>3, <1>11 DEF ErrWaits
  <2> QED
    BY <1>2, <2>1, <2>2 DEF WorkerInv, Enabled, evs
<1>12. CASE Close
  <2>1. ~Enabled /\ w.at = "check"
    BY <1>2, <1>12 DEF Close, WorkerInv, Enabled, LoopPlaces
  <2>2. v'.flags = v.flags /\ w' = w /\ UNCHANGED <<wpc, event_thread_working>>
    BY <1>3, <1>12 DEF Close, event_thread_send
  <2> QED
    BY <1>2, <2>1, <2>2 DEF WorkerInv, Enabled
<1>13. CASE (Receive \/ Dispatch \/ Clear) /\ Idles /\ UNCHANGED <<v, w, disk>>
  BY <1>2, <1>3, <1>13 DEF Receive, Dispatch, Clear, Idles, transfer, WorkerInv, Enabled
<1>14. CASE AsyncChecks
  <2>1. event_thread_working = 1 /\ UNCHANGED <<v, event_thread_working, t, pos, pc, fp, use_async_fd>>
    BY <1>2, <1>14 DEF AsyncChecks, Idles, transfer, evs, Return, WorkerInv
  <2>2. CASE Enabled
    <3>1. v.flags = {"ENABLE"}
      BY <1>2, <2>2 DEF WorkerInv, Enabled
    <3> QED
      BY <1>2, <1>14, <2>1, <2>2, <3>1 DEF AsyncChecks, evs, WorkerInv, Enabled
  <2>3. CASE ~Enabled
    BY <1>2, <1>14, <2>1, <2>3 DEF AsyncChecks, Return, WorkerInv, Enabled
  <2> QED
    BY <2>2, <2>3
<1>15. CASE AsyncWrites
  <2>1. /\ w.flags = {"ENABLE"} /\ w'.at = "end" /\ "ENABLE" \in w'.flags /\ v'.flags = v.flags
        /\ UNCHANGED <<evs, pc, fp, use_async_fd>> /\ wpc = "run" /\ Enabled
    BY <1>2, <1>3, <1>15 DEF AsyncWrites, Idles, transfer, WorkerInv
  <2> QED
    BY <1>2, <2>1 DEF WorkerInv, Enabled, evs
<1>16. CASE AsyncEnds
  <2>1. /\ v'.flags = w.flags \ {"ENABLE"} /\ w'.at = "check" /\ wpc' = "clear"
        /\ event_thread_working' = event_thread_working /\ wpc = "run"
    BY <1>3, <1>16 DEF AsyncEnds, Lowered, Return
  <2>2. v'.flags \in {{}, {"ERROR"}}
    BY <1>3, <2>1
  <2> QED
    BY <1>2, <2>1, <2>2 DEF WorkerInv, Enabled
<1>17. CASE Play \/ Crash
  BY <1>17 DEF Play, Crash, Fresh, WorkerInv, Enabled
<1> QED
  BY <1>1, <1>4, <1>5, <1>6, <1>7, <1>8, <1>9, <1>10, <1>11, <1>12, <1>13, <1>14, <1>15, <1>16, <1>17, Steps
     DEF TransferStep, Loop, Worker

\* Every step keeps LoopInv.
LEMMA LoopKept == TrInv /\ Next => LoopInv'
<1>1. SUFFICES ASSUME TrInv, Next PROVE LoopInv'
  OBVIOUS
<1>2. WorkerInv /\ LoopInv
  BY <1>1 DEF TrInv
<1>3. /\ v \in [flags : SUBSET {"ENABLE", "ERROR"}, mem : Block \cup {NULL}, open : BOOLEAN]
      /\ fp \in {"none", "open", "closed"} /\ pos \in Nat /\ use_async_fd \in {1, 128}
      /\ (pc \in {"recv", "write", "bar"} => fp = "open")
      /\ disk \in [Files -> Contents] /\ t.to \in Files
  BY <1>1 DEF TrInv, TypeInv, TrTypeOK
<1>4. CASE TaskStep
  <2>1. fp' = "none" /\ pc' \notin LoopPlaces \cup EndPlaces
    BY <1>1, <1>4, TaskStepFacts, TaskStepPlaces DEF LoopPlaces, EndPlaces
  <2>2. pc' = "setup" => pos' = 0 /\ ret' = "ok"
    BY <1>1, <1>4, StartsOrNot DEF Starts, StartsPackage, StartsCover, StartsLaunch, StartsScan, StartTransfer
  <2> QED
    BY <2>1, <2>2 DEF LoopInv, LoopPlaces
<1>5. CASE Setup
  <2>1. pos' = 0 /\ v'.flags = {} /\ use_async_fd' = 128 /\ t' = t /\ fp = "none"
    BY <1>1, <1>2, <1>3, <1>5, NothingUnderWay DEF Setup, LoopInv, LoopPlaces, EndPlaces
  <2>2. \/ pc' = "err" /\ fp' = "none" /\ (t.kind = "copy" => ret' # "ok")
        \/ pc' = "recv" /\ fp' = "open" /\ ret' = "ok" /\ disk'[t.to] = <<>>
    BY <1>2, <1>3, <1>5, <2>1 DEF Setup, LoopInv, At
  <2>3. <<>> # NULL
    <3>1. <<>> \in Seq(Block)
      OBVIOUS
    <3> QED
      BY <3>1, NullIsNoFile
  <2> QED
    BY <2>1, <2>2, <2>3 DEF LoopInv, LoopPlaces, EndPlaces, Absent
<1>6. CASE RecvBlock \/ RecvEnd \/ DrawBar
  BY <1>2, <1>3, <1>6 DEF RecvBlock, RecvEnd, DrawBar, Keeps, At, LoopInv, LoopPlaces, EndPlaces, Absent
<1>7. CASE RecvFails
  BY <1>2, <1>3, <1>7 DEF RecvFails, Keeps, At, LoopInv, LoopPlaces, EndPlaces, Absent
<1>8. CASE SendFails
  BY <1>2, <1>3, <1>8 DEF SendFails, BlockFailed, KeepsPart, Keeps, At, LoopInv, LoopPlaces, EndPlaces
<1>9. CASE SendBlock
  <2>1. /\ fp' = "open" /\ use_async_fd' = 1 /\ pos' = pos + 1 /\ UNCHANGED <<t, disk>> /\ ~Absent(t.to)
        /\ \/ pc' = "err" /\ ret' = "cancelled"
           \/ pc' = "bar" /\ ret' = "ok"
    BY <1>2, <1>3, <1>9 DEF SendBlock, Keeps, At, LoopInv, LoopPlaces
  <2> QED
    BY <1>3, <2>1 DEF LoopInv, LoopPlaces, EndPlaces, Absent
<1>10. CASE Err
  BY <1>2, <1>3, <1>10 DEF Err, Keeps, At, LoopInv, LoopPlaces, EndPlaces, Absent
<1>11. CASE ErrWaits
  BY <1>2, <1>3, <1>11 DEF ErrWaits, KeepsPart, Keeps, At, LoopInv, LoopPlaces, EndPlaces, Absent
<1>12. CASE Close
  BY <1>12 DEF Close, At, LoopInv, LoopPlaces, EndPlaces
<1>13. CASE Worker
  <2>1. UNCHANGED <<pc, transfer>>
    BY <1>13 DEF Worker, AsyncChecks, AsyncWrites, AsyncEnds, Idles
  <2>2. use_async_fd = 1 \/ v'.flags = v.flags
    BY <1>2, <1>3, <1>13 DEF Worker, AsyncChecks, AsyncWrites, AsyncEnds, WorkerInv
  <2>3. fp # "none" => ~Absent(t.to)'
    <3>1. disk' = disk \/ disk'[t.to] # NULL
      <4>1. CASE AsyncWrites /\ disk' # disk
        <5>1. v.mem \in Block /\ disk' = [disk EXCEPT ![t.to] = Append(@, v.mem)]
          BY <1>3, <4>1 DEF AsyncWrites
        <5>2. disk[t.to] \in Seq(Block)
          BY <1>2, <1>3, <4>1 DEF AsyncWrites, WorkerInv, LoopInv, Absent, Contents
        <5>3. Append(disk[t.to], v.mem) \in Seq(Block)
          BY <5>1, <5>2
        <5>4. disk'[t.to] = Append(disk[t.to], v.mem)
          BY <1>3, <5>1
        <5>5. Append(disk[t.to], v.mem) # NULL
          BY <5>3, NullIsNoFile
        <5> QED
          BY <5>4, <5>5
      <4>2. AsyncWrites \/ disk' = disk
        BY <1>13 DEF Worker, AsyncChecks, AsyncEnds
      <4> QED
        BY <4>1, <4>2
    <3> QED
      BY <1>2, <2>1, <3>1 DEF LoopInv, Absent, transfer
  <2> QED
    BY <1>2, <1>3, <2>1, <2>2, <2>3 DEF LoopInv, transfer
<1>14. CASE Play \/ Crash
  BY <1>14 DEF Play, Crash, Fresh, At, LoopInv, LoopPlaces, EndPlaces
<1> QED
  BY <1>1, <1>4, <1>5, <1>6, <1>7, <1>8, <1>9, <1>10, <1>11, <1>12, <1>13, <1>14, Steps
     DEF TransferStep, Loop

-----------------------------------------------------------------------------
(* The file of the transfer.                                               *)

\* The worker writes the block that is missing.
LEMMA WriteFacts ==
  ASSUME TrInv, AsyncWrites
  PROVE  /\ UNCHANGED <<pc, task, n, transfer, why, odd, evs>> /\ fp # "none" /\ use_async_fd = 1 /\ Enabled
         /\ w'.at = "end" /\ v'.flags = v.flags
         /\ \/ disk' = disk /\ "ERROR" \in w'.flags /\ disk[t.to] = SubSeq(t.data, 1, pos - 1)
            \/ disk'[t.to] = SubSeq(t.data, 1, pos)
<1>1. /\ UNCHANGED <<pc, task, n, transfer, why, odd, evs>> /\ w.at = "write"
  BY DEF AsyncWrites, Idles
<1>2. /\ fp # "none" /\ use_async_fd = 1 /\ Enabled /\ v.mem = t.data[pos] /\ w.flags = {"ENABLE"}
  BY <1>1 DEF TrInv, WorkerInv
<1>3. /\ disk[t.to] = SubSeq(t.data, 1, pos - 1) /\ pos > 0
  BY <1>1, <1>2 DEF TrInv, FileInv, LoopInv
<1>4. pos \in 1 .. Len(t.data) /\ t.data \in Seq(Block) /\ t.to \in Files /\ disk \in [Files -> Contents]
  BY <1>3 DEF TrInv, TypeInv, TrTypeOK
<1>5. SubSeq(t.data, 1, pos) = Append(SubSeq(t.data, 1, pos - 1), t.data[pos])
  BY <1>4, PrefixInOrder
<1>6. w'.at = "end" /\ v'.flags = v.flags
  BY DEF AsyncWrites, TrInv, TypeInv
<1>7. CASE disk' = [disk EXCEPT ![t.to] = Append(@, v.mem)]
  <2>1. disk'[t.to] = Append(disk[t.to], v.mem)
    BY <1>4, <1>7
  <2> QED
    BY <1>1, <1>2, <1>3, <1>5, <1>6, <2>1
<1>8. CASE w' = [at |-> "end", flags |-> w.flags \cup {"ERROR"}] /\ disk' = disk
  <2>1. "ERROR" \in w'.flags
    BY <1>8
  <2> QED
    BY <1>1, <1>2, <1>3, <1>6, <1>8, <2>1
<1> QED
  BY <1>7, <1>8 DEF AsyncWrites

\* Every step keeps FileInv.
LEMMA FileKept == TrInv /\ Next => FileInv'
<1>1. SUFFICES ASSUME TrInv, Next, fp' # "none" PROVE FileInv'
  BY DEF FileInv
<1>2. WorkerInv /\ LoopInv /\ FileInv /\ TransferInv
  BY <1>1 DEF TrInv
<1>3. /\ v \in [flags : SUBSET {"ENABLE", "ERROR"}, mem : Block \cup {NULL}, open : BOOLEAN]
      /\ w \in [at : {"check", "write", "end"}, flags : SUBSET {"ENABLE", "ERROR"}]
      /\ fp \in {"none", "open", "closed"} /\ use_async_fd \in {1, 128}
      /\ (pc \in {"recv", "write", "bar"} => fp = "open")
      /\ disk \in [Files -> Contents] /\ why \in [Files -> SUBSET Why] /\ t.to \in Files
      /\ pos \in 0 .. Len(t.data) /\ t.data \in Seq(Block)
  BY <1>1 DEF TrInv, TypeInv, TrTypeOK
<1>4. ~(TaskStep \/ Play \/ Crash \/ Close)
  BY <1>1, TaskStepFacts DEF Play, Crash, Close, Fresh
<1>5. t' = t /\ (t.kind = "copy" => OtherCard(t.to) \in Files \ {t.to})
  <2>1. TransferStep
    BY <1>1, <1>4, Steps
  <2>2. t' = t /\ (pc \in Transferring \/ fp' = fp)
    BY <1>1, <2>1, TransferStepFacts
       DEF TransferStep, Setup, Loop, RecvBlock, RecvEnd, RecvFails, SendFails, SendBlock, DrawBar, Err, ErrWaits,
           Close, Worker, AsyncChecks, AsyncWrites, AsyncEnds, Idles, transfer, Transferring, LoopPlaces, EndPlaces
  <2>3. pc \in Transferring
    BY <1>1, <1>2, <2>2 DEF LoopInv, Transferring
  <2>4. t.kind = "copy" => OtherCard(t.to) \in Files \ {t.to}
    BY <1>2, <2>3, Names DEF TransferInv, PackageTransfer, PageTransfer, PictureTransfer, CardTransfer
  <2> QED
    BY <2>2, <2>4
<1>6. CASE Setup
  <2>1. /\ disk' = [disk EXCEPT ![t.to] = <<>>] /\ pc' = "recv" /\ pos' = 0 /\ v'.flags = {}
        /\ why' = [why EXCEPT ![t.to] = IF t.kind = "copy" THEN why[OtherCard(t.to)] ELSE {}]
    BY <1>1, <1>2, <1>3, <1>6, NothingUnderWay DEF Setup, LoopInv, At, LoopPlaces, EndPlaces
  <2>2. disk'[t.to] = SubSeq(t.data, 1, 0)
    BY <1>3, <2>1
  <2>3. t.kind = "copy" => why'[OtherCard(t.to)] \subseteq why'[t.to]
    BY <1>3, <1>5, <2>1
  <2> QED
    BY <1>5, <2>1, <2>2, <2>3 DEF FileInv, Enabled, EndPlaces
<1>7. CASE RecvBlock \/ DrawBar
  <2>1. /\ UNCHANGED <<disk, why, odd, pos, v, w, use_async_fd, t, fp>> /\ pc' \in {"write", "recv"} /\ pc # "close"
    BY <1>7 DEF RecvBlock, DrawBar, Keeps, At
  <2> QED
    BY <1>1, <1>2, <2>1 DEF FileInv, Unwritten, Enabled, Failed, EndPlaces
<1>8. CASE RecvEnd
  <2>1. /\ UNCHANGED <<disk, pos, v, w, use_async_fd, t, fp>> /\ pc' = "err" /\ pc = "recv"
    BY <1>8 DEF RecvEnd, Keeps, At
  <2>2. pos = Len(t.data) \/ ("cut" \in why'[t.to] /\ (IsCard(t.to) => odd' # {}))
    <3>1. CASE Happened(t.to, "cut")
      <4>1. "cut" \in Why /\ "cut" # "kept"
        BY DEF Why
      <4> QED
        BY <1>3, <3>1, <4>1, HappenedFacts
    <3>2. CASE ~(pos < Len(t.data))
      BY <1>3, <3>2
    <3> QED
      BY <1>8, <3>1, <3>2 DEF RecvEnd
  <2>3. t.kind = "copy" => why'[OtherCard(t.to)] = why[OtherCard(t.to)] /\ why[t.to] \subseteq why'[t.to]
    BY <1>3, <1>5, <1>8, HappenedFacts DEF RecvEnd, Why
  <2> QED
    BY <1>1, <1>2, <2>1, <2>2, <2>3 DEF FileInv, Unwritten, Enabled, Failed, EndPlaces, Missed
<1>9. CASE RecvFails
  <2>1. /\ UNCHANGED <<disk, why, pos, w, use_async_fd, t>> /\ pc' = "err" /\ pc = "recv" /\ v'.flags = v.flags
        /\ ret' = "error" /\ fp # "none"
    BY <1>3, <1>9 DEF RecvFails, Keeps, At
  <2> QED
    BY <1>1, <1>2, <2>1 DEF FileInv, Unwritten, Enabled, Failed, EndPlaces
<1>10. CASE SendFails
  BY <1>1, <1>10 DEF SendFails, KeepsPart
<1>11. CASE SendBlock
  <2>1. /\ ~Enabled /\ (use_async_fd = 128 => pos = 0) /\ (use_async_fd = 1 => ~Failed) /\ fp # "none" /\ pc = "write"
    BY <1>2, <1>3, <1>11 DEF SendBlock, FreeToSend, BlockFailed, LoopInv, LoopPlaces, Enabled
  <2>2. disk[t.to] = SubSeq(t.data, 1, pos)
    BY <1>2, <2>1 DEF FileInv, Unwritten
  <2>3. /\ UNCHANGED <<disk, why, w, t>> /\ pos' = pos + 1 /\ use_async_fd' = 1 /\ v'.flags = {"ENABLE"}
        /\ (pc' = "bar" \/ ret' = "cancelled")
    BY <1>11 DEF SendBlock, Keeps, At
  <2>4. w.at = "check" /\ pos' - 1 = pos
    BY <1>2, <1>3, <2>1, <2>3 DEF WorkerInv
  <2> QED
    BY <1>2, <2>1, <2>2, <2>3, <2>4 DEF FileInv, Unwritten, Enabled, EndPlaces
<1>12. CASE Err
  <2>1. /\ UNCHANGED <<disk, why, odd, pos, v, w, use_async_fd, t, ret, fp>> /\ pc = "err" /\ pc' \in {"errWait", "close"}
    BY <1>12 DEF Err, Keeps, At
  <2> QED
    BY <1>1, <1>2, <2>1 DEF FileInv, Unwritten, Enabled, Failed, EndPlaces, Missed
<1>13. CASE ErrWaits
  <2>1. /\ UNCHANGED <<disk, pos, w, use_async_fd, t, ret, fp>> /\ pc = "errWait" /\ pc' = "close" /\ v'.flags = {} /\ ~Failed
    BY <1>1, <1>3, <1>13 DEF ErrWaits, KeepsPart, Keeps, At
  <2>2. w.at = "check"
    BY <1>2, <1>13 DEF ErrWaits, wait_returns, WorkerInv
  <2>3. \/ Enabled /\ fp = "open" /\ Happened(t.to, "slipped")
        \/ ~(Enabled /\ fp = "open") /\ UNCHANGED <<why, odd>>
    BY <1>13, <2>1 DEF ErrWaits
  <2>4. /\ \A f \in Files \ {t.to} : why'[f] = why[f]
        /\ why[t.to] \subseteq why'[t.to] /\ (odd' = {} => odd = {})
        /\ Enabled /\ fp = "open" => "slipped" \in why'[t.to] /\ (IsCard(t.to) => odd' # {})
    <3>1. CASE Enabled /\ fp = "open" /\ Happened(t.to, "slipped")
      <4>1. "slipped" \in Why /\ "slipped" # "kept"
        BY DEF Why
      <4> QED
        BY <1>3, <3>1, <4>1, HappenedFacts
    <3>2. CASE ~(Enabled /\ fp = "open") /\ UNCHANGED <<why, odd>>
      BY <3>2
    <3> QED
      BY <2>3, <3>1, <3>2
  <2>5. Enabled => use_async_fd = 1
    BY <1>2 DEF WorkerInv
  <2>6. Unwritten => Unwritten'
    BY <1>1, <1>3, <2>1, <2>4, <2>5 DEF Unwritten, Enabled, Failed, Missed
  <2>7. t.kind = "copy" => why'[OtherCard(t.to)] \subseteq why'[t.to]
    BY <1>1, <1>2, <1>5, <2>1, <2>4 DEF FileInv
  <2>8. ret = "ok" => pos = Len(t.data) \/ Missed("cut")'
    BY <1>1, <1>2, <2>1, <2>4 DEF FileInv, EndPlaces, Missed
  <2>9. disk'[t'.to] = SubSeq(t'.data, 1, pos') \/ (disk'[t'.to] = SubSeq(t'.data, 1, pos' - 1) /\ Unwritten')
    BY <1>1, <1>2, <2>1, <2>6 DEF FileInv
  <2>10. ~Enabled'
    BY <2>1 DEF Enabled
  <2> QED
    BY <1>5, <2>1, <2>7, <2>8, <2>9, <2>10 DEF FileInv
<1>14. CASE (Receive \/ Dispatch \/ Clear) /\ Idles /\ UNCHANGED <<v, w, disk>>
  BY <1>1, <1>2, <1>14 DEF Idles, transfer, FileInv, Unwritten, Enabled, Failed, Missed
<1>15. CASE AsyncChecks
  <2>1. UNCHANGED <<disk, why, odd, pos, use_async_fd, t, ret, fp, v, pc>>
    BY <1>15 DEF AsyncChecks, Idles, transfer
  <2>2. w' = w \/ (w.at = "check" /\ w'.at = "write")
    BY <1>15 DEF AsyncChecks
  <2>3. w.at # "end" \/ w' = w
    BY <1>15, <2>2 DEF AsyncChecks
  <2>4. (w'.at # "end") <=> (w.at # "end")
    BY <1>15, <2>2
  <2>5. w.at = "check"
    BY <1>15 DEF AsyncChecks
  <2>6. (Unwritten => Unwritten') /\ (Enabled' <=> Enabled)
    BY <2>1, <2>4, <2>5 DEF Unwritten, Enabled, Failed, Missed
  <2> QED
    BY <1>1, <1>2, <2>1, <2>4, <2>6 DEF FileInv, Missed
<1>16. CASE AsyncWrites
  <2>1. /\ UNCHANGED <<pc, transfer, why, odd>> /\ use_async_fd = 1 /\ Enabled
        /\ w'.at = "end" /\ v'.flags = v.flags /\ fp # "none"
        /\ \/ disk' = disk /\ "ERROR" \in w'.flags /\ disk[t.to] = SubSeq(t.data, 1, pos - 1)
           \/ disk'[t.to] = SubSeq(t.data, 1, pos)
    BY <1>1, <1>16, WriteFacts
  <2> QED
    BY <1>2, <2>1 DEF FileInv, Unwritten, Enabled, transfer, Missed
<1>17. CASE AsyncEnds
  <2>1. /\ UNCHANGED <<disk, why, odd, pos, use_async_fd, t, ret, fp, pc>> /\ w.at = "end" /\ w'.at = "check"
        /\ v'.flags = w.flags \ {"ENABLE"}
    BY <1>3, <1>17 DEF AsyncEnds, Idles, transfer, Lowered
  <2>2. Enabled /\ ~Enabled' /\ use_async_fd = 1
    BY <1>2, <2>1 DEF WorkerInv, Enabled
  <2>3. Unwritten => Unwritten'
    BY <2>1, <2>2 DEF Unwritten, Failed
  <2> QED
    BY <1>1, <1>2, <2>1, <2>2, <2>3 DEF FileInv, Missed
<1> QED
  BY <1>1, <1>4, <1>6, <1>7, <1>8, <1>9, <1>10, <1>11, <1>12, <1>13, <1>14, <1>15, <1>16, <1>17, Steps
     DEF TransferStep, Loop, Worker

-----------------------------------------------------------------------------
(* The files, step by step.                                                *)

\* What a step of a transfer does to its file.
LEMMA OwnFile ==
  ASSUME TrInv, TransferStep
  PROVE  \/ disk'[t.to] = disk[t.to] /\ why[t.to] \subseteq why'[t.to]
         \/ disk'[t.to] = <<>> /\ pc' = "recv" /\ fp' = "open"
         \/ disk'[t.to] = NULL
         \/ AsyncWrites
<1>1. /\ t.to \in Files /\ disk \in [Files -> Contents] /\ why \in [Files -> SUBSET Why]
  BY DEF TrInv, TypeInv
<1>2. CASE Setup
  BY <1>1, <1>2 DEF Setup, At
<1>3. CASE RecvBlock \/ RecvFails \/ SendBlock \/ DrawBar \/ Err
  BY <1>3 DEF RecvBlock, RecvFails, SendBlock, DrawBar, Err, Keeps
<1>4. CASE RecvEnd \/ SendFails \/ ErrWaits
  <2>1. disk' = disk
    BY <1>4 DEF RecvEnd, SendFails, ErrWaits, Keeps
  <2>2. UNCHANGED why \/ Happened(t.to, "cut") \/ Happened(t.to, "kept") \/ Happened(t.to, "slipped")
    BY <1>4 DEF RecvEnd, SendFails, ErrWaits, KeepsPart
  <2>3. {"cut", "kept", "slipped"} \subseteq Why
    BY DEF Why
  <2>4. why[t.to] \subseteq why'[t.to]
    BY <1>1, <2>2, <2>3, HappenedFacts
  <2> QED
    BY <2>1, <2>4
<1>5. CASE Close
  <2>1. \/ Unlinked(t.to)
        \/ disk' = disk /\ (UNCHANGED why \/ Happened(t.to, "unread"))
    BY <1>5 DEF Close
  <2>2. "unread" \in Why
    BY DEF Why
  <2> QED
    BY <1>1, <2>1, <2>2, HappenedFacts, UnlinkedFacts
<1>6. CASE Worker
  BY <1>6 DEF Worker, AsyncChecks, AsyncEnds, Idles
<1> QED
  BY <1>2, <1>3, <1>4, <1>5, <1>6 DEF TransferStep, Loop

\* What a step of a task does to a file.
LEMMA TaskFiles ==
  ASSUME TrInv, TaskStep, NEW f \in Files
  PROVE  \/ disk'[f] = disk[f] /\ why'[f] = why[f]
         \/ disk'[f] = NULL
         \/ n \in 1 .. Games /\ f = Cover(n) /\ disk'[f] = disk[Tmp] /\ why'[f] = why[Tmp] /\ Replace
         \/ f = UsbCard /\ disk'[f] = Card(0) /\ MakeCard
<1>1. /\ disk \in [Files -> Contents] /\ why \in [Files -> SUBSET Why] /\ t.to \in Files
  BY DEF TrInv, TypeInv
<1>2. /\ Page \in Files /\ Tmp \in Files /\ HddCard \in Files /\ UsbCard \in Files
      /\ \A g \in 1 .. Games : Cover(g) \in Files /\ Cover(g) # Tmp
  BY Names
<1>3. ASSUME NEW g \in Files, Unlinked(g) PROVE disk'[f] = NULL \/ (disk'[f] = disk[f] /\ why'[f] = why[f])
  BY <1>1, <1>3, UnlinkedFacts
<1>4. CASE \/ StartTask \/ NextPackage \/ PackageEnds \/ StartCover \/ PageAgain \/ PageMissing \/ PictureGood
           \/ NextCover \/ LaunchWithout
  BY <1>4
     DEF StartTask, NextPackage, PackageEnds, StartCover, PageAgain, PageMissing, PictureGood, NextCover,
         LaunchWithout
<1>5. CASE PageRead \/ PictureBad \/ LaunchCopies \/ LaunchEnds \/ Scan \/ ScanEnds
  <2>1. UNCHANGED <<disk, why>> \/ Unlinked(Page) \/ Unlinked(t.to) \/ Unlinked(HddCard) \/ Unlinked(UsbCard)
    BY <1>5 DEF PageRead, PictureBad, LaunchCopies, LaunchEnds, Scan, ScanEnds, RemovesCard
  <2> QED
    BY <1>1, <1>2, <1>3, <2>1
<1>6. CASE Choose \/ Replace
  <2>1. n \in 1 .. Games
    BY <1>6 DEF TrInv, TaskInv, Choose, Replace
  <2>2. CASE Choose
    BY <1>2, <1>3, <2>1, <2>2 DEF Choose
  <2>3. CASE Replace
    BY <1>1, <1>2, <2>1, <2>3 DEF Replace
  <2> QED
    BY <1>6, <2>2, <2>3
<1>7. CASE MakeCard
  BY <1>1, <1>2, <1>7 DEF MakeCard
<1> QED
  BY <1>4, <1>5, <1>6, <1>7 DEF TaskStep

\* What a game, and a stop of the machine, do to a file.
LEMMA RestartFiles ==
  ASSUME TrInv, Play \/ Crash, NEW f \in Files
  PROVE  \/ disk'[f] = disk[f] /\ why'[f] = why[f] /\ ~(f = t.to /\ (fp # "none" \/ IsPicture))
         \/ f = HddCard /\ newest' \in 1 .. MaxSaves /\ disk'[f] = Card(newest')
         \/ f = t.to /\ why'[f] = why[f] \cup {"stopped"} /\ disk'[f] = disk[f]
         \/ /\ f = t.to /\ fp # "none" /\ why'[f] = why[f] \cup {"stopped"}
            /\ \E kept \in 0 .. Len(disk[f]) : disk'[f] = SubSeq(disk[f], 1, kept)
<1>1. /\ disk \in [Files -> Contents] /\ why \in [Files -> SUBSET Why] /\ t.to \in Files /\ HddCard \in Files
      /\ newest \in 1 .. MaxSaves /\ MaxSaves \in Nat
  BY Names, TransfersAssumption DEF TrInv, TypeInv
<1>2. CASE Play
  <2>1. fp = "none" /\ ~IsPicture
    BY <1>2, NothingUnderWay DEF Play, IsPicture, LoopPlaces, EndPlaces
  <2>2. CASE UNCHANGED <<disk, newest, why, odd>>
    BY <2>1, <2>2
  <2>3. CASE /\ newest < MaxSaves /\ newest' = newest + 1 /\ disk' = [disk EXCEPT ![HddCard] = Card(newest + 1)]
             /\ why' = [why EXCEPT ![HddCard] = {}]
    <3>1. newest' \in 1 .. MaxSaves
      BY <1>1, <2>3
    <3> QED
      BY <1>1, <2>1, <2>3, <3>1
  <2> QED
    BY <1>2, <2>2, <2>3 DEF Play
<1>3. CASE Crash
  <2>1. why' = IF fp # "none" \/ IsPicture THEN [why EXCEPT ![t.to] = @ \cup {"stopped"}] ELSE why
    BY <1>3 DEF Crash
  <2>2. CASE fp = "none"
    <3>1. disk' = disk
      BY <1>3, <2>2 DEF Crash
    <3> QED
      BY <1>1, <2>1, <2>2, <3>1
  <2>3. CASE fp # "none"
    <3>1. PICK kept \in 0 .. Len(disk[t.to]) : disk' = [disk EXCEPT ![t.to] = SubSeq(@, 1, kept)]
      BY <1>3, <2>3 DEF Crash
    <3>2. CASE f = t.to
      BY <1>1, <2>1, <2>3, <3>1, <3>2
    <3>3. CASE f # t.to
      BY <1>1, <2>1, <2>3, <3>1, <3>3
    <3> QED
      BY <3>2, <3>3
  <2> QED
    BY <2>2, <2>3
<1> QED
  BY <1>2, <1>3

\* What is copied while a file is open is in order, unless it was not before.
LEMMA DataInOrder ==
  ASSUME TrInv, fp # "none"
  PROVE  InOrder(t.data) \/ "slipped" \in why[t.to]
<1>1. PackageTransfer \/ PageTransfer \/ PictureTransfer \/ CardTransfer
  BY DEF TrInv, LoopInv, TransferInv, Transferring
<1>2. CASE PackageTransfer
  BY <1>2, Sources DEF PackageTransfer
<1>3. CASE PageTransfer \/ PictureTransfer
  <2>1. n \in Nat
    BY DEF TrInv, TypeInv
  <2> QED
    BY <1>3, <2>1, Sources DEF PageTransfer, PictureTransfer
<1>4. CASE CardTransfer
  <2>1. OtherCard(t.to) \in Files /\ ~Absent(OtherCard(t.to)) /\ t.data = disk[OtherCard(t.to)] /\ t.kind = "copy"
    BY <1>4, Names DEF CardTransfer
  <2>2. why[OtherCard(t.to)] \subseteq why[t.to]
    BY <2>1 DEF TrInv, FileInv
  <2> QED
    BY <2>1, <2>2 DEF TrInv, BlocksInOrder
<1> QED
  BY <1>1, <1>2, <1>3, <1>4

\* Every step keeps BlocksInOrder.
LEMMA OrderKept == TrInv /\ Next => BlocksInOrder'
<1>1. SUFFICES ASSUME TrInv, Next, NEW f \in Files, disk'[f] # NULL, "slipped" \notin why'[f]
               PROVE  InOrder(disk'[f])
  BY DEF BlocksInOrder, Absent
<1>2. BlocksInOrder
  BY <1>1 DEF TrInv
<1>3. ASSUME disk'[f] = disk[f], why[f] \subseteq why'[f] PROVE InOrder(disk'[f])
  BY <1>1, <1>2, <1>3 DEF BlocksInOrder, Absent
<1>4. CASE TransferStep
  <2>1. CASE f # t.to
    BY <1>1, <1>3, <1>4, <2>1, TransferStepFacts
  <2>2. CASE f = t.to /\ disk'[f] = <<>>
    BY <2>2 DEF InOrder
  <2>3. CASE f = t.to /\ AsyncWrites
    <3>1. /\ UNCHANGED why /\ fp # "none"
          /\ disk' = disk \/ disk'[t.to] = SubSeq(t.data, 1, pos)
      BY <1>1, <2>3, WriteFacts
    <3>2. CASE disk' = disk
      BY <1>3, <3>1, <3>2
    <3>3. CASE disk'[t.to] = SubSeq(t.data, 1, pos)
      <4>1. InOrder(t.data)
        BY <1>1, <2>3, <3>1, DataInOrder
      <4>2. pos \in 0 .. Len(t.data) /\ t.data \in Seq(Block)
        BY <1>1 DEF TrInv, TypeInv, TrTypeOK
      <4> QED
        BY <2>3, <3>3, <4>1, <4>2, PrefixInOrder
    <3> QED
      BY <3>1, <3>2, <3>3
  <2> QED
    BY <1>1, <1>3, <1>4, <2>1, <2>2, <2>3, OwnFile
<1>5. CASE TaskStep
  <2>1. CASE n \in 1 .. Games /\ f = Cover(n) /\ disk'[f] = disk[Tmp] /\ why'[f] = why[Tmp]
    BY <1>1, <1>2, <2>1, Names DEF BlocksInOrder, Absent
  <2>2. CASE disk'[f] = Card(0)
    BY <2>2, Sources
  <2> QED
    BY <1>1, <1>3, <1>5, <2>1, <2>2, TaskFiles
<1>6. CASE Play \/ Crash
  <2>1. CASE newest' \in 1 .. MaxSaves /\ disk'[f] = Card(newest')
    <3>1. newest' \in Nat
      BY <2>1, TransfersAssumption
    <3> QED
      BY <2>1, <3>1, Sources
  <2>2. CASE why'[f] = why[f] \cup {"stopped"} /\ disk'[f] = disk[f]
    BY <1>3, <2>2
  <2>3. CASE /\ f = t.to /\ fp # "none" /\ why'[f] = why[f] \cup {"stopped"}
             /\ \E kept \in 0 .. Len(disk[f]) : disk'[f] = SubSeq(disk[f], 1, kept)
    <3>1. disk[f] \in Seq(Block) /\ ~Absent(f)
      BY <1>1, <2>3 DEF TrInv, TypeInv, LoopInv, Contents, Absent
    <3>2. InOrder(disk[f])
      BY <1>1, <1>2, <2>3, <3>1 DEF BlocksInOrder
    <3> QED
      BY <2>3, <3>1, <3>2, PrefixInOrder
  <2> QED
    BY <1>1, <1>3, <1>6, <2>1, <2>2, <2>3, RestartFiles
<1> QED
  BY <1>1, <1>4, <1>5, <1>6, Steps

-----------------------------------------------------------------------------
(* What is settled.                                                        *)

\* What is settled and not touched stays so.
LEMMA SettledStays ==
  ASSUME NEW f \in Files, Settled(f), disk'[f] = disk[f], why[f] \subseteq why'[f]
  PROVE  Settled(f)'
  BY DEF Settled, Absent, Whole

\* What is missing is settled, and what something befell.
LEMMA SettledNext ==
  ASSUME NEW f \in Files, disk'[f] = NULL \/ why'[f] # {}
  PROVE  Settled(f)'
  BY DEF Settled, Absent

\* Whole files are settled.
LEMMA WholeNext ==
  /\ \A i \in DOMAIN Packages : disk'[Pkg(i)] = Blocks(Pkg(i), Packages[i]) => Settled(Pkg(i))'
  /\ \A g, h \in 1 .. Games : disk'[Cover(h)] = Picture(g) => Settled(Cover(h))'
  /\ \A g \in 1 .. Games : disk'[Tmp] = Picture(g) => Settled(Tmp)'
  /\ disk'[Page] = Html => Settled(Page)'
  /\ \A save \in 0 .. MaxSaves : disk'[UsbCard] = Card(save) => Settled(UsbCard)'
  /\ \A save \in 0 .. MaxSaves : disk'[HddCard] = Card(save) => Settled(HddCard)'
<1>1. \A i \in DOMAIN Packages : disk'[Pkg(i)] = Blocks(Pkg(i), Packages[i]) => Settled(Pkg(i))'
  BY Names DEF Settled, Whole
<1>2. \A g, h \in 1 .. Games : disk'[Cover(h)] = Picture(g) => Settled(Cover(h))'
  BY Names DEF Settled, Whole
<1>3. \A g \in 1 .. Games : disk'[Tmp] = Picture(g) => Settled(Tmp)'
  BY Names DEF Settled, Whole
<1>4. disk'[Page] = Html => Settled(Page)'
  BY DEF Settled, Whole
<1>5. \A save \in 0 .. MaxSaves : disk'[UsbCard] = Card(save) => Settled(UsbCard)'
  BY DEF Settled, Whole
<1>6. \A save \in 0 .. MaxSaves : disk'[HddCard] = Card(save) => Settled(HddCard)'
  BY DEF Settled, Whole
<1> QED
  BY <1>1, <1>2, <1>3, <1>4, <1>5, <1>6

\* A transfer that ends well has written all of what it copies, unless
\* something befell its file.
LEMMA CloseFacts ==
  ASSUME TrInv, Close, fp # "none", Result = "ok"
  PROVE  /\ disk' = disk /\ ret' = "ok" /\ why[t.to] \subseteq why'[t.to] /\ odd \subseteq odd'
         /\ disk[t.to] = t.data \/ (why'[t.to] # {} /\ (IsCard(t.to) => odd' # {}))
<1>1. /\ pos \in 0 .. Len(t.data) /\ t.data \in Seq(Block) /\ t.to \in Files /\ why \in [Files -> SUBSET Why]
      /\ use_async_fd \in {1, 128}
  BY DEF TrInv, TypeInv, TrTypeOK
<1>2. ret = "ok" /\ ret' = "ok" /\ disk' = disk
  BY DEF Close, Result, Removes
<1>3. \/ BlockFailed /\ Happened(t.to, "unread")
      \/ ~BlockFailed /\ UNCHANGED <<why, odd>>
  BY DEF Close, Removes
<1>4. /\ why[t.to] \subseteq why'[t.to] /\ odd \subseteq odd'
      /\ BlockFailed => why'[t.to] # {} /\ (IsCard(t.to) => odd' # {})
  <2>1. CASE BlockFailed /\ Happened(t.to, "unread")
    <3>1. "unread" \in Why /\ "unread" # "kept"
      BY DEF Why
    <3> QED
      BY <1>1, <2>1, <3>1, HappenedFacts
  <2>2. CASE ~BlockFailed /\ UNCHANGED <<why, odd>>
    BY <2>2
  <2> QED
    BY <1>3, <2>1, <2>2
<1>5. ~Enabled /\ pc = "close" /\ fp # "closed"
  BY <1>2 DEF Close, TrInv, WorkerInv, LoopInv, LoopPlaces
<1>6. /\ disk[t.to] = SubSeq(t.data, 1, pos) \/ Unwritten
      /\ pos = Len(t.data) \/ Missed("cut")
  BY <1>2, <1>5 DEF TrInv, FileInv, EndPlaces
<1>7. Unwritten => BlockFailed \/ Missed("slipped")
  BY <1>1, <1>5 DEF Unwritten, BlockFailed
<1>8. \A what : Missed(what) => why'[t.to] # {} /\ (IsCard(t.to) => odd' # {})
  BY <1>4 DEF Missed
<1>9. SubSeq(t.data, 1, Len(t.data)) = t.data
  BY <1>1
<1> QED
  BY <1>2, <1>4, <1>6, <1>7, <1>8, <1>9

\* The file of a transfer that ends is settled, but for the page.
LEMMA CloseSettles ==
  ASSUME TrInv, Close, fp # "none", NEW f \in Files, f = t.to
  PROVE  Settled(f)' \/ PageForPicture'
<1>1. t.to \in Files /\ disk \in [Files -> Contents] /\ why \in [Files -> SUBSET Why]
  BY DEF TrInv, TypeInv
<1>2. CASE Result # "ok"
  <2>1. Unlinked(t.to)
    BY <1>2 DEF Close, Removes
  <2> QED
    BY <1>1, <2>1, UnlinkedFacts, SettledNext
<1>3. CASE Result = "ok"
  <2>1. /\ disk' = disk /\ ret' = "ok" /\ why[t.to] \subseteq why'[t.to]
        /\ disk[t.to] = t.data \/ why'[t.to] # {}
    BY <1>3, CloseFacts
  <2>2. CASE why'[t.to] # {}
    BY <1>1, <2>2, SettledNext
  <2>3. CASE disk'[t.to] = t.data
    <3>1. PackageTransfer \/ PageTransfer \/ PictureTransfer \/ CardTransfer
      BY DEF TrInv, LoopInv, TransferInv, Transferring
    <3>2. CASE PackageTransfer
      BY <2>3, <3>2, WholeNext DEF PackageTransfer
    <3>3. CASE PageTransfer
      BY <2>3, <3>3, WholeNext DEF PageTransfer
    <3>4. CASE PictureTransfer
      <4>1. n \in 1 .. Games
        BY <3>4 DEF PictureTransfer, TrInv, TaskInv
      <4>2. CASE t.data = Picture(n)
        BY <2>3, <3>4, <4>1, <4>2, WholeNext DEF PictureTransfer
      <4>3. CASE t.data = Html
        <5>1. t.to # Page /\ task \in {"cover", "covers"}
          BY <3>4, <4>1, Names DEF PictureTransfer, CoverTasks
        <5>2. pc' = "after" /\ task' = task /\ t' = t
          BY DEF Close, At
        <5> QED
          BY <2>1, <2>3, <4>3, <5>1, <5>2 DEF PageForPicture, IsPicture
      <4> QED
        BY <3>4, <4>2, <4>3 DEF PictureTransfer
    <3>5. CASE CardTransfer
      <4> DEFINE other == OtherCard(t.to)
      <4>1. /\ other \in Files /\ other # t.to /\ t.to \in {UsbCard, HddCard} /\ other \in {UsbCard, HddCard}
            /\ t.data = disk[other] /\ ~Absent(other) /\ t.kind = "copy"
        BY <3>5, Names DEF CardTransfer
      <4>2. why[other] \subseteq why[t.to]
        BY <4>1 DEF TrInv, FileInv
      <4>3. Settled(other)
        BY <4>1 DEF TrInv, SettledInv
      <4>4. Whole(other) \/ why[other] # {}
        BY <4>1, <4>3 DEF Settled
      <4>5. CASE why[other] # {}
        BY <1>1, <2>1, <4>2, <4>5, SettledNext
      <4>6. CASE Whole(other)
        <5>1. PICK save \in 0 .. MaxSaves : disk[other] = Card(save)
          <6>1. other[1] \notin {"pkg", "cover", "tmp"} /\ other # Page
            BY <4>1, Names DEF UsbCard, HddCard
          <6> QED
            BY <4>6, <6>1 DEF Whole
        <5> QED
          BY <2>3, <4>1, <5>1, WholeNext
      <4> QED
        BY <4>4, <4>5, <4>6
    <3> QED
      BY <3>1, <3>2, <3>3, <3>4, <3>5
  <2> QED
    BY <2>1, <2>2, <2>3
<1> QED
  BY <1>2, <1>3

\* A page that was taken for a picture is removed.
LEMMA PageRemoved ==
  ASSUME TrInv, TaskStep, PageForPicture
  PROVE  disk'[t.to] = NULL
<1>1. pc = "after" /\ task \in CoverTasks /\ t.to # Page /\ ret = "ok" /\ disk[t.to] = Html
  BY DEF PageForPicture, IsPicture, CoverTasks
<1>2. ~PictureGood
  BY <1>1, Sources DEF PictureGood, Decodes
<1>3. PictureBad
  BY <1>1, <1>2
     DEF TaskStep, StartTask, NextPackage, PackageEnds, StartCover, PageAgain, PageRead, PageMissing, Choose, Replace,
         NextCover, MakeCard, LaunchWithout, LaunchCopies, LaunchEnds, Scan, ScanEnds, CoverTasks
<1>4. Unlinked(t.to)
  BY <1>1, <1>3 DEF PictureBad
<1> QED
  BY <1>4, UnlinkedFacts DEF TrInv, TypeInv

\* Every step keeps SettledInv.
LEMMA SettledKept == TrInv /\ Next => SettledInv'
<1>1. SUFFICES ASSUME TrInv, Next, NEW f \in Files
               PROVE  Settled(f)' \/ (f = t'.to /\ (fp' # "none" \/ PageForPicture'))
  BY DEF SettledInv
<1>2. Settled(f) \/ (f = t.to /\ (fp # "none" \/ PageForPicture))
  BY <1>1 DEF TrInv, SettledInv
<1>3. /\ disk \in [Files -> Contents] /\ why \in [Files -> SUBSET Why] /\ t.to \in Files
      /\ (pc \in {"recv", "write", "bar"} => fp = "open")
  BY <1>1 DEF TrInv, TypeInv, TrTypeOK
<1>4. CASE TransferStep
  <2>1. t' = t
    BY <1>1, <1>4, TransferStepFacts
  <2>2. CASE f # t.to
    BY <1>1, <1>2, <1>4, <2>2, TransferStepFacts, SettledStays
  <2>3. CASE f = t.to /\ fp' # "none"
    BY <2>1, <2>3
  <2>4. CASE f = t.to /\ fp # "none" /\ fp' = "none"
    <3>1. SendFails \/ ErrWaits \/ Close
      BY <1>4, <2>4
         DEF TransferStep, Setup, Loop, RecvBlock, RecvEnd, RecvFails, SendBlock, DrawBar, Err, Worker,
             AsyncChecks, AsyncWrites, AsyncEnds, Idles, transfer
    <3>2. CASE SendFails \/ ErrWaits
      <4>1. Happened(t.to, "kept")
        BY <2>4, <3>2 DEF SendFails, ErrWaits, KeepsPart
      <4>2. "kept" \in Why
        BY DEF Why
      <4>3. why'[t.to] # {}
        BY <1>3, <4>1, <4>2, HappenedFacts
      <4> QED
        BY <1>3, <2>4, <4>3, SettledNext
    <3>3. CASE Close
      BY <1>1, <2>1, <2>4, <3>3, CloseSettles
    <3> QED
      BY <3>1, <3>2, <3>3
  <2>5. CASE f = t.to /\ fp = "none" /\ fp' = "none"
    <3>1. CASE ErrWaits /\ Failed
      <4>1. Happened(t.to, "kept") /\ "kept" \in Why
        BY <3>1 DEF ErrWaits, KeepsPart, Why
      <4>2. why'[t.to] # {}
        BY <1>3, <4>1, HappenedFacts
      <4> QED
        BY <1>3, <2>5, <4>2, SettledNext
    <3>2. ASSUME ~(ErrWaits /\ Failed)
          PROVE  UNCHANGED <<disk, why, task, t>> /\ (UNCHANGED <<pc, ret>> \/ pc # "after")
      <4>1. CASE Setup
        BY <1>1, <2>5, <4>1 DEF Setup
      <4>2. CASE Loop
        BY <1>3, <2>5, <4>2 DEF Loop, RecvBlock, RecvEnd, RecvFails, SendFails, SendBlock, DrawBar
      <4>3. CASE Err \/ ErrWaits
        BY <2>5, <3>2, <4>3 DEF Err, ErrWaits, Keeps
      <4>4. CASE Close
        BY <2>5, <4>4 DEF Close, Removes
      <4>5. CASE Worker
        <5>1. UNCHANGED <<pc, ret, task, t, why>>
          BY <4>5 DEF Worker, AsyncChecks, AsyncWrites, AsyncEnds, Idles, transfer
        <5>2. ~AsyncWrites
          BY <1>1, <2>5, WriteFacts
        <5>3. disk' = disk
          BY <4>5, <5>2 DEF Worker, AsyncChecks, AsyncEnds
        <5> QED
          BY <5>1, <5>3
      <4> QED
        BY <1>4, <4>1, <4>2, <4>3, <4>4, <4>5 DEF TransferStep
    <3>3. CASE ~(ErrWaits /\ Failed) /\ Settled(f)
      BY <3>2, <3>3, SettledStays
    <3>4. CASE ~(ErrWaits /\ Failed) /\ PageForPicture
      BY <2>1, <2>5, <3>2, <3>4 DEF PageForPicture, IsPicture
    <3> QED
      BY <1>2, <2>5, <3>1, <3>3, <3>4
  <2> QED
    BY <2>2, <2>3, <2>4, <2>5
<1>5. CASE TaskStep
  <2>1. fp = "none"
    BY <1>1, <1>5, TaskStepFacts
  <2>2. CASE disk'[f] = NULL
    BY <1>1, <2>2, SettledNext
  <2>3. CASE disk'[f] = disk[f] /\ why'[f] = why[f]
    <3>1. Settled(f) \/ disk'[f] = NULL
      BY <1>1, <1>2, <1>5, <2>1, PageRemoved
    <3> QED
      BY <1>1, <2>2, <2>3, <3>1, SettledStays
  <2>4. CASE n \in 1 .. Games /\ f = Cover(n) /\ disk'[f] = disk[Tmp] /\ why'[f] = why[Tmp] /\ Replace
    <3>1. Settled(Tmp)
      BY <1>1, <2>1, <2>4, Names DEF TrInv, SettledInv, PageForPicture, IsPicture, Replace
    <3>2. disk[Tmp] = NULL \/ why[Tmp] # {} \/ \E g \in 1 .. Games : disk[Tmp] = Picture(g)
      <4>1. Tmp[1] = "tmp" /\ Tmp # Page /\ Tmp # UsbCard /\ Tmp # HddCard
        BY DEF Tmp, Page, UsbCard, HddCard
      <4> QED
        BY <3>1, <4>1 DEF Settled, Absent, Whole
    <3>3. CASE disk[Tmp] = NULL \/ why[Tmp] # {}
      BY <1>1, <2>4, <3>3, SettledNext
    <3>4. CASE \E g \in 1 .. Games : disk[Tmp] = Picture(g)
      BY <2>4, <3>4, WholeNext
    <3> QED
      BY <3>2, <3>3, <3>4
  <2>5. CASE f = UsbCard /\ disk'[f] = Card(0)
    <3>1. 0 \in 0 .. MaxSaves
      BY TransfersAssumption
    <3> QED
      BY <2>5, <3>1, WholeNext
  <2> QED
    BY <1>1, <1>5, <2>2, <2>3, <2>4, <2>5, TaskFiles
<1>6. CASE Play \/ Crash
  <2>1. CASE disk'[f] = disk[f] /\ why'[f] = why[f] /\ ~(f = t.to /\ (fp # "none" \/ IsPicture))
    <3>1. Settled(f)
      BY <1>2, <2>1 DEF PageForPicture
    <3> QED
      BY <1>1, <2>1, <3>1, SettledStays
  <2>2. CASE f = HddCard /\ newest' \in 1 .. MaxSaves /\ disk'[f] = Card(newest')
    <3>1. newest' \in 0 .. MaxSaves
      BY <2>2, TransfersAssumption
    <3> QED
      BY <2>2, <3>1, WholeNext
  <2>3. CASE why'[f] = why[f] \cup {"stopped"}
    BY <1>1, <2>3, SettledNext
  <2> QED
    BY <1>1, <1>6, <2>1, <2>2, <2>3, RestartFiles
<1> QED
  BY <1>1, <1>4, <1>5, <1>6, Steps

-----------------------------------------------------------------------------
(* The memory cards.                                                       *)

\* A card is copied to the other place, and nothing else is copied there.
LEMMA CardsInHand ==
  ASSUME TrInv, pc \in Transferring
  PROVE  /\ t.kind = "copy" => CardTransfer /\ IsCard(t.to)
         /\ t.kind # "copy" => t.to \notin {UsbCard, HddCard}
         /\ task = "launch" => t.kind = "copy" /\ t.to = HddCard
         /\ task = "scan" => t.kind = "copy" /\ t.to = UsbCard
<1>1. PackageTransfer \/ PageTransfer \/ PictureTransfer \/ CardTransfer
  BY DEF TrInv, TransferInv
<1>2. CASE PackageTransfer
  BY <1>2, Names DEF PackageTransfer, IsCard
<1>3. CASE PageTransfer \/ PictureTransfer
  <2>1. n \in 1 .. Games
    BY <1>3 DEF PageTransfer, PictureTransfer, TrInv, TaskInv
  <2> QED
    BY <1>3, <2>1, Names DEF PageTransfer, PictureTransfer, IsCard, CoverTasks
<1>4. CASE CardTransfer
  BY <1>4, Names DEF CardTransfer, IsCard
<1> QED
  BY <1>1, <1>2, <1>3, <1>4

\* Every step keeps CopyInv.
LEMMA CopyKept == TrInv /\ Next => CopyInv'
<1>1. SUFFICES ASSUME TrInv, Next, Copying' PROVE CopyInv'
  BY DEF CopyInv
<1>2. /\ disk \in [Files -> Contents] /\ why \in [Files -> SUBSET Why] /\ t.to \in Files
      /\ pos \in 0 .. Len(t.data) /\ t.data \in Seq(Block)
  BY <1>1 DEF TrInv, TypeInv, TrTypeOK
<1>3. CASE TaskStep
  <2>1. pc' = "setup"
    BY <1>1, <1>3, TaskStepPlaces DEF Copying, Transferring, LoopPlaces, EndPlaces
  <2>2. Starts
    BY <1>1, <1>3, <2>1, StartsOrNot
  <2>3. StartsLaunch \/ StartsScan
    BY <1>1, <2>2 DEF Starts, StartsPackage, StartsCover, StartTransfer, Copying
  <2>4. disk'[t'.to] = NULL
    <3>1. CASE StartsLaunch
      <4>1. t'.to = HddCard
        BY <3>1 DEF StartsLaunch, StartTransfer
      <4> QED
        BY <1>2, <3>1, <4>1, Names, UnlinkedFacts DEF StartsLaunch
    <3>2. CASE StartsScan
      <4>1. t'.to = UsbCard
        BY <3>2 DEF StartsScan, StartTransfer
      <4> QED
        BY <1>2, <3>2, <4>1, Names, UnlinkedFacts DEF StartsScan
    <3> QED
      BY <2>3, <3>1, <3>2
  <2> QED
    BY <2>1, <2>4 DEF CopyInv, Absent
<1>4. CASE TransferStep
  <2>1. t' = t /\ pc \in Transferring
    BY <1>1, <1>4, TransferStepFacts DEF Copying
  <2>2. Copying /\ t.kind = "copy" /\ IsCard(t.to)
    BY <1>1, <2>1, CardsInHand DEF Copying
  <2>3. Absent(t.to) \/ \E k \in 0 .. Len(t.data) : disk[t.to] = SubSeq(t.data, 1, k)
    BY <1>1, <2>2 DEF TrInv, CopyInv
  <2>4. disk'[t.to] = NULL \/ \E k \in 0 .. Len(t.data) : disk'[t.to] = SubSeq(t.data, 1, k)
    <3>1. CASE disk'[t.to] = disk[t.to]
      BY <2>3, <3>1 DEF Absent
    <3>2. CASE disk'[t.to] = <<>>
      <4>1. SubSeq(t.data, 1, 0) = <<>> /\ 0 \in 0 .. Len(t.data)
        BY <1>2
      <4> QED
        BY <3>2, <4>1
    <3>3. CASE AsyncWrites
      <4>1. disk' = disk \/ disk'[t.to] = SubSeq(t.data, 1, pos)
        BY <1>1, <3>3, WriteFacts
      <4> QED
        BY <1>2, <3>1, <4>1
    <3> QED
      BY <1>1, <1>4, <3>1, <3>2, <3>3, OwnFile
  <2>5. ASSUME pc' = "after", ret' = "ok", odd' = {} PROVE disk'[t.to] = t.data
    <3>1. Close \/ (Worker /\ pc = "after")
      BY <1>4, <2>5
         DEF TransferStep, Setup, Loop, RecvBlock, RecvEnd, RecvFails, SendFails, SendBlock, DrawBar, Err, ErrWaits,
             Worker, AsyncChecks, AsyncWrites, AsyncEnds, Idles, At
    <3>2. CASE Close
      <4>1. Result = "ok" /\ ret = "ok"
        BY <2>2, <2>5, <3>2 DEF Close, Result
      <4>2. fp # "none"
        BY <1>1, <2>2, <3>2, <4>1 DEF Close, TrInv, LoopInv, EndPlaces
      <4> QED
        BY <1>1, <2>2, <2>5, <3>2, <4>1, <4>2, CloseFacts
    <3>3. CASE Worker /\ pc = "after"
      <4>1. UNCHANGED <<ret, odd>>
        BY <3>3 DEF Worker, AsyncChecks, AsyncWrites, AsyncEnds, Idles, transfer
      <4>2. ~AsyncWrites
        BY <1>1, <3>3, WriteFacts, NothingUnderWay DEF LoopPlaces, EndPlaces
      <4>3. disk' = disk
        BY <3>3, <4>2 DEF Worker, AsyncChecks, AsyncEnds
      <4> QED
        BY <1>1, <2>2, <2>5, <3>3, <4>1, <4>3 DEF TrInv, CopyInv
    <3> QED
      BY <3>1, <3>2, <3>3
  <2> QED
    BY <2>1, <2>4, <2>5 DEF CopyInv, Absent
<1>5. CASE Play \/ Crash
  BY <1>1, <1>5 DEF Play, Crash, Fresh, At, Copying, Transferring, LoopPlaces, EndPlaces
<1> QED
  BY <1>1, <1>3, <1>4, <1>5, Steps

\* A card that is the newest is there.
LEMMA NewestIsThere ==
  ASSUME TrInv, NEW f \in Files, Newest(f)
  PROVE  ~Absent(f) /\ disk[f] \in Seq(Block) /\ Len(disk[f]) = CardBlocks
<1>1. newest \in Nat
  BY TransfersAssumption DEF TrInv, TypeInv
<1> QED
  BY <1>1, Sources, NullIsNoFile DEF Newest, Absent

\* Every step of a transfer keeps SaveInv.
LEMMA SaveKeptByTransfers == TrInv /\ TransferStep => SaveInv'
<1>1. SUFFICES ASSUME TrInv, TransferStep, odd' = {} PROVE SaveInv'
  BY DEF SaveInv
<1>2. /\ UNCHANGED <<t, newest>> /\ \A f \in Files \ {t.to} : disk'[f] = disk[f]
      /\ odd = {} /\ (pc \in Transferring \/ UNCHANGED <<pc, disk>>) /\ (pc' \in Transferring \/ pc' = pc)
      /\ UsbCard \in Files /\ HddCard \in Files /\ UsbCard # HddCard
  BY <1>1, TransferStepFacts, Names
<1>3. SaveInv
  BY <1>1 DEF TrInv
<1>4. CASE ~(pc \in Transferring)
  BY <1>2, <1>3, <1>4 DEF SaveInv, MakingHdd, MakingUsb, Copying, Newest, Absent
<1>5. CASE pc \in Transferring
  <2>1. pc' \in Transferring
    BY <1>2, <1>5
  <2>2. CASE t.kind # "copy"
    <3>1. disk'[UsbCard] = disk[UsbCard] /\ disk'[HddCard] = disk[HddCard]
      BY <1>1, <1>2, <1>5, <2>2, CardsInHand
    <3>2. pc \notin {"boot", "play"}
      BY <1>5 DEF Transferring, LoopPlaces, EndPlaces
    <3> QED
      BY <1>2, <1>3, <2>2, <3>1, <3>2 DEF SaveInv, MakingHdd, MakingUsb, Copying, Newest, Absent
  <2>3. CASE t.kind = "copy" /\ t.to = HddCard
    BY <1>2, <1>3, <1>5, <2>1, <2>3 DEF SaveInv, MakingHdd, MakingUsb, Copying, Newest, Absent
  <2>4. CASE t.kind = "copy" /\ t.to = UsbCard
    <3>1. ~Absent(HddCard)
      BY <1>1, <1>5, <2>4, CardsInHand, Names DEF CardTransfer
    <3> QED
      BY <1>2, <1>3, <1>5, <2>1, <2>4, <3>1 DEF SaveInv, MakingHdd, MakingUsb, Copying, Newest, Absent
  <2> QED
    BY <1>1, <1>5, <2>2, <2>3, <2>4, CardsInHand DEF IsCard
<1> QED
  BY <1>4, <1>5

\* Every step of a task keeps SaveInv.
LEMMA SaveKeptByTasks == TrInv /\ TaskStep => SaveInv'
<1>1. SUFFICES ASSUME TrInv, TaskStep, odd' = {} PROVE SaveInv'
  BY DEF SaveInv
<1>2. /\ newest' = newest /\ odd = {}
      /\ UsbCard \in Files /\ HddCard \in Files /\ UsbCard # HddCard
      /\ disk \in [Files -> Contents] /\ why \in [Files -> SUBSET Why] /\ t.to \in Files
  BY <1>1, TaskStepFacts, Names DEF TrInv, TypeInv
<1>3. /\ ~MakingHdd /\ ~Absent(HddCard) => Newest(HddCard)
      /\ MakingHdd \/ Absent(HddCard) => Newest(UsbCard)
      /\ pc \notin {"boot", "play"} /\ ~Copying => Absent(HddCard) \/ Absent(UsbCard)
  BY <1>1, <1>2 DEF TrInv, SaveInv
<1>4. CASE MakeCard
  <2>1. pc = "launch" /\ ~Copying /\ ~MakingHdd
    BY <1>4 DEF MakeCard, Copying, MakingHdd, Transferring, LoopPlaces, EndPlaces
  <2>2. Absent(UsbCard) /\ ~Absent(HddCard)
    BY <1>1, <1>2, <1>3, <1>4, NewestIsThere DEF MakeCard
  <2>3. odd' # odd \cup {"emptied"}
    BY <1>1
  <2>4. At("play") /\ UNCHANGED disk
    BY <1>4, <2>2, <2>3 DEF MakeCard
  <2> QED
    BY <1>2, <1>3, <2>1, <2>2, <2>4
       DEF SaveInv, At, MakingHdd, MakingUsb, Copying, Transferring, LoopPlaces, EndPlaces, Newest, Absent
<1>5. CASE LaunchWithout
  BY <1>2, <1>3, <1>5
     DEF LaunchWithout, At, SaveInv, MakingHdd, MakingUsb, Copying, Transferring, LoopPlaces, EndPlaces, Newest, Absent
<1>6. CASE LaunchCopies
  <2>1. pc = "launch" /\ ~Copying /\ ~MakingHdd
    BY <1>6 DEF LaunchCopies, Copying, MakingHdd, Transferring, LoopPlaces, EndPlaces
  <2>2. Newest(UsbCard)
    BY <1>3, <1>6, <2>1 DEF LaunchCopies
  <2>3. disk'[UsbCard] = disk[UsbCard]
    BY <1>2, <1>6, UnlinkedFacts DEF LaunchCopies
  <2>4. pc' = "setup" /\ t'.kind = "copy" /\ t'.to = HddCard
    BY <1>6 DEF LaunchCopies, StartTransfer, At
  <2> QED
    BY <1>2, <2>2, <2>3, <2>4 DEF SaveInv, MakingHdd, MakingUsb, Copying, Transferring, Newest, Absent
<1>7. CASE LaunchEnds
  <2>1. /\ pc = "after" /\ task = "launch" /\ pc' = "play"
        /\ IF ret # "ok" THEN Unlinked(HddCard) ELSE disk' = disk
    BY <1>7 DEF LaunchEnds, At
  <2>2. t.kind = "copy" /\ t.to = HddCard /\ t.data = disk[UsbCard] /\ Copying
    BY <1>1, <2>1, CardsInHand, Names DEF CardTransfer, Copying, Transferring
  <2>3. Newest(UsbCard)
    BY <1>3, <2>2 DEF MakingHdd
  <2>4. ~Copying'
    BY <2>1 DEF Copying, Transferring, LoopPlaces, EndPlaces
  <2>5. CASE ret # "ok"
    <3>1. disk'[HddCard] = NULL /\ disk'[UsbCard] = disk[UsbCard]
      BY <1>2, <2>1, <2>5, UnlinkedFacts
    <3> QED
      BY <1>2, <2>1, <2>3, <2>4, <3>1 DEF SaveInv, MakingHdd, MakingUsb, Newest, Absent
  <2>6. CASE ret = "ok"
    <3>1. disk[HddCard] = disk[UsbCard]
      BY <1>1, <1>2, <2>1, <2>2, <2>6 DEF TrInv, CopyInv
    <3>2. Newest(HddCard) /\ ~Absent(HddCard)
      BY <1>1, <1>2, <2>3, <3>1, NewestIsThere DEF Newest
    <3> QED
      BY <1>2, <2>1, <2>4, <2>6, <3>2 DEF SaveInv, MakingHdd, MakingUsb, Newest, Absent
  <2> QED
    BY <2>5, <2>6
<1>8. CASE Scan
  <2>1. pc = "boot" /\ ~Copying /\ ~MakingHdd
    BY <1>8 DEF Scan, Copying, MakingHdd, Transferring, LoopPlaces, EndPlaces
  <2>2. CASE Absent(HddCard)
    <3>1. pc' = "idle" /\ disk' = disk
      BY <1>8, <2>2 DEF Scan, Rests, At
    <3> QED
      BY <1>2, <1>3, <2>1, <2>2, <3>1
         DEF SaveInv, MakingHdd, MakingUsb, Copying, Transferring, LoopPlaces, EndPlaces, Newest, Absent
  <2>3. CASE ~Absent(HddCard)
    <3>1. disk'[HddCard] = disk[HddCard]
      BY <1>2, <1>8, <2>3, UnlinkedFacts DEF Scan
    <3>2. pc' = "setup" /\ t'.kind = "copy" /\ t'.to = UsbCard
      BY <1>8, <2>3 DEF Scan, StartTransfer, At
    <3> QED
      BY <1>2, <1>3, <2>1, <2>3, <3>1, <3>2
         DEF SaveInv, MakingHdd, MakingUsb, Copying, Transferring, Newest, Absent
  <2> QED
    BY <2>2, <2>3
<1>9. CASE ScanEnds
  <2>1. /\ pc = "after" /\ task = "scan" /\ pc' = "idle"
        /\ Unlinked(IF ret = "ok" THEN HddCard ELSE UsbCard)
    BY <1>9 DEF ScanEnds, Rests, At, RemovesCard
  <2>2. t.kind = "copy" /\ t.to = UsbCard /\ t.data = disk[HddCard] /\ Copying /\ ~Absent(HddCard)
    BY <1>1, <2>1, CardsInHand, Names DEF CardTransfer, Copying, Transferring
  <2>3. Newest(HddCard)
    BY <1>2, <1>3, <2>2 DEF MakingHdd
  <2>4. ~Copying'
    BY <2>1 DEF Copying, Transferring, LoopPlaces, EndPlaces
  <2>5. CASE ret = "ok"
    <3>1. disk'[HddCard] = NULL /\ disk'[UsbCard] = disk[UsbCard]
      BY <1>2, <2>1, <2>5, UnlinkedFacts
    <3>2. disk[UsbCard] = disk[HddCard]
      BY <1>1, <1>2, <2>1, <2>2, <2>5 DEF TrInv, CopyInv
    <3> QED
      BY <1>2, <2>1, <2>3, <2>4, <3>1, <3>2 DEF SaveInv, MakingHdd, MakingUsb, Newest, Absent
  <2>6. CASE ret # "ok"
    <3>1. disk'[UsbCard] = NULL /\ disk'[HddCard] = disk[HddCard]
      BY <1>2, <2>1, <2>6, UnlinkedFacts
    <3> QED
      BY <1>2, <2>1, <2>2, <2>3, <2>4, <3>1 DEF SaveInv, MakingHdd, MakingUsb, Newest, Absent
  <2> QED
    BY <2>5, <2>6
<1>10. CASE \/ StartTask \/ NextPackage \/ PackageEnds \/ StartCover \/ PageAgain \/ PageRead \/ PageMissing
            \/ PictureBad \/ PictureGood \/ Choose \/ Replace \/ NextCover
  <2>1. pc \notin {"boot", "launch", "play"}
    BY <1>10
       DEF StartTask, NextPackage, PackageEnds, StartCover, PageAgain, PageRead, PageMissing, PictureBad,
           PictureGood, Choose, Replace, NextCover, IsPicture
  <2>2. pc \in Transferring => task \in CoverTasks \cup {"packages"}
    <3>1. pc \in Transferring /\ t.to = Page => task \in CoverTasks
      BY <1>1, PageTasks DEF TrInv
    <3> QED
      BY <1>10, <3>1
         DEF StartTask, NextPackage, PackageEnds, StartCover, PageAgain, PageRead, PageMissing, PictureBad,
             PictureGood, Choose, Replace, NextCover, IsPicture, CoverTasks, Transferring, LoopPlaces, EndPlaces
  <2>3. ~Copying
    BY <1>1, <2>2, CardsInHand DEF Copying, CardTransfer, CoverTasks
  <2>4. ~Copying'
    <3>1. ASSUME pc' = "setup" PROVE t'.kind # "copy"
      <4>1. StartsPackage \/ StartsCover
        BY <1>1, <2>1, <3>1, StartsOrNot DEF Starts, StartsLaunch, StartsScan
      <4> QED
        BY <4>1 DEF StartsPackage, StartsCover, StartTransfer
    <3>2. pc' \in Transferring => pc' = "setup"
      BY <1>1, TaskStepPlaces DEF Transferring, LoopPlaces, EndPlaces
    <3> QED
      BY <3>1, <3>2 DEF Copying
  <2>5. /\ pc = "after" /\ ~Copying => t.to \notin {UsbCard, HddCard}
        /\ Tmp \notin {UsbCard, HddCard} /\ Page \notin {UsbCard, HddCard}
        /\ Cover(n) \notin {UsbCard, HddCard}
    <3>1. pc = "after" /\ ~Copying => t.to \notin {UsbCard, HddCard}
      BY <1>1, CardsInHand DEF Copying, Transferring
    <3> QED
      BY <3>1 DEF Tmp, Page, Cover, UsbCard, HddCard
  <2>6. disk'[UsbCard] = disk[UsbCard] /\ disk'[HddCard] = disk[HddCard]
    <3>1. ASSUME NEW g, g \notin {UsbCard, HddCard}, Unlinked(g)
          PROVE  disk'[UsbCard] = disk[UsbCard] /\ disk'[HddCard] = disk[HddCard]
      BY <1>2, <3>1 DEF Unlinked
    <3>2. CASE \/ StartTask \/ NextPackage \/ PackageEnds \/ StartCover \/ PageAgain \/ PageMissing
               \/ PictureGood \/ NextCover
      BY <3>2 DEF StartTask, NextPackage, PackageEnds, StartCover, PageAgain, PageMissing, PictureGood, NextCover
    <3>3. CASE PageRead \/ PictureBad \/ Choose
      <4>1. disk' = disk \/ Unlinked(Page) \/ (pc = "after" /\ Unlinked(t.to)) \/ Unlinked(Tmp) \/ Unlinked(Cover(n))
        BY <3>3 DEF PageRead, PictureBad, Choose, IsPicture
      <4> QED
        BY <2>3, <2>5, <3>1, <4>1
    <3>4. CASE Replace
      BY <1>2, <2>5, <3>4 DEF Replace
    <3> QED
      BY <1>10, <3>2, <3>3, <3>4
  <2> QED
    BY <1>2, <1>3, <2>1, <2>3, <2>4, <2>6 DEF SaveInv, MakingHdd, MakingUsb, Newest, Absent
<1> QED
  BY <1>1, <1>4, <1>5, <1>6, <1>7, <1>8, <1>9, <1>10 DEF TaskStep

\* Every step keeps SaveInv.
LEMMA SaveKept == TrInv /\ Next => SaveInv'
<1>1. SUFFICES ASSUME TrInv, Play \/ Crash, odd' = {} PROVE SaveInv'
  BY Steps, SaveKeptByTasks, SaveKeptByTransfers DEF SaveInv
<1>2. /\ UsbCard \in Files /\ HddCard \in Files /\ UsbCard # HddCard
      /\ disk \in [Files -> Contents] /\ why \in [Files -> SUBSET Why] /\ t.to \in Files
  BY <1>1, Names DEF TrInv, TypeInv
<1>3. pc' = "boot" /\ ~Copying'
  BY <1>1 DEF Play, Crash, Fresh, At, Copying, Transferring, LoopPlaces, EndPlaces
<1>4. SUFFICES /\ disk'[HddCard] # NULL => disk'[HddCard] = Card(newest')
               /\ disk'[HddCard] = NULL => disk'[UsbCard] = Card(newest')
  BY <1>3 DEF SaveInv, MakingHdd, MakingUsb, Newest, Absent
<1>5. CASE Play
  <2>1. pc = "play" /\ ~MakingHdd
    BY <1>5 DEF Play, MakingHdd, Copying, Transferring, LoopPlaces, EndPlaces
  <2>2. CASE UNCHANGED <<disk, newest, odd>>
    BY <1>1, <2>1, <2>2 DEF TrInv, SaveInv, Newest, Absent
  <2>3. CASE newest' = newest + 1 /\ disk' = [disk EXCEPT ![HddCard] = Card(newest + 1)]
    <3>1. newest + 1 \in Nat
      BY <1>1, TransfersAssumption DEF TrInv, TypeInv
    <3>2. Card(newest + 1) # NULL
      BY <3>1, Sources, NullIsNoFile
    <3> QED
      BY <1>2, <2>3, <3>2
  <2> QED
    BY <1>5, <2>2, <2>3 DEF Play
<1>6. CASE Crash
  <2>1. newest' = newest /\ odd = {}
    BY <1>1, <1>6 DEF Crash
  <2>2. /\ ~MakingHdd /\ ~Absent(HddCard) => Newest(HddCard)
        /\ MakingHdd \/ Absent(HddCard) => Newest(UsbCard)
    BY <1>1, <2>1 DEF TrInv, SaveInv
  <2>3. \A f \in Files \ {t.to} : disk'[f] = disk[f]
    BY <1>2, <1>6 DEF Crash
  <2>4. fp # "none" => pc \in Transferring
    BY <1>1 DEF TrInv, LoopInv, Transferring
  <2>5. CASE ~Copying
    <3>1. fp # "none" => t.to \notin {UsbCard, HddCard}
      BY <1>1, <2>4, <2>5, CardsInHand DEF Copying
    <3>2. disk'[UsbCard] = disk[UsbCard] /\ disk'[HddCard] = disk[HddCard]
      <4>1. CASE fp = "none"
        BY <1>6, <4>1 DEF Crash
      <4>2. CASE fp # "none"
        BY <1>2, <2>3, <3>1, <4>2
      <4> QED
        BY <4>1, <4>2
    <3> QED
      BY <2>1, <2>2, <2>5, <3>2 DEF MakingHdd, Newest, Absent
  <2>6. CASE MakingUsb
    <3>1. ~Absent(HddCard) /\ ~MakingHdd /\ t.to = UsbCard
      BY <1>1, <1>2, <2>6, CardsInHand, Names DEF MakingUsb, MakingHdd, Copying, CardTransfer
    <3>2. disk'[HddCard] = disk[HddCard]
      BY <1>2, <2>3, <3>1
    <3> QED
      BY <2>1, <2>2, <3>1, <3>2 DEF Newest, Absent
  <2>7. CASE MakingHdd
    <3>1. t.to = HddCard /\ t.data = disk[UsbCard] /\ task = "launch" /\ t.data \in Seq(Block)
      BY <1>1, <1>2, <2>7, CardsInHand, Names DEF MakingHdd, Copying, CardTransfer, TrInv, TypeInv
    <3>2. Newest(UsbCard) /\ disk'[UsbCard] = disk[UsbCard]
      BY <1>2, <2>2, <2>3, <2>7, <3>1
    <3>3. CASE disk'[HddCard] = NULL
      BY <2>1, <3>2, <3>3 DEF Newest
    <3>4. CASE disk'[HddCard] # NULL
      <4>1. ~(Len(disk'[HddCard]) < Len(t.data))
        <5>1. odd' # odd \cup {"stopped"}
          BY <1>1
        <5> QED
          BY <1>6, <3>1, <3>4, <5>1 DEF Crash
      <4>2. disk[HddCard] = NULL \/ \E k \in 0 .. Len(t.data) : disk[HddCard] = SubSeq(t.data, 1, k)
        BY <1>1, <2>7, <3>1 DEF TrInv, CopyInv, MakingHdd, Absent
      <4>3. \E k \in 0 .. Len(t.data) : disk'[HddCard] = SubSeq(t.data, 1, k)
        <5>1. CASE fp = "none"
          BY <1>6, <3>4, <4>2, <5>1 DEF Crash
        <5>2. CASE fp # "none"
          <6>1. PICK kept \in 0 .. Len(disk[HddCard]) : disk' = [disk EXCEPT ![HddCard] = SubSeq(@, 1, kept)]
            BY <1>6, <3>1, <5>2 DEF Crash
          <6>2. disk'[HddCard] = SubSeq(disk[HddCard], 1, kept)
            BY <1>2, <6>1
          <6>3. disk[HddCard] # NULL
            BY <1>1, <3>1, <5>2 DEF TrInv, LoopInv, Absent
          <6>4. PICK k \in 0 .. Len(t.data) : disk[HddCard] = SubSeq(t.data, 1, k)
            BY <4>2, <6>3
          <6>5. Len(disk[HddCard]) = k
            BY <3>1, <6>4, PrefixInOrder
          <6>6. kept \in 0 .. k
            BY <6>5
          <6>7. SubSeq(SubSeq(t.data, 1, k), 1, kept) = SubSeq(t.data, 1, kept)
            BY <3>1, <6>6, PrefixInOrder
          <6> QED
            BY <6>2, <6>4, <6>6, <6>7
        <5> QED
          BY <5>1, <5>2
      <4>4. PICK k \in 0 .. Len(t.data) : disk'[HddCard] = SubSeq(t.data, 1, k)
        BY <4>3
      <4>5. Len(disk'[HddCard]) = k
        BY <3>1, <4>4, PrefixInOrder
      <4>6. k = Len(t.data) /\ Len(t.data) \in Nat
        BY <3>1, <4>1, <4>5
      <4>7. disk'[HddCard] = t.data
        BY <3>1, <4>4, <4>6, PrefixInOrder
      <4> QED
        BY <2>1, <3>1, <3>2, <3>4, <4>7 DEF Newest
    <3> QED
      BY <3>3, <3>4
  <2> QED
    BY <1>1, <2>5, <2>6, <2>7, CardsInHand DEF MakingUsb, MakingHdd, Copying, IsCard
<1> QED
  BY <1>1, <1>5, <1>6

-----------------------------------------------------------------------------
(* The theorems.                                                           *)

\* The invariant holds at first: a save on the USB card, and a cover.
LEMMA InitHolds == Init => TrInv
<1>1. SUFFICES ASSUME Init PROVE TrInv
  OBVIOUS
<1>2. /\ Card(1) \in Seq(Block) /\ InOrder(Card(1)) /\ Picture(1) \in Seq(Block) /\ InOrder(Picture(1))
      /\ Card(1) # NULL /\ Picture(1) # NULL
  BY Sources, NullIsNoFile
<1>3. /\ 1 \in 1 .. Games /\ 1 \in 1 .. MaxSaves /\ 1 \in 0 .. MaxSaves /\ UsbCard \in Files /\ HddCard \in Files
      /\ Tmp \in Files /\ Cover(1) \in Files /\ Cover(1) # UsbCard /\ HddCard # UsbCard /\ HddCard # Cover(1)
  BY Names, TransfersAssumption DEF IsCard
<1>4. /\ pc = "idle" /\ task = "none" /\ n = 1 /\ t = NoTransfer /\ pos = 0 /\ ret = "ok" /\ fp = "none"
      /\ use_async_fd = 128 /\ progress_action = 0 /\ newest = 1 /\ odd = {} /\ tasks \in Plans
      /\ v = [flags |-> {}, mem |-> NULL, open |-> FALSE] /\ w = [at |-> "check", flags |-> {}]
      /\ why = [f \in Files |-> {}] /\ EvStarted
      /\ disk = [f \in Files |-> IF f = UsbCard THEN Card(1) ELSE IF f = Cover(1) THEN Picture(1) ELSE NULL]
  BY <1>1 DEF Init
<1>5. /\ disk[UsbCard] = Card(1) /\ disk[Cover(1)] = Picture(1)
      /\ \A f \in Files \ {UsbCard, Cover(1)} : disk[f] = NULL
  BY <1>3, <1>4
<1>6. TypeInv
  <2>1. EvTypeOK
    <3>1. Exit \in Event /\ <<>> \in Seq(Event) /\ Len(<<>>) = 0
      BY DEF Exit, Event
    <3> QED
      BY <1>4, <3>1, QueueSizeAssumption DEF EvStarted, EvTypeOK, WorkerPlaces
  <2>2. ControlTypes
    BY <1>4, TransfersAssumption DEF ControlTypes, Places, TaskNames
  <2>3. <<>> \in Seq(Block) /\ Len(<<>>) = 0
    OBVIOUS
  <2>4. TransferTypes
    BY <1>3, <1>4, <2>3 DEF TransferTypes, NoTransfer
  <2>5. BlockTypes
    BY <1>4 DEF BlockTypes
  <2>6. DiskTypes
    BY <1>2, <1>3, <1>4 DEF DiskTypes, Contents
  <2> QED
    BY <2>1, <2>2, <2>4, <2>5, <2>6, TypeParts
<1>7. TaskInv /\ TransferInv /\ LoopInv /\ FileInv /\ CopyInv
  BY <1>4
     DEF TaskInv, TransferInv, LoopInv, FileInv, CopyInv, Copying, Transferring, LoopPlaces, EndPlaces, CoverTasks
<1>8. WorkerInv
  BY <1>4 DEF WorkerInv, Enabled, EvStarted
<1>9. BlocksInOrder
  BY <1>2, <1>5 DEF BlocksInOrder, Absent
<1>10. SettledInv
  <2>1. Whole(UsbCard) /\ Whole(Cover(1))
    BY <1>3, <1>5, Names DEF Whole
  <2> QED
    BY <1>5, <2>1 DEF SettledInv, Settled, Absent
<1>11. SaveInv
  BY <1>2, <1>3, <1>4, <1>5
     DEF SaveInv, MakingHdd, Copying, Transferring, LoopPlaces, EndPlaces, Newest, Absent
<1> QED
  BY <1>6, <1>7, <1>8, <1>9, <1>10, <1>11 DEF TrInv

\* A step in which nothing changes keeps it.
LEMMA StutterKeeps == TrInv /\ UNCHANGED vars => TrInv'
<1>1. SUFFICES ASSUME TrInv, UNCHANGED vars PROVE TrInv'
  OBVIOUS
<1>2. UNCHANGED <<init, evQ, event_thread_working, wpc, event, pc, task, n, tries, t, pos, ret, fp, use_async_fd,
                  progress_action, v, w, disk, newest, why, odd, tasks, crashes>>
  BY <1>1 DEF vars, evs, transfer, bounds
<1>3. TypeInv'
  BY <1>1, <1>2 DEF TrInv, TypeInv, TrTypeOK, EvTypeOK, Absent
<1>4. TaskInv' /\ WorkerInv' /\ LoopInv'
  BY <1>1, <1>2 DEF TrInv, TaskInv, WorkerInv, LoopInv, Enabled, Absent
<1>5. TransferInv'
  BY <1>1, <1>2
     DEF TrInv, TransferInv, PackageTransfer, PageTransfer, PictureTransfer, CardTransfer, Absent
<1>6. FileInv' /\ BlocksInOrder'
  BY <1>1, <1>2 DEF TrInv, FileInv, BlocksInOrder, Unwritten, Missed, Enabled, Failed, Absent
<1>7. SettledInv'
  BY <1>1, <1>2 DEF TrInv, SettledInv, Settled, Whole, Absent, PageForPicture, IsPicture
<1>8. CopyInv' /\ SaveInv'
  BY <1>1, <1>2 DEF TrInv, CopyInv, SaveInv, Copying, MakingHdd, Newest, Absent
<1> QED
  BY <1>3, <1>4, <1>5, <1>6, <1>7, <1>8 DEF TrInv

\* The invariant of the transfers, their worker and the files.
THEOREM TransferInvariant == Spec => []TrInv
<1>1. TrInv /\ [Next]_vars => TrInv'
  BY TypeStep, TaskKept, TransferKept, WorkerKept, LoopKept, FileKept, OrderKept, SettledKept, CopyKept, SaveKept,
     StutterKeeps
     DEF TrInv
<1> QED
  BY <1>1, InitHolds, PTL DEF Spec

\* No file holds blocks out of order, and what is left when a task is over is
\* whole, but for what befell it in the ways that are named (updates.c).
THEOREM FilesStaySound == Spec => []FilesAreSound
<1>1. TrInv => FilesAreSound
  <2>1. SUFFICES ASSUME TrInv PROVE FilesAreSound
    OBVIOUS
  <2>2. TrTypeOK /\ BlocksInOrder
    BY <2>1 DEF TrInv, TypeInv
  <2>3. ASSUME pc = "idle", NEW f \in Files PROVE Absent(f) \/ Whole(f) \/ why[f] # {}
    <3>1. fp = "none" /\ ~PageForPicture
      BY <2>1, <2>3, NothingUnderWay DEF LoopPlaces, EndPlaces, PageForPicture, IsPicture
    <3> QED
      BY <2>1, <3>1 DEF TrInv, SettledInv, Settled
  <2> QED
    BY <2>2, <2>3 DEF FilesAreSound, SettledFilesAreWhole
<1> QED
  BY <1>1, TransferInvariant, PTL

\* The last save is on one of the two cards, whole, at every moment, whatever
\* fails or stops the copies (psx.c, utils.c), but for what odd names.
THEOREM SaveSurvives == Spec => []TheSaveSurvives
<1>1. TrInv => TheSaveSurvives
  BY DEF TrInv, SaveInv, Newest, TheSaveSurvives
<1> QED
  BY <1>1, TransferInvariant, PTL

=============================================================================
