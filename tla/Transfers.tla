------------------------------ MODULE Transfers ------------------------------
(***************************************************************************)
(* source/updates.c, the transfers that write a file block by block through *)
(* the event thread (download_update, download_file, copy_async_gbl with   *)
(* their my_func_async), and what is done with them: the packages of       *)
(* game_update, the covers of cover_update and covers_update, and the      *)
(* memory card of a PS1 game on a USB device, which psx.c copies to the    *)
(* hard disk before the game and utils.c copies back when the game is      *)
(* listed again. The machine can be switched off at any step.              *)
(*                                                                         *)
(* A file is named <<kind, number>> and holds a sequence of blocks; a      *)
(* block is [of, n], the n-th of what it is a copy of. A block stands for  *)
(* one call of httpRecvResponse or fread. The block in hand is my_f_async  *)
(* (here v).                                                               *)
(*                                                                         *)
(* Left out: the list of titles (ps3tdb.txt), the xml with the versions of *)
(* a game and the questions before its packages. Every call that may fail  *)
(* may fail here.                                                          *)
(***************************************************************************)
EXTENDS EventThreads, FiniteSets, SequencesExt

CONSTANTS
  Plans,        \* what the user may ask for, one task after the other (StartTask)
  Packages,     \* the blocks of each package of the game, in the order of its xml
  Games,        \* the games of the list, 1..Games, for their covers
  CardBlocks,   \* the blocks of a memory card
  MaxCrashes,   \* bound on the times the machine is switched off
  MaxSaves      \* bound on the times a game saves

my_func_async == "my_func_async"

Block == [of : {"pkg", "picture", "page", "card"} \X Nat, n : Nat \ {0}]

ASSUME TransfersAssumption ==
  /\ Funcs = {my_func_async} /\ NULL \notin Seq(Block)
  /\ Plans \subseteq Seq({"packages", "cover", "covers", "launch", "scan"})
  /\ Packages \in Seq(Nat) /\ Games \in Nat \ {0} /\ CardBlocks \in Nat \ {0}
  /\ MaxCrashes \in Nat /\ MaxSaves \in Nat \ {0}

VARIABLES
  pc, task, n,       \* where the main thread is, in which task, at which package or game
  tries,             \* downloads of the page of a cover
  t,                 \* the transfer: its kind, its file, what it reads
  pos,               \* the blocks of it that are read
  ret,               \* how the transfer went
  fp,                \* its file: "none" (a null pointer), "open", "closed" and not null
  progress_action,   \* 2: the user has cancelled
  use_async_fd,      \* 128 until the first block is handed over
  v,                 \* my_f_async; open: the file it names is open
  w,                 \* my_func_async: where it is, its copy of the flags
  disk,              \* the files
  newest,            \* the number of the last save of the PS1 game, 0 for none
  why,               \* history: what befell each file
  odd,               \* history: what befell the memory card
  tasks,             \* the tasks of the plan that are left
  crashes            \* the times the machine was switched off

evs == <<init, evQ, event_thread_working, wpc, event>>
transfer == <<t, pos, ret, fp, use_async_fd>>
bounds == <<tasks, crashes>>
vars == <<evs, pc, task, n, tries, transfer, progress_action, v, w, disk, newest, why, odd, bounds>>

-----------------------------------------------------------------------------
Pkg(i) == <<"pkg", i>>
Cover(g) == <<"cover", g>>
Tmp == <<"tmp", 0>>
Page == <<"page", 0>>
UsbCard == <<"usb", 0>>
HddCard == <<"hdd", 0>>
Files == {Pkg(i) : i \in DOMAIN Packages} \cup {Cover(g) : g \in 1 .. Games} \cup {Tmp, Page, UsbCard, HddCard}

Blocks(of, count) == [i \in 1 .. count |-> [of |-> of, n |-> i]]
Picture(g) == Blocks(<<"picture", g>>, 2)
Html == Blocks(Page, 1)
Card(save) == Blocks(<<"card", save>>, CardBlocks)
Absent(f) == disk[f] = NULL

InOrder(c) == \A i \in DOMAIN c : c[i].of = c[1].of /\ c[i].n = i
Whole(f) ==
  \/ f[1] = "pkg" /\ disk[f] = Blocks(f, Packages[f[2]])
  \/ f[1] \in {"cover", "tmp"} /\ \E g \in 1 .. Games : disk[f] = Picture(g)
  \/ f = Page /\ disk[f] = Html
  \/ f \in {UsbCard, HddCard} /\ \E save \in 0 .. MaxSaves : disk[f] = Card(save)

(* "cut": the server or the source ended too soon; "kept": a write failed  *)
(* and the part written stays; "unread": the last write failed, which      *)
(* nobody saw; "slipped": the last block was not written when the file was *)
(* closed; "stopped": the machine was switched off.                        *)
Why == {"cut", "kept", "unread", "slipped", "stopped"}

NoTransfer == [kind |-> "none", to |-> Tmp, data |-> <<>>]
Enabled == "ENABLE" \in v.flags
Failed == "ERROR" \in v.flags
IsCard(f) == f \in {UsbCard, HddCard}
OtherCard(f) == IF f = UsbCard THEN HddCard ELSE UsbCard

TrTypeOK ==
  /\ EvTypeOK
  /\ pc \in {"boot", "idle", "package", "cover", "setup", "recv", "write", "bar", "err", "errWait", "close",
             "after", "launch", "ask", "replace", "next", "play"}
  /\ t.kind \in {"none", "update", "file", "copy"} /\ t.to \in Files
  /\ pos \in 0 .. Len(t.data) /\ ret \in {"ok", "error", "cancelled"}
  /\ fp \in {"none", "open", "closed"} /\ (pc \in {"recv", "write", "bar"} => fp = "open")
  /\ progress_action \in {0, 2} /\ use_async_fd \in {1, 128}
  /\ v.flags \subseteq {"ENABLE", "ERROR"} /\ w.flags \subseteq {"ENABLE", "ERROR"}
  /\ w.at \in {"check", "write", "end"}
  /\ DOMAIN disk = Files /\ (pc = "recv" => ~Absent(t.to))
  /\ \A f \in Files : why[f] \subseteq Why

Init ==
  /\ EvStarted
  /\ pc = "idle" /\ task = "none" /\ n = 1 /\ tries = 1
  /\ t = NoTransfer /\ pos = 0 /\ ret = "ok" /\ fp = "none" /\ use_async_fd = 128
  /\ progress_action = 0
  /\ v = [flags |-> {}, mem |-> NULL, open |-> FALSE] /\ w = [at |-> "check", flags |-> {}]
  /\ newest = 1
  /\ disk = [f \in Files |-> IF f = UsbCard THEN Card(1) ELSE IF f = Cover(1) THEN Picture(1) ELSE NULL]
  /\ why = [f \in Files |-> {}] /\ odd = {}
  /\ tasks \in Plans /\ crashes = 0

At(place) == pc' = place
Happened(f, what) ==
  /\ why' = [why EXCEPT ![f] = @ \cup {what}]
  /\ odd' = IF IsCard(f) /\ what # "kept" THEN odd \cup {what} ELSE odd

(* unlink_secure, of a file that is there or not.                          *)
Unlinked(f) == disk' = [disk EXCEPT ![f] = NULL] /\ why' = [why EXCEPT ![f] = {}]
Calls == UNCHANGED <<evs, w, newest, bounds>>

-----------------------------------------------------------------------------
(* A transfer: what is prepared before its loop.                           *)
StartTransfer(kind, to, data) ==
  At("setup") /\ t' = [kind |-> kind, to |-> to, data |-> data] /\ pos' = 0 /\ ret' = "ok" /\ fp' = "none"
    /\ use_async_fd' = use_async_fd

Cancels == t.kind # "file"

(* The connection, the memory or the source is missing; the file cannot be *)
(* made, or its address not be taken apart, and a download says 0 all the  *)
(* same; or the loop starts.                                               *)
Setup ==
  /\ pc = "setup"
  /\ use_async_fd' = 128 /\ v' = [v EXCEPT !.flags = {}]
  /\ progress_action' \in IF Cancels THEN {0, 2} ELSE {progress_action}
  /\ \/ At("err") /\ ret' = "error" /\ UNCHANGED <<fp, disk, why>>
     \/ t.kind # "copy" /\ At("err") /\ UNCHANGED <<ret, fp, disk, why>>
     \/ /\ At("recv") /\ fp' = "open" /\ UNCHANGED ret
        /\ disk' = [disk EXCEPT ![t.to] = <<>>]
        /\ why' = [why EXCEPT ![t.to] = IF t.kind = "copy" THEN why[OtherCard(t.to)] ELSE {}]
  /\ Calls /\ UNCHANGED <<task, n, tries, t, pos, odd>>

Keeps == UNCHANGED <<task, n, tries, t, disk, newest, bounds>>

RecvBlock ==
  /\ pc = "recv" /\ pos < Len(t.data)
  /\ At("write")
  /\ Keeps /\ UNCHANGED <<evs, pos, ret, fp, use_async_fd, progress_action, v, w, why, odd>>

(* httpRecvResponse or fread says that nothing is left: taken for the end. *)
RecvEnd ==
  /\ pc = "recv"
  /\ At("err") /\ ret' = "ok"
  /\ IF pos < Len(t.data) THEN Happened(t.to, "cut") ELSE UNCHANGED <<why, odd>>
  /\ Keeps /\ UNCHANGED <<evs, pos, fp, use_async_fd, progress_action, v, w>>

(* After five failures the file is closed, and again at the end.           *)
RecvFails ==
  /\ pc = "recv" /\ t.kind # "copy" /\ pos < Len(t.data)
  /\ At("err") /\ ret' = "error" /\ fp' = "closed" /\ v' = [v EXCEPT !.open = FALSE]
  /\ Keeps /\ UNCHANGED <<evs, pos, use_async_fd, progress_action, w, why, odd>>

NeverFailed == FALSE     \* mutant
BlockFailed == use_async_fd # 128 /\ Failed
FreeToSendAlways == TRUE     \* mutant
FreeToSend == use_async_fd = 128 \/ ~Enabled

(* A block was not written: the file is closed, and nobody removes it.     *)
KeepsPart ==
  /\ fp' = "none" /\ ret' = "error" /\ Happened(t.to, "kept")

SendFails ==
  /\ pc = "write" /\ FreeToSend /\ BlockFailed
  /\ At("err") /\ KeepsPart /\ v' = [v EXCEPT !.open = FALSE]
  /\ Keeps /\ UNCHANGED <<evs, pos, use_async_fd, progress_action, w>>

SendBlock ==
  /\ pc = "write" /\ FreeToSend /\ ~BlockFailed
  /\ v' = [flags |-> {"ENABLE"}, mem |-> t.data[pos + 1], open |-> TRUE]
  /\ event_thread_send(Call(my_func_async))
  /\ use_async_fd' = 1 /\ pos' = pos + 1
  /\ IF Cancels /\ progress_action = 2 THEN At("err") /\ ret' = "cancelled" ELSE At("bar") /\ UNCHANGED ret
  /\ Keeps /\ UNCHANGED <<fp, progress_action, w, why, odd>>

(* update_bar calls progress_callback.                                     *)
DrawBar ==
  /\ pc = "bar" /\ At("recv")
  /\ progress_action' \in IF Cancels THEN {progress_action, 2} ELSE {progress_action}
  /\ Keeps /\ UNCHANGED <<evs, pos, ret, fp, use_async_fd, v, w, why, odd>>

(* err: the last block, if it is not written yet, is waited for.           *)
Err ==
  /\ pc = "err" /\ At(IF Enabled THEN "errWait" ELSE "close")
  /\ Keeps /\ UNCHANGED <<evs, pos, ret, fp, use_async_fd, progress_action, v, w, why, odd>>

ErrWaits ==
  /\ pc = "errWait" /\ wait_returns /\ At("close")
  /\ v' = [v EXCEPT !.flags = {}, !.open = @ /\ ~Failed]
  /\ IF Failed THEN KeepsPart
     ELSE /\ IF Enabled /\ fp = "open" THEN Happened(t.to, "slipped") ELSE UNCHANGED <<why, odd>>
          /\ UNCHANGED <<fp, ret>>
  /\ Keeps /\ UNCHANGED <<evs, pos, use_async_fd, progress_action, w>>

(* What was cancelled or failed is removed, and so is an empty download.   *)
RemovesNothing(result) == FALSE     \* mutant
Removes(result) == fp # "none" /\ result # "ok"
Result == IF t.kind = "file" /\ ret = "ok" /\ fp # "none" /\ disk[t.to] = <<>> THEN "error" ELSE ret

Close ==
  /\ pc = "close" /\ At("after") /\ event_thread_send(Call(NULL))
  /\ ret' = Result /\ fp' = "none" /\ v' = [v EXCEPT !.open = FALSE]
  /\ IF Removes(Result) THEN Unlinked(t.to) /\ UNCHANGED odd
     ELSE /\ IF fp # "none" /\ BlockFailed THEN Happened(t.to, "unread") ELSE UNCHANGED <<why, odd>>
          /\ UNCHANGED disk
  /\ UNCHANGED <<task, n, tries, t, pos, newest, bounds, use_async_fd, progress_action, w>>

-----------------------------------------------------------------------------
(* my_func_async, on the event thread: a block that could not be allocated *)
(* and one that could not be written are the same to it. It writes to a    *)
(* file that may be closed: after a wait that slipped, and when the server *)
(* failed.                                                                 *)
Idles == UNCHANGED <<pc, task, n, tries, transfer, progress_action, newest, why, odd, bounds>>

AsyncChecks ==
  /\ wpc = "run" /\ w.at = "check"
  /\ IF Enabled THEN w' = [at |-> "write", flags |-> v.flags] /\ UNCHANGED evs
     ELSE Return /\ UNCHANGED w
  /\ Idles /\ UNCHANGED <<v, disk>>

AsyncWrites ==
  /\ wpc = "run" /\ w.at = "write"
  /\ \/ /\ v.mem # NULL /\ v.open
        /\ disk' = [disk EXCEPT ![t.to] = Append(@, v.mem)]
        /\ w' = [w EXCEPT !.at = "end"]
     \/ w' = [at |-> "end", flags |-> w.flags \cup {"ERROR"}] /\ UNCHANGED disk
  /\ v' = [v EXCEPT !.mem = NULL]
  /\ Idles /\ UNCHANGED evs

StillEnabled(flags) == flags     \* mutant
Lowered(flags) == flags \ {"ENABLE"}

AsyncEnds ==
  /\ wpc = "run" /\ w.at = "end"
  /\ v' = [v EXCEPT !.flags = Lowered(w.flags)]
  /\ w' = [at |-> "check", flags |-> {}]
  /\ Return /\ Idles /\ UNCHANGED disk

Worker ==
  \/ (Receive \/ Dispatch \/ Clear) /\ Idles /\ UNCHANGED <<v, w, disk>>
  \/ AsyncChecks \/ AsyncWrites \/ AsyncEnds

-----------------------------------------------------------------------------
(* What is done with the transfers, by task.                               *)
Rests == At("idle") /\ UNCHANGED transfer
Stays == UNCHANGED <<evs, v, w, progress_action>>

StartTask ==
  /\ pc = "idle" /\ tasks # <<>>
  /\ task' = Head(tasks) /\ tasks' = Tail(tasks) /\ n' = 1 /\ tries' = 1
  /\ At(CASE task' = "packages" -> "package" [] task' \in {"cover", "covers"} -> "cover"
          [] task' = "launch" -> "launch" [] task' = "scan" -> "boot")
  /\ progress_action' \in IF task' = "covers" THEN {0, 2} ELSE {progress_action}
  /\ UNCHANGED <<evs, transfer, v, w, disk, newest, why, odd, crashes>>

(* game_update, its list of packages: one that is there is not fetched.    *)
NextPackage ==
  /\ pc = "package"
  /\ \/ n > Len(Packages) /\ Rests /\ UNCHANGED n
     \/ n <= Len(Packages) /\ ~Absent(Pkg(n)) /\ n' = n + 1 /\ UNCHANGED <<pc, transfer>>
     \/ n <= Len(Packages) /\ Absent(Pkg(n)) /\ UNCHANGED n
          /\ (Rests \/ StartTransfer("update", Pkg(n), Blocks(Pkg(n), Packages[n])))
  /\ Stays /\ UNCHANGED <<task, tries, disk, newest, why, odd, bounds>>

PackageEnds ==
  /\ pc = "after" /\ task = "packages"
  /\ IF ret = "ok" THEN At("package") /\ n' = n + 1 /\ UNCHANGED transfer ELSE Rests /\ UNCHANGED n
  /\ Stays /\ UNCHANGED <<task, tries, disk, newest, why, odd, bounds>>

(* cover_update of game n: a cover that is there is only looked for when   *)
(* the user asks for that one. First the page of the game.                 *)
CoverEnds == At("next") /\ UNCHANGED transfer
Direct == task = "covers" \/ Absent(Cover(n))

StartCover ==
  /\ pc = "cover" /\ tries' = 1
  /\ \/ CoverEnds
     \/ (Direct => Absent(Cover(n))) /\ StartTransfer("file", Page, Html)
  /\ Stays /\ UNCHANGED <<task, n, disk, newest, why, odd, bounds>>

PageAgain ==
  /\ pc = "after" /\ t.to = Page /\ ret # "ok" /\ tries = 1
  /\ tries' = 2 /\ StartTransfer("file", Page, Html)
  /\ Stays /\ UNCHANGED <<task, n, disk, newest, why, odd, bounds>>

(* The address of a picture on the page; without a page its own address is *)
(* what is downloaded as the picture.                                      *)
FetchPicture(data) == StartTransfer("file", IF Direct THEN Cover(n) ELSE Tmp, data)

PageRead ==
  /\ pc = "after" /\ t.to = Page /\ ret = "ok" /\ ~Absent(Page)
  /\ Unlinked(Page)
  /\ CoverEnds \/ FetchPicture(Picture(n))
  /\ Stays /\ UNCHANGED <<task, n, tries, newest, odd, bounds>>

PageMissing ==
  /\ pc = "after" /\ t.to = Page /\ (ret = "ok" \/ tries = 2)
  /\ FetchPicture(Html)
  /\ Stays /\ UNCHANGED <<task, n, tries, disk, newest, why, odd, bounds>>

(* LoadJPG or LoadTextureJPG: a page is no picture, a part of one may do.  *)
Decodes(f) == ~Absent(f) /\ disk[f] # <<>> /\ disk[f][1].of[1] = "picture"
IsPicture == pc = "after" /\ task \in {"cover", "covers"} /\ t.to # Page

PictureBad ==
  /\ IsPicture
  /\ IF ret = "ok" THEN Unlinked(t.to) ELSE UNCHANGED <<disk, why>>
  /\ CoverEnds
  /\ Stays /\ UNCHANGED <<task, n, tries, newest, odd, bounds>>

PictureGood ==
  /\ IsPicture /\ ret = "ok" /\ Decodes(t.to)
  /\ IF t.to = Tmp THEN At("ask") /\ UNCHANGED transfer ELSE CoverEnds
  /\ Stays /\ UNCHANGED <<task, n, tries, disk, newest, why, odd, bounds>>

(* The user chooses between the old and the new one.                       *)
Choose ==
  /\ pc = "ask"
  /\ \/ Unlinked(Tmp) /\ CoverEnds
     \/ Unlinked(Cover(n)) /\ At("replace") /\ UNCHANGED transfer
  /\ Stays /\ UNCHANGED <<task, n, tries, newest, odd, bounds>>

Replace ==
  /\ pc = "replace" /\ CoverEnds
  /\ \/ UNCHANGED <<disk, why>>
     \/ /\ disk' = [disk EXCEPT ![Cover(n)] = disk[Tmp], ![Tmp] = NULL]
        /\ why' = [why EXCEPT ![Cover(n)] = why[Tmp], ![Tmp] = {}]
  /\ Stays /\ UNCHANGED <<task, n, tries, newest, odd, bounds>>

(* covers_update goes on with the next game, unless it was cancelled.      *)
NextCover ==
  /\ pc = "next"
  /\ progress_action' \in IF task = "covers" THEN {progress_action, 2} ELSE {progress_action}
  /\ IF task = "covers" /\ n < Games /\ progress_action' # 2 THEN At("cover") /\ n' = n + 1 ELSE At("idle") /\ UNCHANGED n
  /\ UNCHANGED <<evs, task, tries, transfer, v, w, disk, newest, why, odd, bounds>>

-----------------------------------------------------------------------------
(* The memory card of a game on a USB device. psx.c, at the launch: a card *)
(* that is missing is made, one too short is not used, and the card is     *)
(* copied over the one on the hard disk.                                   *)
MakeCard ==
  /\ pc = "launch" /\ Absent(UsbCard)
  /\ \/ At("play") /\ ret' = "error" /\ UNCHANGED <<disk, why, odd>>
     \/ /\ disk' = [disk EXCEPT ![UsbCard] = Card(0)] /\ why' = [why EXCEPT ![UsbCard] = {}]
        /\ odd' = IF Absent(HddCard) THEN odd ELSE odd \cup {"emptied"}
        /\ UNCHANGED <<pc, ret>>
  /\ Stays /\ UNCHANGED <<task, n, tries, t, pos, fp, use_async_fd, newest, bounds>>

LaunchWithout ==
  /\ pc = "launch" /\ ~Absent(UsbCard) /\ Len(disk[UsbCard]) < CardBlocks
  /\ At("play") /\ ret' = "error"
  /\ Stays /\ UNCHANGED <<task, n, tries, t, pos, fp, use_async_fd, disk, why, odd, newest, bounds>>

LaunchCopies ==
  /\ pc = "launch" /\ ~Absent(UsbCard) /\ Len(disk[UsbCard]) >= CardBlocks
  /\ Unlinked(HddCard)
  /\ StartTransfer("copy", HddCard, disk[UsbCard])
  /\ Stays /\ UNCHANGED <<task, n, tries, newest, odd, bounds>>

LaunchEnds ==
  /\ pc = "after" /\ task = "launch" /\ At("play")
  /\ IF ret # "ok" THEN Unlinked(HddCard) ELSE UNCHANGED <<disk, why>>
  /\ Stays /\ UNCHANGED <<task, n, tries, transfer, newest, odd, bounds>>

(* The game runs; it may save on its card. Then the program starts again.  *)
Fresh ==
  /\ init' = 1 /\ evQ' = <<>> /\ event_thread_working' = 0 /\ wpc' = "receive" /\ event' = Exit
  /\ At("boot") /\ task' = "scan" /\ t' = NoTransfer /\ pos' = 0 /\ ret' = "ok" /\ fp' = "none"
  /\ use_async_fd' = 128 /\ progress_action' = 0 /\ n' = 1 /\ tries' = 1
  /\ v' = [flags |-> {}, mem |-> NULL, open |-> FALSE] /\ w' = [at |-> "check", flags |-> {}]

Play ==
  /\ pc = "play" /\ Fresh
  /\ \/ UNCHANGED <<disk, newest, why, odd>>
     \/ /\ ret = "ok" /\ ~Absent(HddCard) /\ newest < MaxSaves
        /\ newest' = newest + 1 /\ odd' = {}
        /\ disk' = [disk EXCEPT ![HddCard] = Card(newest + 1)] /\ why' = [why EXCEPT ![HddCard] = {}]
  /\ UNCHANGED bounds

(* utils.c, when the game is listed: a card on the hard disk goes back.    *)
Scan ==
  /\ pc = "boot" /\ task' = "scan"
  /\ IF Absent(HddCard) THEN Rests /\ UNCHANGED <<disk, why>>
     ELSE Unlinked(UsbCard) /\ StartTransfer("copy", UsbCard, disk[HddCard])
  /\ Stays /\ UNCHANGED <<n, tries, newest, odd, bounds>>

RemovesTheSource(f) == Unlinked(HddCard)     \* mutant
RemovesCard(f) == Unlinked(f)
ScanEnds ==
  /\ pc = "after" /\ task = "scan" /\ Rests
  /\ RemovesCard(IF ret = "ok" THEN HddCard ELSE UsbCard)
  /\ Stays /\ UNCHANGED <<task, n, tries, newest, odd, bounds>>

(* The machine is switched off, and on again: of an open file any part may *)
(* be there, and a picture stays that was not looked at.                   *)
Crash ==
  /\ pc # "idle" /\ crashes < MaxCrashes /\ crashes' = crashes + 1
  /\ Fresh
  /\ IF fp = "none" THEN UNCHANGED disk
     ELSE \E kept \in 0 .. Len(disk[t.to]) : disk' = [disk EXCEPT ![t.to] = SubSeq(@, 1, kept)]
  /\ why' = IF fp # "none" \/ IsPicture THEN [why EXCEPT ![t.to] = @ \cup {"stopped"}] ELSE why
  /\ odd' = IF task = "launch" /\ disk'[HddCard] # NULL /\ Len(disk'[HddCard]) < Len(t.data)
            THEN odd \cup {"stopped"} ELSE odd
  /\ UNCHANGED <<newest, tasks>>

Loop == RecvBlock \/ RecvEnd \/ RecvFails \/ SendFails \/ SendBlock \/ DrawBar
Main ==
  \/ Setup \/ Loop \/ Err \/ ErrWaits \/ Close
  \/ NextPackage \/ PackageEnds
  \/ StartCover \/ PageAgain \/ PageRead \/ PageMissing \/ PictureBad \/ PictureGood \/ Choose \/ Replace \/ NextCover
  \/ MakeCard \/ LaunchWithout \/ LaunchCopies \/ LaunchEnds \/ Scan \/ ScanEnds

Next == StartTask \/ Main \/ Worker \/ Play \/ Crash

(* Neither thread stops by itself while there is something to do, and the  *)
(* user answers the questions.                                             *)
Fairness == WF_vars(Main) /\ WF_vars(Worker)

Spec == Init /\ [][Next]_vars /\ Fairness

-----------------------------------------------------------------------------
(* No file holds a block out of order, after one that is missing or of     *)
(* another source: my_f_async is not filled again before its block is      *)
(* written, unless a wait slipped (updates.c:1287).                        *)
BlocksInOrder == \A f \in Files : ~Absent(f) /\ "slipped" \notin why[f] => InOrder(disk[f])

(* What the program leaves when it has nothing to do is whole, but for the *)
(* ways in which it may be cut that this module names: a package that is   *)
(* there is not fetched again (updates.c:1189), a cover neither.           *)
SettledFilesAreWhole == pc = "idle" => \A f \in Files : Absent(f) \/ Whole(f) \/ why[f] # {}

(* What the transfers leave on the disk, and what they leave there while    *)
(* they run.                                                               *)
FilesAreSound == TrTypeOK /\ BlocksInOrder /\ SettledFilesAreWhole

(* The last save of the PS1 game is on one of the two cards, whole,        *)
(* whatever fails or stops the copies back and forth, except: a copy that  *)
(* was cut, or whose last error nobody read, or that slipped; a stop while *)
(* the card is copied for a launch, and a launch after a copy back that    *)
(* failed, which makes an empty card.                                      *)
TheSaveSurvives == odd = {} => \E f \in {UsbCard, HddCard} : disk[f] = Card(newest)

(* Every task ends.                                                        *)
TasksEnd == pc \notin {"idle", "play"} ~> pc \in {"idle", "play"}

=============================================================================
