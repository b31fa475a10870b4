----------------------------- MODULE ArchiveCopy -----------------------------
(***************************************************************************)
(* source/archive_manager.c, the copies and moves of the file manager:     *)
(* copy_archive_manager, copy_archive_file, move_archive_manager,          *)
(* CopyDirectory, CopyFile and CopyFd on the main thread, and              *)
(* my_func_async, which writes one block of 1 MB on the event thread while *)
(* the next one is read. The block in hand is my_f_async (here v).         *)
(*                                                                         *)
(* A job is a copy or a move of items, an item is a file or a folder, a    *)
(* file is [kind, parts]: "plain" has one part, "split" is written as      *)
(* several files (4 GB on FAT), "join" is the first of several files that  *)
(* become one (.iso.0, .66600) and "part" one of the others, which         *)
(* CopyFile leaves alone. A part is the number of its blocks. A folder is  *)
(* the files below it in the order CopyDirectory meets them.               *)
(*                                                                         *)
(* Left out: the dialog before a job and its count of the space, a move    *)
(* within one device (one rename), and a copy into itself. Every call that *)
(* may fail may fail here.                                                 *)
(***************************************************************************)
EXTENDS EventThreads, SeqSums

CONSTANTS
  Jobs,      \* the jobs the user may start
  MaxJobs    \* bound on jobs

my_func_async == "my_func_async"
Kinds == {"plain", "split", "join", "part"}
Files == [kind : Kinds, parts : Seq(Nat)]
Item == [dir : BOOLEAN, files : Seq(Files)]
Job == [move : BOOLEAN, items : Seq(Item)]

ASSUME ArchiveCopyAssumption ==
  Funcs = {my_func_async} /\ MaxJobs \in Nat /\ Jobs \subseteq Job

VARIABLES
  pc, jobs,          \* where the main thread is; how many jobs were started
  job, item, file,   \* the job, and how far it is
  part, pos,         \* the part of the file, and the blocks of it that are read
  ok,                \* ret = 0
  progress_action,   \* 2: the user has cancelled
  use_async_fd,      \* 128 until the first block of a job is handed over
  v,                 \* my_f_async
  w,                 \* my_func_async: where it is, its copy of the flags
  outs,              \* the files written: the blocks wanted and got, open, not removed
  deleted,           \* the items whose source a move has deleted
  odd                \* history: what befell this job (OddThings)

evs == <<init, evQ, event_thread_working, wpc, event>>
place == <<item, file, part, pos>>
vars == <<evs, pc, jobs, job, place, ok, progress_action, use_async_fd, v, w, outs, deleted, odd>>

Block == [out : Nat, n : Nat \ {0}]
Output == [item : Nat, file : Nat, kind : Kinds, want : Nat, got : Seq(Nat \ {0}),
           open : BOOLEAN, kept : BOOLEAN]
Flags == {"ENABLE", "ERROR", "FCLOSE"}

(* "slipped": the job began before the last block of the one before it was *)
(* written; "undone": a file was removed although it was copied; "short":  *)
(* the parts of a joined file ended too soon.                              *)
OddThings == {"slipped", "undone", "short"}

Items == job.items
File == Items[item].files[file]
Enabled == "ENABLE" \in v.flags
Failed == "ERROR" \in v.flags
Quiet ==
  /\ InHand # <<>> => event.func = NULL
  /\ \A e \in DOMAIN evQ : evQ[e].func = NULL
Joined(o) == o.kind = "join"

ArTypeOK ==
  /\ EvTypeOK
  /\ pc \in {"idle", "item", "part", "fd", "write", "bar", "skip", "cancelWait", "filed", "itemEnd",
             "end", "endWait"}
  /\ jobs \in 0 .. MaxJobs /\ job \in Job
  /\ item \in Nat \ {0} /\ file \in Nat \ {0} /\ part \in Nat \ {0} /\ pos \in Nat
  /\ use_async_fd \in {0, 1, 128} /\ (use_async_fd = 0) = (pc = "idle")
  /\ progress_action \in {0, 2} /\ ok \in BOOLEAN
  /\ v \in [flags : SUBSET Flags, fd : Nat, mem : Block \cup {NULL}]
  /\ w \in [at : {"check", "write", "close"}, flags : SUBSET Flags]
  /\ outs \in Seq(Output) /\ deleted \subseteq Nat
  /\ odd \subseteq OddThings

NoJob == [move |-> FALSE, items |-> <<>>]

Init ==
  /\ EvStarted
  /\ pc = "idle" /\ jobs = 0 /\ job = NoJob
  /\ item = 1 /\ file = 1 /\ part = 1 /\ pos = 0
  /\ ok = TRUE /\ progress_action = 0 /\ use_async_fd = 0
  /\ v = [flags |-> {}, fd |-> 0, mem |-> NULL] /\ w = [at |-> "check", flags |-> {}]
  /\ outs = <<>> /\ deleted = {} /\ odd = {}

-----------------------------------------------------------------------------
(* The jobs, up to the first CopyFile of an item.                          *)
StartJob ==
  /\ pc = "idle" /\ jobs < MaxJobs /\ jobs' = jobs + 1
  /\ job' \in Jobs
  /\ pc' = "item" /\ item' = 1 /\ file' = 1 /\ part' = 1 /\ pos' = 0
  /\ ok' = TRUE /\ progress_action' = 0 /\ use_async_fd' = 128
  /\ outs' = (IF Quiet THEN <<>> ELSE outs) /\ deleted' = {}
  /\ odd' = IF Quiet THEN {} ELSE {"slipped"}
  /\ UNCHANGED <<evs, v, w>>

At(place_) == pc' = place_ /\ UNCHANGED <<evs, jobs, job, use_async_fd, v, w>>

NextItem ==
  /\ pc = "item"
  /\ At(IF item > Len(Items) THEN "end" ELSE IF Items[item].files = <<>> THEN "itemEnd" ELSE "part")
  /\ file' = 1 /\ part' = 1 /\ pos' = 0
  /\ UNCHANGED <<item, ok, progress_action, outs, deleted, odd>>

(* CopyDirectory cannot open its folder.                                   *)
FolderFails ==
  /\ pc = "item" /\ item <= Len(Items) /\ Items[item].dir
  /\ At("itemEnd") /\ ok' = FALSE
  /\ UNCHANGED <<place, progress_action, outs, deleted, odd>>

(* CopyFile. The user can cancel where the bar is drawn, and before.       *)
Wanted == IF File.kind = "join" THEN Sum(File.parts) ELSE File.parts[part]
Opened == Append(outs, [item |-> item, file |-> file, kind |-> File.kind, want |-> Wanted,
                        got |-> <<>>, open |-> TRUE, kept |-> TRUE])
OpensOutput == File.kind # "join" \/ part = 1

PartsEnd ==
  /\ pc = "part"
  /\ File.kind = "part" \/ part > Len(File.parts)
  /\ At("skip")
  /\ UNCHANGED <<place, ok, progress_action, outs, deleted, odd>>

(* stat fails, or the part is empty: the loop takes it for the end of the  *)
(* parts. At the first part CopyFile returns 0 without a target.           *)
EmptyPart == File.kind = "join" /\ File.parts[part] = 0

PartsEndTooSoon ==
  /\ pc = "part" /\ File.kind = "join" /\ part <= Len(File.parts)
  /\ At("skip") /\ odd' = odd \cup {"short"}
  /\ UNCHANGED <<place, ok, progress_action, outs, deleted>>

PartOpens ==
  /\ pc = "part" /\ File.kind # "part" /\ part <= Len(File.parts) /\ ~EmptyPart
  /\ At("fd") /\ pos' = 0
  /\ outs' = IF OpensOutput THEN Opened ELSE outs
  /\ UNCHANGED <<item, file, part, ok, progress_action, deleted, odd>>

(* An allocation that fails leaves a plain file open behind it.            *)
PartFails ==
  /\ pc = "part" /\ File.kind # "part" /\ part <= Len(File.parts)
  /\ EmptyPart => part = 1
  /\ At("skip") /\ ok' = FALSE
  /\ outs' \in {outs} \cup (IF File.kind = "plain" THEN {Opened} ELSE {})
  /\ UNCHANGED <<place, progress_action, deleted, odd>>

-----------------------------------------------------------------------------
(* CopyFd: read a block, wait until the one before is written, hand it     *)
(* over. The first block of a job waits for nothing.                       *)
ReadBlock ==
  /\ pc = "fd" /\ pos < File.parts[part]
  /\ \/ At("write") /\ UNCHANGED ok
     \/ At("skip") /\ ok' = FALSE
  /\ UNCHANGED <<place, progress_action, outs, deleted, odd>>

ReadNothing ==
  /\ pc = "fd" /\ File.parts[part] = 0
  /\ At("bar")
  /\ UNCHANGED <<place, ok, progress_action, outs, deleted, odd>>

FreeToSendAlways == TRUE     \* mutant
FreeToSend == use_async_fd = 128 \/ ~Enabled
NeverFailed == FALSE     \* mutant
BlockFailed == use_async_fd # 128 /\ Failed

SendFails ==
  /\ pc = "write" /\ FreeToSend /\ BlockFailed
  /\ At("skip") /\ ok' = FALSE
  /\ UNCHANGED <<place, progress_action, outs, deleted, odd>>

LastBlock == pos + 1 = File.parts[part] /\ File.kind # "join"
BlockNumber == pos + 1 + IF File.kind = "join" THEN Sums(File.parts)[part - 1] ELSE 0

SendBlock ==
  /\ pc = "write" /\ FreeToSend /\ ~BlockFailed
  /\ \E allocated \in BOOLEAN :
       v' = [flags |-> {"ENABLE"} \cup (IF LastBlock THEN {"FCLOSE"} ELSE {}), fd |-> Len(outs),
             mem |-> IF allocated THEN [out |-> Len(outs), n |-> BlockNumber] ELSE NULL]
  /\ event_thread_send(Call(my_func_async))
  /\ use_async_fd' = 1 /\ pos' = pos + 1
  /\ IF progress_action = 2 THEN pc' = "skip" /\ ok' = FALSE ELSE pc' = "bar" /\ UNCHANGED ok
  /\ UNCHANGED <<jobs, job, item, file, part, progress_action, w, outs, deleted, odd>>

(* update_bar2 draws the bar and lets the user cancel: the loop looks at   *)
(* that after the next block, if there is one.                             *)
DrawBar ==
  /\ pc = "bar"
  /\ progress_action' \in {progress_action, 2}
  /\ IF pos < File.parts[part] THEN At("fd") /\ UNCHANGED part
     ELSE At("part") /\ part' = part + 1
  /\ UNCHANGED <<item, file, pos, ok, outs, deleted, odd>>

-----------------------------------------------------------------------------
(* The end of CopyFile. What was cancelled is removed, complete or not.    *)
HasOutput == outs # <<>> /\ outs[Len(outs)].item = item /\ outs[Len(outs)].file = file
Removed ==
  IF HasOutput THEN /\ outs' = [outs EXCEPT ![Len(outs)].kept = FALSE]
                    /\ odd' = IF ok' THEN odd \cup {"undone"} ELSE odd
  ELSE UNCHANGED <<outs, odd>>

NotCancelled ==
  /\ pc = "skip" /\ progress_action # 2
  /\ At("filed")
  /\ UNCHANGED <<place, ok, progress_action, outs, deleted, odd>>

Cancelled ==
  /\ pc = "skip" /\ progress_action = 2
  /\ IF Enabled THEN At("cancelWait") /\ UNCHANGED <<ok, outs, odd>>
     ELSE At("filed") /\ ok' = ok /\ Removed
  /\ UNCHANGED <<place, progress_action, deleted>>

CancelWaits ==
  /\ pc = "cancelWait" /\ wait_returns
  /\ At("filed") /\ ok' = (ok /\ ~Failed) /\ Removed
  /\ UNCHANGED <<place, progress_action, deleted>>

(* CopyDirectory goes on with the next file while they succeed.            *)
NextFile ==
  /\ pc = "filed"
  /\ IF ok /\ file < Len(Items[item].files)
     THEN At("part") /\ file' = file + 1 /\ part' = 1 /\ pos' = 0
     ELSE At("itemEnd") /\ UNCHANGED <<file, part, pos>>
  /\ UNCHANGED <<item, ok, progress_action, outs, deleted, odd>>

(* The next item. A move deletes the source of what CopyFile or            *)
(* CopyDirectory called a success, the last block written or not. After a  *)
(* join of .666 parts the name it deletes is that of the first missing     *)
(* part, and that fails.                                                   *)
ItemEnds(went) ==
  /\ ok' = went
  /\ IF went THEN At("item") /\ item' = item + 1 ELSE At("end") /\ UNCHANGED item
  /\ UNCHANGED <<file, part, pos, progress_action, outs, odd>>

DeletesWhatFailed == job.move     \* mutant
Deletes == job.move /\ ok
WrongName == ~Items[item].dir /\ Items[item].files[1].kind = "join"

DeleteSource ==
  /\ pc = "itemEnd" /\ Deletes
  /\ \E works \in BOOLEAN :
       LET done == works /\ ~WrongName
       IN  /\ deleted' = IF done \/ Items[item].dir THEN deleted \cup {item} ELSE deleted
           /\ ItemEnds(done)

KeepSource ==
  /\ pc = "itemEnd" /\ ~Deletes
  /\ ItemEnds(ok) /\ UNCHANGED deleted

(* The end of the job: the error of a block that was finished before is    *)
(* not looked at.                                                          *)
Finishes ==
  /\ pc' = "idle" /\ use_async_fd' = 0
  /\ event_thread_send(Call(NULL))
  /\ UNCHANGED <<jobs, job, place, progress_action, v, w, outs, deleted, odd>>

JobEndsAtOnce ==
  /\ pc = "end" /\ ~Enabled
  /\ Finishes /\ UNCHANGED ok

JobWaits ==
  /\ pc = "end" /\ Enabled
  /\ At("endWait")
  /\ UNCHANGED <<place, ok, progress_action, outs, deleted, odd>>

JobEndsAfterWait ==
  /\ pc = "endWait" /\ wait_returns
  /\ Finishes /\ ok' = (ok /\ ~Failed)

-----------------------------------------------------------------------------
(* my_func_async, on the event thread.                                     *)
Idles == UNCHANGED <<pc, jobs, job, place, ok, progress_action, use_async_fd, deleted, odd>>

AsyncChecks ==
  /\ wpc = "run" /\ w.at = "check"
  /\ IF Enabled THEN w' = [at |-> "write", flags |-> v.flags] /\ UNCHANGED evs
     ELSE Return /\ UNCHANGED w
  /\ Idles /\ UNCHANGED <<v, outs>>

Written(block) == [outs EXCEPT ![v.fd].got = Append(@, block.n)]

AsyncWrites ==
  /\ wpc = "run" /\ w.at = "write"
  /\ \/ /\ v.mem # NULL /\ outs[v.fd].open
        /\ outs' = Written(v.mem)
        /\ w' = [w EXCEPT !.at = "close"]
     \/ w' = [at |-> "close", flags |-> w.flags \cup {"ERROR"}] /\ UNCHANGED outs
  /\ v' = [v EXCEPT !.mem = NULL]
  /\ Idles /\ UNCHANGED evs

StillEnabled(flags) == flags     \* mutant
Lowered(flags) == flags \ {"ENABLE"}

AsyncEnds ==
  /\ wpc = "run" /\ w.at = "close"
  /\ outs' = IF w.flags \cap {"ERROR", "FCLOSE"} # {} THEN [outs EXCEPT ![v.fd].open = FALSE] ELSE outs
  /\ v' = [v EXCEPT !.flags = Lowered(w.flags)]
  /\ w' = [at |-> "check", flags |-> {}]
  /\ Return /\ Idles

Worker ==
  \/ (Receive \/ Dispatch \/ Clear) /\ Idles /\ UNCHANGED <<v, w, outs>>
  \/ AsyncChecks \/ AsyncWrites \/ AsyncEnds

Main ==
  \/ NextItem \/ FolderFails \/ PartsEnd \/ PartsEndTooSoon \/ PartOpens \/ PartFails
  \/ ReadBlock \/ ReadNothing \/ SendFails \/ SendBlock \/ DrawBar
  \/ NotCancelled \/ Cancelled \/ CancelWaits \/ NextFile \/ DeleteSource \/ KeepSource
  \/ JobEndsAtOnce \/ JobWaits \/ JobEndsAfterWait

Next == StartJob \/ Main \/ Worker

(* Neither thread stops by itself while there is something to do.          *)
Fairness == WF_vars(Main) /\ WF_vars(Worker)

Spec == Init /\ [][Next]_vars /\ Fairness

-----------------------------------------------------------------------------
(* Every file holds the first blocks of its source in order: no block is   *)
(* overwritten in my_f_async before it is written, none is left out before *)
(* a later one (archive_manager.c:702), unless the wait at the end of the  *)
(* job before slipped.                                                     *)
BlocksInOrder ==
  "slipped" \notin odd =>
    \A o \in DOMAIN outs : \A k \in DOMAIN outs[o].got : outs[o].got[k] = k

(* What is written, or will be if the block in my_f_async is.              *)
AllButTheLastBlock(o) ==
  outs[o].kept /\ Len(outs[o].got) >= outs[o].want - (IF o = v.fd THEN 1 ELSE 0)

(* A job that reports success has lost at most the last block it handed    *)
(* over, whose error nobody reads when it was finished before the job.     *)
SuccessLosesAtMostTheLastBlock ==
  pc = "idle" /\ jobs > 0 /\ ok /\ odd = {} => \A o \in DOMAIN outs : AllButTheLastBlock(o)

(* A move deletes a source only when all of it is copied but for the last  *)
(* block handed over, if that fails, whatever the other items do; not so   *)
(* for a lone later part of a split file, which is deleted uncopied, and   *)
(* for what the user cancels while its last bar is drawn.                  *)
DeletedIsCopied ==
  odd = {} => \A o \in DOMAIN outs : outs[o].item \in deleted => AllButTheLastBlock(o)

(* After a job that reports success the files still open are the empty     *)
(* ones and the joined ones, which nobody closes.                          *)
OnlyEmptyAndJoinedStayOpen ==
  pc = "idle" /\ ok /\ odd = {} /\ Quiet =>
    \A o \in DOMAIN outs : outs[o].open => outs[o].want = 0 \/ Joined(outs[o])

(* What a job leaves: the written blocks in their order, the files that    *)
(* are reported copied whole but for a last block, and closed.             *)
CopiesAreSound ==
  /\ ArTypeOK
  /\ BlocksInOrder
  /\ SuccessLosesAtMostTheLastBlock
  /\ OnlyEmptyAndJoinedStayOpen

(* Every job comes to its end, errors, cancels and slips included.         *)
JobEnds == pc # "idle" ~> pc = "idle"

=============================================================================
