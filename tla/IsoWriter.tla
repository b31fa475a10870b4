------------------------------ MODULE IsoWriter ------------------------------
(***************************************************************************)
(* source/iso.c, makeps3iso from the creation of the output file on:       *)
(* build_file_iso hands each block of sectors to the event thread through  *)
(* the one struct my_f_async (write_split), and the event thread writes it *)
(* out, into one file or into parts of SPLIT_LBA sectors (my_func_async,   *)
(* write_split0).                                                          *)
(*                                                                         *)
(* A sector is its LBA; a part of the output is the sequence of sectors    *)
(* written into it. The files' contents, the directory walk and the screen *)
(* are left out: build_file_iso asks for one block after another. How the  *)
(* sectors come about is the subject of IsoImage; IsoExtract starts this   *)
(* module with the layout of an image and reads what it has written.       *)
(***************************************************************************)
EXTENDS EventThreads, Integers

CONSTANTS
  SplitLba,    \* SPLIT_LBA, 0x1FFFE0: sectors in a part
  BlockMax,    \* 128, sectors in the largest block
  WriteAsync,  \* the function my_func_async as an event names it
  Other        \* a function some earlier caller sent and nobody waited for

ASSUME IsoAssumption ==
  /\ SplitLba \in Nat \ {0} /\ BlockMax \in Nat \ {0}
  /\ Funcs = {WriteAsync, Other} /\ WriteAsync # Other
  /\ QueueSize >= 4

VARIABLES
  layout,     \* flba2 and end: the first LBA of a file, as calc_entries left
              \* it, and the one behind the last file
  mpc,        \* where makeps3iso is
  ret,        \* the local ret of makeps3iso and build_file_iso
  flba,       \* flba: the first LBA not handed to write_split
  blk,        \* the block write_split was called with
  first,      \* use_async_fd = 128: no block was handed over yet
  f,          \* my_f_async: lba and n (nsectors), mem allocated, ret
  flags,      \* my_f_async.flags, a set of "ENABLE" and "ERROR"
  iso_split,  \* 0: one file; otherwise one more than the current part
  fd,         \* fd2 of makeps3iso: the part it has open, or Closed
  disk,       \* the parts written so far
  fpc,        \* where my_func_async is
  wpos,       \* sectors of the block written so far
  wret,       \* the local ret of my_func_async
  wflags,     \* the local flags of my_func_async
  headerOk,   \* history: the header, written unchecked, reached the disk
  slipped,    \* history: a wait returned before the block's event was
              \* dispatched
  stray       \* history: the worker used fd2 after makeps3iso returned

main == <<mpc, ret, flba, blk, first>>
async == <<f, flags>>
output == <<iso_split, fd, disk>>
worker == <<fpc, wpos, wret, wflags>>
ghosts == <<headerOk, slipped, stray>>
vars == <<layout, evVars, main, async, output, worker, ghosts>>

Header == layout.flba2     \* sectors written before the first block
Toc == layout.end          \* sectors of the whole image

Closed == -1
NoMemory == -1        \* also what a failed open of a part returns
WriteError == -667
InputErrors == {-555, -666, -668, -669, -999}
Results == {0, NoMemory, WriteError} \cup InputErrors

MainPlaces == {"next", "try", "check1", "wait1", "clear1",
               "check2", "wait2", "clear2", "close", "err", "done"}
Parts == 0 .. Toc \div SplitLba
Block == [lba : Nat, n : 0 .. BlockMax]

IsoTypeOK ==
  /\ EvTypeOK
  /\ Header \in Nat \ {0} /\ Toc \in Nat /\ Header <= Toc
  /\ mpc \in MainPlaces /\ ret \in Results /\ first \in BOOLEAN
  /\ flba \in Header .. Toc /\ blk \in Block
  /\ f \in [lba : Nat, n : 0 .. BlockMax, mem : BOOLEAN, ret : Results]
  /\ flags \in SUBSET {"ENABLE", "ERROR"}
  /\ iso_split \in 0 .. Toc \div SplitLba + 1
  /\ fd \in Parts \cup {Closed}
  /\ disk \in [Parts -> Seq(Nat)]
  /\ fpc \in {"idle", "test", "write", "store"}
  /\ wpos \in 0 .. BlockMax /\ wret \in Results
  /\ wflags \in SUBSET {"ENABLE", "ERROR"}
  /\ headerOk \in BOOLEAN /\ slipped \in BOOLEAN /\ stray \in BOOLEAN

Interval(a, b) == [i \in 1 .. (IF b > a THEN b - a ELSE 0) |-> a + i - 1]

(* makeps3iso opened the output and wrote flba2 sectors of header and      *)
(* directories with a ps3ntfs_write whose result it does not read. The     *)
(* event thread may still hold or run a function of an earlier caller.     *)
StartWriting ==
  /\ \/ EvStarted
     \/ /\ init = 1 /\ event_thread_working = 0 /\ wpc = "receive"
        /\ event = Exit /\ evQ = <<Call(Other)>>
  /\ mpc = "next" /\ ret = 0 /\ flba = Header /\ first = TRUE
  /\ blk = [lba |-> Header, n |-> 0]
  /\ f = [lba |-> 0, n |-> 0, mem |-> FALSE, ret |-> 0]
  /\ flags = {}
  /\ iso_split \in {0, 1}
  /\ fd = 0
  /\ headerOk \in BOOLEAN
  /\ disk = [p \in Parts |-> IF p = 0 /\ headerOk THEN Interval(0, Header)
                                                  ELSE <<>>]
  /\ fpc = "idle" /\ wpos = 0 /\ wret = 0 /\ wflags = {}
  /\ slipped = FALSE /\ stray = FALSE

-----------------------------------------------------------------------------
(* build_file_iso reads the next block of the current file.                *)
NextBlock ==
  /\ mpc = "next" /\ flba < Toc
  /\ \E n \in 1 .. BlockMax :
       /\ flba + n <= Toc
       /\ blk' = [lba |-> flba, n |-> n]
  /\ mpc' = "try"
  /\ UNCHANGED <<evVars, ret, flba, first, async, output, worker, ghosts>>

(* An input file is missing, unreadable or misnamed, or the user aborts:   *)
(* every level of build_file_iso returns at once, past the wait at its end.*)
InputFails ==
  /\ mpc = "next"
  /\ ret' \in InputErrors
  /\ mpc' = "check2"
  /\ UNCHANGED <<evVars, flba, blk, first, async, output, worker, ghosts>>

LastBlockHandedOver ==
  /\ mpc = "next" /\ flba = Toc
  /\ mpc' = "check1"
  /\ UNCHANGED <<evVars, ret, flba, blk, first, async, output, worker, ghosts>>

(* write_split finds the worker idle: copy the block (malloc may fail),    *)
(* raise ENABLE, send the event. A block after the first first looks at    *)
(* what became of the one before.                                          *)
FreeToSubmitAlways == "ERROR" \notin flags     \* mutant
FreeToSubmit == first \/ flags = {}

write_split ==
  /\ mpc = "try"
  /\ FreeToSubmit
  /\ first' = FALSE
  /\ \E mem \in BOOLEAN : f' = [lba |-> blk.lba, n |-> blk.n, mem |-> mem, ret |-> NoMemory]
  /\ flags' = {"ENABLE"}
  /\ event_thread_send(Call(WriteAsync))
  /\ flba' = flba + blk.n
  /\ mpc' = "next"
  /\ UNCHANGED <<ret, blk, output, worker, ghosts>>

(* Otherwise it spins (goto loop_write) while ENABLE is up, and returns    *)
(* the error of the block before when ERROR is.                            *)
write_split_fails ==
  /\ mpc = "try"
  /\ ~first /\ flags = {"ERROR"}
  /\ ret' = f.ret
  /\ mpc' = "check2"
  /\ UNCHANGED <<evVars, flba, blk, first, async, output, worker, ghosts>>

(* The block's event is still on its way to the worker.                    *)
Underway == \/ \E i \in 1 .. Len(evQ) : evQ[i] = Call(WriteAsync)
            \/ wpc = "dispatch" /\ event = Call(WriteAsync)

(* The end of build_file_iso at level 0 (check1, wait1, clear1) and the    *)
(* same code again in makeps3iso (check2, wait2, clear2): when ENABLE is   *)
(* up, wait for the event thread, take over an error, lower the flags;     *)
(* send a null event in any case. An error of a block the worker finished  *)
(* before the check stays in flags, unread.                                *)
Check(check, wait, after) ==
  /\ mpc = check
  /\ IF "ENABLE" \in flags
     THEN mpc' = wait /\ UNCHANGED evVars
     ELSE mpc' = after /\ event_thread_send(Call(NULL))
  /\ UNCHANGED <<ret, flba, blk, first, async, output, worker, ghosts>>

Wait(wait, clear) ==
  /\ mpc = wait
  /\ wait_returns
  /\ mpc' = clear
  /\ slipped' = (slipped \/ Underway)
  /\ UNCHANGED <<evVars, ret, flba, blk, first, async, output, worker,
                 headerOk, stray>>

NeverFailed == FALSE     \* mutant
LastBlockFailed == "ERROR" \in flags
ErrorOfTheLastBlock(keep) ==
  IF LastBlockFailed /\ ~(keep /\ ret # 0) THEN f.ret ELSE ret

LowerFlags(clear, after, keep) ==
  /\ mpc = clear
  /\ ret' = ErrorOfTheLastBlock(keep)
  /\ flags' = {}
  /\ event_thread_send(Call(NULL))
  /\ mpc' = after
  /\ UNCHANGED <<flba, blk, first, f, output, worker, ghosts>>

build_file_iso_end ==
  \/ Check("check1", "wait1", "check2")
  \/ Wait("wait1", "clear1")
  \/ LowerFlags("clear1", "check2", FALSE)

makeps3iso_wait ==
  \/ Check("check2", "wait2", "close")
  \/ Wait("wait2", "clear2")
  \/ LowerFlags("clear2", "close", TRUE)

(* if(fd2 >= 0) ps3ntfs_close(fd2); a negative ret goes to err.            *)
CloseOutput ==
  /\ mpc = "close"
  /\ fd' = Closed
  /\ mpc' = IF ret < 0 THEN "err" ELSE "done"
  /\ UNCHANGED <<evVars, ret, flba, blk, first, async, iso_split, disk,
                 worker, ghosts>>

(* err: the user is asked whether to delete the partial ISO.               *)
DeletePartial ==
  /\ mpc = "err"
  /\ disk' \in {disk, [p \in Parts |-> <<>>]}
  /\ mpc' = "done"
  /\ UNCHANGED <<evVars, ret, flba, blk, first, async, iso_split, fd,
                 worker, ghosts>>

Main ==
  /\ \/ NextBlock
     \/ InputFails
     \/ LastBlockHandedOver
     \/ write_split
     \/ write_split_fails
     \/ build_file_iso_end
     \/ makeps3iso_wait
     \/ CloseOutput
     \/ DeletePartial
  /\ UNCHANGED layout

-----------------------------------------------------------------------------
(* The event thread.                                                       *)
WorkerReceive ==
  /\ Receive
  /\ UNCHANGED <<main, async, output, worker, ghosts>>

WorkerDispatch ==
  /\ Dispatch
  /\ fpc' = IF event.func = WriteAsync THEN "test" ELSE "idle"
  /\ UNCHANGED <<main, async, output, wpos, wret, wflags, ghosts>>

WorkerClear ==
  /\ Clear
  /\ UNCHANGED <<main, async, output, worker, ghosts>>

OtherReturns ==
  /\ event.func = Other
  /\ Return
  /\ UNCHANGED <<main, async, output, worker, ghosts>>

(* my_func_async does nothing unless ENABLE is up.                         *)
NotEnabled ==
  /\ fpc = "test" /\ "ENABLE" \notin flags
  /\ Return
  /\ fpc' = "idle"
  /\ UNCHANGED <<main, async, output, wpos, wret, wflags, ghosts>>

Enabled ==
  /\ fpc = "test" /\ "ENABLE" \in flags
  /\ f' = [f EXCEPT !.ret = NoMemory]
  /\ wflags' = flags
  /\ wret' = NoMemory
  /\ wpos' = 0
  /\ fpc' = IF f.mem THEN "write" ELSE "store"
  /\ UNCHANGED <<evVars, main, flags, output, ghosts>>

(* write_split0 ends: v->ret = ret, free(v->mem).                          *)
EndWrite(r) ==
  /\ wret' = r
  /\ f' = [f EXCEPT !.ret = r, !.mem = FALSE]
  /\ fpc' = "store"

(* makeps3iso has returned and v->fd points to a dead local: whatever is   *)
(* there is not the output file.                                           *)
FrameGone == mpc = "done"

PartOf(lba) == IF iso_split = 0 THEN 0 ELSE lba \div SplitLba
NextSector == f.lba + wpos
Writing == fpc = "write" /\ wpos < f.n /\ ~FrameGone
MustSwitchLate == iso_split # 0 /\ NextSector \div SplitLba > iso_split   \* mutant
MustSwitch == iso_split # 0 /\ PartOf(NextSector) # iso_split - 1

(* The sector belongs to another part: close the current one, create the   *)
(* part of this sector (the first time, after renaming the file to ".0").  *)
NextPart ==
  /\ Writing /\ MustSwitch
  /\ iso_split' = PartOf(NextSector) + 1
  /\ \/ /\ fd' = PartOf(NextSector)
        /\ disk' = [disk EXCEPT ![PartOf(NextSector)] = <<>>]
        /\ UNCHANGED <<f, worker>>
     \/ /\ fd' = Closed
        /\ EndWrite(NoMemory)
        /\ UNCHANGED <<disk, wpos, wflags>>
  /\ UNCHANGED <<evVars, main, flags, ghosts>>

(* One sector reaches the file; a block inside one part is a single        *)
(* ps3ntfs_write, which may also stop short after any of its sectors.      *)
WriteSector ==
  /\ Writing /\ ~MustSwitch /\ fd # Closed
  /\ disk' = [disk EXCEPT ![fd] = Append(@, NextSector)]
  /\ wpos' = wpos + 1
  /\ UNCHANGED <<evVars, main, async, iso_split, fd, fpc, wret, wflags, ghosts>>

WriteFails ==
  /\ Writing /\ ~MustSwitch
  /\ EndWrite(WriteError)
  /\ UNCHANGED <<evVars, main, flags, output, wpos, wflags, ghosts>>

BlockWritten ==
  /\ fpc = "write" /\ wpos = f.n
  /\ EndWrite(0)
  /\ UNCHANGED <<evVars, main, flags, output, wpos, wflags, ghosts>>

StrayWrite ==
  /\ fpc = "write" /\ wpos < f.n /\ FrameGone
  /\ \E r \in {0, NoMemory, WriteError} : EndWrite(r)
  /\ stray' = TRUE
  /\ UNCHANGED <<evVars, main, flags, output, wpos, wflags, headerOk, slipped>>

StoreFlags == flags' = (wflags \ {"ENABLE"}) \cup (IF wret # 0 THEN {"ERROR"} ELSE {})

AsyncReturns ==
  /\ fpc = "store"
  /\ StoreFlags
  /\ Return
  /\ fpc' = "idle"
  /\ UNCHANGED <<main, f, output, wpos, wret, wflags, ghosts>>

Worker ==
  /\ \/ WorkerReceive
     \/ WorkerDispatch
     \/ WorkerClear
     \/ OtherReturns
     \/ NotEnabled
     \/ Enabled
     \/ NextPart
     \/ WriteSector
     \/ WriteFails
     \/ BlockWritten
     \/ StrayWrite
     \/ AsyncReturns
  /\ UNCHANGED layout

(* Both threads keep running while they can: the spin of write_split and   *)
(* the poll of wait_event_thread do not stop the event thread, which has   *)
(* its own kernel thread of a higher priority.                             *)
Fairness == WF_vars(Main) /\ WF_vars(Worker)

-----------------------------------------------------------------------------
(* PROPERTIES                                                              *)

(* write_split touches my_f_async only while no event for it is in the     *)
(* queue and the worker is not inside my_func_async: the block the worker  *)
(* writes is never replaced under it.                                      *)
BlockInUse == Underway \/ fpc # "idle"
NoOverwriteInUse == [][f' # f /\ main' # main => ~BlockInUse]_vars

(* No send of makeps3iso can find the queue full, so none is lost.         *)
QueueNeverFills == Len(evQ) <= 4

(* The sectors of a part are the right ones, in order and without a hole,  *)
(* whatever fails: a part never holds a sector of another part, and no     *)
(* sector is written twice.                                                *)
Begin(p) == IF p = 0 THEN (IF headerOk THEN 0 ELSE Header) ELSE p * SplitLba
End(p) == IF iso_split = 0 THEN Toc ELSE (p + 1) * SplitLba
PartsInOrder ==
  \A p \in Parts : \A i \in 1 .. Len(disk[p]) :
    /\ disk[p][i] = Begin(p) + i - 1
    /\ disk[p][i] < End(p)

OnDisk(lba) ==
  LET p == PartOf(lba) IN lba - Begin(p) + 1 \in 1 .. Len(disk[p])

Success == mpc = "done" /\ ret = 0

(* What "Finish!" (iso.c:2809) is worth: when makeps3iso reports success,  *)
(* every block but the last is in the file. A block whose write failed is  *)
(* noticed when the next one is handed over.                               *)
SuccessLosesAtMostTheLastBlock ==
  Success => \A lba \in Begin(0) .. blk.lba - 1 : OnDisk(lba)

(* The last block can be missing in two ways only: its write failed before *)
(* anybody looked (ERROR is left in flags), or the wait returned before    *)
(* the worker had dispatched it.                                           *)
SuccessIsCompleteUnlessSlipped ==
  Success /\ ~slipped /\ "ERROR" \notin flags =>
    \A lba \in Begin(0) .. Toc - 1 : OnDisk(lba)

(* When makeps3iso closes the file and returns, the worker is through with *)
(* it: no event of a block is left, the copy of the block is freed, and    *)
(* fd2 is not used any more; again unless the wait slipped.                *)
WorkerQuietAtTheEnd ==
  mpc \in {"close", "err", "done"} /\ ~slipped => ~BlockInUse /\ ~f.mem /\ ~stray

(* makeps3iso returns: neither the spin nor a wait is left waiting.        *)
Terminates == <>(mpc = "done")

(* What build_file_iso and makeps3iso make of the asynchronous writes when *)
(* they return: what success is worth, and that nothing of a block is left *)
(* in the queue, in memory or at the file they close.                      *)
ReturnIsSound ==
  /\ IsoTypeOK
  /\ SuccessLosesAtMostTheLastBlock
  /\ SuccessIsCompleteUnlessSlipped
  /\ WorkerQuietAtTheEnd
  /\ QueueNeverFills

(* The hand-over by ENABLE (write_split against my_func_async) is neither  *)
(* too early, so that a block is replaced, nor for ever too late.          *)
HandOverWorks == NoOverwriteInUse /\ Terminates
=============================================================================
