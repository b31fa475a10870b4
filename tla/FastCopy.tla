------------------------------- MODULE FastCopy -------------------------------
(***************************************************************************)
(* source/utils.c, the fast-copy engine that copies games: my_game_copy    *)
(* walks a directory, fast_copy_add collects a batch of files with a       *)
(* buffer each, and fast_copy_process copies the batch with asynchronous   *)
(* reads and writes whose callbacks (fast_func_read, fast_func_write) run  *)
(* between any two steps of its loop.                                      *)
(*                                                                         *)
(* The content of a source file is the sequence of its positions 1, 2, ... *)
(* over all its fragments; the unit is a fraction of a buffer. Names, the  *)
(* screen and the progress bars are left out. Closing an open file and     *)
(* sysFsStat on an existing fragment do not fail.                          *)
(***************************************************************************)
EXTENDS SeqSums

CONSTANTS
  MaxFiles,    \* MAX_FAST_FILES, 16
  Buf,         \* FILESIZE_MAX, 0x200000: the size of a buffer
  Part,        \* 0x40000000: the size of a part of a split output
  Big,         \* 0xFFFF0001: the size from which copy_mode 1 splits a file
  Dirs         \* directories to copy, as sequences of files

(* A file is the sequence of the sizes of its fragments; it has several    *)
(* when it is split on the source (.66600, .66601, ... or .1.part, ...).   *)
ASSUME FastCopyAssumption ==
  /\ MaxFiles \in Nat \ {0} /\ Buf \in Nat \ {0} /\ Part \in Nat \ {0}
  /\ Part % Buf = 0
  /\ Big \in Nat /\ Big > Buf
  /\ Dirs \subseteq Seq(Seq(Nat) \ {<<>>})
  /\ \A dir \in Dirs : \A k \in 1 .. Len(dir) :
       Len(dir[k]) > 1 => \A j \in 1 .. Len(dir[k]) : dir[k][j] \in 1 .. Big - 1

VARIABLES
  dir,           \* the directory being copied
  copy_mode,     \* copy_mode: 1 packs files of Big or more into parts
  next,          \* the next file of dir to be added
  pc,            \* where the copy is
  caller,        \* who called fast_copy_process: "add" or "final"
  ret,           \* _my_game_copy failed; in the end, my_game_copy did
  abort_copy,    \* abort_copy # 0
  error,         \* the local error of fast_copy_process
  fast_files,    \* fast_files[0 .. fast_num_files - 1]
  used_mem,      \* fast_used_mem
  r, w,          \* current_fast_file_r, current_fast_file_w, from 1
  i_reading, fast_read, fast_writing, files_opened,   \* as in the code
  aioR, aioW,    \* the requests in flight, or None
  mounts,        \* sysFsAioInit calls not undone by sysFsAioFinish
  leaked,        \* history: files opened and forgotten
  disk           \* the output: for each file of dir the sequence of its parts

driver == <<dir, copy_mode, next, caller, ret, mounts>>
batch == <<fast_files, used_mem>>
loop == <<r, w, i_reading, error>>
flags == <<fast_read, fast_writing>>
aio == <<aioR, aioW>>
vars == <<driver, pc, abort_copy, batch, loop, flags, files_opened, aio,
          leaked, disk>>

None == [size |-> -1]
Closed == -1

MinOf(a, b) == IF a < b THEN a ELSE b
MaxOf(a, b) == IF a > b THEN a ELSE b

Places == {"start", "add", "loop", "open", "readEnd", "fl2", "writeEnd",
           "progress", "cleanup", "finish", "done"}

FileRecords ==
  [file : 1 .. Len(dir), bigfile_mode : 0 .. 2, fl : 1 .. 5,
   len : Nat, size_mem : 1 .. Buf, use_doublebuffer : BOOLEAN,
   readed : Int, writed : Int, off_readed : Nat, giga_counter : Nat,
   number_frag : Nat, rfd : Int, wfd : Int, rsize : Nat, roffset : Nat,
   mem : Seq(Nat), mem2 : Seq(Nat)]

FcTypeOK ==
  /\ dir \in Dirs /\ copy_mode \in {0, 1} /\ next \in 1 .. Len(dir) + 1
  /\ pc \in Places /\ caller \in {"add", "final"}
  /\ ret \in BOOLEAN /\ abort_copy \in BOOLEAN
  /\ error \in {0, -1, -2, -3, -4, -666}
  /\ Len(fast_files) <= MaxFiles
  /\ \A i \in 1 .. Len(fast_files) : fast_files[i] \in FileRecords
  /\ used_mem \in Nat
  /\ r \in 1 .. Len(fast_files) + 1 /\ w \in 1 .. Len(fast_files) + 1
  /\ i_reading \in BOOLEAN
  /\ fast_read \in 0 .. 2 /\ fast_writing \in 0 .. 2
  /\ files_opened \in 0 .. 2 /\ leaked \in 0 .. 1 /\ mounts \in 0 .. 2
  /\ aioR.size \in -1 .. Buf /\ aioW.size \in -1 .. Buf
  /\ DOMAIN disk = 1 .. Len(dir)

Init ==
  /\ dir \in Dirs /\ copy_mode \in {0, 1} /\ next = 1
  /\ pc = "start" /\ caller = "add" /\ ret = FALSE /\ abort_copy = FALSE
  /\ error = 0 /\ fast_files = <<>> /\ used_mem = 0 /\ r = 1 /\ w = 1
  /\ i_reading = FALSE /\ fast_read = 0 /\ fast_writing = 0
  /\ files_opened = 0 /\ aioR = None /\ aioW = None /\ mounts = 0 /\ leaked = 0
  /\ disk = [k \in 1 .. Len(dir) |-> <<>>]

-----------------------------------------------------------------------------
(* fast_copy_async(..., 1). When it fails half-way, what it has set up     *)
(* stays: my_game_copy returns without fast_copy_async(..., 0).            *)
fast_copy_async ==
  /\ pc = "start"
  /\ \/ mounts' = 2 /\ pc' = "add" /\ UNCHANGED <<ret, abort_copy>>
     \/ mounts' \in 0 .. 2 /\ pc' = "done" /\ ret' = TRUE /\ abort_copy' = TRUE
  /\ UNCHANGED <<dir, copy_mode, next, caller, batch, loop, flags,
                 files_opened, aio, leaked, disk>>

Call_fast_copy_process(from) ==
  /\ pc' = "loop" /\ caller' = from
  /\ r' = 1 /\ w' = 1 /\ i_reading' = FALSE /\ error' = 0

BatchFull == Len(fast_files) >= MaxFiles \/ used_mem >= Buf

(* fast_copy_add on a full batch first copies the batch.                   *)
AddToFullBatch ==
  /\ pc = "add" /\ next <= Len(dir) /\ BatchFull
  /\ Call_fast_copy_process("add")
  /\ UNCHANGED <<dir, copy_mode, next, ret, mounts, abort_copy, batch, flags,
                 files_opened, aio, leaked, disk>>

(* The size sysFsStat gives is that of the first fragment.                 *)
ModeOf(file) == IF copy_mode = 1 /\ Head(file) >= Big THEN 1
                ELSE IF Len(file) > 1 THEN 2 ELSE 0

NewFile(k) ==
  LET file == dir[k] IN
  [file |-> k, bigfile_mode |-> ModeOf(file), fl |-> 1, len |-> Head(file),
   size_mem |-> MinOf(Head(file), Buf), use_doublebuffer |-> Head(file) >= Buf,
   readed |-> 0, writed |-> 0, off_readed |-> 0, giga_counter |-> 0,
   number_frag |-> 0, rfd |-> Closed, wfd |-> Closed, rsize |-> 0,
   roffset |-> 0, mem |-> <<>>, mem2 |-> <<>>]

(* An empty file is created at once, any other is added to the batch.      *)
fast_copy_add ==
  /\ pc = "add" /\ next <= Len(dir) /\ ~BatchFull
  /\ next' = next + 1
  /\ IF Head(dir[next]) = 0
     THEN disk' = [disk EXCEPT ![next] = << <<>> >>] /\ UNCHANGED batch
     ELSE /\ fast_files' = Append(fast_files, NewFile(next))
          /\ used_mem' = used_mem + NewFile(next).size_mem
          /\ UNCHANGED disk
  /\ UNCHANGED <<dir, copy_mode, pc, caller, ret, mounts, abort_copy, loop,
                 flags, files_opened, aio, leaked>>

(* sysFsStat, memalign or the creation of the empty file fails. The batch  *)
(* goes through fast_copy_process all the same.                            *)
fast_copy_add_fails ==
  /\ pc = "add" /\ next <= Len(dir) /\ ~BatchFull
  /\ abort_copy' = TRUE /\ ret' = TRUE
  /\ Call_fast_copy_process("final")
  /\ UNCHANGED <<dir, copy_mode, next, mounts, batch, flags, files_opened,
                 aio, leaked, disk>>

DirectoryRead ==
  /\ pc = "add" /\ next > Len(dir)
  /\ Call_fast_copy_process("final")
  /\ UNCHANGED <<dir, copy_mode, next, ret, mounts, abort_copy, batch, flags,
                 files_opened, aio, leaked, disk>>

-----------------------------------------------------------------------------
(* fast_copy_process: each turn of its loop looks for a file to open, a    *)
(* read that ended, a write that ended, and at the user.                   *)
num == Len(fast_files)
R == fast_files[r]
W == fast_files[w]

MoreToDo == r <= num \/ w <= num \/ fast_writing # 0 \/ files_opened # 0
StopLooping == ~MoreToDo \/ abort_copy

LoopTest ==
  /\ pc = "loop"
  /\ pc' = IF StopLooping THEN "cleanup" ELSE "open"
  /\ UNCHANGED <<driver, abort_copy, batch, loop, flags, files_opened, aio,
                 leaked, disk>>

Break(e) == error' = e /\ pc' = "cleanup"

(* Reads go to the buffer of the file, at most size_mem at a time.         *)
Chunk(f, len, readed) == MinOf(len - readed, f.size_mem)
ReadRequest(f) ==
  [entry |-> r, frag |-> f.rfd, offset |-> f.roffset, size |-> f.rsize]

(* Create a part, or the one output file.                                  *)
Create(f, part) == disk' = [disk EXCEPT ![f.file] = Append(SubSeq(@, 1, part - 1), <<>>)]

MayOpenAhead == r <= num /\ R.fl = 1 /\ ~i_reading     \* mutant
MayOpen == r <= num /\ R.fl = 1 /\ ~i_reading /\ fast_read = 0 /\ files_opened < 2

OpenFiles ==
  /\ pc = "open" /\ MayOpen
  /\ LET f == [R EXCEPT !.rfd = 1, !.wfd = 1, !.fl = 2, !.roffset = 0,
                        !.rsize = Chunk(R, R.len, 0)]
     IN /\ fast_files' = [fast_files EXCEPT ![r] = f]
        /\ Create(R, 1)
        /\ files_opened' = files_opened + 2
        /\ \/ /\ fast_read' = 1 /\ aioR' = ReadRequest(f)
              /\ i_reading' = TRUE
              /\ pc' = "readEnd"
              /\ UNCHANGED error
           \/ /\ Break(-3)     \* sysFsAioRead fails
              /\ UNCHANGED <<fast_read, aioR, i_reading>>
  /\ UNCHANGED <<driver, abort_copy, used_mem, r, w, fast_writing, aioW, leaked>>

(* The source cannot be opened; or the output cannot, and then the source  *)
(* is open and in no t_read.fd.                                            *)
OpenFails ==
  /\ pc = "open" /\ MayOpen
  /\ \/ Break(-1) /\ UNCHANGED <<files_opened, leaked>>
     \/ Break(-2) /\ files_opened' = files_opened + 1 /\ leaked' = leaked + 1
  /\ UNCHANGED <<driver, abort_copy, batch, r, w, i_reading, flags, aio, disk>>

NothingToOpen ==
  /\ pc = "open" /\ ~MayOpen
  /\ pc' = "readEnd"
  /\ UNCHANGED <<driver, abort_copy, batch, loop, flags, files_opened, aio,
                 leaked, disk>>

(* A read ended and the previous write is done with.                       *)
ReadEndedWhateverIsWritten == r <= num /\ R.fl = 3 /\ fast_writing # 2    \* mutant
ReadEnded == r <= num /\ R.fl = 3 /\ fast_writing = 0

NoReadEnded ==
  /\ pc = "readEnd" /\ ~ReadEnded
  /\ pc' = "writeEnd"
  /\ UNCHANGED <<driver, abort_copy, batch, loop, flags, files_opened, aio,
                 leaked, disk>>

WriteOffset(f) == IF f.bigfile_mode = 1 THEN f.giga_counter ELSE f.writed
StartWrite(buffer) ==
  /\ w' = r
  /\ fast_writing' = 1
  /\ aioW' = [entry |-> r, part |-> R.wfd, offset |-> WriteOffset(R),
              size |-> R.rsize, buffer |-> buffer]

StartWriteFails ==     \* sysFsAioWrite fails
  /\ pc = "readEnd" /\ ReadEnded
  /\ w' = r
  /\ Break(-4)
  /\ UNCHANGED <<driver, abort_copy, batch, r, i_reading, flags, files_opened,
                 aio, leaked, disk>>

(* A file below Buf: write it out of its one buffer.                       *)
SingleBufferWrite ==
  /\ pc = "readEnd" /\ ReadEnded /\ ~R.use_doublebuffer
  /\ StartWrite("mem")
  /\ r' = r + 1 /\ i_reading' = FALSE
  /\ pc' = "writeEnd"
  /\ UNCHANGED <<driver, abort_copy, batch, error, fast_read, files_opened,
                 aioR, leaked, disk>>

DoubleBufferWrite ==
  /\ pc = "readEnd" /\ ReadEnded /\ R.use_doublebuffer
  /\ StartWrite("mem2")

(* The second buffer is being written; read on into the first.             *)
DoubleBufferMore ==
  /\ DoubleBufferWrite
  /\ R.readed < R.len
  /\ LET f == [R EXCEPT !.mem2 = R.mem, !.fl = 2,
                        !.rsize = Chunk(R, R.len, R.readed),
                        !.roffset = R.readed - R.off_readed]
     IN /\ fast_files' = [fast_files EXCEPT ![r] = f]
        /\ \/ fast_read' = 1 /\ aioR' = ReadRequest(f) /\ pc' = "writeEnd"
              /\ UNCHANGED error
           \/ fast_read' = 0 /\ Break(-3) /\ UNCHANGED aioR
  /\ UNCHANGED <<driver, abort_copy, used_mem, r, i_reading, files_opened,
                 leaked, disk>>

(* The last chunk of the file, or of the last fragment of a joined file.   *)
NextFragment(f) == f.number_frag + 2
DoubleBufferLast ==
  /\ DoubleBufferWrite
  /\ R.readed >= R.len
  /\ IF R.bigfile_mode = 2
     THEN /\ NextFragment(R) > Len(dir[R.file])
          /\ fast_files' = [fast_files EXCEPT ![r].mem2 = R.mem,
                              ![r].number_frag = @ + 1, ![r].off_readed = R.readed]
     ELSE fast_files' = [fast_files EXCEPT ![r].mem2 = R.mem, ![r].fl = 5]
  /\ r' = r + 1 /\ i_reading' = FALSE
  /\ pc' = "writeEnd"
  /\ UNCHANGED <<driver, abort_copy, used_mem, error, fast_read, files_opened,
                 aioR, leaked, disk>>

(* The last chunk of another fragment: go on with the next one. fl becomes *)
(* 2 only after sysFsAioRead, in SetFl2.                                   *)
DoubleBufferJoin ==
  /\ DoubleBufferWrite
  /\ R.readed >= R.len /\ R.bigfile_mode = 2
  /\ NextFragment(R) <= Len(dir[R.file])
  /\ LET len == R.len + dir[R.file][NextFragment(R)]
         f == [R EXCEPT !.mem2 = R.mem, !.number_frag = @ + 1,
                        !.off_readed = R.readed, !.len = len, !.roffset = 0,
                        !.rsize = Chunk(R, len, R.readed), !.rfd = NextFragment(R)]
     IN \/ /\ fast_files' = [fast_files EXCEPT ![r] = f]
           /\ fast_read' = 1 /\ aioR' = ReadRequest(f) /\ pc' = "fl2"
           /\ UNCHANGED <<error, files_opened>>
        \/ /\ fast_files' = [fast_files EXCEPT ![r] = f]     \* sysFsAioRead fails
           /\ fast_read' = 0 /\ Break(-3)
           /\ UNCHANGED <<aioR, files_opened>>
        \/ /\ fast_files' = [fast_files EXCEPT ![r] =        \* sysFsOpen fails
                               [f EXCEPT !.rfd = Closed, !.len = R.len]]
           /\ fast_read' = 0 /\ Break(-1) /\ files_opened' = files_opened - 1
           /\ UNCHANGED aioR
  /\ UNCHANGED <<driver, abort_copy, used_mem, r, i_reading, leaked, disk>>

SetFl2 ==
  /\ pc = "fl2"
  /\ fast_files' = [fast_files EXCEPT ![r].fl = 2]
  /\ pc' = "writeEnd"
  /\ UNCHANGED <<driver, abort_copy, used_mem, loop, flags, files_opened, aio,
                 leaked, disk>>

-----------------------------------------------------------------------------
NoWriteEnded ==
  /\ pc = "writeEnd" /\ fast_writing # 2
  /\ pc' = "progress"
  /\ UNCHANGED <<driver, abort_copy, batch, loop, flags, files_opened, aio,
                 leaked, disk>>

WriteError == W.writed < 0

WriteFailed ==
  /\ pc = "writeEnd" /\ fast_writing = 2 /\ WriteError
  /\ fast_writing' = 0
  /\ Break(-4)
  /\ UNCHANGED <<driver, abort_copy, batch, r, w, i_reading, fast_read,
                 files_opened, aio, leaked, disk>>

WriteEnded ==
  /\ pc = "writeEnd" /\ fast_writing = 2 /\ ~WriteError
  /\ fast_writing' = 0

IsOpen(fd) == IF fd # Closed THEN 1 ELSE 0
BusyAfterClose(f) == fast_read     \* mutant
ReadFlagAfterClose(f) == IF f.rfd # Closed THEN 0 ELSE fast_read
OpenOf(f) == IsOpen(f.rfd) + IsOpen(f.wfd)
ClosedSource(f) == IsOpen(f.rfd)     \* mutant
ClosedNow(f) == OpenOf(f)

(* All that was read is written: close both files.                         *)
FileCopied ==
  /\ WriteEnded
  /\ W.writed >= W.len
  /\ fast_read' = ReadFlagAfterClose(W)
  /\ files_opened' = files_opened - ClosedNow(W)
  /\ fast_files' = [fast_files EXCEPT ![w].rfd = Closed, ![w].wfd = Closed,
                                      ![w].fl = 4, ![w].writed = -1]
  /\ w' = w + 1
  /\ pc' = "progress"
  /\ UNCHANGED <<driver, abort_copy, used_mem, r, i_reading, error, aio,
                 leaked, disk>>

PartFull(f) == f.bigfile_mode = 1 /\ f.giga_counter >= Part

(* A part of a split output is full: create the next one.                  *)
NextPart ==
  /\ WriteEnded
  /\ W.writed < W.len /\ PartFull(W)
  /\ LET f == [W EXCEPT !.giga_counter = 0, !.number_frag = @ + 1]
     IN \/ /\ fast_files' = [fast_files EXCEPT ![w] = [f EXCEPT !.wfd = f.number_frag + 1]]
           /\ Create(W, f.number_frag + 1)
           /\ pc' = "progress"
           /\ UNCHANGED <<error, files_opened>>
        \/ /\ fast_files' = [fast_files EXCEPT ![w] = [f EXCEPT !.wfd = Closed]]
           /\ Break(-2)
           /\ files_opened' = files_opened - 1
           /\ UNCHANGED disk
  /\ UNCHANGED <<driver, abort_copy, used_mem, r, w, i_reading, fast_read, aio, leaked>>

ChunkWritten ==
  /\ WriteEnded
  /\ W.writed < W.len /\ ~PartFull(W)
  /\ pc' = "progress"
  /\ UNCHANGED <<driver, abort_copy, batch, loop, fast_read, files_opened, aio,
                 leaked, disk>>

(* The user lets it run, cancels the progress dialog (seen by the next     *)
(* test of the loop), or holds TRIANGLE (leaves the loop).                 *)
Progress ==
  /\ pc = "progress"
  /\ pc' = "loop"
  /\ UNCHANGED <<driver, abort_copy, batch, loop, flags, files_opened, aio,
                 leaked, disk>>

UserAborts ==
  /\ pc = "progress"
  /\ abort_copy' = TRUE /\ error' = -666
  /\ pc' \in {"loop", "cleanup"}
  /\ UNCHANGED <<driver, batch, r, w, i_reading, flags, files_opened, aio,
                 leaked, disk>>

-----------------------------------------------------------------------------
(* The end of fast_copy_process: cancel what is in flight, close and free. *)
(* The 200 ms it sleeps after a cancel let a callback that is running end. *)
CancelWrite == fast_writing = 1
CancelRead == fast_read = 1

Cleanup ==
  /\ pc = "cleanup"
  /\ aioW' = IF CancelWrite THEN None ELSE aioW
  /\ aioR' = IF CancelRead THEN None ELSE aioR
  /\ fast_writing' = 0 /\ fast_read' = 0
  /\ files_opened' = files_opened - Sum([i \in 1 .. num |-> OpenOf(fast_files[i])])
  /\ fast_files' = <<>> /\ used_mem' = 0 /\ r' = 1 /\ w' = 1
  /\ abort_copy' = (abort_copy \/ error # 0)
  /\ ret' = (ret \/ error # 0 \/ abort_copy)
  /\ IF caller = "final" THEN pc' = "finish" /\ UNCHANGED caller
     ELSE IF ret' THEN pc' = "loop" /\ caller' = "final"
     ELSE pc' = "add" /\ UNCHANGED caller
  /\ error' = IF caller = "add" THEN 0 ELSE error
  /\ i_reading' = FALSE
  /\ UNCHANGED <<dir, copy_mode, next, mounts, leaked, disk>>

(* fast_copy_async(..., 0); my_game_copy returns.                          *)
Finish ==
  /\ pc = "finish"
  /\ mounts' = 0
  /\ pc' = "done"
  /\ UNCHANGED <<dir, copy_mode, next, caller, ret, abort_copy, batch, loop,
                 flags, files_opened, aio, leaked, disk>>

Main ==
  \/ fast_copy_async \/ AddToFullBatch \/ fast_copy_add \/ fast_copy_add_fails
  \/ DirectoryRead \/ LoopTest
  \/ OpenFiles \/ OpenFails \/ NothingToOpen
  \/ NoReadEnded \/ StartWriteFails \/ SingleBufferWrite
  \/ DoubleBufferMore \/ DoubleBufferLast \/ DoubleBufferJoin \/ SetFl2
  \/ NoWriteEnded \/ WriteFailed \/ FileCopied \/ NextPart \/ ChunkWritten
  \/ Progress \/ UserAborts
  \/ Cleanup \/ Finish

-----------------------------------------------------------------------------
(* The callbacks. A read fills the buffer with what the fragment holds     *)
(* from its offset on; a write writes what the buffer holds when it ends.  *)
FragmentStart(f, frag) == Sums(dir[f.file])[frag - 1]

fast_func_read ==
  /\ aioR # None
  /\ LET f == fast_files[aioR.entry]
         from == FragmentStart(f, aioR.frag) + aioR.offset
     IN \/ /\ fast_files' = [fast_files EXCEPT ![aioR.entry] =
                [f EXCEPT !.readed = @ + aioR.size, !.fl = 3,
                          !.mem = [i \in 1 .. aioR.size |-> from + i]]]
           /\ fast_read' = 2
        \/ /\ fast_files' = [fast_files EXCEPT ![aioR.entry].readed = -1]
           /\ UNCHANGED fast_read
  /\ aioR' = None
  /\ UNCHANGED <<driver, pc, abort_copy, used_mem, loop, fast_writing,
                 files_opened, aioW, leaked, disk>>

WriteAt(s, offset, data) ==
  [i \in 1 .. MaxOf(Len(s), offset + Len(data)) |->
     IF i \in offset + 1 .. offset + Len(data) THEN data[i - offset]
     ELSE IF i <= Len(s) THEN s[i] ELSE 0]

fast_func_write ==
  /\ aioW # None
  /\ LET f == fast_files[aioW.entry]
         data == SubSeq(IF aioW.buffer = "mem" THEN f.mem ELSE f.mem2, 1, aioW.size)
     IN \/ /\ disk' = [disk EXCEPT ![f.file][aioW.part] = WriteAt(@, aioW.offset, data)]
           /\ fast_files' = [fast_files EXCEPT ![aioW.entry].writed = @ + aioW.size,
                                               ![aioW.entry].giga_counter = @ + aioW.size]
        \/ /\ fast_files' = [fast_files EXCEPT ![aioW.entry].writed = -1]
           /\ UNCHANGED disk
  /\ fast_writing' = 2
  /\ aioW' = None
  /\ UNCHANGED <<driver, pc, abort_copy, used_mem, loop, fast_read,
                 files_opened, aioR, leaked>>

Next == Main \/ fast_func_read \/ fast_func_write

(* The loop polls and never blocks; a request in flight is answered in the *)
(* end. Nobody has to abort.                                               *)
Fairness == WF_vars(Main) /\ WF_vars(fast_func_read) /\ WF_vars(fast_func_write)

Spec == Init /\ [][Next]_vars /\ Fairness

-----------------------------------------------------------------------------
(* PROPERTIES                                                              *)

(* Where the parts of an output begin in it, and how much of it there is.  *)
PartStart(p) == (p - 1) * Part
Copied(k) ==
  IF disk[k] = <<>> THEN 0 ELSE PartStart(Len(disk[k])) + Len(disk[k][Len(disk[k])])

(* Whatever fails and whenever the callbacks come, an output file is a     *)
(* prefix of its source: every position holds what the source has there,   *)
(* so that no chunk is written out of order, twice, or from a buffer the   *)
(* next read already overwrites. A split output never leaves a part short  *)
(* before it begins the next one, and overfills none.                      *)
CopiesArePrefixes ==
  \A k \in 1 .. Len(dir) :
    /\ \A p \in 1 .. Len(disk[k]) : \A i \in 1 .. Len(disk[k][p]) :
         disk[k][p][i] = PartStart(p) + i
    /\ \A p \in 1 .. Len(disk[k]) - 1 : Len(disk[k][p]) = Part
    /\ Copied(k) <= Sum(dir[k])
    /\ copy_mode = 1 /\ Head(dir[k]) >= Big =>
         \A p \in 1 .. Len(disk[k]) : Len(disk[k][p]) <= Part

(* When my_game_copy returns 0 every file of the directory is there and    *)
(* complete; except that a joined file whose first fragment is smaller     *)
(* than a buffer goes through the single buffer, which knows of no second  *)
(* fragment.                                                               *)
Success == pc = "done" /\ ~ret
OneFragmentOnly(file) == Len(file) > 1 /\ Head(file) < Buf
Whole(k) == IF OneFragmentOnly(dir[k]) THEN Head(dir[k]) ELSE Sum(dir[k])
SuccessIsComplete ==
  Success => \A k \in 1 .. Len(dir) : disk[k] # <<>> /\ Copied(k) = Whole(k)

(* What is on the disk while files are copied and when it is called done.  *)
CopiesAreTrue == CopiesArePrefixes /\ SuccessIsComplete

(* files_opened, which decides when the next file may be opened and when   *)
(* the loop ends, is the number of open files; the one file that can be    *)
(* left open when my_game_copy returns is a source whose output could not  *)
(* be created, and then it reports failure.                                *)
FilesAccounted ==
  /\ files_opened = leaked + Sum([i \in 1 .. num |-> OpenOf(fast_files[i])])
  /\ pc = "done" => files_opened = leaked /\ (leaked > 0 => ret)

(* A request in flight keeps what it works on: its file is still open, and *)
(* a read and a write in flight together use the two buffers of one file.  *)
RequestsKeepTheirFiles ==
  /\ aioR # None => /\ aioR.entry <= num
                    /\ fast_files[aioR.entry].rfd = aioR.frag
  /\ aioW # None => /\ aioW.entry <= num
                    /\ fast_files[aioW.entry].wfd = aioW.part
  /\ aioR # None /\ aioW # None => aioR.entry = aioW.entry /\ aioW.buffer = "mem2"

(* The buffers are freed only when nothing is in flight into or out of     *)
(* them any more.                                                          *)
QuietWhenFreed ==
  [][fast_files # <<>> /\ fast_files' = <<>> => aioR' = None /\ aioW' = None]_vars

(* used_mem is what the batch has allocated (a double buffer counts once), *)
(* and stays below two buffers.                                            *)
MemoryBounded ==
  /\ used_mem = Sum([i \in 1 .. num |-> fast_files[i].size_mem])
  /\ used_mem < 2 * Buf

(* The copy ends by itself, or polls for ever for the answer of a read:    *)
(* the read failed (fast_func_read then leaves fl and fast_read as they    *)
(* are), or its callback ran before "fl = 2" of a joined file.             *)
AnswerLost ==
  r <= num /\ R.fl = 2 /\ aioR = None /\ (R.readed < 0 \/ R.number_frag > 0)
EndsOrAnswerLost == <>(pc = "done") \/ <>[]AnswerLost

(* Aborting ends the copy whatever state it is in.                         *)
AbortEnds == abort_copy ~> pc = "done"

(* The counts and the flags by which fast_copy_add and fast_copy_process   *)
(* know what is open, allocated and in flight agree with what is.          *)
ResourcesAccounted ==
  /\ FcTypeOK
  /\ FilesAccounted
  /\ RequestsKeepTheirFiles
  /\ MemoryBounded

(* my_game_copy comes to its end, by itself or by the user's, but for the  *)
(* answers of reads it loses, and frees its buffers only when it is quiet. *)
EndsAndIsQuiet == EndsOrAnswerLost /\ AbortEnds /\ QuietWhenFreed
=============================================================================
