------------------------------ MODULE CopyAsync ------------------------------
(***************************************************************************)
(* source/pkg_install.c, copy_async: copies one file with one asynchronous *)
(* read and one asynchronous write at a time through a buffer of two       *)
(* halves. The two counters of async_data serve as flags too: -666 means   *)
(* idle, -555 in flight, -1 failed, and 0 or more done; the callbacks add  *)
(* the size of the request to what they find.                              *)
(*                                                                         *)
(* A buffer holds a chunk [from, n]: n bytes of the source from position   *)
(* from on. The dialog and the progress bar are left out.                  *)
(***************************************************************************)
EXTENDS Integers, Sequences

CONSTANTS
  Chunk,    \* 0x10000, the size of half the buffer
  Sizes     \* sizes of the file to copy

Idle == -666
InFlight == -555
Failed == -1

ASSUME CopyAsyncAssumption == Chunk \in Nat /\ Chunk >= -InFlight /\ Sizes \subseteq Nat

VARIABLES
  size,              \* the parameter size, that of the source
  is_ntfs,           \* the source is on an NTFS or ext device: read it with
                     \* ps3ntfs_read, which blocks
  pc, ret,           \* where copy_async is, what it returns
  readed, writed,    \* async_data
  pos, pos2,         \* as in the code: read so far, written so far
  alternate,         \* the half the next read goes to
  mem,               \* what the two halves hold
  t_read, t_write,   \* the last request: fd set or not, half, offset, size
  reading, writing,  \* history: that request is in flight
  held,              \* what copy_async has and not yet given back
  dst                \* the output, as the chunks written one after another

input == <<size, is_ntfs>>
vars == <<input, pc, ret, readed, writed, pos, pos2, alternate, mem,
          t_read, t_write, reading, writing, held, dst>>

MinOf(a, b) == IF a < b THEN a ELSE b
Chunks == [from : Nat, n : 0 .. Chunk]
Requests == [fd : BOOLEAN, half : {0, 1}, offset : Nat, size : 0 .. Chunk]
Things == {"mem", "aio1", "aio2", "fdr", "fdw"}
Counters == {Idle} \cup (InFlight .. InFlight + Chunk) \cup 0 .. Chunk

CaTypeOK ==
  /\ size \in Sizes /\ is_ntfs \in BOOLEAN
  /\ pc \in {"setup", "loop", "read", "startWrite", "writeEnd", "error", "done"}
  /\ ret \in {0, -1, -2, -3, -4, -5, -6, -7, -666}
  /\ readed \in Counters /\ writed \in Counters
  /\ pos \in 0 .. size /\ pos2 \in 0 .. pos
  /\ alternate \in {0, 1}
  /\ mem \in [{0, 1} -> Chunks]
  /\ t_read \in Requests /\ t_write \in Requests
  /\ reading \in BOOLEAN /\ writing \in BOOLEAN
  /\ held \subseteq Things
  /\ dst \in Seq([at : Nat, from : Nat, n : Nat])

NoRequest == [fd |-> FALSE, half |-> 0, offset |-> 0, size |-> 0]

Init ==
  /\ size \in Sizes /\ is_ntfs \in BOOLEAN
  /\ pc = "setup" /\ ret = 0 /\ readed = Idle /\ writed = Idle
  /\ pos = 0 /\ pos2 = 0 /\ alternate = 0
  /\ mem = [h \in {0, 1} |-> [from |-> 0, n |-> 0]]
  /\ t_read = NoRequest /\ t_write = NoRequest
  /\ reading = FALSE /\ writing = FALSE
  /\ held = {} /\ dst = <<>>

-----------------------------------------------------------------------------
(* What is left behind when a step of the setup fails: r is returned. An   *)
(* NTFS source is closed with sysFsClose, which does not close it.         *)
SetupFails(r, left) ==
  /\ ret' = r /\ held' = left /\ pc' = "done"

Setup ==
  /\ pc = "setup"
  /\ \/ SetupFails(-3, {})                                  \* malloc
     \/ ~is_ntfs /\ SetupFails(-1, {"mem"})                 \* sysFsAioInit(path1)
     \/ ~is_ntfs /\ SetupFails(-1, {"aio1"})                \* sysFsOpen(path1)
     \/ is_ntfs /\ SetupFails(-1, {})                       \* ps3ntfs_open
     \/ ~is_ntfs /\ SetupFails(-2, {})                      \* path2
     \/ is_ntfs /\ SetupFails(-2, {"fdr"})
     \/ /\ held' = IF is_ntfs THEN Things \ {"aio1"} ELSE Things
        /\ pc' = "loop" /\ UNCHANGED ret
  /\ UNCHANGED <<input, readed, writed, pos, pos2, alternate, mem, t_read,
                 t_write, reading, writing, dst>>

GotoError(r) == ret' = r /\ pc' = "error"

(* The end of the loop gives everything back, but closes the descriptors   *)
(* in t_read and t_write, which are -1 until a first request. Nothing is   *)
(* cancelled: there is nothing left to wait for.                           *)
ClosedSource == IF is_ntfs \/ t_read.fd THEN {"fdr"} ELSE {}     \* mutant
Closed == (IF is_ntfs \/ t_read.fd THEN {"fdr"} ELSE {})
          \cup (IF t_write.fd THEN {"fdw"} ELSE {})
GiveBack == held' = held \ (Closed \cup {"mem", "aio1", "aio2"})

AllRead == pos >= size     \* mutant
AllWritten == pos2 >= size

LoopEnds ==
  /\ pc = "loop" /\ AllWritten
  /\ GiveBack
  /\ pc' = "done"
  /\ UNCHANGED <<input, ret, readed, writed, pos, pos2, alternate, mem, t_read,
                 t_write, reading, writing, dst>>

LoopGoesOn ==
  /\ pc = "loop" /\ ~AllWritten
  /\ pc' = "read"
  /\ UNCHANGED <<input, ret, readed, writed, pos, pos2, alternate, mem, t_read,
                 t_write, reading, writing, held, dst>>

(* The user cancels the dialog: progress_action # 0.                       *)
UserCancels ==
  /\ pc = "loop" /\ ~AllWritten
  /\ GotoError(-666)
  /\ UNCHANGED <<input, readed, writed, pos, pos2, alternate, mem, t_read,
                 t_write, reading, writing, held, dst>>

(* Start the next read; when everything is read already it asks for 0      *)
(* bytes.                                                                  *)
ReadRequest == [fd |-> TRUE, half |-> alternate, offset |-> pos,
                size |-> MinOf(size - pos, Chunk)]
Holds(request) == [mem EXCEPT ![request.half] =
                     [from |-> request.offset, n |-> request.size]]

StartRead ==
  /\ pc = "read" /\ readed = Idle /\ ~is_ntfs
  /\ readed' = InFlight
  /\ t_read' = ReadRequest
  /\ \/ reading' = TRUE /\ pc' = "startWrite" /\ UNCHANGED ret
     \/ GotoError(-4) /\ UNCHANGED reading
  /\ UNCHANGED <<input, writed, pos, pos2, alternate, mem, t_write, writing,
                 held, dst>>

ReadNtfs ==
  /\ pc = "read" /\ readed = Idle /\ is_ntfs
  /\ t_read' = ReadRequest
  /\ \/ readed' = t_read'.size /\ mem' = Holds(t_read')
     \/ readed' = Failed /\ UNCHANGED mem
  /\ pc' = "startWrite"
  /\ UNCHANGED <<input, ret, writed, pos, pos2, alternate, t_write, reading,
                 writing, held, dst>>

NoRead ==
  /\ pc = "read" /\ readed # Idle
  /\ pc' = "startWrite"
  /\ UNCHANGED <<input, ret, readed, writed, pos, pos2, alternate, mem, t_read,
                 t_write, reading, writing, held, dst>>

ReadFailed ==
  /\ pc = "startWrite" /\ readed = Failed
  /\ GotoError(-5)
  /\ UNCHANGED <<input, readed, writed, pos, pos2, alternate, mem, t_read,
                 t_write, reading, writing, held, dst>>

(* A read is done and no write is: write what was read, and let the next   *)
(* read begin in the other half.                                           *)
MayWriteAtOnce == readed >= 0     \* mutant
MayWrite == readed >= 0 /\ writed = Idle
OtherHalf == 1 - alternate

StartWrite ==
  /\ pc = "startWrite" /\ MayWrite
  /\ t_write' = [t_read EXCEPT !.fd = TRUE]
  /\ writed' = InFlight
  /\ pos' = pos + t_read.size
  /\ alternate' = OtherHalf
  /\ readed' = Idle
  /\ \/ writing' = TRUE /\ pc' = "writeEnd" /\ UNCHANGED ret
     \/ GotoError(-6) /\ UNCHANGED writing
  /\ UNCHANGED <<input, pos2, mem, t_read, reading, held, dst>>

NoWrite ==
  /\ pc = "startWrite" /\ readed # Failed /\ ~MayWrite
  /\ pc' = "writeEnd"
  /\ UNCHANGED <<input, ret, readed, writed, pos, pos2, alternate, mem, t_read,
                 t_write, reading, writing, held, dst>>

WriteFailed ==
  /\ pc = "writeEnd" /\ writed = Failed
  /\ GotoError(-7)
  /\ UNCHANGED <<input, readed, writed, pos, pos2, alternate, mem, t_read,
                 t_write, reading, writing, held, dst>>

WriteDone ==
  /\ pc = "writeEnd" /\ writed >= 0
  /\ IF pos >= size THEN readed' = InFlight /\ UNCHANGED writed
                    ELSE writed' = Idle /\ UNCHANGED readed
  /\ pos2' = t_write.offset + t_write.size
  /\ pc' = "loop"
  /\ UNCHANGED <<input, ret, pos, alternate, mem, t_read, t_write, reading,
                 writing, held, dst>>

StillWriting ==
  /\ pc = "writeEnd" /\ writed < 0 /\ writed # Failed
  /\ pc' = "loop"
  /\ UNCHANGED <<input, ret, readed, writed, pos, pos2, alternate, mem, t_read,
                 t_write, reading, writing, held, dst>>

(* error: cancel what is in flight, sleep, give back.                      *)
WritingAfterCancel == FALSE

Error ==
  /\ pc = "error"
  /\ reading' = FALSE /\ writing' = WritingAfterCancel
  /\ GiveBack
  /\ pc' = "done"
  /\ UNCHANGED <<input, ret, readed, writed, pos, pos2, alternate, mem, t_read,
                 t_write, dst>>

Main ==
  \/ Setup \/ LoopEnds \/ LoopGoesOn \/ UserCancels
  \/ StartRead \/ ReadNtfs \/ NoRead \/ ReadFailed
  \/ StartWrite \/ NoWrite \/ WriteFailed \/ WriteDone \/ StillWriting
  \/ Error

-----------------------------------------------------------------------------
(* The callbacks: a failed or short request sets the counter to -1, any    *)
(* other adds its size.                                                    *)
NotCounted(counter, request) == counter     \* mutant
Answered(counter, request) == counter + request.size

fast_func_read ==
  /\ reading
  /\ reading' = FALSE
  /\ \/ readed' = Answered(readed, t_read) /\ mem' = Holds(t_read)
     \/ readed' = Failed /\ UNCHANGED mem
  /\ UNCHANGED <<input, pc, ret, writed, pos, pos2, alternate, t_read, t_write,
                 writing, held, dst>>

fast_func_write ==
  /\ writing
  /\ writing' = FALSE
  /\ \/ /\ writed' = Answered(writed, t_write)
        /\ dst' = Append(dst, [at |-> t_write.offset, from |-> mem[t_write.half].from,
                               n |-> t_write.size])
     \/ writed' = Failed /\ UNCHANGED dst
  /\ UNCHANGED <<input, pc, ret, readed, pos, pos2, alternate, mem, t_read,
                 t_write, reading, held>>

Next == Main \/ fast_func_read \/ fast_func_write

(* copy_async polls and never blocks; every request is answered.           *)
Fairness == WF_vars(Main) /\ WF_vars(fast_func_read) /\ WF_vars(fast_func_write)

Spec == Init /\ [][Next]_vars /\ Fairness

-----------------------------------------------------------------------------
(* PROPERTIES                                                              *)

(* The chunks of the output follow one another and hold what the source    *)
(* holds there: no half is overwritten before it is written out, and no    *)
(* chunk is left out or written twice, whatever fails.                     *)
EndOf(k) == IF k = 0 THEN 0 ELSE dst[k].at + dst[k].n
CopyIsInOrder ==
  \A k \in 1 .. Len(dst) : dst[k].at = EndOf(k - 1) /\ dst[k].from = dst[k].at

(* copy_async returns 0 only when the whole file is written.               *)
Success == pc = "done" /\ ret = 0
SuccessIsComplete == Success => EndOf(Len(dst)) = size

(* When copy_async returns nothing it cares for is in flight: at most the  *)
(* read of 0 bytes that it starts at the end of every file.                *)
QuietAtReturn == pc = "done" => ~writing /\ (reading => t_read.size = 0)

(* What is lost when copy_async returns: the buffer only when the first    *)
(* sysFsAioInit fails; the source file only when no read was ever started  *)
(* (the file is empty, or the user was quick) or when the output of an     *)
(* NTFS copy could not be set up; the output file only when no write was   *)
(* started.                                                                *)
Losses ==
  pc = "done" =>
    /\ "mem" \in held => ret = -1 /\ ~is_ntfs
    /\ "fdr" \in held => ~t_read.fd /\ (is_ntfs => ret = -2)
    /\ "fdw" \in held => ~t_write.fd
    /\ Success /\ size > 0 => held = {}

(* What copy_async answers and leaves behind when it returns.              *)
ReturnIsSound == SuccessIsComplete /\ QuietAtReturn /\ Losses

(* The last chunk has 1 to 554 bytes: InFlight plus its size stays below   *)
(* 0, so the counter reads neither done nor, but for 554, failed.          *)
ShortTail == size % Chunk \in 1 .. -InFlight - 1

(* Unless the last chunk is that short, copy_async returns by itself; and  *)
(* when it is, it never succeeds: it polls until the user cancels, or (554 *)
(* bytes) reports an error it did not meet.                                *)
ReturnsUnlessShortTail ==
  /\ ShortTail \/ <>(pc = "done")
  /\ ShortTail => []~Success
=============================================================================
