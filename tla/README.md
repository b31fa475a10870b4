# Verification of IRISMAN

IRISMAN is a backup and game manager for the PlayStation 3: a GUI program in C
with one main thread, a helper thread that works off a queue of calls, an
optional FTP server with a thread per connection, several copy engines, and
payloads that change the kernel of the console. This directory holds TLA+
models of the parts where the order of events decides whether data survives,
the TLC configurations that check them, and TLAPS proofs of the results that
can be proved for every value of the parameters.

Paths below are relative to `src/`. Finding a name: every definition that
models code has an entry under `map` in `PROJECT.json`, with the lines.

## 1. The system

| Component | Files | State it keeps | Operations | Interacts with |
|---|---|---|---|---|
| event thread | `source/event_threads.c` | queue `evQ_sd` of 16 events, `event_thread_working`, `init` | `event_threads_init`, `event_thread_send`, `wait_event_thread`, `event_threads_finish` | everything that wants work done beside the GUI: ISO writer, archive manager, updates, icon loader |
| ISO writer | `source/iso.c` | `my_f_async`, the output descriptor `fd2`, `iso_split`, LBAs, the tables of directories | `makeps3iso`, `extractps3iso`, `get_iso_file_pos`; also patching and deletion | event thread, file system |
| fast-copy engine | `source/utils.c` 1427-2379, 2764-2881 | `fast_files[16]`, `fast_read`, `fast_writing`, `files_opened`, `fast_used_mem`, `abort_copy` | `fast_copy_async`, `fast_copy_add`, `fast_copy_process`, two callbacks, `my_game_copy` | asynchronous file calls, user |
| game copy and delete drivers | `source/utils.c` 2404-3973, `source/psx.c` 2707 | folders with a mark in their name, `cache/*/paths.dir`, `forcedevices` | `copy_from_selection`, `copy_from_bluray`, `copy_to_cache`, `delete_game`, `test_game`, the dump of a PS1 disc | fast-copy engine, game lists |
| single file copy | `source/pkg_install.c` 649-822 | `async_data`, `t_read`, `t_write`, two halves of a buffer | `copy_async`, two callbacks | asynchronous file calls, user; called by the package installer |
| package installer | `source/pkg_install.c` 1-630 | folders `8000000n` of the program and slots of the system under `/dev_hdd0/vsh` | `install_pkg`, `build_pkg` | file system, `copy_async`, the system that installs |
| archive manager | `source/archive_manager.c` | its own `my_f_async`, the chosen items of two panes | `CopyFd`, `CopyFile`, `CopyDirectory`, copy and move of items | event thread, file system |
| updates, covers, memory cards | `source/updates.c`, `source/psx.c` | its own `my_f_async`, packages, pictures, `Memory_Card` files | `download_update`, `download_file`, `copy_async_gbl`, `game_update`, `cover_update`, `covers_update` | event thread, HTTP, game lists |
| BD emulator backups | `source/main.c` 8752-8961 | folders `PS3_GAME`, `PS3_GM01` and a note in each | `move_origin_to_bdemubackup`, `move_bdemubackup_to_origin` | file system |
| game lists, favourites | `source/utils.c` 300-1430, 4200-4520, `source/main.c` 2850-3190 | `directories[]`, `fdevices`, favourites in memory and on disk | fill, sort, delete entries, favourites, scan of the devices | main loop |
| main loop, grid, icon loader | `source/main.c` | cursor, screen, `currentgamedir`, `Png_offset`, `break_get_games` | `get_games`, `get_games_2`, `get_pict`, `gui_control`, `draw_options`, `draw_configs`, disc callbacks | event thread, game lists, PS3 callbacks |
| start, launch and exit | `source/main.c`, `source/payload*/`, `payloads/umount.S` | words of the kernel and the hypervisor, the table of mounted devices, syscall 8 | `load_payload`, `lv2_patch_storage`, `lv2_unpatch_storage`, `lv2_patch_bdvdemu`, `lv2_unpatch_bdvdemu`, `fun_exit` | kernel |
| FTP server | `source/ftp/*.c` | `appstate`, `ftp_working`, `ftp_initialized`, `conn_s`, per client: sockets, `authorized`, `rest`, `rnfr`, `expectcmd` | `ftp_init`, `ftp_deinit`, listener, control thread, `client_thread` | network, file system, `test_ftp_working` of the GUI |
| fan control | `source/controlfan.c` | mailbox words in kernel memory | `set_usleep_sm_main` and others | payload in the kernel |
| drawing, fonts, pads, languages, loader, data | the rest | no state that another part reads across a step | | |

`PROJECT.json` lists the same components with the exact files and what is
modelled of each.

### What is hard

* One flag, `event_thread_working`, stands for "the helper is busy"; the helper
  raises it only after it took the event out of the queue. Everything built on
  `wait_event_thread` inherits that window.
* Three components hand one block at a time to the helper through one global
  structure whose `flags` field is the only lock.
* The asynchronous file calls answer from a callback that may run between any
  two statements of a loop that polls. Two loops (fast copy and single copy)
  keep a read and a write in flight at once.
* Errors are delivered late: the failure of a block is seen when the next one
  is handed over, and the last one has no next.
* Cancelling leaves requests in flight while buffers are about to be freed.
* Files are split at 1 GB or 4 GB boundaries, and split files are joined.
* Folders are moved, marked and renamed in several calls, and the console can
  be switched off between any two.
* A list of games is rewritten under a loader that reads it, a cursor that
  points into it and a screen that acts on one of its entries.
* Kernel words that one session changes must be found and undone by the next
  one, in twenty-one copies of the same functions with other addresses.
* The FTP server shares a stack variable, a state word and two counters between
  its threads without locks.

### What makes each component correct

* event thread: accepted events are handled once, in order; a wait covers what
  it is said to cover; shutdown returns.
* ISO writer: every sector once, in the right part, in order; no block replaced
  under the helper; a reported success is a complete image; nothing uses the
  descriptor after `makeps3iso` returned; what was packed can be unpacked.
* fast copy and single copy: outputs are prefixes of their sources whatever
  fails; success means complete; nothing in flight when buffers are freed;
  descriptors and memory accounted for; the loop ends.
* drivers: a folder without mark is whole; no game disappears unasked.
* archive manager: a success is a copy; a move deletes only what is copied.
* updates: what is on the disk and fetched no more is whole; the last save of a
  game is on one of two cards.
* backups and packages: after a stop, every folder can be moved home; a package
  said to be done is one the system can install; no package disappears.
* lists: the list shows the devices; favourites name their game; order.
* grid: a cell's picture is the game the cell acts on; a screen acts on the
  game it was opened for.
* kernel: outside the program no word stays changed that was lent; mounted
  devices get their names back; a game sees one disc.
* FTP server: the GUI is shown a transfer while there is one, and none else;
  descriptors are closed; a closed connection ends its thread; a reply of success is true; a
  stop returns and leaves no thread.

## 2. Modules

| Module | Models | Uses |
|---|---|---|
| `JobService` | abstract specification: jobs handled once each, in order, one at a time, bounded waiting | |
| `EventThreads` | the helper thread: its state, one action per operation and step, for callers to extend | |
| `EventThreadsClient` | the helper under an arbitrary caller; implements `JobService` | `EventThreads`, `JobService` |
| `IsoImage` | layout of an image: counting, placing, reading back; functions only | |
| `IsoWriter` | `build_file_iso`, `write_split`, `my_func_async` of `iso.c` | `EventThreads` |
| `IsoExtract` | from a folder to an image to a folder | `IsoWriter`, `IsoImage` |
| `SeqSums` | the sums of a sequence of numbers, as a recursive function | |
| `FastCopy` | the fast-copy engine with its driver and callbacks | `SeqSums` |
| `CopyAsync` | `copy_async` with its callbacks | |
| `GameCopies` | the drivers around the fast-copy engine | |
| `ArchiveCopy` | copies and moves of the archive manager | `EventThreads`, `SeqSums` |
| `Transfers` | packages, covers, memory cards | `EventThreads` |
| `BdemuBackup`, `PkgInstall` | folders moved for the BD emulator; packages handed to the system | |
| `DiskMoves` | the two on one disk, with stops that end either | both |
| `GameList` | lists as functions: fill, delete, sort, favourites | |
| `GameLists` | the list kept up to date | `GameList` |
| `GameGrid` | main loop, pad handlers, callbacks, icon loader | `EventThreads`, `GameList` |
| `Lv2Patches` | the functions of a payload file, for given addresses | |
| `Firmwares` | the twenty-one files: addresses and calls | `Lv2Patches` |
| `KernelState` | sessions of the program on a console | `Firmwares` |
| `FtpSession` | one client thread as a machine of commands | |
| `FtpServer` | any number of them, listener, control thread, `ftp_init`, `ftp_deinit` | `FtpSession` |
| `ThreadsCopiesProofs` (`EventThreadsClient`, `GameCopies`, `FastCopy`), `GridDiskProofs` (`GameGrid`, `DiskMoves`, `CopyAsync`), `FtpListsProofs` (`FtpServer`, `GameLists`), `IsoProofs`, `ArchiveProofs`, `TransfersProofs`, `KernelProofs` | proofs | what they prove about |
| `GameListProofs` | lemmas on lists, for `FtpListsProofs` and `GridDiskProofs` | `GameList` |
| `MC*` | instances for TLC | |

Operators marked `\* mutant` stand before the definition they distort; nothing
uses them. They record that each property notices a plausible mistake in the
code (`PROJECT.json`, `mutants`).

A variable commented "history" is not in the program: it remembers what a
property needs to know of the past. Those named `odd`, `why`, `trouble` or
`lost` hold the known ways in which the code goes wrong. A property excuses
what they name, so that it fails for every other way; section 5 lists them.

### EventThreads, EventThreadsClient

`wpc` is where `Event_thread` is: in `sysEventQueueReceive` ("receive"), with an
event in hand and the flag not yet raised ("dispatch"), inside the function
("run"), after it ("clear"). The step from "receive" to "dispatch" and the step
that raises the flag are separate because the code does them separately.
An event sent to a full queue is lost, as no caller reads the result of
`event_thread_send`. `Finish` sends the exit event and `Joined` is the return of
`sysThreadJoin`. The module assumes that creating the queue and the port
succeeds (the code checks it only in debug builds and does not act on it), and
that there is one caller: every send of the program runs on the GUI thread.

### IsoWriter, IsoImage, IsoExtract

`mpc` follows `makeps3iso` from the creation of the output. `write_split` spins
at `try` until `FreeToSubmit`; `check1/wait1/clear1` is the end of
`build_file_iso`, `check2/wait2/clear2` the same code again in `makeps3iso`.
`fpc` follows `my_func_async` inside the helper, one sector per step, so that a
block straddling two parts is written across the switch. A sector is its LBA.
The helper may still hold an event of an earlier caller when `makeps3iso`
begins: that is what makes a wait slip (`slipped`).

`IsoImage` computes the tree of directories, their sectors, the records in them
and the positions of files, with names reduced to their lengths: `calc_entries`
counts and `fill_dirpath`/`fill_entries` place, two walks that must agree.
`DirectoryRead` and `get_iso_file_pos` are the two readers. `IsoExtract` takes
the folder through all of it; `xpc` follows `extractps3iso`, directory by
directory, file by file, piece by piece.

### FastCopy

`pc` walks one turn of the loop of `fast_copy_process`: open a file, look for a
finished read, look for a finished write, look at the user. The callbacks are
actions of their own, enabled whenever a request is in flight (`aioR`, `aioW`).
`disk` holds what was written, as positions of the source, so "right content"
is "position i holds i". Abstractions: closing an open file and `sysFsStat` on
an existing fragment do not fail; the fragments of a joined file are not empty
and smaller than `Big`; `dir` holds the files `_my_game_copy` would add (it
skips the names of later fragments) and no subdirectories; a failed or
cancelled write writes nothing; the 200 ms the code sleeps after cancelling let
a running callback end. The branch of the loop that tests `readed < 0` is left
out because no state reaches it (section 5).

### CopyAsync

The constants of the code are kept: -666, -555 and -1 in the counters and a
chunk of 65536 bytes, because the point is what happens when the callbacks add
the size of a chunk to -555. A buffer half holds a chunk by its position. The
read of zero bytes that the code starts at the end of each file is modelled and
may be in flight when `copy_async` returns.

### GameCopies

One task at a time, `pc` its step: which device, whether there is room, the
copy, the rename by which a folder gets its mark. The engine is a step that ends
whole or aborted. A folder is what its name says and what it holds ("none",
"part", "split", "whole"). The machine may be switched off at any step.

A copy that succeeds is renamed when `copy_is_split` is set: by the engine, or
with 555 because the source had a mark (`HasMark`); on the hard disk the new
name is the old one. A copy that was given up and kept is renamed in any case
(`MarkAborted`). `odd` is what the drivers' own steps are not to blame for, and
nothing gets there because a copy begins, is given up or ends: a folder, cache
or dump in hand when the machine stops, a deletion cut short, a rename that does
not take place, a dump that cannot write, a cache made over an older one and
given up, and the copy of a folder that is in `odd`.

### ArchiveCopy

`pc` follows `CopyFd` through read, wait for the block before, hand-over, drawing
(where the user may cancel) and the end of a part, and the callers around it.
`outs` are the files written, with what each should get. The helper's
`my_func_async` has a copy of the flags (`w.flags`) as in the code, which it
stores back when it is done. A folder that cannot be made ends its item
(`FolderFails`), and an empty one is copied without a block. A part of a joined
file that holds nothing ends its loop at once and the next part follows in the
same output (`EmptyPart`).

### Transfers

`t` is the transfer in hand, of one of three kinds that share the hand-over:
a package, a picture or a page, a copy of a memory card. A plan is the tasks
the user asks for in turn. `why[f]` is the set of known ways in which a file
may have been cut; a stop of the machine adds to it.

### BdemuBackup, PkgInstall, DiskMoves

A folder of a game is at "home", at the "root", or "astray" where a note that
was cut sent it. Each call of the code is a step, so that `Stop` may come
between any two. `DiskMoves` interleaves the two components only where both are
idle: they run on one thread.

An entry of the installer is which package its `d0.pdb` describes ("part" for
one that is missing or cut), the packages in the folder, whole and cut, and its
icon. `mkdir` of a folder that a stop left is no error, so what was in it goes
on with the next package (`Folder`). `build_pkg` looks at every `fwrite` but at
no `fclose`, and neither does `SaveFile` with the icon: `BuildWrites` and
`SaveIcon` may succeed with a cut file ("unflushed"), as may `BuildOpens`, where
a file that does not open is no error either ("undescribed"). The system
(`SystemInstalls`) is external: it installs the one package a slot is described
as and empties the slot; a hard-disk package that a stop had left in the folder
and the description does not name is gone with it ("dropped").

### GameList, GameLists, GameGrid

An entry is [id, dev, kind]. The exchange sort is written as the code's two
loops, since what it does to a list with a disc in it depends on the order of
exchanges. `GameLists` is the scan of devices in the main loop, with keys,
deletions and devices as acts between scans. `GameGrid` is the finer model of
the main loop: `gui` is its place, the disc callbacks run inside a flip (the
end of a frame), and `job` is `get_games_2` on the helper, cell by cell and
pass by pass. `listing` says that the list is being rewritten, in which case
the loader reads any entry. `currentgamedir`, `currentdir` and the cursor are
the code's.

### Lv2Patches, Firmwares, KernelState

A kernel is a function from the addresses that were changed to what they hold,
so that "as shipped" is an empty domain, and a table of mounted devices. Each of
the functions of a payload file is one operator of `Lv2Patches`, and `Firmwares`
applies it to the addresses of each file, copied from the macros at its head,
with the differences of single files (an address, a missing check) as
arguments. `KernelState` is `main` from the detection of the firmware to the
launch, `fun_exit`, and the console around it.

One word is kept apart from the others, as it is not of the payload files: 7EF220,
the mark by which a launch has `libfs.sprx` replaced (`libfs`). A launch sets it,
before it is known whether there is anything to launch (`NothingToLaunch`); it
stays through the game and at the XMB; the next start finds it (`must_patch` of
`Begin`), a payload that is loaded anew clears it, and `Settle` clears it when it
was found and Mamba does not do the work.

### FtpSession, FtpServer

`pc` is where `client_thread` is: testing `appstate` ("test"), in `recv`, with a
command, between the test of `ftp_working` and its assignment ("mark"), with a
file open and looking for a data connection ("connect"), in the loop of a
transfer ("block"), after it ("finish"), at the closes of the end ("close").
Commands that differ in wording only share a name; a command carries whether
`strsplit` found a parameter. `socks` and `files` count what the system holds
for the thread, apart from what its locals name, so that a forgotten close
shows. Details of C that matter and are kept: `recv` on the control connection
returns into a `size_t`, so -1 is a line, and the line is the thread's own last
answer (`line`); `recv` and `send` on the data connection are cast to `u64`;
`expectcmd` and `fd` are read before they are set; 425 goes on with the next
command and leaves the file open (`left`) and `ftp_working` at 1. The two waiting loops of the "experimental queue system" compare
a plain int with the value stored just before; with the `-O2` of the Makefile
nothing remains of them, and the model has none. Left out: names of files, the
working directory, the contents of lists and files; one command after another
is received whole.

The listener keeps the accepted connection in one local, `conn_s`, whose address
every client thread gets; the thread reads it in its first step (`Start`).
`ftp_working` is assigned by every client, the control thread, `ftp_init` and
`ftp_deinit`, and each test of it is a step before the assignment it allows. Two
history variables say what that does to a transfer. `given_up`: it is 1 from a
transfer that a 425 ended, until a transfer begins or the flag becomes anything
else. `hidden`: the threads whose transfer another step may have taken from the
flag; a thread gets there by a NOOP, QUIT, 550 or end of a transfer of another
one, by a start or stop of the server, and by beginning between somebody's test
and his assignment; it leaves when its transfer is over.

`ftp_deinit` is four steps of the GUI, with `SocketsDie` for what
`netDeinitialize` does to the sockets in use, and joins the listener and the
control thread but no client, so a thread may meet the next `ftp_init`. Assumed:
calls on sockets of a deinitialised network fail at once; thread creation may
fail (nobody looks). Each thread of `Threads` and connection of `Conns` is used
once.

## 3. Runs

| Run | Shows | Instance |
|---|---|---|
| `event_threads` | what a wait covers, that handling, waiting and finishing come to an end, refinement of `JobService` (order, exactly once) | queue 2, 2 functions and null, 4 sends |
| `iso_writer` | sectors in order and in their part, no block replaced in use, what success is worth, quiet helper at the end, termination; a finished extraction returns the folder; where a file is looked for it is | sectors of 160 bytes, parts of 11 sectors, files above 6 sectors in several extents, blocks of 1 or 2 sectors; all trees of up to 5 directories and chosen ones of 7 to 9 |
| `fast_copy` | outputs are prefixes, success is complete, files, memory and requests accounted for, quiet buffers, ends or polls for a lost answer | buffer 3, part 6, split from 7, batches of 2; 25 directories |
| `copy_async` | order of the output, completeness, nothing in flight, what is lost, which lengths cannot finish | real chunk size; 0, 1 or 3 full chunks and last chunks of 1, 553, 554, 555, 65535 and 65536 bytes |
| `archive_copy` | blocks in order, a success has lost at most one block, a move deletes what is copied, jobs end | 2 jobs out of 5: two plain files; a split file, then a joined one whose first part is empty; a folder, an empty folder and a lone part; a joined file |
| `transfers` | what is on the disk is whole, a save survives, tasks end | 4 plans of up to 3 tasks, packages of 2 and 1 blocks, 2 covers, cards of 2 blocks, 2 stops, 2 saves |
| `disk_moves` | folders find home, a game runs with its own, what is done can be installed, no package is lost | 2 games, one of them with `PS3_GM01`; 2 packages, one on the hard disk and one copied; 2 slots; in one behaviour either games are played or packages are installed |
| `game_copies` | unmarked is whole, no game is lost, changed devices are read again | 2 games (big and PS1), hard disk, 1 USB device and disc, 4 tasks |
| `game_lists` | the list is what the devices hold, ordered; favourites name their games and are saved | 10 games of 6 kinds on 3 devices and 2 discs, room for 4, 2 favourites, 5 acts |
| `game_grid` | pictures are those of the games acted on, no exit as corrupted; the chosen game is acted on; the cursor follows its game; favourites are dropped only before their picture | 2 cells, 4 games with one on two devices, 3 keys or devices coming and going |
| `kernel` | kernel as found, names of mounted devices, one disc for a game | 21 firmwares, `noBDVD` 0 to 2, slots 0, 1, 2, 8 and 15, 1 USB port |
| `ftp_server` | a transfer is shown unless a named step took it from `ftp_working`, which shows nothing else; activity fades, `ftp_deinit` returns, closed and stopped sessions end; descriptors; a 226 after an upload is true | 1 thread over 2 starts, with every command, 3 of them in a session; or 2 clients who have logged in, with 2 commands out of upload, MKD and NOOP, and 1 stop; 1 block, activity fades after 1 turn |

Each module's type invariant is a conjunct of one of the properties of its run
or is proved (`EventThreadsClient`, `CopyAsync`, `FtpSession`, `FtpServer`,
`BdemuBackup`, `PkgInstall`, `KernelState`).

Why the bounds are enough.

* `event_threads`: two slots and four sends fill the queue behind a busy worker
  and lose an event; one more slot or send adds no new kind of state, and
  safety is proved for every size.
* `iso_writer`: a block of two sectors can lie inside a part, end with it, or
  straddle it, and there is a part that is neither first nor last. Sectors of
  160 bytes hold two or three records, so that a directory ends before, at and
  behind the end of a sector; five directories give every shape of siblings
  and descendants a parent sort tells apart, and seven is where the sort first
  changes how many sectors they need.
* `fast_copy`: files of every relation to a buffer and to a part (empty, below,
  equal, above), joined files with two and three fragments whose first one is
  below, equal to and above a buffer, and batches that fill by number and by
  memory.
* `copy_async`: the loop alternates two halves, so three chunks and a tail bring
  each half back into use; the tails stand on both sides of 555.
* `archive_copy`: two blocks are one in hand and one being read; two jobs bring
  an error or a slipped wait of the first one into the second.
* `transfers`: two stops let the second hit the repair of what the first left
  behind; three tasks are launch, repair and launch.
* `disk_moves`: two games let a folder be in the way of another's. The folder of a
  stopped installation is that of the first free slot, so the next package meets
  it, or a later one when the package before waits in that slot; a package of each
  kind is enough to leave one in the folder of the other. Playing and installing
  share no folder, so that a behaviour does one of them (`OneOfThem`); the proofs
  are about both, for every number of games, packages and slots.
* `game_copies`: four tasks are copy, abort, copy back, delete. Bigger sets of
  games repeat the same conflicts: folders interact by name only.
* `game_lists`: four places are passed by every way of adding; five acts are plug,
  sort, make favourite, unplug and replug.
* `game_grid`: three inputs are open, lose the device and act; or make a
  favourite of a game (open, option, place it). Two cells and four games make
  two pages.
* `kernel`: every file is there; a USB port, the drive, the two hard disk names
  and a free slot are all the table is told apart by. The number of sessions,
  launches and plugs has no bound.
* `ftp_server`: three commands are set up a data connection, use it, and one
  more before or after it; the thread survives a stop and meets the second
  start.
  What several threads do to each other goes through `ftp_working`, `appstate` and
  `conn_s` only. For two of them `MCFtpServer` begins with both logged in, which
  spares the states of connecting, and keeps their connections up to the stop
  (`BothThere`): upload, MKD and NOOP are the three ways to assign the flag (1 and
  2, 2 after a test, 0), and two commands are a transfer and what may hide it. The
  safety properties are proved for any number of threads, commands and blocks.

`CHECK_DEADLOCK FALSE` is in the configurations of programs that return or
stop; each says why.

### Fairness

Only what the code's scheduling gives. The helper is a kernel thread and keeps
running while it can (`WF_vars(Worker)`); loops that poll never block
(`WF_vars(Main)`, in `IsoWriter`, `ArchiveCopy` and `Transfers`, whose calls
return or fail; `WF_vars(MainLoop)` in `GameGrid`); a request in flight is
answered in the end. Nothing obliges the user to press a key, abort or plug
anything, nor the GUI to send, wait or finish; `AbortEnds` says what follows if
somebody aborts. A client thread of the FTP server is fair except while it is
in a call that the other end may let wait for ever (`Waits`): `recv` on a
connection that stands, `accept` on a passive socket, a block of a transfer. The
other end owes nothing; the GUI owes the rest of an `ftp_deinit` it began.
`DiskMoves`, `GameCopies`, `GameLists` and `KernelState` have safety properties only.

## 4. Proofs

`ThreadsCopiesProofs`, in its first part, for every queue size of 1 or more,
every set of functions and every number of sends (assumptions `QueueSizeAssumption`, `NullAssumption`,
`MaxSendsAssumption`):

* `TypeCorrect`, `ExactlyOnce`, `WaitCovers`, `Refinement` (the helper
  implements `JobService`).
* `ExactlyOnceInOrder` says accepted = handled, then what is in hand, then the
  queue. It is not inductive alone: `JoinAndDestroy` empties the queue, so one
  must know that nothing is in it then. `IInv` adds that the exit event is the
  last the queue ever takes (`ExitIsLast`), how the worker's place, the flag
  and `init` hang together (`FlagShowsTheWorker`, `QueueLives`, `CallInHand`)
  and what a wait remembers (`WaitBound`).
* The refinement proof maps each step: a send that is refused and every step of
  the caller stutter, an accepted send is `Submit`, the step that finishes an
  event is `Handle`.

`FtpListsProofs`, in its second part, for every set of threads and connections,
every vocabulary of commands, every number of commands, blocks, starts and turns (assumptions
`NoSockAssumption`, `VocabularyAssumption`, `BoundsAssumption`,
`ServerAssumption`):

* of one session: `SesTypeCorrect`, `DescriptorsAreAccounted`,
  `StoreAnswersHold`, `FreshTransfersHold`; of the server: `SrvTypeCorrect`,
  `ActivityStaysTrue` (`ActivityIsTrue`), `DescriptorsSurviveStops`.
* The invariant is a predicate of one session, `SInv`. To the properties it
  adds that a thread in a transfer has a file open (`FileInHand`: else the
  close of the end could count below 0), that `rest` is 0 from PASV or PORT on
  unless a REST came (`RestIsFresh`, where `StartsAtZero` speaks of the
  transfer only), that an upload in its loop has lost nothing yet
  (`NoAnswerYet`), and that a thread that has not begun left nothing behind
  (`Unused`).
* Each of the 31 actions replaces one session record. Between commands the
  invariant is `Idle`, with a file in hand `Busy`; small lemmas say what each
  helper (`CloseData`, `Answered`, `Begin`, ...) does to such a record, and the
  lemmas on actions put them together. `Step(t)` also says what the step does
  to `ftp_working`: which value it may have after it and whether the thread has
  a file in hand.
* `ActivityIsTrue` (`BusyIsExplained` and `TransfersAreShown`) is inductive only with
  `AssignmentsAreExcused` (`ShownInv`): while somebody is between a test of
  `ftp_working` and the assignment after it, every transfer in hand is in
  `hidden`, since either the test did not see it or it began in between. So the
  assignment takes nothing from a transfer without an excuse.
* The server adds that a stop changes no count (`DeadKeeps`) and that the
  counter of the control thread is below its limit at the head of the loop.

`GridDiskProofs`, in its second part, for every set of games and packages and every
number of slots (`BdAssumption`, `PkAssumption`):

* `BdInvariant` and `PkInvariant` are the inductive invariants of the two
  components. To the two properties of `BdemuBackup`, `BdInv` adds which games
  have which folders (`FoldersStay`), that the folder about to be moved has a
  note with the right game (`NoteIsSaved`) and is at home (`Poised`), and which
  folders are at the root at each step as long as nothing odd happened
  (`Tidy`): that is what lets a launch put its folders there without meeting
  another's.
* `PkInv` adds how far the folder in hand is prepared at each step
  (`Prepared`), since what the system gets is that folder, renamed: until the
  package's own run had a file fail unseen, the folder is described as its own
  from `build_pkg` on. `Whereabouts` says where a package of the hard disk can
  be when it is not at its place: in the folder in hand, in one that a stop left,
  or in a slot, which is described as its own unless a stop or a file that failed
  came before. `AllKept` is `StopsLoseNoPackage`, folder by folder: a slot that is
  emptied loses only what `Whereabouts` lets be there undescribed.
* `DiskIsBd` and `DiskIsPk` show that the composition with its stops behaves as
  each component: a step of one stutters in the other and a stop is a stop of
  either. The four properties of the run follow: `DiskWayHome`, `DiskRuns`,
  `DiskEntries`, `DiskPackages`.

The same module holds the proofs of `CopyAsync`, for every chunk size of at
least 555 bytes and every file size (`CopyAsyncAssumption`):

* `TypeCorrect`, `InOrder`, `Complete`, `Quiet`, `Lost`, `Returned` (the three
  together) and `Apart` (a read and a write in flight use different halves).
* `CopyIsInOrder` needs to know what is in the halves. `IInv` says: a read in
  flight or done is the next piece, goes to the half `alternate`, and when done
  is there (`ReadIsNext`); a write in flight owns the other half and its piece
  is the next of the output (`WriteIsNext`); `writed` tells how `pos`, `pos2`
  and the end of the output relate (`Positions`); and what each place in the
  code implies (`Places`). `Lost` uses in addition what is held while the loop
  runs (`HeldInv`).

`IsoProofs`, for every set of folders, size of parts and blocks, and queue
(`LayoutAssumption`, `QueueSizeAssumption` and the assumptions on the bounds),
as part of the specification of `IsoExtract`:

* `WriterInvariant`, `PartsAlwaysInOrder`, `ReturnIsAlwaysSound`,
  `BlocksAreNotOverwritten`.
* The image is either one written earlier, which nobody touches (`AtRest`), or
  the one in hand (`WriterInv`). A block is in one of four places: not handed
  over, queued (`QueueInv`: behind at most one event of an earlier caller and
  in front of the null events of the end), taken, or inside `my_func_async`
  (`WorkerInv`). `DiskInv` says how far the parts are filled for each of these:
  `FilledTo(n)` is "every sector below n is in its part, in order, and no sector
  behind". What the flags promise (`FlagsInv`) fails once a wait has slipped,
  and only at the end of `makeps3iso`; the invariant says where.
* `LayoutAssumption` is a fact about the constants that cannot be proved, since it
  says what the folds of `IsoImage` come to: an image has a header, its sectors
  follow, and the header of an image that is written fits into the first part.
  TLC evaluates it for the folders of the run.

`ThreadsCopiesProofs`, in its second part, for every set of games and devices and
any number of tasks:

* `CopiesInvariant`, `MarksAreTrue`, `GamesAreKept`, `ChangesAreSeen`.
* `GcInv` adds to the three properties that a copy goes to another device than
  it comes from (`TaskInv`), that the original of a copy in hand is there, that
  a copy about to be renamed is whole, in `odd` or about to get its mark
  (`GameInv`), and that the device written is among `forcedevices` from the
  choice of the target on (`ChangedInv`). `FoldersInv`, `CachesInv` and
  `ImagesInv` are `UnmarkedIsWhole` at every place, where what a driver has in
  hand is the one exception: that every way out of a driver ends with a mark, a
  deletion or a whole folder is the content of the proof.

`ThreadsCopiesProofs`, in its third part, for every directory, size of files,
fragments, buffers and parts, and size of a batch:

* `ResourceInvariant`, `CountsAgree` (`ResourcesAccounted`),
  `QuietWhenBuffersAreFreed`, `CopyInvariant`, `CopiesStayTrue` (`CopiesAreTrue`).
* `ResourceInv` is the bookkeeping: what the entries of a batch look like and
  that their memory adds up (`BatchInv`), that reading is at the file being
  written or one ahead, with every file before it closed and every one after
  untouched (`OrderInv`), who owns a request in flight (`OpenInv`), and the
  equation between what is read, in flight and written that makes the double
  buffer work (`ReadInv`): at any time `writed + in flight = readed`, or one
  chunk less while a chunk is ready.
* `CopyInv` adds the data: the parts of the file in hand are filled in whole
  buffers (`PartsInv`), a buffer holds the source from the position its
  request will write at (`BufferInv`), and every output is a prefix of its
  source, complete once the file has left the batch (`DiskInv`).
* The sums of fragments and of memory need induction, which the provers do not
  have; `UpTo` gets it from the least number outside a set, whose existence
  the library proves. The lemmas on `Sums` and `Sum` rest on it.

`ArchiveProofs`, for every job, item, file and part:

* `ArchiveInvariant`, `ArchiveBlocksInOrder`, `MovedIsCopied`
  (`DeletedIsCopied`), `CopiesStaySound` (`CopiesAreSound`).
* In a job that began while the last block of the one before was on its way
  ("slipped") nothing holds but the types and places; `JobInv` speaks of the
  others. There is one block (`OneBlock`), the last output is the one being
  written and the others are done (`OrderInv`), and the blocks handed over to
  an output, `HandedOver`, are those written and the one in `my_f_async` if it
  is not written yet (`CountInv`). `MovedIsCopied` follows: what is deleted was
  handed over whole, so that a last block at most is missing.
* `CopiesStaySound` has the hypothesis `2 * MaxJobs <= QueueSize`. A job waits
  for a block before it sends the next, but nobody waits for the null event at
  its end; with enough jobs begun while the helper does nothing the queue fills,
  the event of a block is lost, and the file it was to close stays open. With
  the 16 events of the code that takes more than eight jobs, chosen and
  confirmed by the user, without one turn of the helper. `QueueInv` counts what
  each job may still send as if it were sent. The other two properties do not
  need the hypothesis.

`TransfersProofs`, for every plan, package, number of games, saves and stops
(`TransfersAssumption`: `NULL` is no content of a file, there is a game, and the
first save is within `MaxSaves`, since the card of the first state holds it):

* `TransferInvariant`, `FilesStaySound` (`FilesAreSound`), `SaveSurvives`
  (`TheSaveSurvives`).
* `TaskInv` and `TransferInv` say which task is at which place and what it
  transfers to which file; `WorkerInv` that the block in `my_f_async` is the
  last one handed over, and that it is only enabled while the file is open;
  `LoopInv` what the loop and its end find there. `FileInv` is the core: the
  open file holds exactly the blocks handed over, or all but the last, and then
  the helper still has it, or its error is not read yet, or the wait slipped.
* `SettledFilesAreWhole` speaks of the moments between two tasks. `SettledInv`
  says for each file and each step whether it is settled; the only one that is
  not, other than the one open, is a page that was downloaded as a picture, and
  `PageRemoved` shows that the next step removes it.
* `TheSaveSurvives` is not inductive: a copy that ends removes the other card.
  `SaveInv` says which of the two cards is the newest at each place: the one on
  the hard disk when there is one and it is not being made, else the one on the
  USB device; and that outside a copy, a launch and a game only one of the two
  is there, which is why a launch may remove the one on the hard disk.
  `CopyInv` keeps the copy a prefix of the other card, and equal to it when it
  succeeded and nothing odd happened, so that `ScanEnds` may remove the source.

`FtpListsProofs`, in its first part, for every contents of the devices, length
of the list and number of favourites (`CapacityAssumption`,
`GameListsAssumption`: a device holds finitely many games):

* `ListsStaySound`, `ListStaysTrue` (`ListIsTrue`), `FavouritesStayKept`
  (`FavouritesAreKept`), `ListStaysOrdered` (`ListIsOrdered`).
* `GameListProofs` is about the list operators. Sorting, emptying and searching
  are recursive functions of how much is done; `IteratesExist` says that such a
  function exists and `IteratesStay` that what each step keeps holds of all of
  it, by the least number outside a set of numbers. So `SortShuffles` (the same
  entries, none doubled or lost), `DeleteEntries` (those of the other devices,
  in any order), `FillIso` and `FillPsx` (how much fits), `FavouriteFound`,
  and that the exchange sort orders: after n settled entries each of them
  precedes all that follow. What the disc does to that, and why it is first in
  one order and adrift in the others, is a case of its own.
* `ListsInv` has four parts. `ListedSound` is the core: the list is that of the
  devices last seen (`fdevices`), not of those plugged in, with the exception
  of a device that is forced; once an entry found no room (`cramped`) it says
  only that nothing is there twice. A turn of the loop is a chain of steps on a
  record, and `ScanSound` is what each of them keeps of it. `DevicesSound` is
  needed since the disc and the NTFS volumes exclude each other,
  `FavouritesSound` since the favourites of the mode on the screen are a copy
  of those kept.

`GridDiskProofs`, in its first part, for every size of the grid, contents of the
devices, favourites, size of the event queue and number of keys, devices and
discs (`GameGridAssumption`, `CapacityAssumption`, `QueueSizeAssumption`: there is
one drive, what the devices hold together fits into the list, and a position in
it fits below the offset of a swap. `directories` has 512 places; what a scan
drops beyond them is the matter of `GameLists`, which does not assume this):

* `GridIsSound`, `LoaderKeepsUp` (`TheLoaderKeepsUp`), `PlayersGameStays`
  (`ThePlayersGame`), `FavouritesStay` (`ListedFavouritesStay`).
* `GridInv` has a part for each of the variables that several places write.
  `PagesSound`: the page begins at a multiple of the number of cells, within the
  list, and the disc is on top. `FavouritesSound`: a favourite with an index is
  there, also while the list is empty and about to be made anew, and the game that
  waits for a cell is in the list. `MenuSound`: a screen that is open or still
  drawn is about the entry it was opened for, and that is the one the cursor
  was on; a list made anew closes it. `WantedSound` keeps the last game under
  the cursor from the moment it is found to the frame, across the wait for the
  loader.
* `JobSound` and `ViewSound` are about the loader, which reads all of this
  unlocked. `JobSound` is why the exit of the drawing at a picture without a
  favourite (`main.c:3823`) does not fire: the loader may be in the middle of a
  cell when the favourites are shown, but then waits are pending that reset its
  picture.
  `ViewSound` says of the other moments that each picture is that of its cell or
  is missing, that a cell whose picture is missing is ahead of the loader, in
  the order of passes and cells (`Passed`), and that a loader which has not
  begun is in the queue or in hand (`Coming`). The loader looks its cell up
  anew each time; that it finds the same each time is part of it (`JobShows`).
* Of the list itself (`ListOf`) the proof needs that it fits and that the disc is
  on top (`DiscComesFirst`): deleting the disc deletes nothing and sends the
  cursor to the first page without a `get_games`, so that the pictures are
  right only because the disc was on that page.

`KernelProofs`, for every set of the twenty-one firmwares, of the settings of the
drive and of USB ports (`ConsolesAssumption`, `NoDriveAssumption`,
`UnitsAssumption`, `SlotsAssumption`), any number of sessions, launches, discs
and devices:

* `KernelSound`, `SystemIsAsFound` (`SystemAsFound`), `MountsHaveComeBack`
  (`MountsComeBack`), `GamesSeeOneDisc` (`OneDiscAtATime`).
* First the twenty-one payload files are reduced to one: `StorageRegular`,
  `BdemuRegular` and `LoadRegular` go through them and show that each function
  is the generic one with some addresses, of which the rest of the proof uses
  only that the word of the storage is neither the umount syscall nor a mark of
  the payload, that the mark is no word of a piece, and that all slots of the
  table are scanned. A file whose copy of a function differs in more than
  addresses would fail here. `DetectedIs` shows that the detection cannot take
  one firmware for another.
* `KInv` is the inductive invariant. The properties speak of a few phases only;
  it says what is true in the others. `TableSound` lists what a slot can look
  like: its own name, moved out of the way, a stick or the hard disk in the
  place of the disc, the last only while a slot is kept. `SavedSound` says what
  can be kept, `Alone` that drive, cache disc and sticks are mounted once.
  `WordsSound` says that giving back the storage now would leave the words as
  found, `VectorSound` that the program knows where syscall 8 led, `Flags` and
  `MarkSound` what a phase implies about Cobra, Mamba and the payload, `MarkInv`
  that 7EF220 is set only with a payload loaded, which is what lets the next
  start find it (`must_patch`) before it settles, and
  `Discs` when two slots may have the name of the disc.
* Most steps change either the words or the table. `Calm` is what a change of
  the table owes to the words (`QuietIsCalm`), so that the two halves are proved
  apart; the umount syscall is the one word they share, tied to the kept slot by
  `Quiet`. Undoing the renaming (`UnpatchSound`) is proved from any table that is
  sound, not only from those a launch leaves: a stick may be pulled out and a
  disc ejected during a game.

Only model-checked: everything about liveness (`NobodyWaitsForEver`,
`HandOverWorks`, `EndsAndIsQuiet`, `JobEnds`, `TasksEnd`,
`ReturnsUnlessShortTail`, `ServerWindsDown`), which needs fairness and ENABLED,
out of reach of the installed provers; and the round trip of `IsoExtract`
(`RoundTrip`, `PositionsAreTrue`). These two say what `IsoImage`'s folds over
trees of directories compute: that is induction over data with an operator as
parameter, and stays with TLC.

## 5. Findings

Where the code disagrees with its own comments or loses something, met while
modelling. The models follow the code; the properties excuse exactly these cases.

Event thread and copies

* `source/event_threads.c:102`: callers write "wait previous event thread
  function" (`source/main.c:794`, 5918, 5982), but the wait returns at once
  while the event is queued or just received (`WaitIsABarrier` does not hold).
  In the ISO writer, the archive manager and the updates the wait at the end can
  slip because of it (`slipped`): the function returns while its last block is
  not written, and the next caller's block may replace it.
* `source/utils.c:2062`: a file "joining split files" (1585, 1616) whose first
  fragment is smaller than one buffer is finished after that fragment and
  reported as copied.
* `source/utils.c:1759`: a failed read leaves `fl` and `fast_read` as they are,
  so the branch that reports "Error Reading" never runs and the loop polls until
  the user aborts.
* `source/pkg_install.c:670`: `copy_async` cannot finish a file whose last chunk
  has 1 to 554 bytes (`ReturnsUnlessShortTail`).
* A success of `makeps3iso` may miss the last block when its write failed before
  `build_file_iso` looked (`SuccessLosesAtMostTheLastBlock`); so may one of the
  archive manager, where a cancel while the last bar is drawn removes the copy
  but returns 0, so that a move deletes the source (`archive_manager.c:766`).
* `source/archive_manager.c:863`, 930: a failing stat of the first part of a
  joined file ends `CopyFile` with 0 before there is a target, so that a move of
  its folder deletes what was never copied ("short").
* `source/archive_manager.c:836`, 906: moving a lone later part (`.66601`,
  `.iso.1`) copies nothing and deletes it. The descriptors of joined and empty
  files are never closed.
* `source/updates.c`: five failed receives close the file twice; the way out by
  -6 leaves a partial package, which line 1192 then takes for a downloaded one;
  a receive of 0 bytes before the end is a success; a file that cannot be
  created is one too; a page that failed makes the page's address the picture.
* `source/psx.c:2036`: when the console is switched off during the copy of a
  memory card for a launch, the next scan removes the whole card on the USB
  device and copies the partial one over it (`source/utils.c:1049`); a launch
  after a copy back that failed makes an empty card and removes the good one.
* `source/pkg_install.c`: `build_pkg` returns 0 when a file cannot be created
  (479), and does not look at its closes (616) nor at the `fopen` of `f0.pdb`;
  `SaveFile` ignores its own close (`source/utils.c:258`). The package is handed
  to the system as done with a description or an icon that is cut. A failing
  icon, save or rename removes the folder with the only copy of a package of the
  hard disk.
* `source/pkg_install.c:378`: a folder that a stop left is taken up as it is. When
  the next package is another one, a package of the hard disk left in the folder
  is handed over with it, undescribed, and is gone when the system empties the
  slot (`StopsLoseNoPackage` names this way).
* `source/utils.c:3958`: `test_game` looks one letter too far in "GAMEZ/...", so
  that a rename makes `B_LES` of `BLES`. The name of an unfinished PS1 game is
  computed with a wrong offset, so its folder keeps its plain name; an unfinished
  folder copied from USB to the hard disk loses its mark and can replace a whole
  one; `forcedevices` is assigned where it should be extended; dumping a disc
  into an existing folder and giving up removes the earlier dump.

Images

* `source/iso.c:2554`: the switch after `fill_entries` has no case -444, so "too
  much entries" is not reported (from seven directories on, when the parent sort
  reorders siblings, one sector may be short) and an image that cannot be read is
  reported finished. Names whose record length passes 255 bytes are not refused.
* `source/iso.c:2940`: `read_split` uses `<` for `<=`, so extraction of a split
  image fails at its very end when the last file is a multiple of 2048.
* `get_iso_file_pos` misses files behind a sector with 34 free bytes or more, or
  one filled to the last byte.
* Giving up an extraction removes the whole folder, which may have been there
  before; a folder that cannot be made is not noticed when it is empty.

Lists and kernel

* PSX folders are listed without regard to the limit of the array; an NTFS
  volume that leaves, leaves the list unsorted (`source/main.c:3157`); the
  favourites of films are never saved, and the result of `SaveFile` in
  `SaveFavourites` (`source/utils.c:4392`) is not looked at, so that a write that
  fails leaves the file as it was, or cut and then read as none.
* `source/payload455/payload_455.c`: one word is poked twice where the next file
  has two, and 4.53's address of `sys_load_param` is written besides its own;
  `payload_430dex.c` has a semicolon after an `if` that makes a poke
  unconditional; when a region cannot be mapped to undo the storage patches, the
  next start saves patched words as the original ones (`stuck`); in
  `source/main.c:2703`, with `noBDVD` set a disc in the drive may be a second
  `/dev_bdvd`. `restore_syscall8[1]` is set after `fun_exit` (2671) to no effect.
* `source/main.c:5297`, 5352: the mark at 7EF220 is set before the launch is known
  to take place (5406, 5419, 5445 return to the menu), and no exit clears it; it
  stays in the kernel through the game and at the XMB until the program is
  started again.

FTP

* `source/ftp/client.c:979`: the loop of RETR cannot see a `send` that returns -1
  nor a read that fails; the answer of line 993 is given for a partial send only,
  and 226 for the rest.
* `source/ftp/server.c:61`: a client thread reads its "control connection socket"
  (`client.c:49`) through the listener's local, which the next accept may
  overwrite; the yield of line 62 does not run a thread of lower priority.
* Every 425 may leave a file or a directory open for good
  (`DescriptorsAccounted`) and `ftp_working` at 1, so that the GUI waits for a
  transfer that was given up until somebody does something (`BusyIsExplained`).
* The GUI may not see a transfer that is going on (`TransfersAreShown`):
  `source/ftp/client.c:115` and 122 set `ftp_working` to 0 for any client, a
  transfer that ends or cannot open its file (883, 1007) sets it to 2 and lets it
  fade under another one,
  `ftp_init` and `ftp_deinit` set it to 0 beside threads that live on, and an
  assignment of the control thread (`source/ftp/ftp.c:37`) or of a change of the
  file system (`client.c:203`) may come after a transfer began that its test did
  not see.
* A client thread left over from before a stop, whose client had closed, reads its
  own answers for ever when the server is started again (`ClosedSessionEnds` is
  stated up to a stop).

Not covered by a property, and worth knowing: `source/main.c:5630` sends the
address of a local to the event thread; `source/controlfan.c:892` polls a mailbox
in kernel memory without a bound.

## 6. Not modelled

* `source/fakeiso.c`, `source/modules.c`, `source/font_b.c`: bytes of binaries and
  fonts; languages: texts. Nothing to check.
* Screens, dialogs, pads and drawing, other than the grid, options and
  configuration handlers: no state another part depends on.
* The two-pane browser of the archive manager with its hex viewer; `patchps3iso`,
  `delps3iso` and `create_fake_file_iso`: single calls in a loop.
* Fan control: the other side of the mailbox is assembly in the kernel. The
  system call and registry wrappers, the loader: straight-line calls.
* Of the payloads: the assembly but `umount.S`; firmware 4.76, which shares 4.75's
  file; Cobra and Mamba, which are foreign. `payloads` that are not part of the build.
* Of a launch: the table of redirected paths (`sys8_path_table`,
  `add_sys8_path_table`) and what `source/psx.c` writes into the running kernel for
  a PS1 game. A console of firmware 3.41 on which another program's payload has
  the other sign of Hermes (17CD0) is left out; this program writes 17CE0.
* Names, titles, texts, free space and contents of configuration files.
* What several USB devices do beyond one and the delayed mounting of NTFS volumes.

## 7. Plan

Done: everything in section 2, and a theorem for every safety property but
`RoundTrip` and `PositionsAreTrue` of `IsoExtract` (section 4 says why these
stay with TLC). What a next step would be:

1. `IsoImage`'s layout over bounded depths written out level by level, where each
   fold is over a sequence only, as a way to prove `PositionsAreTrue` for those.
2. A model of the archive manager's two panes and what is selected in them.
