----------------------------- MODULE GameCopies -----------------------------
(***************************************************************************)
(* The drivers around the fast-copy engine (source/utils.c 2404-3973):     *)
(* copy_from_selection, copy_from_bluray, copy_to_cache, delete_game and   *)
(* test_game, the dump of a PS1 disc (psx.c 2707) and the deletion of a    *)
(* cache (main.c 8558). They ask for a device, copy or delete a folder of  *)
(* a game and say by a '_' before its name that it is split or unfinished, *)
(* by paths.dir that a cache can be used.                                  *)
(*                                                                         *)
(* The engine itself is FastCopy; here a copy ends whole or with           *)
(* abort_copy. A folder is named by its game and by how often its name was *)
(* marked; test_game, which looks one letter too far, also makes a second  *)
(* name (B_LES of BLES). The machine may be switched off at any step.      *)
(* Left out: folders of games outside of GAMEZ, which are copied to the    *)
(* name NULL, sources on NTFS, and devices pulled out during a copy other  *)
(* than as a copy that fails.                                              *)
(***************************************************************************)
EXTENDS Naturals, FiniteSets

CONSTANTS
  Games,      \* the games, by their id
  Psx,        \* those that are PS1 games
  BigGames,   \* those with a file of 4 GB, which a USB device cannot take
  Usb,        \* the USB devices
  Inserted,   \* the games that can be in the drive
  MaxTasks    \* bound on the tasks

ASSUME GamesAssumption ==
  /\ Psx \subseteq Games /\ BigGames \subseteq Games \ Psx
  /\ Inserted \subseteq Games \ Psx
  /\ "hdd" \notin Usb /\ "bdvd" \notin Usb
  /\ MaxTasks \in Nat

VARIABLES
  held,         \* what the folder of that device, game and name holds
  cache,        \* cache/<id>: the joined files, and whether paths.dir is there
  images,       \* the disc images of the PS1 games in /dev_hdd0/PSXGAMES
  forcedevices, \* the devices the main loop is to read again
  lost,         \* history: those it forgot when it was assigned
  gcpc, task,   \* where which driver is
  odd,          \* history: what something other than the drivers' own steps left half
  changed,      \* history: devices changed and not read again
  killed,       \* history: games the user chose to delete, or to copy a part of
  tasks         \* tasks so far

gcVars == <<held, cache, images, forcedevices, lost, gcpc, task, odd, changed, killed, tasks>>

-----------------------------------------------------------------------------
(* Names and folders.                                                      *)

Devices == Usb \cup {"hdd"}
Name == [base : {"id", "mangled"}, marks : 0 .. 2]
Plain == [base |-> "id", marks |-> 0]
Folder == [dev : Devices, game : Games, name : Name]
Disc(g) == [dev |-> "bdvd", game |-> g, name |-> Plain]
Contents == {"none", "part", "split", "whole"}

Stripped(n) == [n EXCEPT !.marks = 0]          \* while(p[0] == '_') p++
Marked(n) == [n EXCEPT !.marks = 1]            \* '_' before the stripped name
MarkedOnce(n) == [n EXCEPT !.marks = IF @ = 2 THEN 2 ELSE 1]   \* if(p[0] == '_') p++

(* test_game looks at str[7] of "GAMEZ/" and the name: its second letter.  *)
Tested(n) ==
  IF n.marks = 0 THEN [n EXCEPT !.base = "mangled"] ELSE [n EXCEPT !.marks = 2]
LooksMarked(n) == n.marks = 2 \/ (n.marks = 0 /\ n.base = "mangled")

GcTypeOK ==
  /\ held \in [Folder -> Contents]
  /\ cache \in [Games -> [files : {"none", "part", "whole"}, paths : BOOLEAN]]
  /\ images \in [Psx \X {1, 2} -> {"none", "part", "whole"}]
  /\ forcedevices \subseteq Devices /\ lost \subseteq Devices
  /\ odd \in [folders : SUBSET Folder, caches : SUBSET Games, images : SUBSET (Psx \X {1, 2})]
  /\ changed \subseteq Devices /\ killed \subseteq Games
  /\ tasks \in 0 .. MaxTasks

NoCache == [files |-> "none", paths |-> FALSE]
NoTask == [op |-> "none"]

(* At the start some games are whole on the hard disk, others on USB.      *)
GcInit ==
  /\ \E at \in [Games -> Devices] :
       /\ \A g \in BigGames : at[g] = "hdd"
       /\ held = [f \in Folder |->
                   IF f.name = Plain /\ f.dev = at[f.game] THEN "whole" ELSE "none"]
  /\ cache = [g \in Games |-> NoCache]
  /\ images = [i \in Psx \X {1, 2} |-> "none"]
  /\ forcedevices = {} /\ lost = {} /\ gcpc = "idle" /\ task = NoTask
  /\ odd = [folders |-> {}, caches |-> {}, images |-> {}]
  /\ changed = {} /\ killed = {} /\ tasks = 0

At(place) == gcpc = place
Goes(place) == gcpc' = place
Returns == Goes("idle") /\ task' = NoTask
KeepDisks == UNCHANGED <<held, cache, images, odd, changed, killed>>
KeepForce == UNCHANGED <<forcedevices, lost, tasks>>
OnlyHeld == UNCHANGED <<cache, images>>

(* A folder changes; blame: something that was cut short is in it.         *)
Sets(f, c, blame) ==
  /\ held' = [held EXCEPT ![f] = c]
  /\ odd' = [odd EXCEPT !.folders = IF blame THEN @ \cup {f} ELSE @ \ {f}]
  /\ changed' = changed \cup {f.dev}

(* sysLv2FsRename, which does not replace a folder and whose result nobody *)
(* looks at; wrong: the new path is in a folder that does not exist.       *)
Renames(f, name, wrong) ==
  LET to == [f EXCEPT !.name = name] IN
  \/ /\ to # f /\ ~wrong /\ held[f] # "none" /\ held[to] = "none"
     /\ held' = [held EXCEPT ![f] = "none", ![to] = held[f]]
     /\ odd' = [odd EXCEPT !.folders = (@ \ {f, to}) \cup (IF f \in @ THEN {to} ELSE {})]
     /\ changed' = changed \cup {f.dev}
  \/ /\ odd' = [odd EXCEPT !.folders = IF to = f THEN @ ELSE @ \cup {f}]
     /\ UNCHANGED <<held, changed>>

(* forcedevices is assigned, whatever the main loop had still to read.     *)
Forces(devices) ==
  /\ forcedevices' = devices
  /\ lost' = lost \cup (forcedevices \ devices)
  /\ UNCHANGED tasks

Starts(t, place) ==
  /\ At("idle") /\ tasks < MaxTasks
  /\ task' = t /\ Goes(place) /\ tasks' = tasks + 1
  /\ KeepDisks /\ UNCHANGED <<forcedevices, lost>>

(* The main loop reads a device again (main.c:2921-3036).                  *)
Refresh(d) ==
  /\ At("idle") /\ d \in forcedevices
  /\ forcedevices' = forcedevices \ {d}
  /\ lost' = lost \ {d} /\ changed' = changed \ {d}
  /\ UNCHANGED <<held, cache, images, gcpc, task, odd, killed, tasks>>

-----------------------------------------------------------------------------
(* copy_from_selection and copy_from_bluray.                               *)

SelectCopy(f) ==
  /\ held[f] # "none"
  /\ Starts([op |-> "copy", from |-> f, to |-> f, split |-> FALSE], "count")
SelectDisc(g) ==
  Starts([op |-> "copy", from |-> Disc(g), to |-> Disc(g), split |-> FALSE], "count")

From == task.from
To == task.to

(* my_game_countsize, which the user or an error may abort. What is not on *)
(* the hard disk is refused when that has no room, wherever it is to go.   *)
Count ==
  /\ At("count") /\ KeepDisks
  /\ \/ From.dev \in Usb /\ Returns /\ KeepForce
     \/ Goes("where") /\ KeepForce /\ UNCHANGED task
     \/ Returns /\ Forces(Usb)                     \* aborted, and asked: no

(* The devices asked about, one after the other, until a yes.              *)
Offered ==
  CASE From.dev = "hdd" -> Usb
    [] From.dev = "bdvd" -> Devices
    [] OTHER -> {"hdd"}

(* The name of the copy: a mark is kept on the way to USB and dropped on   *)
(* the way to the hard disk.                                               *)
NameAt(d) == IF d = "hdd" THEN Stripped(From.name) ELSE From.name

Target(d) == [dev |-> d, game |-> From.game, name |-> NameAt(d)]

(* A device without room: the hard disk refuses a disc, USB asks. Only the *)
(* disc has set forcedevices by then.                                      *)
NoRoom ==
  /\ At("where") /\ KeepDisks /\ Returns
  /\ \E d \in Offered :
       /\ d \in Usb \/ From.dev = "bdvd"
       /\ IF From.dev = "bdvd" THEN Forces({d}) ELSE KeepForce

NoDevice == At("where") /\ KeepDisks /\ Returns /\ Forces({"hdd"})

(* parse_ps3_disc: not a game disc any more.                               *)
NoGameDisc(d) == From.dev = "bdvd" /\ KeepDisks /\ Returns /\ Forces({d})

(* mkdir_secure takes a folder that is there as it is, and may fail.       *)
MakesFolder(d) ==
  /\ task' = [task EXCEPT !.to = Target(d)]
  /\ Goes("copy") /\ Forces({d})
  /\ OnlyHeld /\ UNCHANGED killed
  /\ \/ UNCHANGED <<held, odd, changed>>
     \/ held[Target(d)] = "none" /\ Sets(Target(d), "part", FALSE)

Where ==
  \/ NoRoom
  \/ NoDevice
  \/ At("where") /\ \E d \in Offered : NoGameDisc(d) \/ MakesFolder(d)

(* my_game_copy. It begins to overwrite what is there; on USB it breaks a  *)
(* file of 4 GB (copy_is_split), on the hard disk it joins the parts.      *)
Source == IF From.dev = "bdvd" THEN "whole" ELSE held[From]
CopyBegins ==
  /\ At("copy") /\ held[To] # "none"
  /\ Goes("copying") /\ Sets(To, "part", FALSE)
  /\ killed' = IF Source = "part" \/ From.dev = "bdvd"
               THEN killed \cup {From.game} ELSE killed
  /\ KeepForce /\ OnlyHeld /\ UNCHANGED task

Splits == From.game \in BigGames /\ To.dev \in Usb
(* A folder of PS3 games that has a mark already, which the copy to USB    *)
(* keeps: copy_is_split = 555. The path of a PS1 game is cut as if         *)
(* /PSXGAMES/ had seven letters, so that no mark is seen.                  *)
HasMark == From.dev # "bdvd" /\ From.game \notin Psx /\ From.name.marks > 0
NoSplit == FALSE     \* mutant
copy_is_split == Splits \/ HasMark
CopyOf == IF Source = "part" THEN "part" ELSE IF Splits THEN "split" ELSE "whole"

(* A part copies as well as a whole: then the copy is to blame as the      *)
(* original is, the more as its mark is dropped on the way to hdd.         *)
Inherits == Source = "part"

CopyEnds ==
  /\ At("copying")
  /\ Sets(To, CopyOf, Inherits)
  /\ task' = [task EXCEPT !.split = copy_is_split] /\ Goes("rename")
  /\ KeepForce /\ OnlyHeld /\ UNCHANGED killed

(* abort_copy: the user, an error, or no folder to copy to.                *)
CopyAborted ==
  /\ \/ At("copying")
     \/ At("copy") /\ held[To] = "none"
  /\ Goes("aborted")
  /\ KeepForce /\ KeepDisks /\ UNCHANGED task

(* A copy with files that were split, or of a marked folder, has one mark  *)
(* on USB; on the hard disk its new name is the one it has.                *)
SplitName == IF To.dev = "hdd" THEN Stripped(To.name) ELSE Marked(To.name)
RenameSplit ==
  /\ At("rename") /\ task.split
  /\ Renames(To, SplitName, FALSE)
  /\ Returns /\ KeepForce /\ OnlyHeld /\ UNCHANGED killed
RenameNothing == At("rename") /\ ~task.split /\ Returns /\ KeepForce /\ KeepDisks

(* Keep what was copied? Then it is marked; the mark of a PS1 game goes to *)
(* a path that does not exist (utils.c:3252-3268).                         *)
MarkForgotten ==     \* mutant
  At("aborted") /\ held[To] # "none" /\ Returns /\ KeepForce /\ KeepDisks
MarkAborted ==
  /\ At("aborted") /\ held[To] # "none"
  /\ Renames(To, MarkedOnce(IF From.dev = "bdvd" THEN Plain ELSE From.name),
             From.game \in Psx)
  /\ Returns /\ KeepForce /\ OnlyHeld /\ UNCHANGED killed

(* my_game_delete and rmdir_secure: all of it, or it was cut short.        *)
Deletes(f) ==
  \/ Sets(f, "none", FALSE)
  \/ Sets(f, "part", TRUE)
UnwantedSource == IF From.dev = "bdvd" THEN To ELSE From     \* mutant
Unwanted == To
DeleteAborted ==
  /\ At("aborted") /\ held[To] # "none" /\ Deletes(Unwanted)
  /\ Returns /\ KeepForce /\ OnlyHeld /\ UNCHANGED killed
NothingToDelete == At("aborted") /\ held[To] = "none" /\ Returns /\ KeepForce /\ KeepDisks

-----------------------------------------------------------------------------
(* delete_game and test_game.                                              *)

SelectDelete(f) == held[f] # "none" /\ Starts([op |-> "delete", from |-> f], "sure")

DeleteGame ==
  /\ At("sure")
  /\ Forces({From.dev}) /\ Returns /\ OnlyHeld
  /\ \/ Deletes(From) /\ killed' = killed \cup {From.game}
     \/ UNCHANGED <<held, odd, changed, killed>>

SelectTest(f) == held[f] # "none" /\ Starts([op |-> "test", from |-> f], "test")

(* my_game_test counts the parts of split files, as far as it comes; a     *)
(* part of a game may have some.                                           *)
TestGame ==
  /\ At("test") /\ Returns /\ OnlyHeld /\ UNCHANGED killed
  /\ \/ /\ held[From] \in {"split", "part"} /\ From.dev \in Usb
        /\ From.game \notin Psx /\ ~LooksMarked(From.name)
        /\ Renames(From, Tested(From.name), FALSE)
        /\ Forces(Usb)
     \/ KeepForce /\ UNCHANGED <<held, odd, changed>>

-----------------------------------------------------------------------------
(* copy_to_cache and the screen that deletes caches.                       *)

SelectCache(f) ==
  /\ f.dev \in Usb /\ held[f] # "none"
  /\ Starts([op |-> "cache", from |-> f], "cache")

CacheOf == cache[From.game]
SetsCache(g, c, blame) ==
  /\ cache' = [cache EXCEPT ![g] = c]
  /\ odd' = [odd EXCEPT !.caches = IF blame THEN @ \cup {g} ELSE @ \ {g}]
  /\ UNCHANGED <<held, images, changed, killed>>

(* No, no file to choose, or no room even after the screen of the caches.  *)
CacheRefused == At("cache") /\ Returns /\ KeepForce /\ KeepDisks

(* The folder is made and the copy begins: into an old cache, too.         *)
CacheBegins ==
  /\ At("cache") /\ Goes("caching")
  /\ SetsCache(From.game, [CacheOf EXCEPT !.files = "part"], FALSE)
  /\ KeepForce /\ UNCHANGED task

(* The parts are joined; paths.dir names the files. It may fail to be      *)
(* saved, which leaves an old one or none.                                 *)
PathsAfter(saved) == saved \/ CacheOf.paths
CacheSaved ==
  /\ At("caching") /\ Returns /\ KeepForce
  /\ \E saved \in BOOLEAN :
       SetsCache(From.game, [files |-> "whole", paths |-> PathsAfter(saved)],
                 held[From] = "part")

(* DeleteDirectory or my_game_delete, of which anything may be left.       *)
ClearsCache(g) ==
  \/ SetsCache(g, NoCache, FALSE)
  \/ \E p \in {FALSE, cache[g].paths} : SetsCache(g, [files |-> "part", paths |-> p], p)

CacheAborted ==
  /\ At("caching") /\ Returns /\ KeepForce
  /\ ClearsCache(From.game) \/ SetsCache(From.game, CacheOf, CacheOf.paths)

DrawCachesel(g) ==
  /\ At("idle") /\ cache[g] # NoCache
  /\ ClearsCache(g) /\ KeepForce /\ UNCHANGED <<gcpc, task>>

-----------------------------------------------------------------------------
(* copy_PSX_game_from_CD, disc after disc into one folder.                 *)

SetsImage(k, c, blame) ==
  /\ images' = [images EXCEPT ![<<task.game, k>>] = c]
  /\ odd' = [odd EXCEPT !.images = IF blame THEN @ \cup {<<task.game, k>>} ELSE @ \ {<<task.game, k>>}]
  /\ changed' = changed \cup {"hdd"}
  /\ UNCHANGED <<held, cache, killed>>

(* The name typed may be that of a folder that is there: the question      *)
(* about it is only asked for a disc 0, which does not come.               *)
SelectDump(g) == Starts([op |-> "dump", game |-> g, disc |-> 1], "disc")
Disc_ == task.disc

(* psx.c:463: after a dump the hard disk is read again.                    *)
DumpEndsUnread == Returns /\ KeepForce     \* mutant
DumpEnds == Returns /\ Forces({"hdd"})

(* No more discs, no drive, no room, no file; or the image that is there   *)
(* is kept and the next disc asked for.                                    *)
AskDisc ==
  /\ At("disc") /\ KeepDisks
  /\ \/ DumpEnds
     \/ /\ images[<<task.game, Disc_>>] # "none" /\ Disc_ < 2
        /\ task' = [task EXCEPT !.disc = @ + 1] /\ Goes("disc") /\ KeepForce

DumpDisc ==
  /\ At("disc") /\ Goes("dumping") /\ SetsImage(Disc_, "part", FALSE)
  /\ KeepForce /\ UNCHANGED task

(* Sectors that cannot be read are written as they are in the buffer; a    *)
(* failing write ends everything and leaves the image (psx.c:2836-2862).   *)
DumpWritten ==
  /\ At("dumping") /\ SetsImage(Disc_, "whole", FALSE)
  /\ \/ DumpEnds
     \/ Disc_ < 2 /\ task' = [task EXCEPT !.disc = @ + 1] /\ Goes("disc") /\ KeepForce
DumpFails == At("dumping") /\ DumpEnds /\ SetsImage(Disc_, "part", TRUE)

(* The user stops: this image is deleted, or the whole folder, with what   *)
(* was in it before the dump.                                              *)
DumpAborted ==
  /\ At("dumping") /\ DumpEnds
  /\ \/ SetsImage(Disc_, "none", FALSE)
     \/ /\ images' = [i \in DOMAIN images |-> IF i[1] = task.game THEN "none" ELSE images[i]]
        /\ odd' = [odd EXCEPT !.images = {i \in @ : i[1] # task.game}]
        /\ changed' = changed \cup {"hdd"}
        /\ UNCHANGED <<held, cache, killed>>

-----------------------------------------------------------------------------
(* The machine is switched off; at the next start everything is read. What *)
(* is half done then has the name of something whole.                      *)
CopyInHand == gcpc \in {"copy", "copying", "rename", "aborted"}
HalfCopied == IF CopyInHand /\ held[To] \in {"part", "split"} THEN {To} ELSE {}
HalfCached == IF At("caching") /\ CacheOf.paths THEN {From.game} ELSE {}
HalfDumped == IF At("dumping") THEN {<<task.game, Disc_>>} ELSE {}

Stop ==
  /\ ~At("idle") /\ Returns
  /\ odd' = [folders |-> odd.folders \cup HalfCopied, caches |-> odd.caches \cup HalfCached,
             images |-> odd.images \cup HalfDumped]
  /\ forcedevices' = {} /\ lost' = {} /\ changed' = {}
  /\ UNCHANGED <<held, cache, images, killed, tasks>>

User ==
  \/ \E f \in {x \in Folder : held[x] # "none"} : SelectCopy(f) \/ SelectDelete(f) \/ SelectTest(f) \/ SelectCache(f)
  \/ \E g \in Inserted : SelectDisc(g)
  \/ \E g \in Psx : SelectDump(g)
  \/ \E g \in Games : DrawCachesel(g)

CopyDriver ==
  \/ Count \/ Where \/ CopyBegins \/ CopyEnds \/ CopyAborted
  \/ RenameSplit \/ RenameNothing \/ MarkAborted \/ DeleteAborted \/ NothingToDelete
CacheDriver == CacheRefused \/ CacheBegins \/ CacheSaved \/ CacheAborted
DumpDriver == AskDisc \/ DumpDisc \/ DumpWritten \/ DumpFails \/ DumpAborted

GcNext ==
  \/ User \/ CopyDriver \/ DeleteGame \/ TestGame \/ CacheDriver \/ DumpDriver
  \/ \E d \in Devices : Refresh(d)
  \/ Stop

GcSpec == GcInit /\ [][GcNext]_gcVars

-----------------------------------------------------------------------------
(* PROPERTIES                                                              *)

(* What the mark is for (utils.c:1230, 3154, 3961): between tasks a folder *)
(* of a game without '_' is whole and unsplit, a cache with paths.dir is   *)
(* complete, and so is a disc image. A copy given up and kept has got its  *)
(* mark, a split one too. What is not so (odd) was half done when the      *)
(* machine stopped, or a deletion of it was cut short, or its rename did   *)
(* not take place (always that of an unfinished PS1 game), or a dump could *)
(* not write, or a cache made over an older one was given up, or it is the *)
(* copy of an unfinished folder. A copy that only begins, is given up or   *)
(* ends is not among these.                                                *)
NothingHalfIsPlain == At("idle") =>
  /\ \A f \in Folder \ odd.folders : f.name.marks = 0 => held[f] \in {"none", "whole"}
  /\ \A g \in Games \ odd.caches : cache[g].paths => cache[g].files = "whole"
  /\ \A i \in DOMAIN images : i \notin odd.images => images[i] # "part"

(* The same of states that have their type.                                *)
UnmarkedIsWhole == GcTypeOK /\ NothingHalfIsPlain

(* Whatever is copied, marked or given up, no game disappears that the     *)
(* user did not choose to delete or to overwrite with an unfinished copy.  *)
NoGameIsLost ==
  \A g \in Games \ killed : \E f \in Folder : f.game = g /\ held[f] \in {"split", "whole"}

(* After a task the main loop reads again every device that was changed,   *)
(* unless another task came before it had (forcedevices is assigned).      *)
ChangedIsReadAgain == At("idle") => changed \subseteq forcedevices \cup lost
=============================================================================
