----------------------------- MODULE BdemuBackup -----------------------------
(***************************************************************************)
(* source/main.c, the BD emulator: before a game runs,                     *)
(* move_origin_to_bdemubackup moves its folders PS3_GAME and PS3_GM01 to   *)
(* the root of the device, each with a note inside it of where it was      *)
(* (PS3PATH.BUP, PS3PATH2.BUP); move_bdemubackup_to_origin moves them back *)
(* by their notes when the device is next met. The machine can be switched *)
(* off between any two steps.                                              *)
(*                                                                         *)
(* One device; the others do not touch it. A note is the game it names,    *)
(* "part" of that (the file was cut), or NULL. Left out: the slot of a USB *)
(* device, which the code corrects in the note, and the patches, mounts    *)
(* and tables of paths around the launch.                                  *)
(***************************************************************************)
EXTENDS Naturals, FiniteSets

CONSTANTS
  BdGames,   \* the games of the device
  WithGM01,  \* those that have a PS3_GM01
  NoNote     \* no note

ASSUME BdAssumption == WithGM01 \subseteq BdGames /\ NoNote \notin BdGames /\ "part" \notin BdGames

VARIABLES
  bdpc,    \* where the main thread is in the two functions
  game,    \* the game that is launched
  place,   \* where a folder is: "home", "root", "nowhere" (there is none) or "astray"
  note,    \* the note in a folder
  bdodd    \* history: what went wrong (BdOddThings)

bdvars == <<bdpc, game, place, note, bdodd>>

Dirs == {"PS3_GAME", "PS3_GM01"}
Folders == BdGames \X Dirs
DirsOf(g) == IF g \in WithGM01 THEN Dirs ELSE {"PS3_GAME"}

(* "unflushed": a note was cut though SaveFile said 0, since nobody looks  *)
(* at what fclose says; "left": a folder could not be moved back.          *)
BdOddThings == {"unflushed", "left"}

BdTypeOK ==
  /\ bdpc \in {"idle", "saveGame", "moveGame", "saveGm01", "moveGm01", "runs", "start", "backGm01"}
  /\ game \in BdGames
  /\ place \in [Folders -> {"home", "root", "nowhere", "astray"}]
  /\ note \in [Folders -> BdGames \cup {"part", NoNote}]
  /\ bdodd \subseteq BdOddThings

BdInit ==
  /\ bdpc = "start" /\ game \in BdGames
  /\ place = [f \in Folders |-> IF f[2] \in DirsOf(f[1]) THEN "home" ELSE "nowhere"]
  /\ note = [f \in Folders |-> NoNote]
  /\ bdodd = {}

AtRoot(d) == {g \in BdGames : place[<<g, d>>] = "root"}
BdAt(where) == bdpc' = where

-----------------------------------------------------------------------------
(* A game is listed, and can be launched, when its PS3_GAME is at home.    *)
Launch ==
  /\ bdpc = "idle" /\ BdAt("saveGame")
  /\ game' \in {g \in BdGames : place[<<g, "PS3_GAME">>] = "home"}
  /\ UNCHANGED <<place, note, bdodd>>

SaveNoteIgnoringErrors(d, next) ==     \* mutant
  /\ BdAt(next) /\ note' \in {[note EXCEPT ![<<game, d>>] = n] : n \in {game, "part"}}
  /\ UNCHANGED bdodd

(* SaveFile writes the note; it fails and leaves a part, or says that it   *)
(* is written.                                                             *)
SaveNote(d, next) ==
  \/ BdAt(next) /\ note' = [note EXCEPT ![<<game, d>>] = game] /\ UNCHANGED bdodd
  \/ BdAt(next) /\ note' = [note EXCEPT ![<<game, d>>] = "part"] /\ bdodd' = bdodd \cup {"unflushed"}
  \/ BdAt("start") /\ note' \in {note, [note EXCEPT ![<<game, d>>] = "part"]} /\ UNCHANGED bdodd

(* sysLv2FsRename does not replace a folder.                               *)
RootIsFree(d) == AtRoot(d) = {}
MoveToRoot(d, next) ==
  \/ RootIsFree(d) /\ BdAt(next) /\ place' = [place EXCEPT ![<<game, d>>] = "root"]
  \/ BdAt("start") /\ UNCHANGED place

SaveNoteOfGame ==
  /\ bdpc = "saveGame" /\ SaveNote("PS3_GAME", "moveGame")
  /\ UNCHANGED <<game, place>>

MoveGame ==
  /\ bdpc = "moveGame"
  /\ MoveToRoot("PS3_GAME", IF game \in WithGM01 /\ place[<<game, "PS3_GM01">>] = "home" THEN "saveGm01" ELSE "runs")
  /\ UNCHANGED <<game, note, bdodd>>

SaveNoteOfGm01 ==
  /\ bdpc = "saveGm01" /\ SaveNote("PS3_GM01", "moveGm01")
  /\ UNCHANGED <<game, place>>

MoveGm01 ==
  /\ bdpc = "moveGm01" /\ MoveToRoot("PS3_GM01", "runs")
  /\ UNCHANGED <<game, note, bdodd>>

-----------------------------------------------------------------------------
(* The game ends, the console is switched off, or an error ended the       *)
(* program: it starts again and meets the device.                          *)
Restart ==
  /\ bdpc # "idle" /\ BdAt("start")
  /\ UNCHANGED <<game, place, note, bdodd>>

(* The list is read again: the device is met again.                        *)
MeetAgain ==
  /\ bdpc = "idle" /\ BdAt("start")
  /\ UNCHANGED <<game, place, note, bdodd>>

(* One folder back: its note is read and the folder renamed; a note that   *)
(* is cut names no place or a wrong one.                                   *)
MoveBack(d) ==
  \/ AtRoot(d) = {} /\ UNCHANGED <<place, bdodd>>
  \/ \E g \in AtRoot(d) :
       \/ note[<<g, d>>] = g /\ place' = [place EXCEPT ![<<g, d>>] = "home"] /\ UNCHANGED bdodd
       \/ note[<<g, d>>] = "part" /\ place' = [place EXCEPT ![<<g, d>>] = "astray"] /\ UNCHANGED bdodd
       \/ UNCHANGED place /\ bdodd' = bdodd \cup {"left"}

(* What comes after PS3_GAME, be it back, missing or stuck.                *)
GivesUpWithoutGame == IF AtRoot("PS3_GAME") = {} THEN "idle" ELSE "backGm01"     \* mutant
AfterGame == "backGm01"

BackGame ==
  /\ bdpc = "start" /\ MoveBack("PS3_GAME") /\ BdAt(AfterGame)
  /\ UNCHANGED <<game, note>>

BackGm01 ==
  /\ bdpc = "backGm01" /\ MoveBack("PS3_GM01") /\ BdAt("idle")
  /\ UNCHANGED <<game, note>>

BdStep ==
  \/ Launch \/ SaveNoteOfGame \/ MoveGame \/ SaveNoteOfGm01 \/ MoveGm01
  \/ MeetAgain \/ BackGame \/ BackGm01

BdNext == BdStep \/ Restart

BdSpec == BdInit /\ [][BdNext]_bdvars

-----------------------------------------------------------------------------
(* The root never holds two games' folders of one name, and a folder there *)
(* holds the note that brings it home, whichever step the power failed at  *)
(* (main.c:8752), unless the note was cut unseen.                          *)
TheWayHomeIsKnown ==
  \A d \in Dirs : \A g, h \in AtRoot(d) :
    g = h /\ ("unflushed" \notin bdodd => note[<<g, d>>] = g)

(* A game that runs finds at the root its own folders, all of them, and    *)
(* nothing of another game, unless a folder was not moved back before or   *)
(* moved to where its cut note said.                                       *)
RunsWithItsOwn ==
  bdpc = "runs" /\ bdodd = {} =>
    \A d \in Dirs : AtRoot(d) = IF d \in DirsOf(game) THEN {game} ELSE {}
=============================================================================
