------------------------------ MODULE DiskMoves ------------------------------
(***************************************************************************)
(* The two parts of the program that move folders of the user about the    *)
(* disk in several steps, the BD emulator (BdemuBackup) and the installer  *)
(* of packages (PkgInstall). Both run on the main thread, one at a time,   *)
(* and a stop of the machine ends whichever runs and brings the program    *)
(* back to the place where the device is met.                              *)
(***************************************************************************)
EXTENDS BdemuBackup, PkgInstall

diskvars == <<bdvars, pkvars>>

DiskInit == BdInit /\ PkInit

Stop ==
  /\ bdpc # "idle" \/ pkpc # "idle"
  /\ BdAt("start") /\ PkAt("idle")
  /\ UNCHANGED <<game, place, note, bdodd>>
  /\ pkodd' = Odd({"stopped"}, InUse)
  /\ UNCHANGED <<pkg, slot, source, temp, system, installed, done>>

DiskNext ==
  \/ pkpc = "idle" /\ BdStep /\ UNCHANGED pkvars
  \/ bdpc = "idle" /\ PkStep /\ UNCHANGED bdvars
  \/ Stop

DiskSpec == DiskInit /\ [][DiskNext]_diskvars
=============================================================================
