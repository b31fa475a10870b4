----------------------------- MODULE PkgInstall ------------------------------
(***************************************************************************)
(* source/pkg_install.c, install_pkg and build_pkg: a package is put into  *)
(* a folder of the program (8000000n), with a description (d0.pdb, d1.pdb) *)
(* and an icon, and the folder is then renamed to a slot of the system,    *)
(* which installs what it finds there. The machine can be switched off     *)
(* between any two steps; the folder stays.                                *)
(*                                                                         *)
(* A folder is [pdb, whole, cut, icon]: the package described (or "part",  *)
(* when a file of the description is missing or cut), the packages in it,  *)
(* the cut ones, and the icon. A package on the hard disk is renamed into  *)
(* it, one on a USB device is copied (CopyAsync: here it arrives whole or  *)
(* the copy says it did not).                                              *)
(*                                                                         *)
(* Left out: the browser around it, the size of the package and the space. *)
(***************************************************************************)
EXTENDS Naturals, FiniteSets

CONSTANTS
  Pkgs,     \* the packages
  OnHdd,    \* those on the hard disk
  Slots,    \* 16 in the code: the slots are 1..Slots
  NoEntry   \* no folder

PkgEntry == [pdb : Pkgs \cup {"part", "none"}, whole : SUBSET Pkgs, cut : SUBSET Pkgs,
             icon : {"none", "part", "whole"}]

ASSUME PkAssumption ==
  OnHdd \subseteq Pkgs /\ Slots \in Nat \ {0} /\ {"part", "none"} \cap Pkgs = {} /\ NoEntry \notin PkgEntry

VARIABLES
  pkpc,       \* where the main thread is in install_pkg
  pkg,        \* the package it installs
  slot,       \* free_slot
  source,     \* the packages that are where the user has them
  temp,       \* the folders of the program, by slot
  system,     \* the slots of the system
  installed,  \* the packages the system has taken
  done,       \* the packages last said to be done
  pkodd       \* history: what went wrong with a package (PkOddThings)

pkvars == <<pkpc, pkg, slot, source, temp, system, installed, done, pkodd>>

NewEntry == [pdb |-> "none", whole |-> {}, cut |-> {}, icon |-> "none"]

(* Of the last installation of the package, "undescribed": build_pkg could *)
(* not open its files and said 0, "unflushed": a file of it was cut at its *)
(* fclose, which nobody looks at. Of the package, "failed": a call failed  *)
(* and its folder was deleted, "stopped": the machine stopped while it was *)
(* in a folder in use, "dropped": the system emptied the slot it was in    *)
(* and the slot was not described as its.                                  *)
OfItsRun == {"undescribed", "unflushed"}
PkOddThings == (OfItsRun \cup {"failed", "stopped", "dropped"}) \X Pkgs
Odd(kinds, ps) == pkodd \cup (kinds \X ps)

PkTypeOK ==
  /\ pkpc \in {"idle", "mkdir", "build", "describe", "move", "copy", "icon", "rename"}
  /\ pkg \in Pkgs /\ slot \in 1 .. Slots
  /\ source \subseteq Pkgs /\ installed \subseteq Pkgs /\ done \subseteq Pkgs
  /\ temp \in [1 .. Slots -> PkgEntry \cup {NoEntry}] /\ system \in [1 .. Slots -> PkgEntry \cup {NoEntry}]
  /\ pkodd \subseteq PkOddThings

PkInit ==
  /\ pkpc = "idle" /\ pkg \in Pkgs /\ slot = 1
  /\ source = Pkgs /\ installed = {} /\ done = {}
  /\ temp = [s \in 1 .. Slots |-> NoEntry] /\ system = [s \in 1 .. Slots |-> NoEntry]
  /\ pkodd = {}

PkAt(where) == pkpc' = where
Same == UNCHANGED <<pkg, slot, installed>>
Changed(entry) == temp' = [temp EXCEPT ![slot] = entry]

(* DeleteDirectory and rmdir of the folder, whatever is in it.             *)
GivesUp ==
  /\ PkAt("idle") /\ Changed(NoEntry) /\ pkodd' = Odd({"failed"}, temp[slot].whole)
  /\ UNCHANGED <<source, system, done>>

-----------------------------------------------------------------------------
(* The first free slot, if no slot holds a file of this name.              *)
Taken(s) == system[s] # NoEntry
Queued(p) == \E s \in 1 .. Slots : Taken(s) /\ p \in system[s].whole \cup system[s].cut
FreeSlots == {s \in 1 .. Slots : ~Taken(s)}

FindSlot ==
  /\ pkpc = "idle"
  /\ pkg' \in {p \in source : ~Queued(p)}
  /\ slot' \in {s \in FreeSlots : \A r \in FreeSlots : s <= r}
  /\ PkAt("mkdir")
  /\ done' = done \ {pkg'} /\ pkodd' = pkodd \ (OfItsRun \X {pkg'})
  /\ UNCHANGED <<source, temp, system, installed>>

(* mkdir: a folder that is there stays as it is.                           *)
CleanFolder == NewEntry     \* mutant
Folder == IF temp[slot] = NoEntry THEN NewEntry ELSE temp[slot]

MakeFolder ==
  /\ pkpc = "mkdir" /\ PkAt("build")
  /\ Changed(Folder)
  /\ Same /\ UNCHANGED <<source, system, done, pkodd>>

(* d0.pdb is empty once it is open. When one of the files does not open,   *)
(* d0.pdb stays as it was or is empty, and build_pkg says 0.               *)
Pdb(d) == [temp[slot] EXCEPT !.pdb = d]
BuildOpens ==
  /\ pkpc = "build"
  /\ \/ PkAt("describe") /\ Changed(Pdb("part")) /\ UNCHANGED pkodd
     \/ \E d \in {temp[slot].pdb, "part"} :
          PkAt("move") /\ Changed(Pdb(d)) /\ pkodd' = Odd({"undescribed"}, {pkg})
  /\ Same /\ UNCHANGED <<source, system, done>>

(* Every fwrite is looked at, the closes are not, nor the fopen of f0.pdb. *)
BuildWrites ==
  /\ pkpc = "describe"
  /\ \/ PkAt("move") /\ Changed(Pdb(pkg)) /\ UNCHANGED <<source, system, done, pkodd>>
     \/ /\ PkAt("move") /\ Changed(Pdb("part")) /\ pkodd' = Odd({"unflushed"}, {pkg})
        /\ UNCHANGED <<source, system, done>>
     \/ GivesUp
  /\ Same

With(p) == [temp[slot] EXCEPT !.whole = @ \cup {p}, !.cut = @ \ {p}]
WithPart(p) == [temp[slot] EXCEPT !.whole = @ \ {p}, !.cut = @ \cup {p}]

MovePackage ==
  /\ pkpc = "move"
  /\ \/ pkg \in OnHdd /\ PkAt("icon") /\ Changed(With(pkg)) /\ source' = source \ {pkg}
        /\ UNCHANGED <<system, done, pkodd>>
     \/ pkg \notin OnHdd /\ PkAt("copy") /\ Changed(WithPart(pkg)) /\ UNCHANGED <<source, system, done, pkodd>>
     \/ GivesUp
  /\ Same

CopyEnds ==
  /\ pkpc = "copy"
  /\ \/ PkAt("icon") /\ Changed(With(pkg)) /\ UNCHANGED <<source, system, done, pkodd>>
     \/ GivesUp
  /\ Same

(* LoadFile, then SaveFile, which does not look at its fclose either.      *)
Icon(i) == [temp[slot] EXCEPT !.icon = i]
SaveIcon ==
  /\ pkpc = "icon"
  /\ \/ PkAt("rename") /\ Changed(Icon("whole")) /\ UNCHANGED <<source, system, done, pkodd>>
     \/ /\ PkAt("rename") /\ Changed(Icon("part")) /\ pkodd' = Odd({"unflushed"}, {pkg})
        /\ UNCHANGED <<source, system, done>>
     \/ GivesUp
  /\ Same

RenameFirst == pkpc \in {"icon", "rename"}     \* mutant
RenameLast == pkpc = "rename"

HandOver ==
  /\ RenameLast
  /\ \/ /\ PkAt("idle") /\ Changed(NoEntry)
        /\ system' = [system EXCEPT ![slot] = temp[slot]] /\ done' = done \cup {pkg}
        /\ UNCHANGED <<source, pkodd>>
     \/ GivesUp
  /\ Same

(* When the program is left, the system installs the package a slot is     *)
(* described as, if it is there, and empties the slot (external, taken at  *)
(* its worst: whatever else is in the slot is gone).                       *)
SystemInstalls ==
  /\ pkpc = "idle"
  /\ \E s \in 1 .. Slots :
       /\ Taken(s)
       /\ system' = [system EXCEPT ![s] = NoEntry]
       /\ installed' = installed \cup (system[s].whole \cap {system[s].pdb})
       /\ pkodd' = Odd({"dropped"}, system[s].whole \ {system[s].pdb})
  /\ UNCHANGED <<pkpc, pkg, slot, source, temp, done>>

(* The machine is switched off; the folder in use stays with what it has.  *)
InUse == IF pkpc = "idle" \/ temp[slot] = NoEntry THEN {} ELSE temp[slot].whole

PkStops ==
  /\ pkpc # "idle" /\ PkAt("idle")
  /\ pkodd' = Odd({"stopped"}, InUse)
  /\ UNCHANGED <<pkg, slot, source, temp, system, installed, done>>

PkStep ==
  \/ FindSlot \/ MakeFolder \/ BuildOpens \/ BuildWrites \/ MovePackage \/ CopyEnds \/ SaveIcon \/ HandOver
  \/ SystemInstalls

PkNext == PkStep \/ PkStops

PkSpec == PkInit /\ [][PkNext]_pkvars

-----------------------------------------------------------------------------
Had(kinds, p) == \E k \in kinds : <<k, p>> \in pkodd

(* A package said to be done (pkg_install.c:447) is installed, or waits in *)
(* a slot described as its own, whole and with a whole icon, whatever the  *)
(* folder held when it was used again after a stop, and whatever happens   *)
(* to other packages. Excused is the package whose own last run had files  *)
(* that did not open (pkg_install.c:479) or were cut at a close nobody     *)
(* looks at (616, utils.c:258).                                            *)
WhatIsDoneCanBeInstalled ==
  \A p \in done :
    \/ p \in installed \/ Had(OfItsRun, p)
    \/ \E s \in 1 .. Slots :
         Taken(s) /\ system[s].pdb = p /\ p \in system[s].whole /\ system[s].icon = "whole"

(* No step and no stop loses a package, though one of the hard disk is not *)
(* at its place while it is in the folder. It is lost only when a call     *)
(* failed and its folder was deleted, or when the system emptied a slot    *)
(* described as something else; and such a slot holds a package only when  *)
(* a stop had left it in a folder that was then used for another one, or   *)
(* its own description went wrong unseen.                                  *)
StopsLoseNoPackage ==
  \A p \in Pkgs :
    \/ p \in source \cup installed
    \/ \E s \in 1 .. Slots : \E folders \in {temp, system} : folders[s] # NoEntry /\ p \in folders[s].whole
    \/ Had({"failed"}, p)
    \/ Had({"dropped"}, p) /\ Had(OfItsRun \cup {"stopped"}, p)
=============================================================================
