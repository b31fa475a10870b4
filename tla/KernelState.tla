----------------------------- MODULE KernelState -----------------------------
(***************************************************************************)
(* What a session of the manager does to the console: main() from the      *)
(* detection of the firmware to the menu, the launch of a game through     *)
(* patch_bdvdemu, and fun_exit; and around it the console, on which discs  *)
(* and USB devices come and go.  The words it changes are in `k', a kernel *)
(* of Lv2Patches, changed by the payload file of module Firmwares that the *)
(* detection picks.                                                        *)
(*                                                                         *)
(* The phases of `at': "xmb" (no program), "begun" (detected), "loaded",   *)
(* "set" (storage patched, settings read), "clean" (unpatch_bdvdemu done), *)
(* "umounted" (between the umount and the mount of the cache disc), "menu",*)
(* "leaving" and "booting" (fun_exit is next; a game starts after it),     *)
(* "game", and "back" (the XMB after a game).                              *)
(***************************************************************************)
EXTENDS Firmwares

CONSTANTS Consoles,    \* the firmwares of the consoles
          NoDriveModes \* the values of manager_cfg.noBDVD

ASSUME ConsolesAssumption == Consoles \subseteq {Order[i] : i \in 1..21}
ASSUME NoDriveAssumption == NoDriveModes \subseteq 0..2

VARIABLES
    k,          \* the kernel
    at,         \* the phase
    fw,         \* firmware
    mode,       \* payload_mode
    noBDVD,     \* 0: a drive, 1: none, 2: none, with the disc-less payload
    cobra,      \* the console's firmware is a Cobra one
    mamba,      \* the Mamba payload: "no", "loaded" or "resident"
    useCobra, useMamba,
    pointers,   \* lv2_unpatch_storage is not NULL
    discless,   \* the disc-less payload: "no", "on" or "off"
    one,        \* patch_bdvdemu's static
    found,      \* where syscall 8 led when the program began
    stuck,      \* the hypervisor could not be mapped to undo the patches
    libfs,      \* the word 7EF220 has the mark: the payload replaces libfs.sprx
    must_patch, \* main's: the mark was found when the program began
    owes        \* history: a launch set the mark since the program last settled

console == <<k, noBDVD, cobra, mamba, discless>>
statics == <<fw, mode, useCobra, useMamba, pointers, one>>
marks == <<libfs, must_patch, owes>>
vars == <<console, at, statics, found, stuck, marks>>

-----------------------------------------------------------------------------
(* The console *)

Drives == {"PATA0_BDVD_DRIVE", "BDVD_DRIVE"}
Names(kk) == {kk.table[n].name : n \in SlotNumbers}

\* sys_fs_mount: the first free slot, unless the name is taken.
Mount(kk, dev, name) ==
    LET free == {n \in SlotNumbers : kk.table[n] = Free}
    IN  IF name \in Names(kk) \/ free = {} THEN kk
        ELSE [kk EXCEPT !.table[Min(free)] = Mounted(dev, name)]

\* sys_fs_umount; for /dev_bdvd the routine of the payload comes first when
\* the syscall is hooked.
Umount(kk, name) ==
    LET routed == IF name = "dev_bdvd" /\ Peek(kk.lv2, MacrosOf(kk.console).umount) = "hook"
                  THEN UmountRoutine(kk, MacrosOf(kk.console)) ELSE kk
    IN  [routed EXCEPT !.table = [n \in SlotNumbers |->
                                    IF @[n].name = name THEN Free ELSE @[n]]]

Fresh(c, alien) ==
    [console |-> c, alien |-> alien,
     symbol |-> <<MacrosOf(c).base, MacrosOf(c).call, MacrosOf(c).entry>>,
     lv2 |-> << >>, lv1 |-> << >>, vector |-> "shipped",
     table |-> [n \in SlotNumbers |-> CASE n = 0 -> Mounted("FLASH", "dev_flash")
                                        [] n = 1 -> Mounted("HDD0", "dev_hdd0")
                                        [] OTHER -> Free],
     saved |-> NotSaved, restore |-> "none", saves |-> << >>]

\* The XMB mounts a disc twice, as the file system of the game and raw.
InsertDisc ==
    /\ \A n \in SlotNumbers : k.table[n].dev \notin Drives
    /\ k' = Mount(Mount(k, "PATA0_BDVD_DRIVE", "dev_bdvd"), "BDVD_DRIVE", "dev_ps2disc")
    /\ UNCHANGED <<at, noBDVD, cobra, mamba, discless, statics, found, stuck, marks>>

\* An eject umounts the disc by its names, and what is left of it goes too.
Ejected(kk) ==
    LET u == Umount(Umount(kk, "dev_bdvd"), "dev_ps2disc")
    IN  [u EXCEPT !.table = [n \in SlotNumbers |-> IF @[n].dev \in Drives THEN Free ELSE @[n]]]
EjectDisc ==
    /\ \E n \in SlotNumbers : k.table[n].dev \in Drives
    /\ k' = Ejected(k)
    /\ UNCHANGED <<at, noBDVD, cobra, mamba, discless, statics, found, stuck, marks>>

Plug(u) ==
    /\ \A n \in SlotNumbers : k.table[n].dev # Mass(u)
    /\ k' = Mount(k, Mass(u), DevUsb(u))
    /\ UNCHANGED <<at, noBDVD, cobra, mamba, discless, statics, found, stuck, marks>>

Unplug(u) ==
    /\ \E n \in SlotNumbers : k.table[n].dev = Mass(u)
    /\ k' = [k EXCEPT !.table = [n \in SlotNumbers |-> IF @[n].dev = Mass(u) THEN Free ELSE @[n]]]
    /\ UNCHANGED <<at, noBDVD, cobra, mamba, discless, statics, found, stuck, marks>>

\* The power goes: memory is as shipped again, the setting is on the disk.
PowerOff ==
    /\ at \in {"xmb", "back", "game"}
    /\ k' = Fresh(k.console, k.alien)
    /\ at' = "xmb" /\ mamba' = "no" /\ discless' = "no" /\ stuck' = FALSE
    /\ found' = "shipped" /\ libfs' = FALSE /\ owes' = FALSE
    /\ UNCHANGED <<noBDVD, cobra, statics, must_patch>>

-----------------------------------------------------------------------------
(* main() up to the menu *)

\* Begin: the disc-less payload is turned off, a mark in 7EF220 is found (and
\* the way to syscall 8 led there and back), the firmware is found.
Begin ==
    /\ at \in {"xmb", "back"}
    /\ LET fresh == [k EXCEPT !.restore = "none", !.saves = << >>]
           r == PayloadLoaded(Detected(k), fresh)
       IN  /\ fw' = Detected(k)
           /\ k' = r.kernel
           /\ mode' = r.mode
    /\ found' = k.vector
    /\ discless' = IF discless = "on" THEN "off" ELSE discless
    /\ useCobra' = (cobra \/ mamba = "resident")
    /\ useMamba' = FALSE /\ pointers' = TRUE /\ one' = FALSE
    /\ must_patch' = (libfs /\ Peek(k.lv2, SK1E) # "shipped")
    /\ at' = "begun"
    /\ UNCHANGED <<noBDVD, cobra, mamba, stuck, libfs, owes>>

\* exit() before the menu: fun_exit runs, and nothing is patched yet.
GiveUp ==
    /\ at' = "leaving"
    /\ UNCHANGED <<noBDVD, cobra, mamba, discless, statics, found, stuck, marks>>

\* The switch on the firmware.  Mamba is loaded together with the payload,
\* and takes syscall 40 from the disc-less one; there is none for 4.60 DEH.
\* Every load_payload clears 7EF220.
Load ==
    /\ at = "begun"
    /\ mode = "zero"
    /\ LET open == IF fw \in {"355", "355dex"} THEN Poke(k.lv1, Protection, "patch") ELSE k.lv1
           takes == fw # "341" /\ ~useCobra
       IN  /\ k' = LoadOf(fw, [k EXCEPT !.lv1 = open])
           /\ useMamba' = takes
           /\ mamba' = IF takes /\ fw # "460deh" THEN "loaded" ELSE mamba
           /\ discless' = IF takes /\ fw # "460deh" THEN "no" ELSE discless
    /\ at' = "loaded" /\ libfs' = FALSE
    /\ UNCHANGED <<noBDVD, cobra, fw, mode, useCobra, pointers, one, found, stuck, must_patch, owes>>

AlreadyLoaded ==
    /\ at = "begun"
    /\ mode \in {"hermes", "sky10"}
    /\ at' = "loaded"
    /\ UNCHANGED <<console, statics, found, stuck, marks>>

\* 3.55 maps the hypervisor to load; with the payload of another program it
\* leaves, after opening the hypervisor for "wanin".
MapFails ==
    /\ at = "begun"
    /\ fw \in {"355", "355dex"} /\ mode \in {"zero", "wanin"}
    /\ UNCHANGED k
    /\ GiveUp
ForeignPayload ==
    /\ at = "begun"
    /\ mode \in {"wanin", "sys36"}
    /\ k' = IF mode = "wanin" THEN [k EXCEPT !.lv1 = Poke(@, Protection, "patch")] ELSE k
    /\ GiveUp

\* sys8_enable answers; lv2_patch_storage when Mamba does not do its work, and
\* a mark that was found is cleared.
\* noBDVD = 1 clears both flags; the disc-less payload needs them clear.
StillMarked(mark) == mark /\ (useMamba \/ ~must_patch)
NeverCleared(mark) == mark     \* mutant: must_patch is forgotten
Settle(ok) ==
    /\ at = "loaded"
    /\ k' = IF useMamba THEN k ELSE PatchStorageOf(fw, k, ok)
    /\ pointers' = ~useMamba
    /\ LET c == useCobra /\ noBDVD # 1
           m == useMamba /\ noBDVD # 1
       IN  /\ useMamba' = m
           /\ discless' = IF noBDVD = 2 /\ ~c /\ ~m THEN "on" ELSE discless
           /\ \/ useCobra' = c /\ UNCHANGED mamba
              \/ /\ m /\ ~c /\ mamba = "loaded"
                 /\ useCobra' = TRUE
                 /\ mamba' = "resident"
    /\ libfs' = StillMarked(libfs) /\ owes' = FALSE
    /\ at' = "set"
    /\ UNCHANGED <<noBDVD, cobra, fw, mode, one, found, stuck, must_patch>>

NoSyscall8 ==
    /\ at = "loaded"
    /\ UNCHANGED k
    /\ GiveUp

\* fun_exit's part in the kernel.
ExitKernel(ok) ==
    LET undone == IF pointers THEN UnpatchStorageOf(fw, k, ok) ELSE k
    IN  [undone EXCEPT !.vector = IF k.restore = "none" THEN @ ELSE k.restore]
StorageStays(ok) == pointers /\ k.saves # << >> /\ UnpatchStorageOf(fw, k, ok) = k

\* A loaded Mamba that does not answer yet needs the program to start again:
\* fun_exit, and the spawned program finds Mamba resident, or still not.
Relaunch ==
    /\ at = "set"
    /\ useMamba /\ ~useCobra
    /\ k' = ExitKernel(TRUE)
    /\ mamba' \in (IF mamba = "no" THEN {"no"} ELSE {"loaded", "resident"})
    /\ at' = "xmb"
    /\ UNCHANGED <<noBDVD, cobra, discless, statics, found, stuck, marks>>

Unpatch ==
    /\ at = "set"
    /\ ~(useMamba /\ ~useCobra)
    /\ useCobra' = (useCobra /\ noBDVD # 1)
    /\ useMamba' = (noBDVD # 1 /\ (mamba = "resident" \/ useMamba))
    /\ k' = UnpatchBdvdemuOf(fw, k)
    /\ at' = "clean"
    /\ UNCHANGED <<noBDVD, cobra, mamba, discless, fw, mode, pointers, one, found, stuck, marks>>

\* Without a drive the cache disc takes the name of the disc.
UmountBdvd ==
    /\ at = "clean"
    /\ noBDVD # 0 /\ ~useCobra
    /\ k' = Umount(k, "dev_bdvd")
    /\ at' = "umounted"
    /\ UNCHANGED <<noBDVD, cobra, mamba, discless, statics, found, stuck, marks>>
MountCache ==
    /\ at = "umounted"
    /\ k' = Mount(k, "HDD1", "dev_bdvd")
    /\ at' = "menu"
    /\ UNCHANGED <<noBDVD, cobra, mamba, discless, statics, found, stuck, marks>>
KeepDisc ==
    /\ at = "clean"
    /\ noBDVD = 0 \/ useCobra
    /\ at' = "menu"
    /\ UNCHANGED <<console, statics, found, stuck, marks>>

-----------------------------------------------------------------------------
(* The menu *)

\* The flags of a game's place: 1 is the hard disk, 2 * 2^n USB port n.
HddFlag == 1
UsbFlags == {2^(u + 1) : u \in Units}
NtfsFlag == 2^15

\* patch_bdvdemu.  `emu' is bdemu for a game on the hard disk, else bdemu_ext.
\* "only one time", and nothing for BD-Emu 2 but with the disc-less payload;
\* without a drive an NTFS game is launched as one on the hard disk.
PatchCall(s, flags, emu) ==
    LET swapped == IF emu = 2 THEN NtfsFlag ELSE flags
        sent == IF noBDVD # 0 /\ ~useCobra /\ swapped = NtfsFlag THEN HddFlag ELSE swapped
    IN  IF s.one \/ (emu = 2 /\ ~(noBDVD = 2 /\ ~useCobra)) THEN s
        ELSE [one |-> TRUE,
              k |-> PatchBdvdemuOf(fw, s.k, noBDVD # 0 /\ ~useCobra, sent)]

\* The launch of a PS3 game: with BD-Emu (on the hard disk 1 or 2, on USB 1)
\* a disc must be in the drive and is mounted as /dev_ps2disc; then the
\* device of the game takes its name.  Without a drive the hard disk does so
\* even if BD-Emu is off, as for an NTFS game, whose emu is bdemu_ext.  With
\* BD-Emu on the hard disk, or 2 for another device, the mark is set for a
\* patched libfs.sprx, if there is one.
Launch(flags, bdemu, ext, patched) ==
    /\ at = "menu"
    /\ LET emu == IF flags = HddFlag THEN bdemu ELSE ext
           emulated == (flags = HddFlag /\ bdemu # 0) \/ (flags # HddFlag /\ ext = 1)
           ps2 == IF noBDVD = 0 \/ useCobra THEN Mount(k, "BDVD_DRIVE", "dev_ps2disc") ELSE k
           s0 == [one |-> one, k |-> k]
           s1 == IF emulated THEN PatchCall([one |-> one, k |-> ps2], flags, emu) ELSE s0
           s2 == IF noBDVD # 0 /\ ~useCobra THEN PatchCall(s1, NtfsFlag, ext) ELSE s1
           marked == patched /\ (IF flags = HddFlag THEN bdemu # 0 ELSE ext = 2)
       IN  /\ emulated /\ noBDVD = 0 => "dev_bdvd" \in Names(k)
           /\ k' = s2.k
           /\ one' = s2.one
           /\ libfs' = (libfs \/ marked) /\ owes' = (owes \/ marked)
    /\ at' = "booting"
    /\ UNCHANGED <<noBDVD, cobra, mamba, discless, fw, mode, useCobra, useMamba, pointers,
                   found, stuck, must_patch>>

\* The mark is set before it is seen that there is nothing to launch: a PS1
\* image that is none, a film, a homebrew.
NothingToLaunch ==
    /\ at = "menu"
    /\ libfs' = TRUE /\ owes' = TRUE
    /\ UNCHANGED <<console, at, statics, found, stuck, must_patch>>

Quit ==
    /\ at = "menu"
    /\ at' = "leaving"
    /\ UNCHANGED <<console, statics, found, stuck, marks>>

\* fun_exit.  The disc-less payload stays on for a game.
FunExit(ok) ==
    /\ at \in {"leaving", "booting"}
    /\ k' = ExitKernel(ok)
    /\ stuck' = (stuck \/ StorageStays(ok))
    /\ discless' = IF at = "leaving" /\ ~useCobra /\ discless = "on" THEN "off" ELSE discless
    /\ at' = IF at = "leaving" THEN "xmb" ELSE "game"
    /\ UNCHANGED <<noBDVD, cobra, mamba, statics, found, marks>>

\* The tools screen: another noBDVD umounts the disc and starts the console
\* again, so that nothing else of this program's kernel is seen any more.
SetNoBDVD(n) ==
    /\ at = "menu"
    /\ noBDVD' = n
    /\ k' = Fresh(k.console, k.alien)
    /\ at' = "xmb" /\ mamba' = "no" /\ discless' = "no" /\ stuck' = FALSE
    /\ found' = "shipped" /\ libfs' = FALSE /\ owes' = FALSE
    /\ UNCHANGED <<cobra, statics, must_patch>>

GameEnds ==
    /\ at = "game"
    /\ at' = "back"
    /\ UNCHANGED <<console, statics, found, stuck, marks>>

-----------------------------------------------------------------------------
Init ==
    /\ \E c \in Consoles :
        \E alien \in (IF c = "355" THEN {"none", "wanin", "sys36"} ELSE {"none"}) :
            k = Fresh(c, alien)
    /\ at = "xmb"
    /\ noBDVD \in NoDriveModes
    /\ cobra \in BOOLEAN
    /\ mamba = "no" /\ discless = "no"
    /\ fw = "none" /\ mode = "zero"
    /\ useCobra = FALSE /\ useMamba = FALSE /\ pointers = FALSE /\ one = FALSE
    /\ found = "shipped" /\ stuck = FALSE
    /\ libfs = FALSE /\ must_patch = FALSE /\ owes = FALSE

Next ==
    \/ InsertDisc \/ EjectDisc
    \/ \E u \in Units : Plug(u) \/ Unplug(u)
    \/ PowerOff
    \/ Begin \/ Load \/ AlreadyLoaded \/ MapFails \/ ForeignPayload
    \/ \E ok \in BOOLEAN : Settle(ok)
    \/ NoSyscall8 \/ Relaunch \/ Unpatch \/ UmountBdvd \/ MountCache \/ KeepDisc
    \/ \E flags \in {HddFlag, NtfsFlag} \union UsbFlags, bdemu \in 0..2, ext \in 0..2,
         patched \in BOOLEAN : Launch(flags, bdemu, ext, patched)
    \/ NothingToLaunch \/ Quit
    \/ \E ok \in BOOLEAN : FunExit(ok)
    \/ \E n \in NoDriveModes : SetNoBDVD(n)
    \/ GameEnds

Spec == Init /\ [][Next]_vars

-----------------------------------------------------------------------------
(* Properties *)

\* What the payload of the console keeps in the kernel and the hypervisor.
Kept == LoadOf(k.console, Fresh(k.console, k.alien))

\* Outside the program the kernel holds no more than its payload: the words
\* lent for the copy and the storage patches are as shipped again (unless the
\* hypervisor could not be mapped), the umount syscall is hooked only while a
\* slot is kept, and syscall 8 leads where it led before (main.c:1237-1302 and
\* the twenty-one copies of load_payload and lv2_unpatch_storage).  The
\* disc-less payload stays on for a game only.  One word more may be left: the
\* mark that has libfs.sprx replaced outlives the program and the game, until
\* the program starts again; then it is there for a launch since, and for no
\* other reason (main.c:1874, 2530).
SystemAsFound ==
    at \in {"xmb", "game", "back"} /\ ~stuck =>
        /\ DOMAIN k.lv1 \subseteq DOMAIN Kept.lv1 \union Protection
        /\ DOMAIN k.lv2 \subseteq DOMAIN Kept.lv2 \union
              (IF k.saved = NotSaved THEN {} ELSE {MacrosOf(k.console).umount})
        /\ k.vector = found
        /\ at = "xmb" => discless # "on"
        /\ libfs => owes

OwnNames(dev) ==
    CASE dev \in UsbDevices -> {DevUsb(u) : u \in {v \in Units : Mass(v) = dev}}
      [] dev = "HDD0" -> {"dev_hdd0"}
      [] dev \in {"HDD1", "PATA0_BDVD_DRIVE"} -> {"dev_bdvd"}
      [] dev = "BDVD_DRIVE" -> {"dev_ps2disc"}
      [] dev = "FLASH" -> {"dev_flash"}
      [] dev = "none" -> {""}

\* Whatever was launched before, and whatever was plugged or ejected while it
\* ran, in the menu every device has its own name again, the slot a game on
\* the hard disk had taken is given back and the umount syscall is as shipped.
MountsComeBack ==
    at \in {"clean", "umounted", "menu"} =>
        /\ \A n \in SlotNumbers : k.table[n].name \in OwnNames(k.table[n].dev) /\ k.table[n].old = ""
        /\ k.saved = NotSaved
        /\ Peek(k.lv2, MacrosOf(k.console).umount) # "hook"

\* A game sees one disc: when it starts and while it runs /dev_bdvd names one
\* device, however discs and USB devices came and went before (the renaming
\* in the copies of lv2_patch_bdvdemu).  Left out is a disc in the drive of
\* a console set to have none: main.c:2703-2709 do not ask for it.
OneDiscAtATime ==
    /\ at \in {"booting", "game"}
    /\ noBDVD = 0 \/ useCobra \/ \A n \in SlotNumbers : k.table[n].dev \notin Drives
    =>
        Cardinality({n \in SlotNumbers : k.table[n].name = "dev_bdvd"}) <= 1
=============================================================================
