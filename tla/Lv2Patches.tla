------------------------------ MODULE Lv2Patches ------------------------------
(***************************************************************************)
(* What the payload files of the manager do to the PS3 kernel ("lv2") and  *)
(* to the hypervisor ("lv1").  The sources hold one file per firmware,     *)
(* twenty-one copies of the same functions with other addresses; here each *)
(* function is one operator, and module Firmwares applies it to the        *)
(* addresses of each file.                                                 *)
(*                                                                         *)
(* A kernel is a record:                                                   *)
(*   console  the firmware it really is                                    *)
(*   symbol   the words is_firm_* looks at: base, call and entry            *)
(*   alien    "none", or the foreign payload a 3.55 kernel came with       *)
(*   lv2,lv1  the words that differ from the kernel as shipped, with what  *)
(*            they hold; addresses are those of the source without the     *)
(*            leading 8000000000000000                                     *)
(*   vector   where syscall 8 leads                                        *)
(*   table    the table of mounted devices, by slot number                 *)
(*   saved    the slot kept at 7EF000 while a game runs, or NotSaved       *)
(* and the statics of the program that outlive a call:                     *)
(*   restore  restore_syscall8[1], "none" while [0] is null                *)
(*   saves    the words lv2_patch_storage found, << >> while !is_patched   *)
(***************************************************************************)
EXTENDS Integers, Sequences, FiniteSetsExt

CONSTANTS SlotNumbers,   \* the slots of the table that are modelled
          Units          \* the USB ports that are modelled

ASSUME SlotsAssumption == SlotNumbers \subseteq 0..15 /\ 0 \in SlotNumbers
ASSUME UnitsAssumption == Units \subseteq 0..1

\* The names of a USB device, CELL_FS_IOS:USB_MASS_STORAGE00x and dev_usb00x.
Mass(u) == IF u = 0 THEN "MASS_STORAGE000" ELSE "MASS_STORAGE001"
DevUsb(u) == IF u = 0 THEN "dev_usb000" ELSE "dev_usb001"
UsbDevices == {Mass(u) : u \in Units}

Free == [dev |-> "none", name |-> "", old |-> ""]
Mounted(dev, name) == [dev |-> dev, name |-> name, old |-> ""]
NotSaved == [at |-> 0, umount |-> 0, slot |-> Free, size |-> 0]

-----------------------------------------------------------------------------
(* Memory *)

Peek(mem, a) == IF a \in DOMAIN mem THEN mem[a] ELSE "shipped"
Poke(mem, as, v) ==
    [a \in (IF v = "shipped" THEN DOMAIN mem \ as ELSE DOMAIN mem \union as) |->
        IF a \in as THEN v ELSE mem[a]]
Words(a, n) == {a + 4 * i : i \in 0..(n - 1)}

Macros(base, call, entry, payload, routine, umount, mounts, esize, csize) ==
    [base |-> base, call |-> call, entry |-> entry, payload |-> payload,
     routine |-> routine, umount |-> umount, mounts |-> mounts,
     esize |-> esize, csize |-> csize]

\* The kernel's own code that is lent to the copy routine while a payload is
\* written: four pokeq of install_lv2_memcpy, undone by remove_lv2_memcpy.
OwnSyscall(x) == Words(x.entry, 8)
\* 4.31 and 4.40 use a routine of their own at 1820 and syscall 9.
Routine9(x) == Words(\h1820, 24) \union Words(x.base + 72, 2)

SK1E == \h4F0
-----------------------------------------------------------------------------
(* Detection *)

\* is_payload_loaded_341: a payload by its mark; it does not touch syscall 8.
\* The code of syscall 8 at 17CD0, the other sign of one, is changed by the
\* payloads of other programs only (load_payload_341 writes 17CE0): a console
\* with one of those on 3.41 is left out.
HermesLoaded(k) ==
    [kernel |-> k, mode |-> IF Peek(k.lv2, SK1E) # "shipped" THEN "hermes" ELSE "zero"]

\* is_payload_loaded_*: with the mark in memory syscall 8 is led to the
\* payload, and where it led before is kept to be put back at the exit.
Sk1eLoaded(k) ==
    IF Peek(k.lv2, SK1E) # "shipped"
    THEN [kernel |-> [k EXCEPT !.restore = k.vector, !.vector = "sk1e"], mode |-> "sky10"]
    ELSE [kernel |-> k, mode |-> "zero"]

\* is_payload_loaded_355 also knows the payloads of other programs.
Sk1eLoaded355(k) ==
    IF Peek(k.lv2, SK1E) = "shipped" /\ k.alien # "none"
    THEN [kernel |-> k, mode |-> k.alien]
    ELSE Sk1eLoaded(k)

-----------------------------------------------------------------------------
(* load_payload_*: `lent' is overwritten for the copy and given back, the   *)
(* payload's pieces, its mark and the patches stay until the power goes.    *)
LoadPayload(k, x, lent, vectored, pieces, insns, pairs, hyper) ==
    LET kept == pieces \union Words(SK1E, IF vectored THEN 4 ELSE 2) \union insns
                \union UNION {Words(a, 2) : a \in pairs}
        copied == Poke(Poke(k.lv2, lent, "copier"), pieces, "payload")
        given == Poke(copied, lent, "shipped")
    IN  [k EXCEPT !.lv1 = Poke(@, hyper, "patch"),
                  !.lv2 = Poke(given, kept \ pieces, "patch"),
                  !.restore = IF vectored THEN k.vector ELSE @,
                  !.vector = IF vectored THEN "sk1e" ELSE @,
                  !.saved = NotSaved]

\* patch_lv2_protection of 3.55: the hypervisor's words, through the mapping.
Protection == {\h363A78, \h363A80, \h363A88, \h363A90}

-----------------------------------------------------------------------------
(* Storage: five places let a PS1 disc be read.  `ok' is whether the        *)
(* hypervisor could be mapped (3.41, 3.55) or peeked (the others).          *)
PatchStorage(k, ok, a2, a1) ==
    IF ~ok THEN k
    ELSE [k EXCEPT !.saves = <<Peek(k.lv2, a2)>> \o [i \in 1..4 |-> Peek(k.lv1, a1[i])],
                   !.lv2 = Poke(@, {a2}, "storage"),
                   !.lv1 = Poke(@, {a1[i] : i \in 1..4}, "storage")]

UnpatchStorage(k, ok, a2, a1) ==
    IF k.saves = << >> \/ ~ok THEN k
    ELSE [k EXCEPT !.lv2 = Poke(@, {a2}, k.saves[1]),
                   !.lv1 = Poke(Poke(Poke(Poke(@, {a1[1]}, k.saves[2]), {a1[2]}, k.saves[3]),
                                     {a1[3]}, k.saves[4]), {a1[4]}, k.saves[5])]

-----------------------------------------------------------------------------
(* The table of mounts *)

\* The slots the loops of both functions look at.
Scanned(x, bound) == {n \in SlotNumbers : n * x.esize < bound}

\* lv2_unpatch_bdvdemu_*: every slot gets its own name back, the slot a game
\* on the hard disk had taken is put back from 7EF000, and the umount syscall
\* is as shipped again.
UnpatchBdvdemu(k, x, bound) ==
    LET back(s) ==
          CASE s.dev \in {"HDD1", "PATA0_BDVD_DRIVE"} /\ s.name = "temp_bdvd" ->
                 [s EXCEPT !.name = "dev_bdvd"]
            [] s.dev \in UsbDevices /\ s.name \in {"dev_bdvd", "temp_usb"} ->
                 [s EXCEPT !.name = s.old, !.old = ""]
            [] s.dev = "HDD0" /\ s.name = "dev_bdvd" /\ s.old = "esp_bdvd" /\ k.saved # NotSaved ->
                 k.saved.slot
            [] OTHER -> s
    IN  [k EXCEPT !.table = [n \in SlotNumbers |->
                                IF n \in Scanned(x, bound) THEN back(@[n]) ELSE @[n]],
                  !.lv2 = Poke(@, {x.umount}, "shipped"),
                  !.saved = NotSaved]

\* The USB port the flags of a game name, -1 for any other place.
UsbOf(flags) == IF \E n \in 1..10 : flags = 2^n
                THEN CHOOSE n \in 0..9 : flags = 2^(n + 1) ELSE -1

\* lv2_patch_bdvdemu_*: the device of the game is renamed dev_bdvd.  A game on
\* a USB device takes the name from the disc; for one on the hard disk the
\* slot of dev_ps2disc (without a drive, that of the cache disc) is kept at
\* 7EF000 and becomes a copy of the hard disk's, and the umount syscall is
\* hooked so that an umount of /dev_bdvd puts the slot back.
PatchBdvdemu(k, x, bound, noBDVD, flags) ==
    LET usb == UsbOf(flags)
        is(n, dev, name) == n \in Scanned(x, bound) /\ k.table[n].dev = dev /\ k.table[n].name = name
        cache(n) == noBDVD /\ is(n, "HDD1", "dev_bdvd")
        drive(n) == ~noBDVD /\ is(n, "PATA0_BDVD_DRIVE", "dev_bdvd")
        ps2(n) == ~noBDVD /\ usb < 0 /\ is(n, "BDVD_DRIVE", "dev_ps2disc")
        stick(n) == usb >= 0 /\ n \in Scanned(x, bound) /\ k.table[n].dev = Mass(usb)
        disk(n) == usb < 0 /\ is(n, "HDD0", "dev_hdd0")
        taken == {n \in SlotNumbers : cache(n) \/ ps2(n)}
        disks == {n \in SlotNumbers : disk(n)}
        renamed == [n \in SlotNumbers |->
            CASE drive(n) \/ (cache(n) /\ usb >= 0) -> [k.table[n] EXCEPT !.name = "temp_bdvd"]
              [] stick(n) -> [k.table[n] EXCEPT !.name = "dev_bdvd", !.old = DevUsb(usb)]
              [] OTHER -> k.table[n]]
        pos == Min(disks)
        pos2 == Min(taken)
    IN  IF taken # {} /\ disks # {} /\ pos > 0 /\ pos2 > 0
        THEN [k EXCEPT !.table = [renamed EXCEPT ![pos2] =
                                    [k.table[pos] EXCEPT !.name = "dev_bdvd", !.old = "esp_bdvd"]],
                       !.lv2 = Poke(@, {x.umount}, "hook"),
                       !.saved = [at |-> x.mounts + pos2 * x.esize - 16, umount |-> x.umount,
                                  slot |-> k.table[pos2], size |-> x.csize]]
        ELSE [k EXCEPT !.table = renamed]

\* The routine of payloads/umount.S, run by the hooked umount syscall before
\* it umounts /dev_bdvd, on a kernel whose table is at x.mounts.
UmountRoutine(k, x) ==
    IF k.saved = NotSaved THEN k
    ELSE [k EXCEPT !.table = [n \in SlotNumbers |->
                                IF k.saved.at = x.mounts + n * x.esize - 16
                                THEN k.saved.slot ELSE @[n]],
                   !.lv2 = Poke(@, {k.saved.umount}, "shipped"),
                   !.saved = NotSaved]
=============================================================================
