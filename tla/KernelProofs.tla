---------------------------- MODULE KernelProofs ----------------------------
(***************************************************************************)
(* What a session leaves of the console (KernelState), for every set of    *)
(* the firmwares and of the settings of the drive: after the program the   *)
(* kernel holds no more than its payload, in the menu every device has its *)
(* own name, and a game sees one disc.                                     *)
(*                                                                         *)
(* The argument.  The twenty-one payload files are first shown to be one   *)
(* with other addresses (StorageRegular, BdemuRegular, LoadRegular), of    *)
(* which only a few inequalities are used.  The table of mounts and the    *)
(* words are then independent: what changes the table is "calm", it        *)
(* changes no word but the umount syscall, which is tied to the slot that  *)
(* is kept; what changes the words leaves the table alone.                 *)
(***************************************************************************)
EXTENDS KernelState, FiniteSetTheorems, WellFoundedInduction, TLAPS

-----------------------------------------------------------------------------
(* The shape of a kernel. *)
Firms == {Order[i] : i \in 1..21}
Contents == {"shipped", "copier", "payload", "patch", "storage", "hook"}
\* A memory: the words that are not as shipped, with what they hold.
Memories == UNION {[A -> Contents] : A \in SUBSET Int}
Vectors == {"shipped", "sk1e"}
Fixed == {"none", "FLASH", "HDD0", "HDD1", "PATA0_BDVD_DRIVE", "BDVD_DRIVE"}
Devices == Fixed \union UsbDevices
MountNames == {"", "dev_flash", "dev_hdd0", "dev_bdvd", "dev_ps2disc", "dev_usb000",
               "dev_usb001", "temp_bdvd"}
OldNames == {"", "esp_bdvd", "dev_usb000", "dev_usb001"}
Slots == [dev : Devices, name : MountNames, old : OldNames]
\* What is kept of the storage's five words.
Saves == {s \in Seq(Contents) : s = << >> \/ Len(s) = 5}
Kernels == [console : Firms, alien : {"none", "wanin", "sys36"},
            symbol : {<<MacrosOf(f).base, MacrosOf(f).call, MacrosOf(f).entry>> : f \in Firms},
            lv2 : Memories, lv1 : Memories, vector : Vectors,
            table : [SlotNumbers -> Slots],
            saved : [at : Int, umount : Int, slot : Slots, size : Int],
            restore : Vectors \union {"none"}, saves : Saves]

\* The phases before and after the storage is patched, and without the program.
Early == {"begun", "loaded"}
Settled == {"set", "clean", "umounted", "menu", "booting"}
Running == Early \union Settled \union {"leaving"}
Idle == {"xmb", "game", "back"}

KsTypeOK ==
    /\ k \in Kernels
    /\ at \in Running \union Idle
    /\ fw \in Firms \union {"none"}
    /\ mode \in {"zero", "hermes", "sky10", "wanin", "sys36"}
    /\ noBDVD \in 0..2
    /\ cobra \in BOOLEAN /\ useCobra \in BOOLEAN /\ useMamba \in BOOLEAN
    /\ pointers \in BOOLEAN /\ one \in BOOLEAN /\ stuck \in BOOLEAN
    /\ mamba \in {"no", "loaded", "resident"}
    /\ discless \in {"no", "on", "off"}
    /\ found \in Vectors

\* The payload of the console is in the kernel: what is_payload_loaded_* sees.
Loaded(kk) == Peek(kk.lv2, SK1E) # "shipped"

\* A console has the symbols of its firmware, and the program knows it.
RightSymbol(kk) ==
    kk.symbol = <<MacrosOf(kk.console).base, MacrosOf(kk.console).call, MacrosOf(kk.console).entry>>
RightFirmware ==
    /\ RightSymbol(k)
    /\ at \in Running => fw = k.console

\* A slot has its own name, or one the unpatch knows how to take back.
Own(s) == s.name \in OwnNames(s.dev) /\ s.old = ""
Renamed(s) == s.dev \in {"HDD1", "PATA0_BDVD_DRIVE"} /\ s.name = "temp_bdvd" /\ s.old = ""
Stick(s) == s.dev \in UsbDevices /\ s.name = "dev_bdvd" /\ s.old \in OwnNames(s.dev)
Copy(s) == s.dev = "HDD0" /\ s.name = "dev_bdvd" /\ s.old = "esp_bdvd"
TableSound(kk) ==
    \A n \in SlotNumbers :
        LET s == kk.table[n]
        IN  Own(s) \/ Renamed(s) \/ Stick(s) \/ (Copy(s) /\ kk.saved # NotSaved)

\* What is kept of a slot is a disc or the cache disc under its own name, which is
\* not mounted then; only a payload keeps a slot.
SavedSound(kk) ==
    kk.saved # NotSaved =>
        /\ Loaded(kk)
        /\ kk.saved.umount = MacrosOf(kk.console).umount
        /\ kk.saved.slot.dev \in {"BDVD_DRIVE", "HDD1"} /\ Own(kk.saved.slot)
        /\ kk.saved.slot.dev = "HDD1" => \A n \in SlotNumbers : kk.table[n].dev # "HDD1"

\* Devices that are mounted once; and one game has the place of the hard disk.
Singles == UsbDevices \union {"PATA0_BDVD_DRIVE", "HDD1"}
Alone(kk) ==
    \A m, n \in SlotNumbers : m # n =>
        /\ kk.table[m].dev = kk.table[n].dev => kk.table[m].dev \notin Singles
        /\ ~(Copy(kk.table[m]) /\ Copy(kk.table[n]))

\* The cache disc takes the name of the disc only in a console without a
\* drive, and not with Cobra or a resident Mamba.
Cached(kk) == (\E n \in SlotNumbers : kk.table[n].dev = "HDD1") \/ kk.saved.slot.dev = "HDD1"
CacheSound ==
    /\ Cached(k) => /\ Loaded(k) /\ noBDVD # 0
                    /\ noBDVD = 2 => ~cobra /\ mamba # "resident"
    /\ at \in {"loaded", "set"} /\ useMamba => ~Cached(k)

\* The settings of the run: whether Cobra or Mamba does the work is known from
\* what is loaded, and the disc-less payload is on only where neither does.
Flags ==
    /\ at \in Early => (useCobra <=> cobra \/ mamba = "resident")
    /\ at \in Settled \union {"game"} =>
          (useCobra <=> noBDVD # 1 /\ (cobra \/ mamba = "resident"))
    /\ at \in Early => discless # "on"
    /\ at \in Settled \union {"leaving"} => (discless = "on" => ~useCobra)
    /\ at = "set" /\ useMamba => discless # "on"
    /\ at \in Settled \ {"booting"} => ~one
    /\ at \in Early => ~one
    /\ at = "begun" => ~useMamba
    /\ at = "umounted" => noBDVD # 0 /\ ~useCobra
    /\ at = "xmb" => discless # "on"

\* The payload is where the program believes it to be.
MarkSound ==
    /\ at = "begun" /\ mode = "zero" => ~Loaded(k)
    /\ at = "begun" /\ mode \in {"hermes", "sky10"} => Loaded(k)
    /\ at \in Settled \union {"loaded"} => Loaded(k)

\* The strengthening of MountsComeBack: nothing in the menu disturbs the names.
MenuKernel(kk) ==
    /\ \A n \in SlotNumbers : Own(kk.table[n])
    /\ kk.saved = NotSaved
    /\ Peek(kk.lv2, MacrosOf(kk.console).umount) # "hook"
InMenu ==
    at \in {"clean", "umounted", "menu"} => MenuKernel(k)

\* Two slots named as the disc: never in the menu; a game sees two only where the
\* settings say that there is no drive, and one of them is the drive.
Discs ==
    \A m, n \in SlotNumbers :
        m # n /\ k.table[m].name = "dev_bdvd" /\ k.table[n].name = "dev_bdvd" =>
            /\ at \notin {"umounted", "menu"}
            /\ at \in {"booting", "game"} =>
                  /\ noBDVD # 0 /\ ~useCobra
                  /\ k.table[m].dev \in Drives \/ k.table[n].dev \in Drives

\* The words of a kernel, once the storage is given back.
OwnWords(kk) ==
    /\ DOMAIN kk.lv1 \subseteq DOMAIN LoadOf(kk.console, Fresh(kk.console, kk.alien)).lv1 \union Protection
    /\ DOMAIN kk.lv2 \subseteq DOMAIN LoadOf(kk.console, Fresh(kk.console, kk.alien)).lv2
          \union (IF kk.saved = NotSaved THEN {} ELSE {MacrosOf(kk.console).umount})
\* Giving the storage back would leave the words as found, as long as the
\* hypervisor could be mapped; what is kept of it can be given back.
WordsSound ==
    /\ ~stuck => OwnWords(IF at \in Running THEN UnpatchStorageOf(fw, k, TRUE) ELSE k)
    /\ at \in Early => k.saves = << >> /\ pointers
    /\ at \in Running /\ k.saves # << >> => pointers
    /\ at = "set" /\ useMamba => ~pointers

\* Syscall 8 leads where it led, or the program knows where that was.
VectorSound ==
    IF at \in Running /\ k.restore # "none" THEN k.restore = found ELSE k.vector = found

VectorFresh == at = "begun" /\ mode = "zero" => k.restore = "none"

\* The inductive invariant.
KInv == KsTypeOK /\ RightFirmware /\ TableSound(k) /\ SavedSound(k) /\ Alone(k) /\ CacheSound
        /\ Flags /\ MarkSound /\ InMenu /\ Discs /\ WordsSound /\ VectorSound /\ VectorFresh
-----------------------------------------------------------------------------
(* Memory. *)

\* What a poke of some words leaves of a memory.
Poked(mem, as, v) ==
    /\ Poke(mem, as, v) \in Memories
    /\ DOMAIN Poke(mem, as, v) = IF v = "shipped" THEN DOMAIN mem \ as ELSE DOMAIN mem \union as
    /\ \A a : Peek(Poke(mem, as, v), a) = IF a \in as THEN v ELSE Peek(mem, a)

\* A poke writes its words and no other; "shipped" takes them out of the
\* memory.
LEMMA PokeIs ==
  ASSUME NEW mem \in Memories, NEW as \in SUBSET Int, NEW v \in Contents
  PROVE  Poked(mem, as, v)
<1> DEFINE D == IF v = "shipped" THEN DOMAIN mem \ as ELSE DOMAIN mem \union as
           p == [a \in D |-> IF a \in as THEN v ELSE mem[a]]
<1>1. PICK A \in SUBSET Int : mem \in [A -> Contents]
  BY DEF Memories
<1>2. DOMAIN mem = A /\ \A a \in A : mem[a] \in Contents
  BY <1>1
<1>3. D \in SUBSET Int
  BY <1>2
<1>4. \A a \in D : a \notin as => a \in A
  BY <1>2
<1>5. p \in [D -> Contents]
  BY <1>2, <1>4
<1>6. p \in Memories
  BY <1>3, <1>5 DEF Memories
<1>7. Poke(mem, as, v) = p
  BY DEF Poke
<1>8. ASSUME NEW a PROVE Peek(p, a) = IF a \in as THEN v ELSE Peek(mem, a)
  BY DEF Peek
<1> QED
  BY <1>6, <1>7, <1>8 DEF Poked

\* What is read is a content, and a word that is not as shipped was poked.
LEMMA PeekIs ==
  ASSUME NEW mem \in Memories, NEW a
  PROVE  Peek(mem, a) \in Contents /\ (Peek(mem, a) # "shipped" => a \in DOMAIN mem)
<1>1. PICK A \in SUBSET Int : mem \in [A -> Contents]
  BY DEF Memories
<1> QED
  BY <1>1 DEF Peek, Contents

\* A run of words is a set of addresses.
LEMMA WordsAreInts ==
  ASSUME NEW a \in Int, NEW n \in Int
  PROVE  Words(a, n) \in SUBSET Int
  BY DEF Words

\* The memory of a console that was just switched on.
LEMMA Empties == << >> \in Memories /\ DOMAIN << >> = {}
<1>1. << >> = [a \in {} |-> "shipped"]
  OBVIOUS
<1>2. [a \in {} |-> "shipped"] \in [{} -> Contents]
  BY DEF Contents
<1> QED
  BY <1>1, <1>2 DEF Memories

\* A poke of one word.
LEMMA PokeOne ==
  ASSUME NEW mem \in Memories, NEW a \in Int, NEW v \in Contents
  PROVE  Poked(mem, {a}, v)
<1> DEFINE as == {a}
<1>1. as \in SUBSET Int
  OBVIOUS
<1> HIDE DEF as
<1>2. Poked(mem, as, v)
  BY <1>1, PokeIs
<1> QED
  BY <1>2 DEF as
-----------------------------------------------------------------------------
(* The twenty-one payload files are one payload with other addresses.      *)

\* The consoles are those of the twenty-one firmwares.
LEMMA FirmsAre ==
  Firms = {"341", "355", "355dex", "421", "421dex", "430", "430dex", "431", "440", "441", "446",
           "450", "450dex", "453", "455", "460deh", "460dex", "470", "470dex", "475", "475dex"}
  BY DEF Firms, Order

\* The addresses of every firmware, as far as they matter: the umount syscall
\* lies
\* above the marks of the payload, and a slot of the table has 256 to 280
\* bytes.
LEMMA MacrosFacts ==
  ASSUME NEW f \in Firms
  PROVE  /\ MacrosOf(f).umount \in Int /\ MacrosOf(f).umount > \h4F0
         /\ MacrosOf(f).esize \in \h100 .. \h118
         /\ MacrosOf(f).mounts \in Int /\ MacrosOf(f).csize \in Int
         /\ MacrosOf(f).base \in Int /\ MacrosOf(f).entry \in Int
<1>1. CASE f = "341"
  <2>1. MacrosOf("341") = Macros_341
    BY DEF MacrosOf
  <2> QED
    BY <1>1, <2>1 DEF Macros_341, Macros
<1>2. CASE f = "355"
  <2>1. MacrosOf("355") = Macros_355
    BY DEF MacrosOf
  <2> QED
    BY <1>2, <2>1 DEF Macros_355, Macros
<1>3. CASE f = "355dex"
  <2>1. MacrosOf("355dex") = Macros_355dex
    BY DEF MacrosOf
  <2> QED
    BY <1>3, <2>1 DEF Macros_355dex, Macros
<1>4. CASE f = "421"
  <2>1. MacrosOf("421") = Macros_421
    BY DEF MacrosOf
  <2> QED
    BY <1>4, <2>1 DEF Macros_421, Macros
<1>5. CASE f = "421dex"
  <2>1. MacrosOf("421dex") = Macros_421dex
    BY DEF MacrosOf
  <2> QED
    BY <1>5, <2>1 DEF Macros_421dex, Macros
<1>6. CASE f = "430"
  <2>1. MacrosOf("430") = Macros_430
    BY DEF MacrosOf
  <2> QED
    BY <1>6, <2>1 DEF Macros_430, Macros
<1>7. CASE f = "430dex"
  <2>1. MacrosOf("430dex") = Macros_430dex
    BY DEF MacrosOf
  <2> QED
    BY <1>7, <2>1 DEF Macros_430dex, Macros
<1>8. CASE f = "431"
  <2>1. MacrosOf("431") = Macros_431
    BY DEF MacrosOf
  <2> QED
    BY <1>8, <2>1 DEF Macros_431, Macros
<1>9. CASE f = "440"
  <2>1. MacrosOf("440") = Macros_440
    BY DEF MacrosOf
  <2> QED
    BY <1>9, <2>1 DEF Macros_440, Macros
<1>10. CASE f = "441"
  <2>1. MacrosOf("441") = Macros_441
    BY DEF MacrosOf
  <2> QED
    BY <1>10, <2>1 DEF Macros_441, Macros
<1>11. CASE f = "446"
  <2>1. MacrosOf("446") = Macros_446
    BY DEF MacrosOf
  <2> QED
    BY <1>11, <2>1 DEF Macros_446, Macros
<1>12. CASE f = "450"
  <2>1. MacrosOf("450") = Macros_450
    BY DEF MacrosOf
  <2> QED
    BY <1>12, <2>1 DEF Macros_450, Macros
<1>13. CASE f = "450dex"
  <2>1. MacrosOf("450dex") = Macros_450dex
    BY DEF MacrosOf
  <2> QED
    BY <1>13, <2>1 DEF Macros_450dex, Macros
<1>14. CASE f = "453"
  <2>1. MacrosOf("453") = Macros_453
    BY DEF MacrosOf
  <2> QED
    BY <1>14, <2>1 DEF Macros_453, Macros
<1>15. CASE f = "455"
  <2>1. MacrosOf("455") = Macros_455
    BY DEF MacrosOf
  <2> QED
    BY <1>15, <2>1 DEF Macros_455, Macros
<1>16. CASE f = "460deh"
  <2>1. MacrosOf("460deh") = Macros_460deh
    BY DEF MacrosOf
  <2> QED
    BY <1>16, <2>1 DEF Macros_460deh, Macros
<1>17. CASE f = "460dex"
  <2>1. MacrosOf("460dex") = Macros_460dex
    BY DEF MacrosOf
  <2> QED
    BY <1>17, <2>1 DEF Macros_460dex, Macros
<1>18. CASE f = "470"
  <2>1. MacrosOf("470") = Macros_470
    BY DEF MacrosOf
  <2> QED
    BY <1>18, <2>1 DEF Macros_470, Macros
<1>19. CASE f = "470dex"
  <2>1. MacrosOf("470dex") = Macros_470dex
    BY DEF MacrosOf
  <2> QED
    BY <1>19, <2>1 DEF Macros_470dex, Macros
<1>20. CASE f = "475"
  <2>1. MacrosOf("475") = Macros_475
    BY DEF MacrosOf
  <2> QED
    BY <1>20, <2>1 DEF Macros_475, Macros
<1>21. CASE f = "475dex"
  <2>1. MacrosOf("475dex") = Macros_475dex
    BY DEF MacrosOf
  <2> QED
    BY <1>21, <2>1 DEF Macros_475dex, Macros
<1> QED
  BY FirmsAre, <1>1, <1>2, <1>3, <1>4, <1>5, <1>6, <1>7, <1>8, <1>9, <1>10,
     <1>11, <1>12, <1>13, <1>14, <1>15, <1>16, <1>17, <1>18, <1>19, <1>20,
     <1>21

\* lv2_patch_storage and lv2_unpatch_storage of f are the generic ones with the
\* words a2 and a1.
StorageIs(f, a2, a1) ==
    \A kk, ok :
        /\ PatchStorageOf(f, kk, ok) = PatchStorage(kk, ok, a2, a1)
        /\ UnpatchStorageOf(f, kk, TRUE) = UnpatchStorage(kk, TRUE, a2, a1)
        /\ \/ UnpatchStorageOf(f, kk, ok) = UnpatchStorage(kk, ok, a2, a1)
           \/ UnpatchStorageOf(f, kk, ok) = UnpatchStorage(kk, TRUE, a2, a1)

\* Each of the twenty-one copies of lv2_patch_storage is the generic one, and
\* its word is neither the umount syscall nor the mark of the payload.
LEMMA StorageRegular ==
  ASSUME NEW f \in Firms
  PROVE  \E a2 \in Int, a1 \in [1..4 -> Int] :
            a2 > \h4F0 /\ a2 # MacrosOf(f).umount /\ StorageIs(f, a2, a1)
<1>1. CASE f = "341"
  <2>1. StorageIs("341", \h2CF880, <<\h16F3B8, \h16F3DC, \h16F454, \h16F45C>>)
    BY SMT DEF StorageIs, PatchStorageOf, UnpatchStorageOf, lv2_patch_storage_341, lv2_unpatch_storage_341
  <2>2. MacrosOf("341") = Macros_341
    BY DEF MacrosOf
  <2>3. Macros_341.umount # \h2CF880
    BY SMT DEF Macros_341, Macros
  <2>4. <<\h16F3B8, \h16F3DC, \h16F454, \h16F45C>> \in [1..4 -> Int] /\ \h2CF880 > \h4F0
    BY SMT
  <2> QED
    BY SMT, <1>1, <2>1, <2>2, <2>3, <2>4
<1>2. CASE f = "355"
  <2>1. StorageIs("355", \h2D7820, <<\h16F3B8, \h16F3DC, \h16F454, \h16F45C>>)
    BY SMT DEF StorageIs, PatchStorageOf, UnpatchStorageOf, lv2_patch_storage_355, lv2_unpatch_storage_355
  <2>2. MacrosOf("355") = Macros_355
    BY DEF MacrosOf
  <2>3. Macros_355.umount # \h2D7820
    BY SMT DEF Macros_355, Macros
  <2>4. <<\h16F3B8, \h16F3DC, \h16F454, \h16F45C>> \in [1..4 -> Int] /\ \h2D7820 > \h4F0
    BY SMT
  <2> QED
    BY SMT, <1>2, <2>1, <2>2, <2>3, <2>4
<1>3. CASE f = "355dex"
  <2>1. StorageIs("355dex", \h2EF270, <<\h16F3B8, \h16F3DC, \h16F454, \h16F45C>>)
    BY SMT DEF StorageIs, PatchStorageOf, UnpatchStorageOf, lv2_patch_storage_355dex, lv2_unpatch_storage_355dex
  <2>2. MacrosOf("355dex") = Macros_355dex
    BY DEF MacrosOf
  <2>3. Macros_355dex.umount # \h2EF270
    BY SMT DEF Macros_355dex, Macros
  <2>4. <<\h16F3B8, \h16F3DC, \h16F454, \h16F45C>> \in [1..4 -> Int] /\ \h2EF270 > \h4F0
    BY SMT
  <2> QED
    BY SMT, <1>3, <2>1, <2>2, <2>3, <2>4
<1>4. CASE f = "421"
  <2>1. StorageIs("421", \h2E7920, <<\h16F758, \h16F77C, \h16F7F4, \h16F7FC>>)
    BY SMT DEF StorageIs, PatchStorageOf, UnpatchStorageOf, lv2_patch_storage_421, lv2_unpatch_storage_421
  <2>2. MacrosOf("421") = Macros_421
    BY DEF MacrosOf
  <2>3. Macros_421.umount # \h2E7920
    BY SMT DEF Macros_421, Macros
  <2>4. <<\h16F758, \h16F77C, \h16F7F4, \h16F7FC>> \in [1..4 -> Int] /\ \h2E7920 > \h4F0
    BY SMT
  <2> QED
    BY SMT, <1>4, <2>1, <2>2, <2>3, <2>4
<1>5. CASE f = "421dex"
  <2>1. StorageIs("421dex", \h302098, <<\h16F758, \h16F77C, \h16F7F4, \h16F7FC>>)
    BY SMT DEF StorageIs, PatchStorageOf, UnpatchStorageOf, lv2_patch_storage_421dex, lv2_unpatch_storage_421dex
  <2>2. MacrosOf("421dex") = Macros_421dex
    BY DEF MacrosOf
  <2>3. Macros_421dex.umount # \h302098
    BY SMT DEF Macros_421dex, Macros
  <2>4. <<\h16F758, \h16F77C, \h16F7F4, \h16F7FC>> \in [1..4 -> Int] /\ \h302098 > \h4F0
    BY SMT
  <2> QED
    BY SMT, <1>5, <2>1, <2>2, <2>3, <2>4
<1>6. CASE f = "430"
  <2>1. StorageIs("430", \h2E9218, <<\h16FA60, \h16FA84, \h16FAFC, \h16FB04>>)
    BY SMT DEF StorageIs, PatchStorageOf, UnpatchStorageOf, lv2_patch_storage_430, lv2_unpatch_storage_430
  <2>2. MacrosOf("430") = Macros_430
    BY DEF MacrosOf
  <2>3. Macros_430.umount # \h2E9218
    BY SMT DEF Macros_430, Macros
  <2>4. <<\h16FA60, \h16FA84, \h16FAFC, \h16FB04>> \in [1..4 -> Int] /\ \h2E9218 > \h4F0
    BY SMT
  <2> QED
    BY SMT, <1>6, <2>1, <2>2, <2>3, <2>4
<1>7. CASE f = "430dex"
  <2>1. StorageIs("430dex", \h303940, <<\h16FA60, \h16FA84, \h16FAFC, \h16FB04>>)
    BY SMT DEF StorageIs, PatchStorageOf, UnpatchStorageOf, lv2_patch_storage_430dex, lv2_unpatch_storage_430dex
  <2>2. MacrosOf("430dex") = Macros_430dex
    BY DEF MacrosOf
  <2>3. Macros_430dex.umount # \h303940
    BY SMT DEF Macros_430dex, Macros
  <2>4. <<\h16FA60, \h16FA84, \h16FAFC, \h16FB04>> \in [1..4 -> Int] /\ \h303940 > \h4F0
    BY SMT
  <2> QED
    BY SMT, <1>7, <2>1, <2>2, <2>3, <2>4
<1>8. CASE f = "431"
  <2>1. StorageIs("431", \h2E9228, <<\h16FA60, \h16FA84, \h16FAFC, \h16FB04>>)
    BY SMT DEF StorageIs, PatchStorageOf, UnpatchStorageOf, lv2_patch_storage_431, lv2_unpatch_storage_431
  <2>2. MacrosOf("431") = Macros_431
    BY DEF MacrosOf
  <2>3. Macros_431.umount # \h2E9228
    BY SMT DEF Macros_431, Macros
  <2>4. <<\h16FA60, \h16FA84, \h16FAFC, \h16FB04>> \in [1..4 -> Int] /\ \h2E9228 > \h4F0
    BY SMT
  <2> QED
    BY SMT, <1>8, <2>1, <2>2, <2>3, <2>4
<1>9. CASE f = "440"
  <2>1. StorageIs("440", \h2E9798, <<\h16FA60, \h16FA84, \h16FAFC, \h16FB04>>)
    BY SMT DEF StorageIs, PatchStorageOf, UnpatchStorageOf, lv2_patch_storage_440, lv2_unpatch_storage_440
  <2>2. MacrosOf("440") = Macros_440
    BY DEF MacrosOf
  <2>3. Macros_440.umount # \h2E9798
    BY SMT DEF Macros_440, Macros
  <2>4. <<\h16FA60, \h16FA84, \h16FAFC, \h16FB04>> \in [1..4 -> Int] /\ \h2E9798 > \h4F0
    BY SMT
  <2> QED
    BY SMT, <1>9, <2>1, <2>2, <2>3, <2>4
<1>10. CASE f = "441"
  <2>1. StorageIs("441", \h2E97A8, <<\h16FA60, \h16FA84, \h16FAFC, \h16FB04>>)
    BY SMT DEF StorageIs, PatchStorageOf, UnpatchStorageOf, lv2_patch_storage_441, lv2_unpatch_storage_441
  <2>2. MacrosOf("441") = Macros_441
    BY DEF MacrosOf
  <2>3. Macros_441.umount # \h2E97A8
    BY SMT DEF Macros_441, Macros
  <2>4. <<\h16FA60, \h16FA84, \h16FAFC, \h16FB04>> \in [1..4 -> Int] /\ \h2E97A8 > \h4F0
    BY SMT
  <2> QED
    BY SMT, <1>10, <2>1, <2>2, <2>3, <2>4
<1>11. CASE f = "446"
  <2>1. StorageIs("446", \h2E9CC8, <<\h16FA60, \h16FA84, \h16FAFC, \h16FB04>>)
    BY SMT DEF StorageIs, PatchStorageOf, UnpatchStorageOf, lv2_patch_storage_446, lv2_unpatch_storage_446
  <2>2. MacrosOf("446") = Macros_446
    BY DEF MacrosOf
  <2>3. Macros_446.umount # \h2E9CC8
    BY SMT DEF Macros_446, Macros
  <2>4. <<\h16FA60, \h16FA84, \h16FAFC, \h16FB04>> \in [1..4 -> Int] /\ \h2E9CC8 > \h4F0
    BY SMT
  <2> QED
    BY SMT, <1>11, <2>1, <2>2, <2>3, <2>4
<1>12. CASE f = "450"
  <2>1. StorageIs("450", \h2E8EF0, <<\h16FA60, \h16FA84, \h16FAFC, \h16FB04>>)
    BY SMT DEF StorageIs, PatchStorageOf, UnpatchStorageOf, lv2_patch_storage_450, lv2_unpatch_storage_450
  <2>2. MacrosOf("450") = Macros_450
    BY DEF MacrosOf
  <2>3. Macros_450.umount # \h2E8EF0
    BY SMT DEF Macros_450, Macros
  <2>4. <<\h16FA60, \h16FA84, \h16FAFC, \h16FB04>> \in [1..4 -> Int] /\ \h2E8EF0 > \h4F0
    BY SMT
  <2> QED
    BY SMT, <1>12, <2>1, <2>2, <2>3, <2>4
<1>13. CASE f = "450dex"
  <2>1. StorageIs("450dex", \h3089A8, <<\h16FA60, \h16FA84, \h16FAFC, \h16FB04>>)
    BY SMT DEF StorageIs, PatchStorageOf, UnpatchStorageOf, lv2_patch_storage_450dex, lv2_unpatch_storage_450dex
  <2>2. MacrosOf("450dex") = Macros_450dex
    BY DEF MacrosOf
  <2>3. Macros_450dex.umount # \h3089A8
    BY SMT DEF Macros_450dex, Macros
  <2>4. <<\h16FA60, \h16FA84, \h16FAFC, \h16FB04>> \in [1..4 -> Int] /\ \h3089A8 > \h4F0
    BY SMT
  <2> QED
    BY SMT, <1>13, <2>1, <2>2, <2>3, <2>4
<1>14. CASE f = "453"
  <2>1. StorageIs("453", \h2E9080, <<\h16FA60, \h16FA84, \h16FAFC, \h16FB04>>)
    BY SMT DEF StorageIs, PatchStorageOf, UnpatchStorageOf, lv2_patch_storage_453, lv2_unpatch_storage_453
  <2>2. MacrosOf("453") = Macros_453
    BY DEF MacrosOf
  <2>3. Macros_453.umount # \h2E9080
    BY SMT DEF Macros_453, Macros
  <2>4. <<\h16FA60, \h16FA84, \h16FAFC, \h16FB04>> \in [1..4 -> Int] /\ \h2E9080 > \h4F0
    BY SMT
  <2> QED
    BY SMT, <1>14, <2>1, <2>2, <2>3, <2>4
<1>15. CASE f = "455"
  <2>1. StorageIs("455", \h2EB898, <<\h16FA60, \h16FA84, \h16FAFC, \h16FB04>>)
    BY SMT DEF StorageIs, PatchStorageOf, UnpatchStorageOf, lv2_patch_storage_455, lv2_unpatch_storage_455
  <2>2. MacrosOf("455") = Macros_455
    BY DEF MacrosOf
  <2>3. Macros_455.umount # \h2EB898
    BY SMT DEF Macros_455, Macros
  <2>4. <<\h16FA60, \h16FA84, \h16FAFC, \h16FB04>> \in [1..4 -> Int] /\ \h2EB898 > \h4F0
    BY SMT
  <2> QED
    BY SMT, <1>15, <2>1, <2>2, <2>3, <2>4
<1>16. CASE f = "460deh"
  <2>1. StorageIs("460deh", \h32CBE0, <<\h177A60, \h177A84, \h177AFC, \h177B04>>)
    BY SMT DEF StorageIs, PatchStorageOf, UnpatchStorageOf, lv2_patch_storage_460deh, lv2_unpatch_storage_460deh
  <2>2. MacrosOf("460deh") = Macros_460deh
    BY DEF MacrosOf
  <2>3. Macros_460deh.umount # \h32CBE0
    BY SMT DEF Macros_460deh, Macros
  <2>4. <<\h177A60, \h177A84, \h177AFC, \h177B04>> \in [1..4 -> Int] /\ \h32CBE0 > \h4F0
    BY SMT
  <2> QED
    BY SMT, <1>16, <2>1, <2>2, <2>3, <2>4
<1>17. CASE f = "460dex"
  <2>1. StorageIs("460dex", \h30E450, <<\h16FA60, \h16FA84, \h16FAFC, \h16FB04>>)
    BY SMT DEF StorageIs, PatchStorageOf, UnpatchStorageOf, lv2_patch_storage_460dex, lv2_unpatch_storage_460dex
  <2>2. MacrosOf("460dex") = Macros_460dex
    BY DEF MacrosOf
  <2>3. Macros_460dex.umount # \h30E450
    BY SMT DEF Macros_460dex, Macros
  <2>4. <<\h16FA60, \h16FA84, \h16FAFC, \h16FB04>> \in [1..4 -> Int] /\ \h30E450 > \h4F0
    BY SMT
  <2> QED
    BY SMT, <1>17, <2>1, <2>2, <2>3, <2>4
<1>18. CASE f = "470"
  <2>1. StorageIs("470", \h2ECA30, <<\h16FA60, \h16FA84, \h16FAFC, \h16FB04>>)
    BY SMT DEF StorageIs, PatchStorageOf, UnpatchStorageOf, lv2_patch_storage_470, lv2_unpatch_storage_470
  <2>2. MacrosOf("470") = Macros_470
    BY DEF MacrosOf
  <2>3. Macros_470.umount # \h2ECA30
    BY SMT DEF Macros_470, Macros
  <2>4. <<\h16FA60, \h16FA84, \h16FAFC, \h16FB04>> \in [1..4 -> Int] /\ \h2ECA30 > \h4F0
    BY SMT
  <2> QED
    BY SMT, <1>18, <2>1, <2>2, <2>3, <2>4
<1>19. CASE f = "470dex"
  <2>1. StorageIs("470dex", \h30E4F8, <<\h16FA60, \h16FA84, \h16FAFC, \h16FB04>>)
    BY SMT DEF StorageIs, PatchStorageOf, UnpatchStorageOf, lv2_patch_storage_470dex, lv2_unpatch_storage_470dex
  <2>2. MacrosOf("470dex") = Macros_470dex
    BY DEF MacrosOf
  <2>3. Macros_470dex.umount # \h30E4F8
    BY SMT DEF Macros_470dex, Macros
  <2>4. <<\h16FA60, \h16FA84, \h16FAFC, \h16FB04>> \in [1..4 -> Int] /\ \h30E4F8 > \h4F0
    BY SMT
  <2> QED
    BY SMT, <1>19, <2>1, <2>2, <2>3, <2>4
<1>20. CASE f = "475"
  <2>1. StorageIs("475", \h2ECAB0, <<\h16FA60, \h16FA84, \h16FAFC, \h16FB04>>)
    BY SMT DEF StorageIs, PatchStorageOf, UnpatchStorageOf, lv2_patch_storage_475, lv2_unpatch_storage_475
  <2>2. MacrosOf("475") = Macros_475
    BY DEF MacrosOf
  <2>3. Macros_475.umount # \h2ECAB0
    BY SMT DEF Macros_475, Macros
  <2>4. <<\h16FA60, \h16FA84, \h16FAFC, \h16FB04>> \in [1..4 -> Int] /\ \h2ECAB0 > \h4F0
    BY SMT
  <2> QED
    BY SMT, <1>20, <2>1, <2>2, <2>3, <2>4
<1>21. CASE f = "475dex"
  <2>1. StorageIs("475dex", \h30E568, <<\h16FA60, \h16FA84, \h16FAFC, \h16FB04>>)
    BY SMT DEF StorageIs, PatchStorageOf, UnpatchStorageOf, lv2_patch_storage_475dex, lv2_unpatch_storage_475dex
  <2>2. MacrosOf("475dex") = Macros_475dex
    BY DEF MacrosOf
  <2>3. Macros_475dex.umount # \h30E568
    BY SMT DEF Macros_475dex, Macros
  <2>4. <<\h16FA60, \h16FA84, \h16FAFC, \h16FB04>> \in [1..4 -> Int] /\ \h30E568 > \h4F0
    BY SMT
  <2> QED
    BY SMT, <1>21, <2>1, <2>2, <2>3, <2>4
<1> QED
  BY FirmsAre, <1>1, <1>2, <1>3, <1>4, <1>5, <1>6, <1>7, <1>8, <1>9, <1>10,
     <1>11, <1>12, <1>13, <1>14, <1>15, <1>16, <1>17, <1>18, <1>19, <1>20,
     <1>21

\* lv2_patch_bdvdemu and lv2_unpatch_bdvdemu of f are the generic ones with the
\* words at b.
BdemuIs(f, b) ==
    \A kk : /\ UnpatchBdvdemuOf(f, kk) = UnpatchBdvdemu(kk, MacrosOf(f), b)
            /\ \A d, flags : PatchBdvdemuOf(f, kk, d, flags) = PatchBdvdemu(kk, MacrosOf(f), b, d, flags)

\* Each of the twenty-one copies of lv2_patch_bdvdemu is the generic one, and
\* scans all slots of the table.
LEMMA BdemuRegular ==
  ASSUME NEW f \in Firms
  PROVE  \E b \in Int : BdemuIs(f, b) /\ Scanned(MacrosOf(f), b) = SlotNumbers
<1>1. CASE f = "341"
  <2>1. BdemuIs("341", \hFF0)
    BY SMT DEF BdemuIs, PatchBdvdemuOf, UnpatchBdvdemuOf, lv2_patch_bdvdemu_341, lv2_unpatch_bdvdemu_341, MacrosOf
  <2>2. MacrosOf("341") = Macros_341
    BY DEF MacrosOf
  <2>3. Macros_341.esize = \h100
    BY DEF Macros_341, Macros
  <2>4. \A n \in SlotNumbers : n * Macros_341.esize < \hFF0
    BY SMT, <2>3, SlotsAssumption
  <2>5. Scanned(Macros_341, \hFF0) = SlotNumbers
    BY <2>4 DEF Scanned
  <2> QED
    BY SMT, <1>1, <2>1, <2>2, <2>5
<1>2. CASE f = "355"
  <2>1. BdemuIs("355", \hFF0)
    BY SMT DEF BdemuIs, PatchBdvdemuOf, UnpatchBdvdemuOf, lv2_patch_bdvdemu_355, lv2_unpatch_bdvdemu_355, MacrosOf
  <2>2. MacrosOf("355") = Macros_355
    BY DEF MacrosOf
  <2>3. Macros_355.esize = \h100
    BY DEF Macros_355, Macros
  <2>4. \A n \in SlotNumbers : n * Macros_355.esize < \hFF0
    BY SMT, <2>3, SlotsAssumption
  <2>5. Scanned(Macros_355, \hFF0) = SlotNumbers
    BY <2>4 DEF Scanned
  <2> QED
    BY SMT, <1>2, <2>1, <2>2, <2>5
<1>3. CASE f = "355dex"
  <2>1. BdemuIs("355dex", \hFF0)
    BY SMT DEF BdemuIs, PatchBdvdemuOf, UnpatchBdvdemuOf, lv2_patch_bdvdemu_355dex, lv2_unpatch_bdvdemu_355dex, MacrosOf
  <2>2. MacrosOf("355dex") = Macros_355dex
    BY DEF MacrosOf
  <2>3. Macros_355dex.esize = \h100
    BY DEF Macros_355dex, Macros
  <2>4. \A n \in SlotNumbers : n * Macros_355dex.esize < \hFF0
    BY SMT, <2>3, SlotsAssumption
  <2>5. Scanned(Macros_355dex, \hFF0) = SlotNumbers
    BY <2>4 DEF Scanned
  <2> QED
    BY SMT, <1>3, <2>1, <2>2, <2>5
<1>4. CASE f = "421"
  <2>1. BdemuIs("421", \h10F0)
    BY SMT DEF BdemuIs, PatchBdvdemuOf, UnpatchBdvdemuOf, lv2_patch_bdvdemu_421, lv2_unpatch_bdvdemu_421, MacrosOf
  <2>2. MacrosOf("421") = Macros_421
    BY DEF MacrosOf
  <2>3. Macros_421.esize = \h110
    BY DEF Macros_421, Macros
  <2>4. \A n \in SlotNumbers : n * Macros_421.esize < \h10F0
    BY SMT, <2>3, SlotsAssumption
  <2>5. Scanned(Macros_421, \h10F0) = SlotNumbers
    BY <2>4 DEF Scanned
  <2> QED
    BY SMT, <1>4, <2>1, <2>2, <2>5
<1>5. CASE f = "421dex"
  <2>1. BdemuIs("421dex", \h10F0)
    BY SMT DEF BdemuIs, PatchBdvdemuOf, UnpatchBdvdemuOf, lv2_patch_bdvdemu_421dex, lv2_unpatch_bdvdemu_421dex, MacrosOf
  <2>2. MacrosOf("421dex") = Macros_421dex
    BY DEF MacrosOf
  <2>3. Macros_421dex.esize = \h110
    BY DEF Macros_421dex, Macros
  <2>4. \A n \in SlotNumbers : n * Macros_421dex.esize < \h10F0
    BY SMT, <2>3, SlotsAssumption
  <2>5. Scanned(Macros_421dex, \h10F0) = SlotNumbers
    BY <2>4 DEF Scanned
  <2> QED
    BY SMT, <1>5, <2>1, <2>2, <2>5
<1>6. CASE f = "430"
  <2>1. BdemuIs("430", \h116C)
    BY SMT DEF BdemuIs, PatchBdvdemuOf, UnpatchBdvdemuOf, lv2_patch_bdvdemu_430, lv2_unpatch_bdvdemu_430, MacrosOf
  <2>2. MacrosOf("430") = Macros_430
    BY DEF MacrosOf
  <2>3. Macros_430.esize = \h118
    BY DEF Macros_430, Macros
  <2>4. \A n \in SlotNumbers : n * Macros_430.esize < \h116C
    BY SMT, <2>3, SlotsAssumption
  <2>5. Scanned(Macros_430, \h116C) = SlotNumbers
    BY <2>4 DEF Scanned
  <2> QED
    BY SMT, <1>6, <2>1, <2>2, <2>5
<1>7. CASE f = "430dex"
  <2>1. BdemuIs("430dex", \h116C)
    BY SMT DEF BdemuIs, PatchBdvdemuOf, UnpatchBdvdemuOf, lv2_patch_bdvdemu_430dex, lv2_unpatch_bdvdemu_430dex, MacrosOf
  <2>2. MacrosOf("430dex") = Macros_430dex
    BY DEF MacrosOf
  <2>3. Macros_430dex.esize = \h118
    BY DEF Macros_430dex, Macros
  <2>4. \A n \in SlotNumbers : n * Macros_430dex.esize < \h116C
    BY SMT, <2>3, SlotsAssumption
  <2>5. Scanned(Macros_430dex, \h116C) = SlotNumbers
    BY <2>4 DEF Scanned
  <2> QED
    BY SMT, <1>7, <2>1, <2>2, <2>5
<1>8. CASE f = "431"
  <2>1. BdemuIs("431", \h116C)
    BY SMT DEF BdemuIs, PatchBdvdemuOf, UnpatchBdvdemuOf, lv2_patch_bdvdemu_431, lv2_unpatch_bdvdemu_431, MacrosOf
  <2>2. MacrosOf("431") = Macros_431
    BY DEF MacrosOf
  <2>3. Macros_431.esize = \h118
    BY DEF Macros_431, Macros
  <2>4. \A n \in SlotNumbers : n * Macros_431.esize < \h116C
    BY SMT, <2>3, SlotsAssumption
  <2>5. Scanned(Macros_431, \h116C) = SlotNumbers
    BY <2>4 DEF Scanned
  <2> QED
    BY SMT, <1>8, <2>1, <2>2, <2>5
<1>9. CASE f = "440"
  <2>1. BdemuIs("440", \h116C)
    BY SMT DEF BdemuIs, PatchBdvdemuOf, UnpatchBdvdemuOf, lv2_patch_bdvdemu_440, lv2_unpatch_bdvdemu_440, MacrosOf
  <2>2. MacrosOf("440") = Macros_440
    BY DEF MacrosOf
  <2>3. Macros_440.esize = \h118
    BY DEF Macros_440, Macros
  <2>4. \A n \in SlotNumbers : n * Macros_440.esize < \h116C
    BY SMT, <2>3, SlotsAssumption
  <2>5. Scanned(Macros_440, \h116C) = SlotNumbers
    BY <2>4 DEF Scanned
  <2> QED
    BY SMT, <1>9, <2>1, <2>2, <2>5
<1>10. CASE f = "441"
  <2>1. BdemuIs("441", \h116C)
    BY SMT DEF BdemuIs, PatchBdvdemuOf, UnpatchBdvdemuOf, lv2_patch_bdvdemu_441, lv2_unpatch_bdvdemu_441, MacrosOf
  <2>2. MacrosOf("441") = Macros_441
    BY DEF MacrosOf
  <2>3. Macros_441.esize = \h118
    BY DEF Macros_441, Macros
  <2>4. \A n \in SlotNumbers : n * Macros_441.esize < \h116C
    BY SMT, <2>3, SlotsAssumption
  <2>5. Scanned(Macros_441, \h116C) = SlotNumbers
    BY <2>4 DEF Scanned
  <2> QED
    BY SMT, <1>10, <2>1, <2>2, <2>5
<1>11. CASE f = "446"
  <2>1. BdemuIs("446", \h116C)
    BY SMT DEF BdemuIs, PatchBdvdemuOf, UnpatchBdvdemuOf, lv2_patch_bdvdemu_446, lv2_unpatch_bdvdemu_446, MacrosOf
  <2>2. MacrosOf("446") = Macros_446
    BY DEF MacrosOf
  <2>3. Macros_446.esize = \h118
    BY DEF Macros_446, Macros
  <2>4. \A n \in SlotNumbers : n * Macros_446.esize < \h116C
    BY SMT, <2>3, SlotsAssumption
  <2>5. Scanned(Macros_446, \h116C) = SlotNumbers
    BY <2>4 DEF Scanned
  <2> QED
    BY SMT, <1>11, <2>1, <2>2, <2>5
<1>12. CASE f = "450"
  <2>1. BdemuIs("450", \h116C)
    BY SMT DEF BdemuIs, PatchBdvdemuOf, UnpatchBdvdemuOf, lv2_patch_bdvdemu_450, lv2_unpatch_bdvdemu_450, MacrosOf
  <2>2. MacrosOf("450") = Macros_450
    BY DEF MacrosOf
  <2>3. Macros_450.esize = \h118
    BY DEF Macros_450, Macros
  <2>4. \A n \in SlotNumbers : n * Macros_450.esize < \h116C
    BY SMT, <2>3, SlotsAssumption
  <2>5. Scanned(Macros_450, \h116C) = SlotNumbers
    BY <2>4 DEF Scanned
  <2> QED
    BY SMT, <1>12, <2>1, <2>2, <2>5
<1>13. CASE f = "450dex"
  <2>1. BdemuIs("450dex", \h116C)
    BY SMT DEF BdemuIs, PatchBdvdemuOf, UnpatchBdvdemuOf, lv2_patch_bdvdemu_450dex, lv2_unpatch_bdvdemu_450dex, MacrosOf
  <2>2. MacrosOf("450dex") = Macros_450dex
    BY DEF MacrosOf
  <2>3. Macros_450dex.esize = \h118
    BY DEF Macros_450dex, Macros
  <2>4. \A n \in SlotNumbers : n * Macros_450dex.esize < \h116C
    BY SMT, <2>3, SlotsAssumption
  <2>5. Scanned(Macros_450dex, \h116C) = SlotNumbers
    BY <2>4 DEF Scanned
  <2> QED
    BY SMT, <1>13, <2>1, <2>2, <2>5
<1>14. CASE f = "453"
  <2>1. BdemuIs("453", \h116C)
    BY SMT DEF BdemuIs, PatchBdvdemuOf, UnpatchBdvdemuOf, lv2_patch_bdvdemu_453, lv2_unpatch_bdvdemu_453, MacrosOf
  <2>2. MacrosOf("453") = Macros_453
    BY DEF MacrosOf
  <2>3. Macros_453.esize = \h118
    BY DEF Macros_453, Macros
  <2>4. \A n \in SlotNumbers : n * Macros_453.esize < \h116C
    BY SMT, <2>3, SlotsAssumption
  <2>5. Scanned(Macros_453, \h116C) = SlotNumbers
    BY <2>4 DEF Scanned
  <2> QED
    BY SMT, <1>14, <2>1, <2>2, <2>5
<1>15. CASE f = "455"
  <2>1. BdemuIs("455", \h116C)
    BY SMT DEF BdemuIs, PatchBdvdemuOf, UnpatchBdvdemuOf, lv2_patch_bdvdemu_455, lv2_unpatch_bdvdemu_455, MacrosOf
  <2>2. MacrosOf("455") = Macros_455
    BY DEF MacrosOf
  <2>3. Macros_455.esize = \h118
    BY DEF Macros_455, Macros
  <2>4. \A n \in SlotNumbers : n * Macros_455.esize < \h116C
    BY SMT, <2>3, SlotsAssumption
  <2>5. Scanned(Macros_455, \h116C) = SlotNumbers
    BY <2>4 DEF Scanned
  <2> QED
    BY SMT, <1>15, <2>1, <2>2, <2>5
<1>16. CASE f = "460deh"
  <2>1. BdemuIs("460deh", \h116C)
    BY SMT DEF BdemuIs, PatchBdvdemuOf, UnpatchBdvdemuOf, lv2_patch_bdvdemu_460deh, lv2_unpatch_bdvdemu_460deh, MacrosOf
  <2>2. MacrosOf("460deh") = Macros_460deh
    BY DEF MacrosOf
  <2>3. Macros_460deh.esize = \h118
    BY DEF Macros_460deh, Macros
  <2>4. \A n \in SlotNumbers : n * Macros_460deh.esize < \h116C
    BY SMT, <2>3, SlotsAssumption
  <2>5. Scanned(Macros_460deh, \h116C) = SlotNumbers
    BY <2>4 DEF Scanned
  <2> QED
    BY SMT, <1>16, <2>1, <2>2, <2>5
<1>17. CASE f = "460dex"
  <2>1. BdemuIs("460dex", \h116C)
    BY SMT DEF BdemuIs, PatchBdvdemuOf, UnpatchBdvdemuOf, lv2_patch_bdvdemu_460dex, lv2_unpatch_bdvdemu_460dex, MacrosOf
  <2>2. MacrosOf("460dex") = Macros_460dex
    BY DEF MacrosOf
  <2>3. Macros_460dex.esize = \h118
    BY DEF Macros_460dex, Macros
  <2>4. \A n \in SlotNumbers : n * Macros_460dex.esize < \h116C
    BY SMT, <2>3, SlotsAssumption
  <2>5. Scanned(Macros_460dex, \h116C) = SlotNumbers
    BY <2>4 DEF Scanned
  <2> QED
    BY SMT, <1>17, <2>1, <2>2, <2>5
<1>18. CASE f = "470"
  <2>1. BdemuIs("470", \h116C)
    BY SMT DEF BdemuIs, PatchBdvdemuOf, UnpatchBdvdemuOf, lv2_patch_bdvdemu_470, lv2_unpatch_bdvdemu_470, MacrosOf
  <2>2. MacrosOf("470") = Macros_470
    BY DEF MacrosOf
  <2>3. Macros_470.esize = \h118
    BY DEF Macros_470, Macros
  <2>4. \A n \in SlotNumbers : n * Macros_470.esize < \h116C
    BY SMT, <2>3, SlotsAssumption
  <2>5. Scanned(Macros_470, \h116C) = SlotNumbers
    BY <2>4 DEF Scanned
  <2> QED
    BY SMT, <1>18, <2>1, <2>2, <2>5
<1>19. CASE f = "470dex"
  <2>1. BdemuIs("470dex", \h116C)
    BY SMT DEF BdemuIs, PatchBdvdemuOf, UnpatchBdvdemuOf, lv2_patch_bdvdemu_470dex, lv2_unpatch_bdvdemu_470dex, MacrosOf
  <2>2. MacrosOf("470dex") = Macros_470dex
    BY DEF MacrosOf
  <2>3. Macros_470dex.esize = \h118
    BY DEF Macros_470dex, Macros
  <2>4. \A n \in SlotNumbers : n * Macros_470dex.esize < \h116C
    BY SMT, <2>3, SlotsAssumption
  <2>5. Scanned(Macros_470dex, \h116C) = SlotNumbers
    BY <2>4 DEF Scanned
  <2> QED
    BY SMT, <1>19, <2>1, <2>2, <2>5
<1>20. CASE f = "475"
  <2>1. BdemuIs("475", \h116C)
    BY SMT DEF BdemuIs, PatchBdvdemuOf, UnpatchBdvdemuOf, lv2_patch_bdvdemu_475, lv2_unpatch_bdvdemu_475, MacrosOf
  <2>2. MacrosOf("475") = Macros_475
    BY DEF MacrosOf
  <2>3. Macros_475.esize = \h118
    BY DEF Macros_475, Macros
  <2>4. \A n \in SlotNumbers : n * Macros_475.esize < \h116C
    BY SMT, <2>3, SlotsAssumption
  <2>5. Scanned(Macros_475, \h116C) = SlotNumbers
    BY <2>4 DEF Scanned
  <2> QED
    BY SMT, <1>20, <2>1, <2>2, <2>5
<1>21. CASE f = "475dex"
  <2>1. BdemuIs("475dex", \h116C)
    BY SMT DEF BdemuIs, PatchBdvdemuOf, UnpatchBdvdemuOf, lv2_patch_bdvdemu_475dex, lv2_unpatch_bdvdemu_475dex, MacrosOf
  <2>2. MacrosOf("475dex") = Macros_475dex
    BY DEF MacrosOf
  <2>3. Macros_475dex.esize = \h118
    BY DEF Macros_475dex, Macros
  <2>4. \A n \in SlotNumbers : n * Macros_475dex.esize < \h116C
    BY SMT, <2>3, SlotsAssumption
  <2>5. Scanned(Macros_475dex, \h116C) = SlotNumbers
    BY <2>4 DEF Scanned
  <2> QED
    BY SMT, <1>21, <2>1, <2>2, <2>5
<1> QED
  BY FirmsAre, <1>1, <1>2, <1>3, <1>4, <1>5, <1>6, <1>7, <1>8, <1>9, <1>10,
     <1>11, <1>12, <1>13, <1>14, <1>15, <1>16, <1>17, <1>18, <1>19, <1>20,
     <1>21

\* load_payload of f is the generic one with these words.
LoadIs(f, lent, vectored, pieces, insns, pairs, hyper) ==
    \A kk : LoadOf(f, kk) = LoadPayload(kk, MacrosOf(f), lent, vectored, pieces, insns, pairs, hyper)

\* The words a payload lends for its copy are addresses.
LEMMA LentWords ==
  ASSUME NEW f \in Firms
  PROVE  OwnSyscall(MacrosOf(f)) \in SUBSET Int /\ Routine9(MacrosOf(f)) \in SUBSET Int
<1>1. Words(MacrosOf(f).entry, 8) \in SUBSET Int /\ Words(MacrosOf(f).base + 72, 2) \in SUBSET Int
      /\ Words(\h1820, 24) \in SUBSET Int
  <2>1. MacrosOf(f).entry \in Int /\ MacrosOf(f).base + 72 \in Int
    BY MacrosFacts
  <2> QED
    BY <2>1, WordsAreInts
<1> QED
  BY <1>1 DEF OwnSyscall, Routine9

\* Words that make load_payload of f the generic one witness that there are
\* such.
LEMMA LoadExists ==
  ASSUME NEW f, NEW lent \in SUBSET Int, NEW pieces \in SUBSET Int, NEW insns \in SUBSET Int,
         NEW pairs \in SUBSET Int, NEW hyper \in SUBSET Int, NEW vectored \in BOOLEAN,
         SK1E \notin pieces, LoadIs(f, lent, vectored, pieces, insns, pairs, hyper)
  PROVE  \E l, p, i, r, h \in SUBSET Int, v \in BOOLEAN :
            SK1E \notin p /\ LoadIs(f, l, v, p, i, r, h)
  OBVIOUS

\* Each of the twenty-one copies of load_payload is the generic one, and writes
\* the mark of the payload last.
LEMMA LoadRegular ==
  ASSUME NEW f \in Firms
  PROVE  \E l, p, i, r, h \in SUBSET Int, v \in BOOLEAN :
            SK1E \notin p /\ LoadIs(f, l, v, p, i, r, h)
<1>1. CASE f = "341"
  <2> DEFINE lent == OwnSyscall(Macros_341)
             pieces == {\h7E0000, \h50B50}
             insns == {\h282204}
             pairs == {\h2821FC, \h17CE0}
             hyper == {}
  <2>1. LoadIs("341", lent, FALSE, pieces, insns, pairs, hyper)
    BY SMT DEF LoadIs, LoadOf, load_payload_341, MacrosOf
  <2>2. pieces \in SUBSET Int /\ insns \in SUBSET Int /\ pairs \in SUBSET Int /\ hyper \in SUBSET Int
    BY SMT
  <2>3. SK1E \notin pieces
    BY SMT DEF SK1E
  <2>4. lent \in SUBSET Int
    <3>1. MacrosOf("341") = Macros_341
      BY DEF MacrosOf
    <3> QED
      BY <1>1, <3>1, LentWords
  <2> HIDE DEF lent, pieces, insns, pairs, hyper
  <2> QED
    BY <1>1, <2>1, <2>2, <2>3, <2>4, LoadExists
<1>2. CASE f = "355"
  <2> DEFINE lent == OwnSyscall(Macros_355)
             pieces == {\hEF48, \hF348}
             insns == {\h55F14, \h55F1C, \h7AF68, \h7AF7C, \h2B3298, \h28A40C, \hE7F0}
             pairs == {\h55EA0, \h55F64, \h28A404}
             hyper == {}
  <2>1. LoadIs("355", lent, TRUE, pieces, insns, pairs, hyper)
    BY SMT DEF LoadIs, LoadOf, load_payload_355, MacrosOf
  <2>2. pieces \in SUBSET Int /\ insns \in SUBSET Int /\ pairs \in SUBSET Int /\ hyper \in SUBSET Int
    BY SMT
  <2>3. SK1E \notin pieces
    BY SMT DEF SK1E
  <2>4. lent \in SUBSET Int
    <3>1. MacrosOf("355") = Macros_355
      BY DEF MacrosOf
    <3> QED
      BY <1>2, <3>1, LentWords
  <2> HIDE DEF lent, pieces, insns, pairs, hyper
  <2> QED
    BY <1>2, <2>1, <2>2, <2>3, <2>4, LoadExists
<1>3. CASE f = "355dex"
  <2> DEFINE lent == OwnSyscall(Macros_355dex)
             pieces == {\hF590, \hF990}
             insns == {\h59800, \h59808, \h7EF60, \h7EF74, \h59854, \h59858, \h2909F0,
                 \h2C8AB8, \hEE38}
             pairs == {\h5978C, \h2909E8}
             hyper == {}
  <2>1. LoadIs("355dex", lent, TRUE, pieces, insns, pairs, hyper)
    BY SMT DEF LoadIs, LoadOf, load_payload_355dex, MacrosOf
  <2>2. pieces \in SUBSET Int /\ insns \in SUBSET Int /\ pairs \in SUBSET Int /\ hyper \in SUBSET Int
    BY SMT
  <2>3. SK1E \notin pieces
    BY SMT DEF SK1E
  <2>4. lent \in SUBSET Int
    <3>1. MacrosOf("355dex") = Macros_355dex
      BY DEF MacrosOf
    <3> QED
      BY <1>3, <3>1, LentWords
  <2> HIDE DEF lent, pieces, insns, pairs, hyper
  <2> QED
    BY <1>3, <2>1, <2>2, <2>3, <2>4, LoadExists
<1>4. CASE f = "421"
  <2> DEFINE lent == OwnSyscall(Macros_421)
             pieces == {\h3D90, \h4190}
             insns == {\h57094, \h5709C, \h5AA58, \h5AA6C, \h570E8, \h570EC, \h296270,
                 \h2C257C, \h3560}
             pairs == {\h57020, \h296268}
             hyper == {\h370A28, \h370A30, \h370A38, \h370A40}
  <2>1. LoadIs("421", lent, TRUE, pieces, insns, pairs, hyper)
    BY SMT DEF LoadIs, LoadOf, load_payload_421, MacrosOf
  <2>2. pieces \in SUBSET Int /\ insns \in SUBSET Int /\ pairs \in SUBSET Int /\ hyper \in SUBSET Int
    BY SMT
  <2>3. SK1E \notin pieces
    BY SMT DEF SK1E
  <2>4. lent \in SUBSET Int
    <3>1. MacrosOf("421") = Macros_421
      BY DEF MacrosOf
    <3> QED
      BY <1>4, <3>1, LentWords
  <2> HIDE DEF lent, pieces, insns, pairs, hyper
  <2> QED
    BY <1>4, <2>1, <2>2, <2>3, <2>4, LoadExists
<1>5. CASE f = "421dex"
  <2> DEFINE lent == OwnSyscall(Macros_421dex)
             pieces == {\h3D90, \h4190}
             insns == {\h5A9AC, \h5A9B4, \h5E370, \h5E384, \h5AA00, \h5AA04, \h29C8CC,
                 \h2D973C, \h3560}
             pairs == {\h5A938, \h29C8C4}
             hyper == {\h370A28, \h370A30, \h370A38, \h370A40}
  <2>1. LoadIs("421dex", lent, TRUE, pieces, insns, pairs, hyper)
    BY SMT DEF LoadIs, LoadOf, load_payload_421dex, MacrosOf
  <2>2. pieces \in SUBSET Int /\ insns \in SUBSET Int /\ pairs \in SUBSET Int /\ hyper \in SUBSET Int
    BY SMT
  <2>3. SK1E \notin pieces
    BY SMT DEF SK1E
  <2>4. lent \in SUBSET Int
    <3>1. MacrosOf("421dex") = Macros_421dex
      BY DEF MacrosOf
    <3> QED
      BY <1>5, <3>1, LentWords
  <2> HIDE DEF lent, pieces, insns, pairs, hyper
  <2> QED
    BY <1>5, <2>1, <2>2, <2>3, <2>4, LoadExists
<1>6. CASE f = "430"
  <2> DEFINE lent == OwnSyscall(Macros_430)
             pieces == {\h3D90, \h4190}
             insns == {\h571E4, \h571EC, \h5ABA8, \h5ABBC, \h57238, \h5723C, \h2979E4,
                 \h2C3CF8, \h2C3CD4, \h3560}
             pairs == {\h57170, \h2979DC}
             hyper == {\h370AA8, \h370AB0, \h370AB8, \h370AC0}
  <2>1. LoadIs("430", lent, TRUE, pieces, insns, pairs, hyper)
    BY SMT DEF LoadIs, LoadOf, load_payload_430, MacrosOf
  <2>2. pieces \in SUBSET Int /\ insns \in SUBSET Int /\ pairs \in SUBSET Int /\ hyper \in SUBSET Int
    BY SMT
  <2>3. SK1E \notin pieces
    BY SMT DEF SK1E
  <2>4. lent \in SUBSET Int
    <3>1. MacrosOf("430") = Macros_430
      BY DEF MacrosOf
    <3> QED
      BY <1>6, <3>1, LentWords
  <2> HIDE DEF lent, pieces, insns, pairs, hyper
  <2> QED
    BY <1>6, <2>1, <2>2, <2>3, <2>4, LoadExists
<1>7. CASE f = "430dex"
  <2> DEFINE lent == OwnSyscall(Macros_430dex)
             pieces == {\h3D90, \h4190}
             insns == {\h5AAFC, \h5AB00, \h5E4C0, \h5E4D4, \h5AB50, \h5AB54, \h29E040,
                 \h2DAE70, \h3560}
             pairs == {\h37E048, \h1500, \h5AA88, \h29E038}
             hyper == {\h370AA8, \h370AB0, \h370AB8, \h370AC0}
  <2>1. LoadIs("430dex", lent, TRUE, pieces, insns, pairs, hyper)
    BY SMT DEF LoadIs, LoadOf, load_payload_430dex, MacrosOf
  <2>2. pieces \in SUBSET Int /\ insns \in SUBSET Int /\ pairs \in SUBSET Int /\ hyper \in SUBSET Int
    BY SMT
  <2>3. SK1E \notin pieces
    BY SMT DEF SK1E
  <2>4. lent \in SUBSET Int
    <3>1. MacrosOf("430dex") = Macros_430dex
      BY DEF MacrosOf
    <3> QED
      BY <1>7, <3>1, LentWords
  <2> HIDE DEF lent, pieces, insns, pairs, hyper
  <2> QED
    BY <1>7, <2>1, <2>2, <2>3, <2>4, LoadExists
<1>8. CASE f = "431"
  <2> DEFINE lent == Routine9(Macros_431)
             pieces == {\h171C, \h3D90, \h4190}
             insns == {\h571E8, \h571F0, \h5ABAC, \h5ABC0, \h5723C, \h57240, \h2979EC,
                 \h2C3D04, \h3560}
             pairs == {\h57174, \h2979E4, \h35DC28, \h35DC30}
             hyper == {}
  <2>1. LoadIs("431", lent, TRUE, pieces, insns, pairs, hyper)
    BY SMT DEF LoadIs, LoadOf, load_payload_431, MacrosOf
  <2>2. pieces \in SUBSET Int /\ insns \in SUBSET Int /\ pairs \in SUBSET Int /\ hyper \in SUBSET Int
    BY SMT
  <2>3. SK1E \notin pieces
    BY SMT DEF SK1E
  <2>4. lent \in SUBSET Int
    <3>1. MacrosOf("431") = Macros_431
      BY DEF MacrosOf
    <3> QED
      BY <1>8, <3>1, LentWords
  <2> HIDE DEF lent, pieces, insns, pairs, hyper
  <2> QED
    BY <1>8, <2>1, <2>2, <2>3, <2>4, LoadExists
<1>9. CASE f = "440"
  <2> DEFINE lent == Routine9(Macros_440)
             pieces == {\h171C, \h3D90, \h4190}
             insns == {\h56130, \h56138, \h59AF4, \h59B08, \h5614C, \h56184, \h55FD8,
                 \h56208, \h561FC, \h296DF4, \h2C42A8, \h3560}
             pairs == {\h560BC, \h296DEC, \h2C428C, \h35E2A8, \h35E2B0}
             hyper == {}
  <2>1. LoadIs("440", lent, TRUE, pieces, insns, pairs, hyper)
    BY SMT DEF LoadIs, LoadOf, load_payload_440, MacrosOf
  <2>2. pieces \in SUBSET Int /\ insns \in SUBSET Int /\ pairs \in SUBSET Int /\ hyper \in SUBSET Int
    BY SMT
  <2>3. SK1E \notin pieces
    BY SMT DEF SK1E
  <2>4. lent \in SUBSET Int
    <3>1. MacrosOf("440") = Macros_440
      BY DEF MacrosOf
    <3> QED
      BY <1>9, <3>1, LentWords
  <2> HIDE DEF lent, pieces, insns, pairs, hyper
  <2> QED
    BY <1>9, <2>1, <2>2, <2>3, <2>4, LoadExists
<1>10. CASE f = "441"
  <2> DEFINE lent == OwnSyscall(Macros_441)
             pieces == {\h3D90, \h4190}
             insns == {\h56134, \h5613C, \h59AF8, \h59B0C, \h56188, \h5618C, \h296DFC,
                 \h2C42B4, \h2C4290, \h3560}
             pairs == {\h560C0, \h296DF4}
             hyper == {\h370AA8, \h370AB0, \h370AB8, \h370AC0}
  <2>1. LoadIs("441", lent, TRUE, pieces, insns, pairs, hyper)
    BY SMT DEF LoadIs, LoadOf, load_payload_441, MacrosOf
  <2>2. pieces \in SUBSET Int /\ insns \in SUBSET Int /\ pairs \in SUBSET Int /\ hyper \in SUBSET Int
    BY SMT
  <2>3. SK1E \notin pieces
    BY SMT DEF SK1E
  <2>4. lent \in SUBSET Int
    <3>1. MacrosOf("441") = Macros_441
      BY DEF MacrosOf
    <3> QED
      BY <1>10, <3>1, LentWords
  <2> HIDE DEF lent, pieces, insns, pairs, hyper
  <2> QED
    BY <1>10, <2>1, <2>2, <2>3, <2>4, LoadExists
<1>11. CASE f = "446"
  <2> DEFINE lent == OwnSyscall(Macros_446)
             pieces == {\h3D90, \h4190}
             insns == {\h56134, \h5613C, \h59AF8, \h59B0C, \h56188, \h5618C, \h29731C,
                 \h2C47D4, \h2C47B0, \h3560}
             pairs == {\h560C0, \h297314, \h2C47B8}
             hyper == {\h370AA8, \h370AB0, \h370AB8, \h370AC0}
  <2>1. LoadIs("446", lent, TRUE, pieces, insns, pairs, hyper)
    BY SMT DEF LoadIs, LoadOf, load_payload_446, MacrosOf
  <2>2. pieces \in SUBSET Int /\ insns \in SUBSET Int /\ pairs \in SUBSET Int /\ hyper \in SUBSET Int
    BY SMT
  <2>3. SK1E \notin pieces
    BY SMT DEF SK1E
  <2>4. lent \in SUBSET Int
    <3>1. MacrosOf("446") = Macros_446
      BY DEF MacrosOf
    <3> QED
      BY <1>11, <3>1, LentWords
  <2> HIDE DEF lent, pieces, insns, pairs, hyper
  <2> QED
    BY <1>11, <2>1, <2>2, <2>3, <2>4, LoadExists
<1>12. CASE f = "450"
  <2> DEFINE lent == OwnSyscall(Macros_450)
             pieces == {\h3D90, \h4190}
             insns == {\h56130, \h56138, \h59AF4, \h59B08, \h56184, \h56188, \h26F628,
                 \h29DD44, \h29DD20, \h3560}
             pairs == {\h560BC, \h26F620}
             hyper == {\h370AA8, \h370AB0, \h370AB8, \h370AC0}
  <2>1. LoadIs("450", lent, TRUE, pieces, insns, pairs, hyper)
    BY SMT DEF LoadIs, LoadOf, load_payload_450, MacrosOf
  <2>2. pieces \in SUBSET Int /\ insns \in SUBSET Int /\ pairs \in SUBSET Int /\ hyper \in SUBSET Int
    BY SMT
  <2>3. SK1E \notin pieces
    BY SMT DEF SK1E
  <2>4. lent \in SUBSET Int
    <3>1. MacrosOf("450") = Macros_450
      BY DEF MacrosOf
    <3> QED
      BY <1>12, <3>1, LentWords
  <2> HIDE DEF lent, pieces, insns, pairs, hyper
  <2> QED
    BY <1>12, <2>1, <2>2, <2>3, <2>4, LoadExists
<1>13. CASE f = "450dex"
  <2> DEFINE lent == OwnSyscall(Macros_450dex)
             pieces == {\h3D90, \h4190}
             insns == {\h59B00, \h59B08, \h5D4C4, \h5D4D8, \h59B54, \h275D44, \h2B820C,
                 \h3560}
             pairs == {\h59A8C, \h275D3C}
             hyper == {\h370AA8, \h370AB0, \h370AB8, \h370AC0}
  <2>1. LoadIs("450dex", lent, TRUE, pieces, insns, pairs, hyper)
    BY SMT DEF LoadIs, LoadOf, load_payload_450dex, MacrosOf
  <2>2. pieces \in SUBSET Int /\ insns \in SUBSET Int /\ pairs \in SUBSET Int /\ hyper \in SUBSET Int
    BY SMT
  <2>3. SK1E \notin pieces
    BY SMT DEF SK1E
  <2>4. lent \in SUBSET Int
    <3>1. MacrosOf("450dex") = Macros_450dex
      BY DEF MacrosOf
    <3> QED
      BY <1>13, <3>1, LentWords
  <2> HIDE DEF lent, pieces, insns, pairs, hyper
  <2> QED
    BY <1>13, <2>1, <2>2, <2>3, <2>4, LoadExists
<1>14. CASE f = "453"
  <2> DEFINE lent == OwnSyscall(Macros_453)
             pieces == {\h3D90, \h4190}
             insns == {\h56134, \h5613C, \h59AF8, \h59B0C, \h56188, \h5618C, \h26F7FC,
                 \h29DF1C, \h29DEF8, \h3560}
             pairs == {\h560C0, \h26F7F4}
             hyper == {\h370AA8, \h370AB0, \h370AB8, \h370AC0}
  <2>1. LoadIs("453", lent, TRUE, pieces, insns, pairs, hyper)
    BY SMT DEF LoadIs, LoadOf, load_payload_453, MacrosOf
  <2>2. pieces \in SUBSET Int /\ insns \in SUBSET Int /\ pairs \in SUBSET Int /\ hyper \in SUBSET Int
    BY SMT
  <2>3. SK1E \notin pieces
    BY SMT DEF SK1E
  <2>4. lent \in SUBSET Int
    <3>1. MacrosOf("453") = Macros_453
      BY DEF MacrosOf
    <3> QED
      BY <1>14, <3>1, LentWords
  <2> HIDE DEF lent, pieces, insns, pairs, hyper
  <2> QED
    BY <1>14, <2>1, <2>2, <2>3, <2>4, LoadExists
<1>15. CASE f = "455"
  <2> DEFINE lent == OwnSyscall(Macros_455)
             pieces == {\h3D90, \h4190}
             insns == {\h563F4, \h563FC, \h5A2F0, \h56448, \h56414, \h26F7FC, \h29F76C,
                 \h29F748, \h3560}
             pairs == {\h56380, \h26F7F4, \h27103C, \h271044}
             hyper == {\h370F28, \h370F30, \h370F38, \h370F40}
  <2>1. LoadIs("455", lent, TRUE, pieces, insns, pairs, hyper)
    BY SMT DEF LoadIs, LoadOf, load_payload_455, MacrosOf
  <2>2. pieces \in SUBSET Int /\ insns \in SUBSET Int /\ pairs \in SUBSET Int /\ hyper \in SUBSET Int
    BY SMT
  <2>3. SK1E \notin pieces
    BY SMT DEF SK1E
  <2>4. lent \in SUBSET Int
    <3>1. MacrosOf("455") = Macros_455
      BY DEF MacrosOf
    <3> QED
      BY <1>15, <3>1, LentWords
  <2> HIDE DEF lent, pieces, insns, pairs, hyper
  <2> QED
    BY <1>15, <2>1, <2>2, <2>3, <2>4, LoadExists
<1>16. CASE f = "460deh"
  <2> DEFINE lent == OwnSyscall(Macros_460deh)
             pieces == {\h3D90, \h4190}
             insns == {\h5A3B4, \h5A3BC, \h5E410, \h5E424, \h5A408, \h2771C4, \h2D1488,
                 \h3560}
             pairs == {\h59FE4, \h23740C, \h5A340, \h2771BC}
             hyper == {}
  <2>1. LoadIs("460deh", lent, TRUE, pieces, insns, pairs, hyper)
    BY SMT DEF LoadIs, LoadOf, load_payload_460deh, MacrosOf
  <2>2. pieces \in SUBSET Int /\ insns \in SUBSET Int /\ pairs \in SUBSET Int /\ hyper \in SUBSET Int
    BY SMT
  <2>3. SK1E \notin pieces
    BY SMT DEF SK1E
  <2>4. lent \in SUBSET Int
    <3>1. MacrosOf("460deh") = Macros_460deh
      BY DEF MacrosOf
    <3> QED
      BY <1>16, <3>1, LentWords
  <2> HIDE DEF lent, pieces, insns, pairs, hyper
  <2> QED
    BY <1>16, <2>1, <2>2, <2>3, <2>4, LoadExists
<1>17. CASE f = "460dex"
  <2> DEFINE lent == OwnSyscall(Macros_460dex)
             pieces == {\h3D90, \h4190}
             insns == {\h59FCC, \h59FD4, \h5E028, \h5E03C, \h5A020, \h5A024, \h2764FC,
                 \h2BB028, \h2BB004, \h3560}
             pairs == {\h59BFC, \h2367C4, \h59F58, \h2764F4}
             hyper == {}
  <2>1. LoadIs("460dex", lent, TRUE, pieces, insns, pairs, hyper)
    BY SMT DEF LoadIs, LoadOf, load_payload_460dex, MacrosOf
  <2>2. pieces \in SUBSET Int /\ insns \in SUBSET Int /\ pairs \in SUBSET Int /\ hyper \in SUBSET Int
    BY SMT
  <2>3. SK1E \notin pieces
    BY SMT DEF SK1E
  <2>4. lent \in SUBSET Int
    <3>1. MacrosOf("460dex") = Macros_460dex
      BY DEF MacrosOf
    <3> QED
      BY <1>17, <3>1, LentWords
  <2> HIDE DEF lent, pieces, insns, pairs, hyper
  <2> QED
    BY <1>17, <2>1, <2>2, <2>3, <2>4, LoadExists
<1>18. CASE f = "470"
  <2> DEFINE lent == OwnSyscall(Macros_470)
             pieces == {\h3D90, \h4190}
             insns == {\h565FC, \h56604, \h5A6E0, \h5A6F4, \h56650, \h2670E4, \h2975E4,
                 \h3560}
             pairs == {\h5622C, \h2275EC, \h56588, \h2670DC}
             hyper == {}
  <2>1. LoadIs("470", lent, TRUE, pieces, insns, pairs, hyper)
    BY SMT DEF LoadIs, LoadOf, load_payload_470, MacrosOf
  <2>2. pieces \in SUBSET Int /\ insns \in SUBSET Int /\ pairs \in SUBSET Int /\ hyper \in SUBSET Int
    BY SMT
  <2>3. SK1E \notin pieces
    BY SMT DEF SK1E
  <2>4. lent \in SUBSET Int
    <3>1. MacrosOf("470") = Macros_470
      BY DEF MacrosOf
    <3> QED
      BY <1>18, <3>1, LentWords
  <2> HIDE DEF lent, pieces, insns, pairs, hyper
  <2> QED
    BY <1>18, <2>1, <2>2, <2>3, <2>4, LoadExists
<1>19. CASE f = "470dex"
  <2> DEFINE lent == OwnSyscall(Macros_470dex)
             pieces == {\h3D90, \h4190}
             insns == {\h59FCC, \h59FD4, \h5E0B0, \h5E0C4, \h5A020, \h26D800, \h2B24A4,
                 \h3560}
             pairs == {\h59BFC, \h22DAC8, \h59F58, \h26D7F8}
             hyper == {}
  <2>1. LoadIs("470dex", lent, TRUE, pieces, insns, pairs, hyper)
    BY SMT DEF LoadIs, LoadOf, load_payload_470dex, MacrosOf
  <2>2. pieces \in SUBSET Int /\ insns \in SUBSET Int /\ pairs \in SUBSET Int /\ hyper \in SUBSET Int
    BY SMT
  <2>3. SK1E \notin pieces
    BY SMT DEF SK1E
  <2>4. lent \in SUBSET Int
    <3>1. MacrosOf("470dex") = Macros_470dex
      BY DEF MacrosOf
    <3> QED
      BY <1>19, <3>1, LentWords
  <2> HIDE DEF lent, pieces, insns, pairs, hyper
  <2> QED
    BY <1>19, <2>1, <2>2, <2>3, <2>4, LoadExists
<1>20. CASE f = "475"
  <2> DEFINE lent == OwnSyscall(Macros_475)
             pieces == {\h3D90, \h4190}
             insns == {\h56600, \h56608, \h5A6E4, \h5A6F8, \h56654, \h56658, \h267158,
                 \h29765C, \h3560}
             pairs == {\h56230, \h2275F4, \h5658C, \h267150}
             hyper == {}
  <2>1. LoadIs("475", lent, TRUE, pieces, insns, pairs, hyper)
    BY SMT DEF LoadIs, LoadOf, load_payload_475, MacrosOf
  <2>2. pieces \in SUBSET Int /\ insns \in SUBSET Int /\ pairs \in SUBSET Int /\ hyper \in SUBSET Int
    BY SMT
  <2>3. SK1E \notin pieces
    BY SMT DEF SK1E
  <2>4. lent \in SUBSET Int
    <3>1. MacrosOf("475") = Macros_475
      BY DEF MacrosOf
    <3> QED
      BY <1>20, <3>1, LentWords
  <2> HIDE DEF lent, pieces, insns, pairs, hyper
  <2> QED
    BY <1>20, <2>1, <2>2, <2>3, <2>4, LoadExists
<1>21. CASE f = "475dex"
  <2> DEFINE lent == OwnSyscall(Macros_475dex)
             pieces == {\h3D90, \h4190}
             insns == {\h59FD0, \h59FD8, \h5E0B4, \h5E0C8, \h5A024, \h26D874, \h2B251C,
                 \h3560}
             pairs == {\h59C00, \h22DAD0, \h59F5C, \h26D86C}
             hyper == {}
  <2>1. LoadIs("475dex", lent, TRUE, pieces, insns, pairs, hyper)
    BY SMT DEF LoadIs, LoadOf, load_payload_475dex, MacrosOf
  <2>2. pieces \in SUBSET Int /\ insns \in SUBSET Int /\ pairs \in SUBSET Int /\ hyper \in SUBSET Int
    BY SMT
  <2>3. SK1E \notin pieces
    BY SMT DEF SK1E
  <2>4. lent \in SUBSET Int
    <3>1. MacrosOf("475dex") = Macros_475dex
      BY DEF MacrosOf
    <3> QED
      BY <1>21, <3>1, LentWords
  <2> HIDE DEF lent, pieces, insns, pairs, hyper
  <2> QED
    BY <1>21, <2>1, <2>2, <2>3, <2>4, LoadExists
<1> QED
  BY FirmsAre, <1>1, <1>2, <1>3, <1>4, <1>5, <1>6, <1>7, <1>8, <1>9, <1>10,
     <1>11, <1>12, <1>13, <1>14, <1>15, <1>16, <1>17, <1>18, <1>19, <1>20,
     <1>21
\* No two firmwares have their syscall table at the same address.
LEMMA EntriesDiffer ==
  ASSUME NEW f \in Firms, NEW g \in Firms, MacrosOf(f).entry = MacrosOf(g).entry
  PROVE  f = g
<1>1. MacrosOf("341").entry = \h1BB93C
  <2>1. MacrosOf("341") = Macros_341
    BY DEF MacrosOf
  <2> QED
    BY SMT, <2>1 DEF Macros_341, Macros
<1>2. MacrosOf("355").entry = \h195A68
  <2>1. MacrosOf("355") = Macros_355
    BY DEF MacrosOf
  <2> QED
    BY SMT, <2>1 DEF Macros_355, Macros
<1>3. MacrosOf("355dex").entry = \h19BE24
  <2>1. MacrosOf("355dex") = Macros_355dex
    BY DEF MacrosOf
  <2> QED
    BY SMT, <2>1 DEF Macros_355dex, Macros
<1>4. MacrosOf("421").entry = \h1B65C8
  <2>1. MacrosOf("421") = Macros_421
    BY DEF MacrosOf
  <2> QED
    BY SMT, <2>1 DEF Macros_421, Macros
<1>5. MacrosOf("421dex").entry = \h1BC9B8
  <2>1. MacrosOf("421dex") = Macros_421dex
    BY DEF MacrosOf
  <2> QED
    BY SMT, <2>1 DEF Macros_421dex, Macros
<1>6. MacrosOf("430").entry = \h1B6950
  <2>1. MacrosOf("430") = Macros_430
    BY DEF MacrosOf
  <2> QED
    BY SMT, <2>1 DEF Macros_430, Macros
<1>7. MacrosOf("430dex").entry = \h1510
  <2>1. MacrosOf("430dex") = Macros_430dex
    BY DEF MacrosOf
  <2> QED
    BY SMT, <2>1 DEF Macros_430dex, Macros
<1>8. MacrosOf("431").entry = \h1B6958
  <2>1. MacrosOf("431") = Macros_431
    BY DEF MacrosOf
  <2> QED
    BY SMT, <2>1 DEF Macros_431, Macros
<1>9. MacrosOf("440").entry = \h1B5934
  <2>1. MacrosOf("440") = Macros_440
    BY DEF MacrosOf
  <2> QED
    BY SMT, <2>1 DEF Macros_440, Macros
<1>10. MacrosOf("441").entry = \h1B593C
  <2>1. MacrosOf("441") = Macros_441
    BY DEF MacrosOf
  <2> QED
    BY SMT, <2>1 DEF Macros_441, Macros
<1>11. MacrosOf("446").entry = \h1B5B9C
  <2>1. MacrosOf("446") = Macros_446
    BY DEF MacrosOf
  <2> QED
    BY SMT, <2>1 DEF Macros_446, Macros
<1>12. MacrosOf("450").entry = \h1A6C78
  <2>1. MacrosOf("450") = Macros_450
    BY DEF MacrosOf
  <2> QED
    BY SMT, <2>1 DEF Macros_450, Macros
<1>13. MacrosOf("450dex").entry = \h1AD128
  <2>1. MacrosOf("450dex") = Macros_450dex
    BY DEF MacrosOf
  <2> QED
    BY SMT, <2>1 DEF Macros_450dex, Macros
<1>14. MacrosOf("453").entry = \h1A6DE0
  <2>1. MacrosOf("453") = Macros_453
    BY DEF MacrosOf
  <2> QED
    BY SMT, <2>1 DEF Macros_453, Macros
<1>15. MacrosOf("455").entry = \h1A82CC
  <2>1. MacrosOf("455") = Macros_455
    BY DEF MacrosOf
  <2> QED
    BY SMT, <2>1 DEF Macros_455, Macros
<1>16. MacrosOf("460deh").entry = \h1AE034
  <2>1. MacrosOf("460deh") = Macros_460deh
    BY DEF MacrosOf
  <2> QED
    BY SMT, <2>1 DEF Macros_460deh, Macros
<1>17. MacrosOf("460dex").entry = \h1AD3EC
  <2>1. MacrosOf("460dex") = Macros_460dex
    BY DEF MacrosOf
  <2> QED
    BY SMT, <2>1 DEF Macros_460dex, Macros
<1>18. MacrosOf("470").entry = \h2A1408
  <2>1. MacrosOf("470") = Macros_470
    BY DEF MacrosOf
  <2> QED
    BY SMT, <2>1 DEF Macros_470, Macros
<1>19. MacrosOf("470dex").entry = \h2BC5AC
  <2>1. MacrosOf("470dex") = Macros_470dex
    BY DEF MacrosOf
  <2> QED
    BY SMT, <2>1 DEF Macros_470dex, Macros
<1>20. MacrosOf("475").entry = \h2A1480
  <2>1. MacrosOf("475") = Macros_475
    BY DEF MacrosOf
  <2> QED
    BY SMT, <2>1 DEF Macros_475, Macros
<1>21. MacrosOf("475dex").entry = \h2BC624
  <2>1. MacrosOf("475dex") = Macros_475dex
    BY DEF MacrosOf
  <2> QED
    BY SMT, <2>1 DEF Macros_475dex, Macros
<1> QED
  BY SMT, FirmsAre, <1>1, <1>2, <1>3, <1>4, <1>5, <1>6, <1>7, <1>8, <1>9,
     <1>10, <1>11, <1>12, <1>13, <1>14, <1>15, <1>16, <1>17, <1>18, <1>19,
     <1>20, <1>21

\* is_firm_* of a firmware compares with the symbols of that firmware.
LEMMA IsFirmIs ==
  ASSUME NEW f \in Firms, NEW kk
  PROVE  IsFirm(f, kk) <=> HasSymbol(kk, MacrosOf(f))
<1>1. IsFirm("341", kk) <=> HasSymbol(kk, MacrosOf("341"))
  BY SMT DEF IsFirm, is_firm_341, MacrosOf
<1>2. IsFirm("355", kk) <=> HasSymbol(kk, MacrosOf("355"))
  BY SMT DEF IsFirm, is_firm_355, MacrosOf
<1>3. IsFirm("355dex", kk) <=> HasSymbol(kk, MacrosOf("355dex"))
  BY SMT DEF IsFirm, is_firm_355dex, MacrosOf
<1>4. IsFirm("421", kk) <=> HasSymbol(kk, MacrosOf("421"))
  BY SMT DEF IsFirm, is_firm_421, MacrosOf
<1>5. IsFirm("421dex", kk) <=> HasSymbol(kk, MacrosOf("421dex"))
  BY SMT DEF IsFirm, is_firm_421dex, MacrosOf
<1>6. IsFirm("430", kk) <=> HasSymbol(kk, MacrosOf("430"))
  BY SMT DEF IsFirm, is_firm_430, MacrosOf
<1>7. IsFirm("430dex", kk) <=> HasSymbol(kk, MacrosOf("430dex"))
  BY SMT DEF IsFirm, is_firm_430dex, MacrosOf
<1>8. IsFirm("431", kk) <=> HasSymbol(kk, MacrosOf("431"))
  BY SMT DEF IsFirm, is_firm_431, MacrosOf
<1>9. IsFirm("440", kk) <=> HasSymbol(kk, MacrosOf("440"))
  BY SMT DEF IsFirm, is_firm_440, MacrosOf
<1>10. IsFirm("441", kk) <=> HasSymbol(kk, MacrosOf("441"))
  BY SMT DEF IsFirm, is_firm_441, MacrosOf
<1>11. IsFirm("446", kk) <=> HasSymbol(kk, MacrosOf("446"))
  BY SMT DEF IsFirm, is_firm_446, MacrosOf
<1>12. IsFirm("450", kk) <=> HasSymbol(kk, MacrosOf("450"))
  BY SMT DEF IsFirm, is_firm_450, MacrosOf
<1>13. IsFirm("450dex", kk) <=> HasSymbol(kk, MacrosOf("450dex"))
  BY SMT DEF IsFirm, is_firm_450dex, MacrosOf
<1>14. IsFirm("453", kk) <=> HasSymbol(kk, MacrosOf("453"))
  BY SMT DEF IsFirm, is_firm_453, MacrosOf
<1>15. IsFirm("455", kk) <=> HasSymbol(kk, MacrosOf("455"))
  BY SMT DEF IsFirm, is_firm_455, MacrosOf
<1>16. IsFirm("460deh", kk) <=> HasSymbol(kk, MacrosOf("460deh"))
  BY SMT DEF IsFirm, is_firm_460deh, MacrosOf
<1>17. IsFirm("460dex", kk) <=> HasSymbol(kk, MacrosOf("460dex"))
  BY SMT DEF IsFirm, is_firm_460dex, MacrosOf
<1>18. IsFirm("470", kk) <=> HasSymbol(kk, MacrosOf("470"))
  BY SMT DEF IsFirm, is_firm_470, MacrosOf
<1>19. IsFirm("470dex", kk) <=> HasSymbol(kk, MacrosOf("470dex"))
  BY SMT DEF IsFirm, is_firm_470dex, MacrosOf
<1>20. IsFirm("475", kk) <=> HasSymbol(kk, MacrosOf("475"))
  BY SMT DEF IsFirm, is_firm_475, MacrosOf
<1>21. IsFirm("475dex", kk) <=> HasSymbol(kk, MacrosOf("475dex"))
  BY SMT DEF IsFirm, is_firm_475dex, MacrosOf
<1> QED
  BY FirmsAre, <1>1, <1>2, <1>3, <1>4, <1>5, <1>6, <1>7, <1>8, <1>9, <1>10,
     <1>11, <1>12, <1>13, <1>14, <1>15, <1>16, <1>17, <1>18, <1>19, <1>20,
     <1>21

\* The detection finds the firmware of the console, whatever is in the kernel.
LEMMA DetectedIs ==
  ASSUME NEW c \in Firms, NEW kk,
         kk.symbol = <<MacrosOf(c).base, MacrosOf(c).call, MacrosOf(c).entry>>
  PROVE  Detected(kk) = c
<1>1. PICK i \in 1..21 : c = Order[i]
  BY DEF Firms
<1>2. DOMAIN Order = 1..21
  BY DEF Order
<1>3. \A j, l \in 1..21 : Order[j] = Order[l] => j = l
  BY SMT DEF Order
<1>4. \A j \in 1..21 : Order[j] \in Firms
  BY DEF Firms
<1>5. ASSUME NEW j \in 1..21, IsFirm(Order[j], kk) PROVE j = i
  <2>1. HasSymbol(kk, MacrosOf(Order[j]))
    BY <1>4, <1>5, IsFirmIs
  <2>2. MacrosOf(Order[j]).entry = MacrosOf(c).entry
    BY <2>1 DEF HasSymbol
  <2>3. Order[j] = c
    BY <1>4, <2>2, EntriesDiffer
  <2> QED
    BY <1>1, <1>3, <2>3
<1>6. IsFirm(Order[i], kk)
  <2>1. HasSymbol(kk, MacrosOf(c))
    BY DEF HasSymbol
  <2> QED
    BY <1>1, <2>1, IsFirmIs
<1>7. {j \in DOMAIN Order : IsFirm(Order[j], kk)} = {i}
  BY <1>2, <1>5, <1>6
<1>8. Min({i}) = i
  BY DEF Min
<1> QED
  BY <1>1, <1>7, <1>8 DEF Detected

\* The answer of is_payload_loaded_*: the kernel is left as it is, or syscall 8
\* is led to the payload that is there.
Led(kk) == [kk EXCEPT !.restore = kk.vector, !.vector = "sk1e"]

\* is_payload_loaded_* answers what it finds: it changes nothing but syscall 8,
\* says zero only when no payload is there and names a payload only when one
\* is.
LEMMA PayloadLoadedIs ==
  ASSUME NEW f \in Firms, NEW kk, kk.console = f, kk.alien \in {"none", "wanin", "sys36"}
  PROVE  LET r == PayloadLoaded(f, kk)
         IN  /\ r.kernel = kk \/ r.kernel = Led(kk)
             /\ r.mode \in {"zero", "hermes", "sky10", "wanin", "sys36"}
             /\ r.mode = "zero" => r.kernel = kk /\ ~Loaded(kk)
             /\ r.mode \in {"hermes", "sky10"} => Loaded(kk)
<1> DEFINE Answers(r) ==
             /\ r.kernel = kk \/ r.kernel = Led(kk)
             /\ r.mode \in {"zero", "hermes", "sky10", "wanin", "sys36"}
             /\ r.mode = "zero" => r.kernel = kk /\ ~Loaded(kk)
             /\ r.mode \in {"hermes", "sky10"} => Loaded(kk)
<1>a. f = "341" => Answers(HermesLoaded(kk))
  BY DEF HermesLoaded, Loaded
<1>b. f # "341" => Answers(Sk1eLoaded(kk))
  BY DEF Sk1eLoaded, Loaded, Led
<1>c. f # "341" => Answers(Sk1eLoaded355(kk))
  BY <1>b DEF Sk1eLoaded355
<1> HIDE DEF Answers
<1>1. PayloadLoaded("341", kk) = HermesLoaded(kk)
  BY SMT DEF PayloadLoaded, is_payload_loaded_341
<1>2. PayloadLoaded("355", kk) = Sk1eLoaded355(kk)
  BY SMT DEF PayloadLoaded, is_payload_loaded_355
<1>3. PayloadLoaded("355dex", kk) = Sk1eLoaded(kk)
  BY SMT DEF PayloadLoaded, is_payload_loaded_355dex
<1>4. PayloadLoaded("421", kk) = Sk1eLoaded(kk)
  BY SMT DEF PayloadLoaded, is_payload_loaded_421
<1>5. PayloadLoaded("421dex", kk) = Sk1eLoaded(kk)
  BY SMT DEF PayloadLoaded, is_payload_loaded_421dex
<1>6. PayloadLoaded("430", kk) = Sk1eLoaded(kk)
  BY SMT DEF PayloadLoaded, is_payload_loaded_430
<1>7. PayloadLoaded("430dex", kk) = Sk1eLoaded(kk)
  BY SMT DEF PayloadLoaded, is_payload_loaded_430dex
<1>8. PayloadLoaded("431", kk) = Sk1eLoaded(kk)
  BY SMT DEF PayloadLoaded, is_payload_loaded_431
<1>9. PayloadLoaded("440", kk) = Sk1eLoaded(kk)
  BY SMT DEF PayloadLoaded, is_payload_loaded_440
<1>10. PayloadLoaded("441", kk) = Sk1eLoaded(kk)
  BY SMT DEF PayloadLoaded, is_payload_loaded_441
<1>11. PayloadLoaded("446", kk) = Sk1eLoaded(kk)
  BY SMT DEF PayloadLoaded, is_payload_loaded_446
<1>12. PayloadLoaded("450", kk) = Sk1eLoaded(kk)
  BY SMT DEF PayloadLoaded, is_payload_loaded_450
<1>13. PayloadLoaded("450dex", kk) = Sk1eLoaded(kk)
  BY SMT DEF PayloadLoaded, is_payload_loaded_450dex
<1>14. PayloadLoaded("453", kk) = Sk1eLoaded(kk)
  BY SMT DEF PayloadLoaded, is_payload_loaded_453
<1>15. PayloadLoaded("455", kk) = Sk1eLoaded(kk)
  BY SMT DEF PayloadLoaded, is_payload_loaded_455
<1>16. PayloadLoaded("460deh", kk) = Sk1eLoaded(kk)
  BY SMT DEF PayloadLoaded, is_payload_loaded_460deh
<1>17. PayloadLoaded("460dex", kk) = Sk1eLoaded(kk)
  BY SMT DEF PayloadLoaded, is_payload_loaded_460dex
<1>18. PayloadLoaded("470", kk) = Sk1eLoaded(kk)
  BY SMT DEF PayloadLoaded, is_payload_loaded_470
<1>19. PayloadLoaded("470dex", kk) = Sk1eLoaded(kk)
  BY SMT DEF PayloadLoaded, is_payload_loaded_470dex
<1>20. PayloadLoaded("475", kk) = Sk1eLoaded(kk)
  BY SMT DEF PayloadLoaded, is_payload_loaded_475
<1>21. PayloadLoaded("475dex", kk) = Sk1eLoaded(kk)
  BY SMT DEF PayloadLoaded, is_payload_loaded_475dex
<1>22. Answers(PayloadLoaded(f, kk))
  BY FirmsAre, <1>a, <1>b, <1>c, <1>1, <1>2, <1>3, <1>4, <1>5, <1>6, <1>7,
     <1>8, <1>9, <1>10, <1>11, <1>12, <1>13, <1>14, <1>15, <1>16, <1>17,
     <1>18, <1>19, <1>20, <1>21
<1> QED
  BY <1>22 DEF Answers
-----------------------------------------------------------------------------
(* Slots and their names. *)

\* The least slot of a set is one of it.
LEMMA MinIsIn ==
  ASSUME NEW S \in SUBSET (0..15), S # {}
  PROVE  Min(S) \in S /\ \A y \in S : Min(S) =< y
<1>1. IsWellFoundedOn(OpToRel(<, Nat), Nat)
  BY NatLessThanWellFounded
<1>2. S \subseteq Nat
  OBVIOUS
<1>3. PICK x \in S : \A y \in S : ~(<<y, x>> \in OpToRel(<, Nat))
  BY <1>1, <1>2, WFMin
<1>4. \A y \in S : x =< y
  <2> TAKE y \in S
  <2>1. <<y, x>> \notin OpToRel(<, Nat)
    BY <1>3
  <2>2. ~(y < x)
    BY <1>2, <2>1 DEF OpToRel
  <2>3. x \in Nat /\ y \in Nat
    BY <1>2
  <2> QED
    BY <2>2, <2>3
<1> QED
  BY <1>4 DEF Min

\* The USB devices are none of the fixed ones.
LEMMA UsbFacts ==
  /\ UsbDevices \subseteq {"MASS_STORAGE000", "MASS_STORAGE001"}
  /\ \A u \in Units : Mass(u) \in UsbDevices /\ Mass(u) \in Devices \ Fixed /\ DevUsb(u) \in MountNames
                      /\ DevUsb(u) # "dev_bdvd"
  BY UnitsAssumption DEF UsbDevices, Mass, DevUsb, Devices, Fixed, MountNames

\* The name a device of each kind has of its own.
LEMMA OwnNamesAre ==
  /\ OwnNames("HDD0") = {"dev_hdd0"} /\ OwnNames("FLASH") = {"dev_flash"}
  /\ OwnNames("HDD1") = {"dev_bdvd"} /\ OwnNames("PATA0_BDVD_DRIVE") = {"dev_bdvd"}
  /\ OwnNames("BDVD_DRIVE") = {"dev_ps2disc"} /\ OwnNames("none") = {""}
  /\ \A u \in Units : OwnNames(Mass(u)) = {DevUsb(u)}
<1>1. "HDD0" \notin UsbDevices /\ "FLASH" \notin UsbDevices /\ "HDD1" \notin UsbDevices
      /\ "PATA0_BDVD_DRIVE" \notin UsbDevices /\ "BDVD_DRIVE" \notin UsbDevices /\ "none" \notin UsbDevices
  BY UsbFacts
<1>2. ASSUME NEW u \in Units PROVE OwnNames(Mass(u)) = {DevUsb(u)}
  <2>1. OwnNames(Mass(u)) = {DevUsb(v) : v \in {v \in Units : Mass(v) = Mass(u)}}
    BY UsbFacts DEF OwnNames
  <2>2. \A v \in Units : Mass(v) = Mass(u) => DevUsb(v) = DevUsb(u)
    BY UnitsAssumption DEF Mass, DevUsb
  <2> QED
    BY <2>1, <2>2
<1>3. OwnNames("HDD0") = {"dev_hdd0"}
  BY <1>1 DEF OwnNames
<1>4. OwnNames("FLASH") = {"dev_flash"}
  BY <1>1 DEF OwnNames
<1>5. OwnNames("HDD1") = {"dev_bdvd"}
  BY <1>1 DEF OwnNames
<1>6. OwnNames("PATA0_BDVD_DRIVE") = {"dev_bdvd"}
  BY <1>1 DEF OwnNames
<1>7. OwnNames("BDVD_DRIVE") = {"dev_ps2disc"}
  BY <1>1 DEF OwnNames
<1>8. OwnNames("none") = {""}
  BY <1>1 DEF OwnNames
<1> QED
  BY <1>2, <1>3, <1>4, <1>5, <1>6, <1>7, <1>8

\* Only the disc, the cache disc, a stick and a copy can be dev_bdvd.
LEMMA OwnFacts ==
  ASSUME NEW s \in Slots, Own(s)
  PROVE  /\ s.name = "dev_bdvd" => s.dev \in {"HDD1", "PATA0_BDVD_DRIVE"}
         /\ s.dev \in {"HDD1", "PATA0_BDVD_DRIVE"} => s.name = "dev_bdvd"
         /\ s.dev = "BDVD_DRIVE" => s.name = "dev_ps2disc"
         /\ s.dev = "HDD0" => s.name = "dev_hdd0"
         /\ ~Copy(s)
<1>1. ASSUME s.dev \in UsbDevices PROVE s.name # "dev_bdvd"
  <2>1. PICK u \in Units : s.dev = Mass(u)
    BY <1>1 DEF UsbDevices
  <2>2. OwnNames(Mass(u)) = {DevUsb(u)}
    BY OwnNamesAre
  <2>3. s.name \in OwnNames(Mass(u))
    BY <2>1 DEF Own
  <2>4. s.name = DevUsb(u)
    BY <2>2, <2>3
  <2> QED
    BY <2>4, UsbFacts
<1>2. s.dev \in Fixed \/ s.dev \in UsbDevices
  BY DEF Slots, Devices
<1>3. s.old = "" /\ s.name \in OwnNames(s.dev)
  BY DEF Own
<1>4. ASSUME s.dev \in Fixed
      PROVE  /\ s.name = "dev_bdvd" => s.dev \in {"HDD1", "PATA0_BDVD_DRIVE"}
             /\ s.dev \in {"HDD1", "PATA0_BDVD_DRIVE"} => s.name = "dev_bdvd"
             /\ s.dev = "BDVD_DRIVE" => s.name = "dev_ps2disc"
             /\ s.dev = "HDD0" => s.name = "dev_hdd0"
  BY <1>3, <1>4, OwnNamesAre DEF Fixed
<1>5. s.dev \in UsbDevices => s.dev \notin Fixed
  BY UsbFacts DEF Fixed
<1> QED
  BY <1>1, <1>2, <1>3, <1>4, <1>5 DEF Copy, Fixed
-----------------------------------------------------------------------------
(* What leaves the words of the kernel alone, but for the umount syscall.  *)

\* What holds of a kernel whatever the phase.
Kn(kk) == kk \in Kernels /\ RightSymbol(kk) /\ TableSound(kk) /\ SavedSound(kk) /\ Alone(kk)

\* r is kk but for the table, what is kept of a slot and the umount syscall,
\* which is hooked when and only when something is kept by the step.
Quiet(kk, r) ==
    /\ r.console = kk.console /\ r.alien = kk.alien /\ r.symbol = kk.symbol /\ r.lv1 = kk.lv1
    /\ r.vector = kk.vector /\ r.restore = kk.restore /\ r.saves = kk.saves
    /\ LET u == {MacrosOf(kk.console).umount}
       IN  \/ r.lv2 = kk.lv2 /\ (kk.saved # NotSaved => r.saved # NotSaved)
           \/ r.lv2 = Poke(kk.lv2, u, "shipped") /\ r.saved = NotSaved
           \/ r.lv2 = Poke(kk.lv2, u, "hook") /\ r.saved # NotSaved

\* The words once the storage is given back.
GivenBack(kk) == UnpatchStorageOf(kk.console, kk, TRUE)

\* r is kk as far as what is found after the session goes.
Calm(kk, r) ==
    /\ r.console = kk.console /\ r.alien = kk.alien /\ r.symbol = kk.symbol
    /\ r.vector = kk.vector /\ r.restore = kk.restore /\ r.saves = kk.saves
    /\ Loaded(kk) <=> Loaded(r)
    /\ OwnWords(kk) => OwnWords(r)
    /\ OwnWords(GivenBack(kk)) => OwnWords(GivenBack(r))

\* The fields of a kernel.
LEMMA FieldsOf ==
  ASSUME NEW kk \in Kernels
  PROVE  /\ kk.console \in Firms /\ kk.lv2 \in Memories /\ kk.lv1 \in Memories
         /\ kk.table \in [SlotNumbers -> Slots] /\ kk.saved.slot \in Slots
         /\ kk.saves \in Seq(Contents) /\ (kk.saves # << >> => Len(kk.saves) = 5) /\ kk.alien \in {"none", "wanin", "sys36"}
         /\ kk.vector \in Vectors /\ kk.restore \in Vectors \union {"none"}
         /\ kk.saved.umount \in Int /\ kk.saved.at \in Int
  BY DEF Kernels, Saves

\* A quiet step changes the umount syscall and no other word.
LEMMA QuietLv2 ==
  ASSUME NEW kk \in Kernels, NEW r \in Kernels, Quiet(kk, r)
  PROVE  /\ \A a : a # MacrosOf(kk.console).umount => Peek(r.lv2, a) = Peek(kk.lv2, a)
         /\ \A a : a \in DOMAIN r.lv2 /\ a # MacrosOf(kk.console).umount => a \in DOMAIN kk.lv2
         /\ MacrosOf(kk.console).umount \in DOMAIN r.lv2 =>
               MacrosOf(kk.console).umount \in DOMAIN kk.lv2 \/ r.saved # NotSaved
<1> DEFINE u == MacrosOf(kk.console).umount
<1>1. u \in Int /\ {u} \in SUBSET Int /\ kk.lv2 \in Memories
  BY FieldsOf, MacrosFacts
<1>2. "shipped" \in Contents /\ "hook" \in Contents
  BY DEF Contents
<1> DEFINE o == Poke(kk.lv2, {u}, "shipped")
           h == Poke(kk.lv2, {u}, "hook")
<1>a. Poked(kk.lv2, {u}, "shipped") /\ Poked(kk.lv2, {u}, "hook")
  BY <1>1, <1>2, PokeOne
<1>3. /\ DOMAIN o = DOMAIN kk.lv2 \ {u}
      /\ \A a : Peek(o, a) = IF a = u THEN "shipped" ELSE Peek(kk.lv2, a)
  BY <1>a DEF Poked
<1>4. /\ DOMAIN h = DOMAIN kk.lv2 \union {u}
      /\ \A a : Peek(h, a) = IF a = u THEN "hook" ELSE Peek(kk.lv2, a)
  BY <1>a DEF Poked
<1>5. r.lv2 = kk.lv2 \/ r.lv2 = o \/ (r.lv2 = h /\ r.saved # NotSaved)
  BY DEF Quiet
<1> HIDE DEF o, h, u
<1>6. /\ \A a : a # u => Peek(r.lv2, a) = Peek(kk.lv2, a)
      /\ \A a : a \in DOMAIN r.lv2 /\ a # u => a \in DOMAIN kk.lv2
      /\ u \in DOMAIN r.lv2 => u \in DOMAIN kk.lv2 \/ r.saved # NotSaved
  BY <1>3, <1>4, <1>5
<1> QED
  BY <1>6 DEF u

\* The same with the storage given back: its word is not the umount syscall.
LEMMA QuietIsCalm ==
  ASSUME NEW kk \in Kernels, NEW r \in Kernels, Quiet(kk, r)
  PROVE  Calm(kk, r)
<1> DEFINE f == kk.console
           u == MacrosOf(f).umount
           B1(x) == DOMAIN LoadOf(x.console, Fresh(x.console, x.alien)).lv1
           B2(x) == DOMAIN LoadOf(x.console, Fresh(x.console, x.alien)).lv2
<1>1. f \in Firms
  BY FieldsOf
<1>2. PICK a2 \in Int, a1 \in [1..4 -> Int] : a2 > \h4F0 /\ a2 # u /\ StorageIs(f, a2, a1)
  BY <1>1, StorageRegular
<1>3. u \in Int /\ u > \h4F0
  BY <1>1, MacrosFacts
<1>4. /\ r.console = f /\ r.alien = kk.alien /\ r.symbol = kk.symbol /\ r.lv1 = kk.lv1
      /\ r.vector = kk.vector /\ r.restore = kk.restore /\ r.saves = kk.saves
  BY DEF Quiet
<1>5. /\ \A a : a # u => Peek(r.lv2, a) = Peek(kk.lv2, a)
      /\ \A a : a \in DOMAIN r.lv2 /\ a # u => a \in DOMAIN kk.lv2
      /\ u \in DOMAIN r.lv2 => u \in DOMAIN kk.lv2 \/ r.saved # NotSaved
  BY QuietLv2
<1>6. Loaded(kk) <=> Loaded(r)
  <2>1. SK1E # u
    BY <1>3, SMT DEF SK1E
  <2> QED
    BY <1>4, <1>5, <2>1 DEF Loaded
<1>7. kk.saved = NotSaved \/ r.saved # NotSaved \/ r.lv2 = Poke(kk.lv2, {u}, "shipped")
  BY DEF Quiet
<1>8. r.lv2 = Poke(kk.lv2, {u}, "shipped") => u \notin DOMAIN r.lv2
  <2>1. kk.lv2 \in Memories /\ {u} \in SUBSET Int /\ "shipped" \in Contents
    BY <1>3, FieldsOf DEF Contents
  <2>2. Poked(kk.lv2, {u}, "shipped")
    BY <1>3, <2>1, PokeOne
  <2> QED
    BY <2>2 DEF Poked
<1>9. B1(r) = B1(kk) /\ B2(r) = B2(kk)
  BY <1>4
<1>10. ASSUME OwnWords(kk) PROVE OwnWords(r)
  <2>1. DOMAIN r.lv1 \subseteq B1(r) \union Protection
    BY <1>4, <1>9, <1>10 DEF OwnWords
  <2>2. DOMAIN kk.lv2 \subseteq B2(kk) \union (IF kk.saved = NotSaved THEN {} ELSE {u})
    BY <1>10 DEF OwnWords
  <2> HIDE DEF B1, B2, u
  <2>3. DOMAIN r.lv2 \subseteq B2(r) \union (IF r.saved = NotSaved THEN {} ELSE {u})
    BY <1>5, <1>7, <1>8, <1>9, <2>2
  <2> QED
    BY <1>4, <2>1, <2>3 DEF OwnWords, B1, B2, u
<1>11. GivenBack(kk) = UnpatchStorage(kk, TRUE, a2, a1) /\ GivenBack(r) = UnpatchStorage(r, TRUE, a2, a1)
  <2>1. \A kk1 : UnpatchStorageOf(f, kk1, TRUE) = UnpatchStorage(kk1, TRUE, a2, a1)
    <3>1. StorageIs(f, a2, a1)
      BY <1>2
    <3> HIDE DEF f
    <3> QED
      BY Zenon, <3>1 DEF StorageIs
  <2> QED
    BY <1>4, <2>1 DEF GivenBack
<1>12. CASE kk.saves = << >>
  <2>1. GivenBack(kk) = kk /\ GivenBack(r) = r
    BY <1>4, <1>11, <1>12 DEF UnpatchStorage
  <2> QED
    BY <1>4, <1>6, <1>10, <2>1 DEF Calm
<1>13. CASE kk.saves # << >>
  <2> DEFINE lv1s(x) == Poke(Poke(Poke(Poke(x.lv1, {a1[1]}, x.saves[2]), {a1[2]}, x.saves[3]),
                                   {a1[3]}, x.saves[4]), {a1[4]}, x.saves[5])
             G(x) == [x EXCEPT !.lv2 = Poke(@, {a2}, x.saves[1]), !.lv1 = lv1s(x)]
  <2>1. GivenBack(kk) = G(kk) /\ GivenBack(r) = G(r)
    BY <1>4, <1>11, <1>13 DEF UnpatchStorage
  <2>2. lv1s(r) = lv1s(kk)
    BY <1>4
  <2> HIDE DEF lv1s
  <2>3. \A x \in Kernels : /\ G(x).console = x.console /\ G(x).alien = x.alien /\ G(x).saved = x.saved
                           /\ G(x).lv1 = lv1s(x) /\ G(x).lv2 = Poke(x.lv2, {a2}, x.saves[1])
    BY DEF Kernels
  <2> HIDE DEF G
  <2> DEFINE v == kk.saves[1]
             q == Poke(kk.lv2, {a2}, v)
             p == Poke(r.lv2, {a2}, v)
  <2>4. v \in Contents
    <3>1. kk.saves \in Seq(Contents)
      BY FieldsOf
    <3> QED
      BY <1>13, <3>1
  <2>5. kk.lv2 \in Memories /\ r.lv2 \in Memories /\ {a2} \in SUBSET Int
    BY FieldsOf
  <2>a. Poked(kk.lv2, {a2}, v) /\ Poked(r.lv2, {a2}, v)
    BY <2>4, <2>5, PokeOne
  <2>6. DOMAIN q = IF v = "shipped" THEN DOMAIN kk.lv2 \ {a2} ELSE DOMAIN kk.lv2 \union {a2}
    BY <2>a DEF Poked
  <2>7. DOMAIN p = IF v = "shipped" THEN DOMAIN r.lv2 \ {a2} ELSE DOMAIN r.lv2 \union {a2}
    BY <2>a DEF Poked
  <2>8. G(kk).lv2 = q /\ G(r).lv2 = p
    BY <1>4, <2>3
  <2>9. B1(G(kk)) = B1(kk) /\ B2(G(kk)) = B2(kk) /\ B1(G(r)) = B1(r) /\ B2(G(r)) = B2(r)
    BY <2>3
  <2> HIDE DEF B1, B2, u, p, q, v, f
  <2>10. ASSUME OwnWords(G(kk)) PROVE OwnWords(G(r))
    <3>1. DOMAIN lv1s(kk) \subseteq B1(kk) \union Protection
      BY <2>3, <2>9, <2>10 DEF OwnWords, B1
    <3>2. DOMAIN q \subseteq B2(kk) \union (IF kk.saved = NotSaved THEN {} ELSE {u})
      BY <2>3, <2>8, <2>9, <2>10 DEF OwnWords, B2, u, f
    <3>3. DOMAIN p \subseteq B2(r) \union (IF r.saved = NotSaved THEN {} ELSE {u})
      <4>1. \A a : a \in DOMAIN p /\ a # u => a \in DOMAIN q
        BY <1>5, <2>6, <2>7
      <4>2. u \in DOMAIN p => u \in DOMAIN r.lv2
        BY <1>2, <2>7
      <4>3. u \in DOMAIN kk.lv2 => u \in DOMAIN q
        BY <1>2, <2>6
      <4>4. u \in DOMAIN p /\ r.saved = NotSaved => u \in B2(kk)
        BY <1>5, <1>7, <1>8, <3>2, <4>2, <4>3
      <4> QED
        BY <1>9, <3>2, <4>1, <4>4
    <3>4. DOMAIN G(r).lv1 \subseteq B1(G(r)) \union Protection
      BY <1>9, <2>2, <2>3, <2>9, <3>1
    <3>5. MacrosOf(G(r).console).umount = u /\ G(r).saved = r.saved
      BY <1>4, <2>3 DEF u, f
    <3> QED
      BY <2>8, <2>9, <3>3, <3>4, <3>5 DEF OwnWords, B1, B2
  <2> QED
    BY <1>4, <1>6, <1>10, <2>1, <2>10 DEF Calm, f
<1> QED
  BY <1>12, <1>13
-----------------------------------------------------------------------------
(* Mounts and umounts. *)

\* A mount changes nothing, or one free slot.
LEMMA MountIs ==
  ASSUME NEW kk \in Kernels, NEW dev, NEW name
  PROVE  \/ Mount(kk, dev, name) = kk
         \/ /\ \A n \in SlotNumbers : kk.table[n].name # name
            /\ \E n \in SlotNumbers :
                  /\ kk.table[n] = Free
                  /\ Mount(kk, dev, name) = [kk EXCEPT !.table[n] = Mounted(dev, name)]
<1> DEFINE free == {n \in SlotNumbers : kk.table[n] = Free}
<1>1. CASE name \in Names(kk) \/ free = {}
  BY <1>1 DEF Mount
<1>2. CASE ~(name \in Names(kk) \/ free = {})
  <2>1. free \in SUBSET (0..15) /\ free # {}
    BY <1>2, SlotsAssumption
  <2> HIDE DEF free
  <2>2. Min(free) \in free
    BY <2>1, MinIsIn
  <2>3. Mount(kk, dev, name) = [kk EXCEPT !.table[Min(free)] = Mounted(dev, name)]
    BY <1>2 DEF Mount, free
  <2>4. \A n \in SlotNumbers : kk.table[n].name # name
    BY <1>2 DEF Names
  <2> QED
    BY <2>2, <2>3, <2>4 DEF free
<1> QED
  BY <1>1, <1>2

\* A mount changes the table only.
LEMMA MountFields ==
  ASSUME NEW kk \in Kernels, NEW n \in SlotNumbers, NEW s \in Slots
  PROVE  LET r == [kk EXCEPT !.table[n] = s]
         IN  /\ r \in Kernels
             /\ r.table = [kk.table EXCEPT ![n] = s]
             /\ r.saved = kk.saved /\ r.lv2 = kk.lv2 /\ r.console = kk.console
             /\ r.symbol = kk.symbol /\ Quiet(kk, r)
<1> DEFINE t == [kk.table EXCEPT ![n] = s]
           r == [kk EXCEPT !.table[n] = s]
<1>1. t \in [SlotNumbers -> Slots]
  BY FieldsOf
<1>2. r = [kk EXCEPT !.table = t]
  BY DEF Kernels
<1> HIDE DEF t, r
<1>3. r \in Kernels
  BY <1>1, <1>2 DEF Kernels
<1>4. /\ r.console = kk.console /\ r.alien = kk.alien /\ r.symbol = kk.symbol /\ r.lv1 = kk.lv1
      /\ r.vector = kk.vector /\ r.restore = kk.restore /\ r.saves = kk.saves
      /\ r.saved = kk.saved /\ r.lv2 = kk.lv2 /\ r.table = t
  BY <1>2 DEF Kernels
<1> QED
  BY <1>3, <1>4 DEF Quiet, r, t

\* A device that can be mounted under the name: it is its own, and the device
\* is nowhere else when there is one of it.
Mountable(kk, dev, name) ==
    /\ dev \in Devices /\ name \in MountNames /\ name \in OwnNames(dev)
    /\ dev \in Singles => \A n \in SlotNumbers : kk.table[n].dev # dev
    /\ dev = "HDD1" => kk.saved = NotSaved
    /\ dev # "HDD0"

\* What a mount leaves of the table: the names come once.
LEMMA MountSound ==
  ASSUME NEW kk, Kn(kk), NEW dev, NEW name, Mountable(kk, dev, name)
  PROVE  LET r == Mount(kk, dev, name)
         IN  /\ Kn(r) /\ Calm(kk, r)
             /\ r.saved = kk.saved /\ r.lv2 = kk.lv2
             /\ \A n \in SlotNumbers : \/ r.table[n] = kk.table[n]
                                       \/ r.table[n] = Mounted(dev, name)
             /\ r.table = kk.table \/ \E n \in SlotNumbers :
                   /\ r.table[n] = Mounted(dev, name) /\ kk.table[n] = Free
                   /\ \A m \in SlotNumbers : kk.table[m].name # name
                   /\ \A m \in SlotNumbers \ {n} : r.table[m] = kk.table[m]
<1> DEFINE r == Mount(kk, dev, name)
           s == Mounted(dev, name)
<1>1. kk \in Kernels /\ RightSymbol(kk) /\ TableSound(kk) /\ SavedSound(kk) /\ Alone(kk)
  BY DEF Kn
<1>2. s \in Slots /\ Own(s) /\ s.dev = dev /\ s.name = name /\ ~Copy(s)
  <2>1. s = [dev |-> dev, name |-> name, old |-> ""]
    BY DEF Mounted
  <2>2. dev \in Devices /\ name \in MountNames /\ name \in OwnNames(dev) /\ dev # "HDD0"
    BY DEF Mountable
  <2> HIDE DEF s
  <2>3. s \in Slots
    BY <2>1, <2>2 DEF Slots, OldNames
  <2>4. s.dev = dev /\ s.name = name /\ s.old = ""
    BY <2>1
  <2> QED
    BY <2>2, <2>3, <2>4 DEF Own, Copy
<1>3. CASE r = kk
  <2>1. Quiet(kk, kk)
    BY DEF Quiet
  <2>2. Calm(kk, kk)
    BY <1>1, <2>1, QuietIsCalm
  <2> QED
    BY <1>3, <2>2
<1>4. CASE r # kk
  <2>1. PICK n \in SlotNumbers : kk.table[n] = Free /\ r = [kk EXCEPT !.table[n] = s]
    BY <1>1, <1>4, MountIs
  <2>2. \A m \in SlotNumbers : kk.table[m].name # name
    BY <1>1, <1>4, MountIs
  <2> HIDE DEF r, s
  <2>3. /\ r \in Kernels /\ r.table = [kk.table EXCEPT ![n] = s]
        /\ r.saved = kk.saved /\ r.lv2 = kk.lv2 /\ r.console = kk.console
        /\ r.symbol = kk.symbol /\ Quiet(kk, r)
    BY <1>1, <1>2, <2>1, MountFields
  <2>4. r.table[n] = s /\ \A m \in SlotNumbers : m # n => r.table[m] = kk.table[m]
    BY <1>1, <2>3, FieldsOf
  <2>5. Calm(kk, r)
    BY <1>1, <2>3, QuietIsCalm
  <2>6. RightSymbol(r)
    BY <1>1, <2>3 DEF RightSymbol
  <2>7. TableSound(r)
    BY <1>1, <1>2, <2>3, <2>4 DEF TableSound
  <2>8. SavedSound(r)
    <3>1. Loaded(kk) => Loaded(r)
      BY <2>5 DEF Calm
    <3>2. dev = "HDD1" => r.saved = NotSaved
      BY <2>3 DEF Mountable
    <3>3. \A m \in SlotNumbers : r.table[m].dev = kk.table[m].dev \/ r.table[m].dev = dev
      BY <1>2, <2>4
    <3> QED
      BY <1>1, <2>3, <3>1, <3>2, <3>3 DEF SavedSound
  <2>9. Alone(r)
    <3>1. dev \in Singles => \A m \in SlotNumbers : kk.table[m].dev # dev
      BY DEF Mountable
    <3> SUFFICES ASSUME NEW l \in SlotNumbers, NEW m \in SlotNumbers, l # m
                 PROVE  /\ r.table[l].dev = r.table[m].dev => r.table[l].dev \notin Singles
                        /\ ~(Copy(r.table[l]) /\ Copy(r.table[m]))
      BY DEF Alone
    <3>2. /\ kk.table[l].dev = kk.table[m].dev => kk.table[l].dev \notin Singles
          /\ ~(Copy(kk.table[l]) /\ Copy(kk.table[m]))
      BY <1>1 DEF Alone
    <3> QED
      BY <1>2, <2>4, <3>1, <3>2
  <2>10. Kn(r)
    BY <2>3, <2>6, <2>7, <2>8, <2>9 DEF Kn
  <2> QED
    BY <2>1, <2>2, <2>3, <2>4, <2>5, <2>10 DEF r, s
<1> QED
  BY <1>3, <1>4
\* The free slot.
LEMMA FreeFacts == Free \in Slots /\ Own(Free) /\ ~Copy(Free) /\ Free.dev = "none" /\ Free.name = "" /\ "none" \notin Singles
<1>1. Free.dev = "none" /\ Free.name = "" /\ Free.old = ""
  BY DEF Free
<1>2. "none" \notin Singles
  BY UsbFacts DEF Singles
<1>3. Own(Free)
  BY <1>1, OwnNamesAre DEF Own
<1>4. Free \in Slots
  BY DEF Free, Slots, Devices, Fixed, MountNames, OldNames
<1> QED
  BY <1>1, <1>2, <1>3, <1>4 DEF Copy

\* A new table for a kernel.
LEMMA TableFields ==
  ASSUME NEW kk \in Kernels, NEW t \in [SlotNumbers -> Slots]
  PROVE  LET r == [kk EXCEPT !.table = t]
         IN  /\ r \in Kernels /\ r.table = t /\ r.saved = kk.saved /\ r.lv2 = kk.lv2
             /\ r.console = kk.console /\ r.alien = kk.alien /\ r.symbol = kk.symbol /\ r.lv1 = kk.lv1
             /\ r.vector = kk.vector /\ r.restore = kk.restore /\ r.saves = kk.saves
             /\ Quiet(kk, r)
<1> DEFINE r == [kk EXCEPT !.table = t]
<1>1. r \in Kernels
  BY DEF Kernels
<1>2. /\ r.console = kk.console /\ r.alien = kk.alien /\ r.symbol = kk.symbol /\ r.lv1 = kk.lv1
      /\ r.vector = kk.vector /\ r.restore = kk.restore /\ r.saves = kk.saves
      /\ r.saved = kk.saved /\ r.lv2 = kk.lv2 /\ r.table = t
  BY DEF Kernels
<1> QED
  BY <1>1, <1>2 DEF Quiet

\* Slots that become free disturb nothing.
LEMMA FreedSound ==
  ASSUME NEW kk, Kn(kk), NEW t \in [SlotNumbers -> Slots],
         \A n \in SlotNumbers : t[n] = kk.table[n] \/ t[n] = Free
  PROVE  LET r == [kk EXCEPT !.table = t]
         IN  Kn(r) /\ Calm(kk, r) /\ r.saved = kk.saved /\ r.lv2 = kk.lv2 /\ r.table = t
<1> DEFINE r == [kk EXCEPT !.table = t]
<1>1. kk \in Kernels /\ RightSymbol(kk) /\ TableSound(kk) /\ SavedSound(kk) /\ Alone(kk)
  BY DEF Kn
<1>2. /\ r \in Kernels /\ r.table = t /\ r.saved = kk.saved /\ r.lv2 = kk.lv2
      /\ r.console = kk.console /\ r.symbol = kk.symbol /\ Quiet(kk, r)
  BY <1>1, TableFields
<1> HIDE DEF r
<1>3. Calm(kk, r)
  BY <1>1, <1>2, QuietIsCalm
<1>4. RightSymbol(r)
  BY <1>1, <1>2 DEF RightSymbol
<1>5. TableSound(r)
  BY <1>1, <1>2, FreeFacts DEF TableSound
<1>6. SavedSound(r)
  <2>1. Loaded(kk) => Loaded(r)
    BY <1>3 DEF Calm
  <2> QED
    BY <1>1, <1>2, <2>1, FreeFacts DEF SavedSound
<1>7. Alone(r)
  <2> SUFFICES ASSUME NEW l \in SlotNumbers, NEW m \in SlotNumbers, l # m
               PROVE  /\ t[l].dev = t[m].dev => t[l].dev \notin Singles
                      /\ ~(Copy(t[l]) /\ Copy(t[m]))
    BY <1>2 DEF Alone
  <2>1. /\ kk.table[l].dev = kk.table[m].dev => kk.table[l].dev \notin Singles
        /\ ~(Copy(kk.table[l]) /\ Copy(kk.table[m]))
    BY <1>1 DEF Alone
  <2> QED
    BY <2>1, FreeFacts
<1> QED
  BY <1>2, <1>3, <1>4, <1>5, <1>6, <1>7 DEF Kn, r

\* The routine of the hooked syscall.
LEMMA RoutineIs ==
  ASSUME NEW kk, Kn(kk), kk.saved # NotSaved
  PROVE  LET r == UmountRoutine(kk, MacrosOf(kk.console))
         IN  /\ r \in Kernels /\ r.saved = NotSaved /\ Quiet(kk, r)
             /\ r.console = kk.console /\ r.symbol = kk.symbol
             /\ \A n \in SlotNumbers : r.table[n] = kk.table[n] \/ r.table[n] = kk.saved.slot
<1> DEFINE x == MacrosOf(kk.console)
           t == [n \in SlotNumbers |-> IF kk.saved.at = x.mounts + n * x.esize - 16
                                       THEN kk.saved.slot ELSE kk.table[n]]
           p == Poke(kk.lv2, {kk.saved.umount}, "shipped")
           r == UmountRoutine(kk, x)
<1>1. kk \in Kernels /\ kk.saved.umount = x.umount
  BY DEF Kn, SavedSound
<1>2. r = [kk EXCEPT !.table = t, !.lv2 = p, !.saved = NotSaved]
  <2>1. kk.table = [n \in SlotNumbers |-> kk.table[n]]
    BY <1>1, FieldsOf
  <2> QED
    BY DEF UmountRoutine
<1>3. t \in [SlotNumbers -> Slots] /\ \A n \in SlotNumbers : t[n] = kk.table[n] \/ t[n] = kk.saved.slot
  BY <1>1, FieldsOf
<1>4. p \in Memories
  <2>1. kk.lv2 \in Memories /\ kk.saved.umount \in Int /\ "shipped" \in Contents
    BY <1>1, FieldsOf DEF Contents
  <2>2. Poked(kk.lv2, {kk.saved.umount}, "shipped")
    BY <2>1, PokeOne
  <2> QED
    BY <2>2 DEF Poked
<1>5. NotSaved \in [at : Int, umount : Int, slot : Slots, size : Int]
  <2>1. Free \in Slots
    BY FreeFacts
  <2> QED
    BY <2>1, SMT DEF NotSaved
<1>6. p = Poke(kk.lv2, {x.umount}, "shipped")
  BY <1>1
<1> HIDE DEF t, p, r, x
<1>7. r \in Kernels
  BY <1>1, <1>2, <1>3, <1>4, <1>5 DEF Kernels
<1>8. /\ r.console = kk.console /\ r.alien = kk.alien /\ r.symbol = kk.symbol /\ r.lv1 = kk.lv1
      /\ r.vector = kk.vector /\ r.restore = kk.restore /\ r.saves = kk.saves
      /\ r.saved = NotSaved /\ r.lv2 = p /\ r.table = t
  BY <1>1, <1>2 DEF Kernels
<1>9. Quiet(kk, r)
  BY <1>6, <1>8 DEF Quiet, x
<1> QED
  BY <1>3, <1>7, <1>8, <1>9 DEF r, x

\* After an umount nothing has the name, and what the routine put back was a disc.
Umounted(kk, name, r) ==
    /\ Kn(r) /\ Calm(kk, r)
    /\ \A n \in SlotNumbers : r.table[n].name # name
    /\ \/ /\ r.saved = kk.saved /\ r.lv2 = kk.lv2
          /\ \A n \in SlotNumbers : r.table[n] = kk.table[n] \/ r.table[n] = Free
       \/ /\ kk.saved # NotSaved /\ r.saved = NotSaved
          /\ \A n \in SlotNumbers : \/ r.table[n] = kk.table[n] \/ r.table[n] = Free
                                    \/ r.table[n] = kk.saved.slot /\ kk.saved.slot.dev = "BDVD_DRIVE"

\* An umount of a name is calm and frees the slots that had it.
LEMMA UmountSound ==
  ASSUME NEW kk, Kn(kk), NEW name \in {"dev_bdvd", "dev_ps2disc"}
  PROVE  Umounted(kk, name, Umount(kk, name))
<1> DEFINE x == MacrosOf(kk.console)
           hooked == name = "dev_bdvd" /\ Peek(kk.lv2, x.umount) = "hook"
           q == IF hooked THEN UmountRoutine(kk, x) ELSE kk
           t == [n \in SlotNumbers |-> IF q.table[n].name = name THEN Free ELSE q.table[n]]
           r == [q EXCEPT !.table = t]
<1>1. Umount(kk, name) = r
  BY DEF Umount
<1>2. kk \in Kernels /\ RightSymbol(kk) /\ TableSound(kk) /\ SavedSound(kk) /\ Alone(kk)
  BY DEF Kn
<1>3. CASE q = kk
  <2>1. /\ t \in [SlotNumbers -> Slots]
        /\ \A n \in SlotNumbers : t[n] = kk.table[n] \/ t[n] = Free
        /\ \A n \in SlotNumbers : t[n].name # name
    BY <1>2, <1>3, FieldsOf, FreeFacts
  <2> HIDE DEF t
  <2>2. Kn(r) /\ Calm(kk, r) /\ r.saved = kk.saved /\ r.lv2 = kk.lv2 /\ r.table = t
    BY <1>3, <2>1, FreedSound
  <2> QED
    BY <1>1, <2>1, <2>2 DEF Umounted
<1>4. CASE q # kk
  <2>1. hooked /\ q = UmountRoutine(kk, x) /\ kk.saved # NotSaved
    BY <1>4 DEF UmountRoutine
  <2>2. /\ q \in Kernels /\ q.saved = NotSaved /\ Quiet(kk, q)
        /\ q.console = kk.console /\ q.symbol = kk.symbol
        /\ \A n \in SlotNumbers : q.table[n] = kk.table[n] \/ q.table[n] = kk.saved.slot
    BY <2>1, RoutineIs
  <2> HIDE DEF q
  <2>3. /\ t \in [SlotNumbers -> Slots]
        /\ \A n \in SlotNumbers : t[n] = q.table[n] \/ t[n] = Free
        /\ \A n \in SlotNumbers : t[n].name # name
    BY <2>2, FieldsOf, FreeFacts
  <2> HIDE DEF t
  <2>4. /\ r \in Kernels /\ r.table = t /\ r.saved = NotSaved /\ r.lv2 = q.lv2
        /\ r.console = kk.console /\ r.alien = q.alien /\ r.symbol = kk.symbol /\ r.lv1 = q.lv1
        /\ r.vector = q.vector /\ r.restore = q.restore /\ r.saves = q.saves
    BY <2>2, <2>3, TableFields
  <2> HIDE DEF r, x
  <2>5. Quiet(kk, r)
    BY <2>2, <2>4 DEF Quiet
  <2>6. Calm(kk, r)
    BY <1>2, <2>4, <2>5, QuietIsCalm
  <2>7. name = "dev_bdvd"
    BY <2>1
  <2>8. /\ kk.saved.slot \in Slots /\ Own(kk.saved.slot) /\ ~Copy(kk.saved.slot)
        /\ kk.saved.slot.dev \in {"BDVD_DRIVE", "HDD1"}
        /\ kk.saved.slot.dev = "HDD1" => kk.saved.slot.name = name
    <3>1. kk.saved.slot \in Slots /\ Own(kk.saved.slot) /\ kk.saved.slot.dev \in {"BDVD_DRIVE", "HDD1"}
      BY <1>2, <2>1, FieldsOf DEF SavedSound
    <3> QED
      BY <2>7, <3>1, OwnFacts
  <2>9. \A n \in SlotNumbers : \/ r.table[n] = kk.table[n] /\ kk.table[n].name # "dev_bdvd"
                               \/ r.table[n] = Free
                               \/ r.table[n] = kk.saved.slot /\ kk.saved.slot.dev = "BDVD_DRIVE"
    BY <2>2, <2>3, <2>4, <2>7, <2>8
  <2>10. TableSound(r)
    BY <1>2, <2>8, <2>9, FreeFacts DEF TableSound, Copy
  <2>11. SavedSound(r)
    BY <2>4 DEF SavedSound
  <2>12. Alone(r)
    <3> SUFFICES ASSUME NEW l \in SlotNumbers, NEW m \in SlotNumbers, l # m
                 PROVE  /\ r.table[l].dev = r.table[m].dev => r.table[l].dev \notin Singles
                        /\ ~(Copy(r.table[l]) /\ Copy(r.table[m]))
      BY DEF Alone
    <3>1. /\ kk.table[l].dev = kk.table[m].dev => kk.table[l].dev \notin Singles
          /\ ~(Copy(kk.table[l]) /\ Copy(kk.table[m]))
      BY <1>2 DEF Alone
    <3>2. "BDVD_DRIVE" \notin Singles
      BY UsbFacts DEF Singles
    <3> QED
      BY <2>8, <2>9, <3>1, <3>2, FreeFacts
  <2>13. RightSymbol(r)
    BY <1>2, <2>4 DEF RightSymbol
  <2> QED
    BY <1>1, <2>1, <2>3, <2>4, <2>6, <2>9, <2>10, <2>11, <2>12, <2>13 DEF Umounted, Kn
<1> QED
  BY <1>3, <1>4
-----------------------------------------------------------------------------
(* The renaming of lv2_patch_bdvdemu and what takes it back. *)

\* After the unpatch every slot has its own name.
Restored(kk, r) ==
    /\ Kn(r) /\ Calm(kk, r) /\ r.saved = NotSaved
    /\ \A n \in SlotNumbers : Own(r.table[n])
    /\ Peek(r.lv2, MacrosOf(r.console).umount) # "hook"
    /\ \A n \in SlotNumbers : \/ r.table[n].dev = kk.table[n].dev
                              \/ kk.saved # NotSaved /\ r.table[n] = kk.saved.slot

\* unpatch_bdvdemu, from any table a session can leave, gives every device its
\* own name, gives back the slot and unhooks the umount syscall.
LEMMA UnpatchSound ==
  ASSUME NEW kk, Kn(kk)
  PROVE  Restored(kk, UnpatchBdvdemuOf(kk.console, kk))
<1> DEFINE f == kk.console
           x == MacrosOf(f)
           back(s) ==
             CASE s.dev \in {"HDD1", "PATA0_BDVD_DRIVE"} /\ s.name = "temp_bdvd" ->
                    [s EXCEPT !.name = "dev_bdvd"]
               [] s.dev \in UsbDevices /\ s.name \in {"dev_bdvd", "temp_usb"} ->
                    [s EXCEPT !.name = s.old, !.old = ""]
               [] s.dev = "HDD0" /\ s.name = "dev_bdvd" /\ s.old = "esp_bdvd" /\ kk.saved # NotSaved ->
                    kk.saved.slot
               [] OTHER -> s
           t == [n \in SlotNumbers |-> back(kk.table[n])]
           p == Poke(kk.lv2, {x.umount}, "shipped")
           r == UnpatchBdvdemuOf(f, kk)
<1>1. kk \in Kernels /\ RightSymbol(kk) /\ TableSound(kk) /\ SavedSound(kk) /\ Alone(kk) /\ f \in Firms
  BY FieldsOf DEF Kn
<1>2. r = [kk EXCEPT !.table = t, !.lv2 = p, !.saved = NotSaved]
  <2>1. PICK b \in Int : BdemuIs(f, b) /\ Scanned(x, b) = SlotNumbers
    BY <1>1, BdemuRegular
  <2>2. r = UnpatchBdvdemu(kk, x, b)
    BY <2>1 DEF BdemuIs
  <2> DEFINE t2 == [n \in SlotNumbers |-> IF n \in Scanned(x, b) THEN back(kk.table[n]) ELSE kk.table[n]]
  <2> HIDE DEF r, x
  <2>3. r = [kk EXCEPT !.table = t2, !.lv2 = p, !.saved = NotSaved]
    BY <2>2 DEF UnpatchBdvdemu
  <2> HIDE DEF back
  <2>4. t2 = t
    BY <2>1
  <2> HIDE DEF t2, t, p
  <2> QED
    BY <2>3, <2>4
<1>3. ASSUME NEW s \in Slots, Own(s) \/ Renamed(s) \/ Stick(s) \/ (Copy(s) /\ kk.saved # NotSaved)
      PROVE  /\ back(s) \in Slots /\ Own(back(s))
             /\ Copy(s) => kk.saved # NotSaved /\ back(s) = kk.saved.slot
             /\ ~Copy(s) => back(s).dev = s.dev
  <2>1. s.dev \in UsbDevices => s.dev \notin Fixed
    BY UsbFacts DEF Fixed
  <2>2. CASE Own(s)
    <3>1. ~(s.dev \in UsbDevices /\ s.name \in {"dev_bdvd", "temp_usb"})
      <4>1. s.name # "temp_usb"
        BY DEF Slots, MountNames
      <4>2. s.name = "dev_bdvd" => s.dev \in Fixed
        BY <2>2, OwnFacts DEF Fixed
      <4> QED
        BY <2>1, <4>1, <4>2
    <3>2. ~(s.dev \in {"HDD1", "PATA0_BDVD_DRIVE"} /\ s.name = "temp_bdvd") /\ ~Copy(s)
      BY <2>2, OwnFacts
    <3>3. back(s) = s
      BY <3>1, <3>2 DEF Copy
    <3> QED
      BY <2>2, <3>2, <3>3
  <2>3. CASE Renamed(s)
    <3>1. back(s) = [s EXCEPT !.name = "dev_bdvd"]
      BY <2>1, <2>3 DEF Renamed, Fixed
    <3> HIDE DEF back
    <3>2. back(s).dev = s.dev /\ back(s).name = "dev_bdvd" /\ back(s).old = "" /\ back(s) \in Slots
      BY <2>3, <3>1 DEF Renamed, Slots, MountNames
    <3>3. ~Copy(s)
      BY <2>3 DEF Renamed, Copy
    <3>4. Own(back(s))
      BY <2>3, <3>2, OwnNamesAre DEF Renamed, Own
    <3> QED
      BY <3>2, <3>3, <3>4
  <2>4. CASE Stick(s)
    <3>1. back(s) = [s EXCEPT !.name = s.old, !.old = ""]
      BY <2>1, <2>4 DEF Stick, Fixed
    <3> HIDE DEF back
    <3>2. PICK u \in Units : s.dev = Mass(u)
      BY <2>4 DEF Stick, UsbDevices
    <3>3. s.old = DevUsb(u)
      <4>1. OwnNames(Mass(u)) = {DevUsb(u)}
        BY OwnNamesAre
      <4>2. s.old \in OwnNames(Mass(u))
        BY <2>4, <3>2 DEF Stick
      <4> QED
        BY <4>1, <4>2
    <3>4. s.old \in MountNames
      BY <3>3, UsbFacts
    <3>5. back(s).dev = s.dev /\ back(s).name = s.old /\ back(s).old = "" /\ back(s) \in Slots
      BY <3>1, <3>4 DEF Slots, OldNames
    <3>6. Own(back(s))
      BY <2>4, <3>5 DEF Stick, Own
    <3>7. ~Copy(s)
      BY <2>1, <2>4 DEF Stick, Copy, Fixed
    <3> QED
      BY <3>5, <3>6, <3>7
  <2>5. CASE Copy(s) /\ kk.saved # NotSaved
    <3>1. back(s) = kk.saved.slot
      BY <2>1, <2>5 DEF Copy, Fixed
    <3>2. kk.saved.slot \in Slots /\ Own(kk.saved.slot)
      BY <1>1, <2>5, FieldsOf DEF SavedSound
    <3> HIDE DEF back
    <3> QED
      BY <2>5, <3>1, <3>2
  <2> QED
    BY <1>3, <2>2, <2>3, <2>4, <2>5
<1> HIDE DEF back
<1>4. kk.table \in [SlotNumbers -> Slots]
  BY <1>1, FieldsOf
<1>5. \A n \in SlotNumbers :
         /\ t[n] \in Slots /\ Own(t[n])
         /\ Copy(kk.table[n]) => kk.saved # NotSaved /\ t[n] = kk.saved.slot
         /\ ~Copy(kk.table[n]) => t[n].dev = kk.table[n].dev
  <2> TAKE n \in SlotNumbers
  <2> DEFINE s == kk.table[n]
  <2>1. s \in Slots /\ t[n] = back(s)
    BY <1>4
  <2>2. Own(s) \/ Renamed(s) \/ Stick(s) \/ (Copy(s) /\ kk.saved # NotSaved)
    BY <1>1 DEF TableSound
  <2> HIDE DEF s, t
  <2>3. /\ back(s) \in Slots /\ Own(back(s))
        /\ Copy(s) => kk.saved # NotSaved /\ back(s) = kk.saved.slot
        /\ ~Copy(s) => back(s).dev = s.dev
    BY <1>3, <2>1, <2>2
  <2> QED
    BY <2>1, <2>3 DEF s
<1>6. t \in [SlotNumbers -> Slots]
  BY <1>5
<1>7. x.umount \in Int
  BY <1>1, MacrosFacts
<1>8. Poked(kk.lv2, {x.umount}, "shipped")
  BY <1>1, <1>7, FieldsOf, PokeOne DEF Contents
<1>9. NotSaved \in [at : Int, umount : Int, slot : Slots, size : Int]
  <2>1. Free \in Slots
    BY FreeFacts
  <2> QED
    BY <2>1, SMT DEF NotSaved
<1>10. p \in Memories /\ Peek(p, x.umount) = "shipped"
  BY <1>8 DEF Poked
<1>11. p = Poke(kk.lv2, {MacrosOf(kk.console).umount}, "shipped")
  OBVIOUS
<1> HIDE DEF t, p, r, x, f
<1>12. r \in Kernels
  BY <1>1, <1>2, <1>6, <1>9, <1>10 DEF Kernels
<1>13. /\ r.console = kk.console /\ r.alien = kk.alien /\ r.symbol = kk.symbol /\ r.lv1 = kk.lv1
       /\ r.vector = kk.vector /\ r.restore = kk.restore /\ r.saves = kk.saves
       /\ r.saved = NotSaved /\ r.lv2 = p /\ r.table = t
  BY <1>1, <1>2 DEF Kernels
<1>14. Calm(kk, r)
  <2>1. Quiet(kk, r)
    BY <1>11, <1>13 DEF Quiet
  <2> QED
    BY <1>1, <1>12, <2>1, QuietIsCalm
<1>15. RightSymbol(r) /\ TableSound(r) /\ SavedSound(r)
  BY <1>1, <1>5, <1>13 DEF RightSymbol, TableSound, SavedSound
<1>16. Alone(r)
  <2> SUFFICES ASSUME NEW l \in SlotNumbers, NEW m \in SlotNumbers, l # m
               PROVE  /\ t[l].dev = t[m].dev => t[l].dev \notin Singles
                      /\ ~(Copy(t[l]) /\ Copy(t[m]))
    BY <1>13 DEF Alone
  <2>1. /\ kk.table[l].dev = kk.table[m].dev => kk.table[l].dev \notin Singles
        /\ ~(Copy(kk.table[l]) /\ Copy(kk.table[m]))
    BY <1>1 DEF Alone
  <2>2. ~Copy(t[l]) /\ ~Copy(t[m])
    BY <1>5, OwnFacts
  <2>3. kk.saved # NotSaved => /\ kk.saved.slot.dev \in {"BDVD_DRIVE", "HDD1"}
                               /\ kk.saved.slot.dev = "HDD1" =>
                                     kk.table[l].dev # "HDD1" /\ kk.table[m].dev # "HDD1"
    BY <1>1 DEF SavedSound
  <2>4. "BDVD_DRIVE" \notin Singles
    BY UsbFacts DEF Singles
  <2>5. CASE Copy(kk.table[l])
    <3>1. ~Copy(kk.table[m]) /\ kk.saved # NotSaved
      BY <1>5, <2>1, <2>5
    <3>2. t[l].dev \in {"BDVD_DRIVE", "HDD1"} /\ (t[l].dev = "HDD1" => t[m].dev # "HDD1")
      BY <1>5, <2>3, <2>5, <3>1
    <3> QED
      BY <2>2, <2>4, <3>2
  <2>6. CASE Copy(kk.table[m])
    <3>1. ~Copy(kk.table[l]) /\ kk.saved # NotSaved
      BY <1>5, <2>1, <2>6
    <3>2. t[m].dev \in {"BDVD_DRIVE", "HDD1"} /\ (t[m].dev = "HDD1" => t[l].dev # "HDD1")
      BY <1>5, <2>3, <2>6, <3>1
    <3> QED
      BY <2>2, <2>4, <3>2
  <2>7. CASE ~Copy(kk.table[l]) /\ ~Copy(kk.table[m])
    BY <1>5, <2>1, <2>2, <2>7
  <2> QED
    BY <2>5, <2>6, <2>7
<1>17. MacrosOf(r.console).umount = x.umount
  BY <1>13 DEF x, f
<1>18. Restored(kk, r)
  BY <1>5, <1>10, <1>12, <1>13, <1>14, <1>15, <1>16, <1>17 DEF Restored, Kn
<1> QED
  BY <1>18 DEF r, f
\* The port a flag stands for, -1 or 9 for none.
LEMMA UsbOfIs == ASSUME NEW flags PROVE UsbOf(flags) \in -1 .. 9
<1>1. CASE \E n \in 1..10 : flags = 2^n
  <2>1. PICK n \in 1..10 : flags = 2^n
    BY <1>1
  <2> DEFINE m == n - 1
  <2>2. m \in 0..9 /\ m + 1 = n
    OBVIOUS
  <2> HIDE DEF m
  <2>3. \E i \in 0..9 : flags = 2^(i + 1)
    BY <2>1, <2>2
  <2> DEFINE c == CHOOSE i \in 0..9 : flags = 2^(i + 1)
  <2>4. c \in 0..9
    BY <2>3
  <2>5. UsbOf(flags) = c
    BY <1>1 DEF UsbOf
  <2> HIDE DEF c
  <2> QED
    BY <2>4, <2>5
<1>2. CASE ~\E n \in 1..10 : flags = 2^n
  <2>1. UsbOf(flags) = -1
    BY <1>2 DEF UsbOf
  <2> QED
    BY <2>1
<1> QED
  BY <1>1, <1>2

\* At most one slot is named as the disc.
OneDisc(kk) ==
    \A m, n \in SlotNumbers :
        ~(m # n /\ kk.table[m].name = "dev_bdvd" /\ kk.table[n].name = "dev_bdvd")

\* After a launch the drive and a game may share the name only where there is
\* none in the settings.
Patched(kk, d, r) ==
    /\ Kn(r) /\ Calm(kk, r)
    /\ Cached(r) => Cached(kk)
    /\ \A m, n \in SlotNumbers :
          m # n /\ r.table[m].name = "dev_bdvd" /\ r.table[n].name = "dev_bdvd" =>
             d /\ (r.table[m].dev \in Drives \/ r.table[n].dev \in Drives)

\* patch_bdvdemu, from the names of the menu, leaves what the unpatch can undo,
\* the words alone, and one disc where there is a drive.
LEMMA PatchSound ==
  ASSUME NEW kk, Kn(kk), NEW d \in BOOLEAN, NEW flags,
         \A n \in SlotNumbers : Own(kk.table[n]), kk.saved = NotSaved, Loaded(kk), OneDisc(kk),
         ~d => ~Cached(kk)
  PROVE  Patched(kk, d, PatchBdvdemuOf(kk.console, kk, d, flags))
<1> DEFINE f == kk.console
           x == MacrosOf(f)
           usb == UsbOf(flags)
           cache(n) == d /\ kk.table[n].dev = "HDD1" /\ kk.table[n].name = "dev_bdvd"
           drive(n) == ~d /\ kk.table[n].dev = "PATA0_BDVD_DRIVE" /\ kk.table[n].name = "dev_bdvd"
           ps2(n) == ~d /\ usb < 0 /\ kk.table[n].dev = "BDVD_DRIVE" /\ kk.table[n].name = "dev_ps2disc"
           stick(n) == usb >= 0 /\ kk.table[n].dev = Mass(usb)
           disk(n) == usb < 0 /\ kk.table[n].dev = "HDD0" /\ kk.table[n].name = "dev_hdd0"
           taken == {n \in SlotNumbers : cache(n) \/ ps2(n)}
           disks == {n \in SlotNumbers : disk(n)}
           new(n) ==
            CASE drive(n) \/ (cache(n) /\ usb >= 0) -> [kk.table[n] EXCEPT !.name = "temp_bdvd"]
              [] stick(n) -> [kk.table[n] EXCEPT !.name = "dev_bdvd", !.old = DevUsb(usb)]
              [] OTHER -> kk.table[n]
           renamed == [n \in SlotNumbers |-> new(n)]
           pos == Min(disks)
           pos2 == Min(taken)
           copy == [kk.table[pos] EXCEPT !.name = "dev_bdvd", !.old = "esp_bdvd"]
           slot == [at |-> x.mounts + pos2 * x.esize - 16, umount |-> x.umount,
                    slot |-> kk.table[pos2], size |-> x.csize]
           swaps == taken # {} /\ disks # {} /\ pos > 0 /\ pos2 > 0
           r == PatchBdvdemuOf(f, kk, d, flags)
<1>1. kk \in Kernels /\ RightSymbol(kk) /\ TableSound(kk) /\ SavedSound(kk) /\ Alone(kk) /\ f \in Firms
      /\ kk.table \in [SlotNumbers -> Slots]
  BY FieldsOf DEF Kn
<1>2. r = IF swaps
          THEN [kk EXCEPT !.table = [renamed EXCEPT ![pos2] = copy],
                          !.lv2 = Poke(@, {x.umount}, "hook"), !.saved = slot]
          ELSE [kk EXCEPT !.table = renamed]
  <2>1. PICK b \in Int : BdemuIs(f, b) /\ Scanned(x, b) = SlotNumbers
    BY <1>1, BdemuRegular
  <2>2. r = PatchBdvdemu(kk, x, b, d, flags)
    BY <2>1 DEF BdemuIs
  <2> DEFINE is(n, dev, name) == n \in Scanned(x, b) /\ kk.table[n].dev = dev /\ kk.table[n].name = name
             cache2(n) == d /\ is(n, "HDD1", "dev_bdvd")
             drive2(n) == ~d /\ is(n, "PATA0_BDVD_DRIVE", "dev_bdvd")
             ps22(n) == ~d /\ usb < 0 /\ is(n, "BDVD_DRIVE", "dev_ps2disc")
             stick2(n) == usb >= 0 /\ n \in Scanned(x, b) /\ kk.table[n].dev = Mass(usb)
             disk2(n) == usb < 0 /\ is(n, "HDD0", "dev_hdd0")
             taken2 == {n \in SlotNumbers : cache2(n) \/ ps22(n)}
             disks2 == {n \in SlotNumbers : disk2(n)}
             new2(n) ==
              CASE drive2(n) \/ (cache2(n) /\ usb >= 0) -> [kk.table[n] EXCEPT !.name = "temp_bdvd"]
                [] stick2(n) -> [kk.table[n] EXCEPT !.name = "dev_bdvd", !.old = DevUsb(usb)]
                [] OTHER -> kk.table[n]
             renamed2 == [n \in SlotNumbers |-> new2(n)]
             Result(tk, ds, rn) ==
               IF tk # {} /\ ds # {} /\ Min(ds) > 0 /\ Min(tk) > 0
               THEN [kk EXCEPT !.table = [rn EXCEPT ![Min(tk)] =
                                    [kk.table[Min(ds)] EXCEPT !.name = "dev_bdvd", !.old = "esp_bdvd"]],
                               !.lv2 = Poke(@, {x.umount}, "hook"),
                               !.saved = [at |-> x.mounts + Min(tk) * x.esize - 16, umount |-> x.umount,
                                          slot |-> kk.table[Min(tk)], size |-> x.csize]]
               ELSE [kk EXCEPT !.table = rn]
  <2> HIDE DEF x, r
  <2>3. r = Result(taken2, disks2, renamed2)
    BY <2>2 DEF PatchBdvdemu
  <2>4. taken2 = taken /\ disks2 = disks
    BY <2>1
  <2>5. renamed2 = renamed
    <3>1. \A n \in SlotNumbers : (drive2(n) <=> drive(n)) /\ (cache2(n) <=> cache(n)) /\ (stick2(n) <=> stick(n))
      BY <2>1
    <3> HIDE DEF drive, cache, stick, drive2, cache2, stick2
    <3>2. ASSUME NEW n \in SlotNumbers PROVE new2(n) = new(n)
      <4>1. (drive2(n) = drive(n)) /\ (cache2(n) = cache(n)) /\ (stick2(n) = stick(n))
        <5>1. drive2(n) \in BOOLEAN /\ drive(n) \in BOOLEAN /\ cache2(n) \in BOOLEAN /\ cache(n) \in BOOLEAN
              /\ stick2(n) \in BOOLEAN /\ stick(n) \in BOOLEAN
          BY DEF drive, cache, stick, drive2, cache2, stick2
        <5> QED
          BY <3>1, <5>1
      <4> QED
        BY <4>1
    <3> HIDE DEF new, new2
    <3> QED
      BY <3>2
  <2>6. r = Result(taken, disks, renamed)
    <3> HIDE DEF taken, disks, renamed, taken2, disks2, renamed2, Result
    <3> QED
      BY <2>3, <2>4, <2>5
  <2> QED
    BY <2>6
<1>3. usb \in -1 .. 9 /\ (usb >= 0 => Mass(usb) # "none" /\ Mass(usb) \notin Fixed)
  <2>1. usb \in -1 .. 9
    BY UsbOfIs
  <2>2. Mass(usb) \notin Fixed /\ Mass(usb) # "none"
    BY DEF Mass, Fixed
  <2> QED
    BY <2>1, <2>2
<1>4. ASSUME NEW n \in SlotNumbers
      PROVE  /\ kk.table[n] \in Slots /\ Own(kk.table[n]) /\ renamed[n] \in Slots
             /\ renamed[n].dev = kk.table[n].dev
             /\ Own(renamed[n]) \/ Renamed(renamed[n]) \/ Stick(renamed[n])
             /\ renamed[n] = kk.table[n] \/ Renamed(renamed[n])
                \/ (stick(n) /\ renamed[n].name = "dev_bdvd" /\ ~disk(n) /\ taken \subseteq {m \in SlotNumbers : cache(m)} /\ disks = {})
             /\ renamed[n] = kk.table[n] => ~drive(n) /\ (usb >= 0 => ~cache(n))
  <2> DEFINE s == kk.table[n]
  <2>1. s \in Slots /\ Own(s)
    BY <1>1
  <2>2. CASE drive(n) \/ (cache(n) /\ usb >= 0)
    <3>a. ~stick(n)
      BY <1>3, <2>2 DEF Fixed
    <3>1. renamed[n] = [s EXCEPT !.name = "temp_bdvd"]
      BY <2>2, <3>a
    <3>2. s.dev \in {"HDD1", "PATA0_BDVD_DRIVE"} /\ s.old = "" /\ s.name = "dev_bdvd"
      BY <2>1, <2>2 DEF Own
    <3> HIDE DEF s, renamed
    <3>3. renamed[n] \in Slots /\ renamed[n].dev = s.dev /\ renamed[n].name = "temp_bdvd" /\ renamed[n].old = ""
      BY <2>1, <3>1, <3>2 DEF Slots, MountNames
    <3>4. renamed[n] # s
      BY <3>2, <3>3
    <3> QED
      BY <2>1, <3>2, <3>3, <3>4 DEF Renamed, s
  <2>3. CASE ~(drive(n) \/ (cache(n) /\ usb >= 0)) /\ stick(n)
    <3>1. renamed[n] = [s EXCEPT !.name = "dev_bdvd", !.old = DevUsb(usb)]
      BY <2>3
    <3>2. usb >= 0 /\ s.dev = Mass(usb)
      BY <2>3
    <3>3. s.dev \in UsbDevices
      BY <1>3, <2>1, <3>2 DEF Slots, Devices
    <3>4. PICK u \in Units : s.dev = Mass(u)
      BY <3>3 DEF UsbDevices
    <3>5. DevUsb(usb) = DevUsb(u) /\ DevUsb(usb) \in OldNames
      BY <1>3, <3>2, <3>4, UnitsAssumption DEF Mass, DevUsb, OldNames
    <3>6. OwnNames(s.dev) = {DevUsb(u)}
      BY <3>4, OwnNamesAre
    <3> HIDE DEF s, renamed
    <3>7. /\ renamed[n] \in Slots /\ renamed[n].dev = s.dev
          /\ renamed[n].name = "dev_bdvd" /\ renamed[n].old = DevUsb(usb)
      BY <2>1, <3>1, <3>5 DEF Slots, MountNames
    <3>8. Stick(renamed[n])
      BY <3>3, <3>5, <3>6, <3>7 DEF Stick
    <3>9. s.name # "dev_bdvd"
      <4>1. s.dev \notin Fixed
        BY <1>3, <3>2
      <4> QED
        BY <2>1, <4>1, OwnFacts DEF Fixed
    <3>10. renamed[n] # s
      BY <3>7, <3>9
    <3>11. ~disk(n) /\ taken \subseteq {m \in SlotNumbers : cache(m)} /\ disks = {}
      BY <1>3, <3>2
    <3> QED
      BY <2>1, <2>3, <3>7, <3>8, <3>10, <3>11 DEF s
  <2>4. CASE ~(drive(n) \/ (cache(n) /\ usb >= 0)) /\ ~stick(n)
    <3>1. renamed[n] = s
      BY <2>4
    <3> HIDE DEF renamed
    <3> QED
      BY <2>1, <2>4, <3>1 DEF s
  <2> QED
    BY <2>2, <2>3, <2>4
<1>5. renamed \in [SlotNumbers -> Slots]
  BY <1>4
<1>6. \A n \in SlotNumbers : stick(n) => kk.table[n].dev \in Singles /\ usb >= 0
  BY <1>1, <1>3 DEF Slots, Devices, Singles
<1>7. \A n \in SlotNumbers : ~Copy(renamed[n]) /\ (Renamed(renamed[n]) => renamed[n].name # "dev_bdvd")
  <2> TAKE n \in SlotNumbers
  <2>1. ~Stick(renamed[n]) \/ ~Copy(renamed[n])
    BY UsbFacts DEF Stick, Copy
  <2>2. Renamed(renamed[n]) => renamed[n].name # "dev_bdvd" /\ ~Copy(renamed[n])
    BY DEF Renamed, Copy
  <2>3. Own(renamed[n]) => ~Copy(renamed[n])
    BY <1>4, OwnFacts
  <2> HIDE DEF renamed
  <2> QED
    BY <1>4, <2>1, <2>2, <2>3
<1>8. \A n \in SlotNumbers : kk.table[n].name = "dev_bdvd" =>
         kk.table[n].dev \in {"HDD1", "PATA0_BDVD_DRIVE"} /\ (kk.table[n].dev = "HDD1" => cache(n))
                                                          /\ (kk.table[n].dev # "HDD1" /\ ~d => drive(n))
  <2>1. \A n \in SlotNumbers : kk.table[n].name = "dev_bdvd" => kk.table[n].dev \in {"HDD1", "PATA0_BDVD_DRIVE"}
    BY <1>4, OwnFacts
  <2>2. \A n \in SlotNumbers : kk.table[n].dev = "HDD1" => d
    BY DEF Cached
  <2> QED
    BY <2>1, <2>2
<1>9. \A l, m \in SlotNumbers : l # m =>
         /\ renamed[l].dev = renamed[m].dev => renamed[l].dev \notin Singles
  <2> HIDE DEF renamed
  <2> QED
    BY <1>1, <1>4 DEF Alone
<1>10. CASE ~swaps
  <2>1. r = [kk EXCEPT !.table = renamed]
    BY <1>2, <1>10
  <2> HIDE DEF r, x, renamed, cache, drive, stick, disk, ps2, taken, disks
  <2>2. /\ r \in Kernels /\ r.table = renamed /\ r.saved = kk.saved /\ r.lv2 = kk.lv2
        /\ r.console = kk.console /\ r.symbol = kk.symbol /\ Quiet(kk, r)
    BY <1>1, <1>5, <2>1, TableFields
  <2>3. Calm(kk, r)
    BY <1>1, <2>2, QuietIsCalm
  <2>4. RightSymbol(r) /\ SavedSound(r)
    BY <1>1, <2>2 DEF RightSymbol, SavedSound
  <2>5. TableSound(r)
    BY <1>4, <2>2 DEF TableSound
  <2>6. Alone(r)
    BY <1>7, <1>9, <2>2 DEF Alone
  <2>7. Cached(r) => Cached(kk)
    BY <1>4, <2>2 DEF Cached
  <2>8. ASSUME NEW m \in SlotNumbers, NEW n \in SlotNumbers, m # n,
               renamed[m].name = "dev_bdvd", renamed[n].name = "dev_bdvd"
        PROVE  d /\ (renamed[m].dev \in Drives \/ renamed[n].dev \in Drives)
    <3>1. renamed[m] = kk.table[m] \/ stick(m)
      BY <1>4, <1>7, <2>8
    <3>2. renamed[n] = kk.table[n] \/ stick(n)
      BY <1>4, <1>7, <2>8
    <3>3. ~(renamed[m] = kk.table[m] /\ renamed[n] = kk.table[n])
      BY <2>8 DEF OneDisc
    <3>4. ~(stick(m) /\ stick(n))
      <4>1. stick(m) /\ stick(n) => kk.table[m].dev = kk.table[n].dev
        BY DEF stick
      <4> QED
        BY <1>1, <1>6, <2>8, <4>1 DEF Alone
    <3>5. "PATA0_BDVD_DRIVE" \in Drives
      BY DEF Drives
    <3>6. CASE stick(m) /\ renamed[n] = kk.table[n]
      <4>1. ~drive(n) /\ ~cache(n)
        BY <1>4, <1>6, <3>6
      <4> QED
        BY <1>8, <2>8, <3>5, <3>6, <4>1
    <3>7. CASE stick(n) /\ renamed[m] = kk.table[m]
      <4>1. ~drive(m) /\ ~cache(m)
        BY <1>4, <1>6, <3>7
      <4> QED
        BY <1>8, <2>8, <3>5, <3>7, <4>1
    <3> QED
      BY <3>1, <3>2, <3>3, <3>4, <3>6, <3>7
  <2>9. Patched(kk, d, r)
    BY <2>2, <2>3, <2>4, <2>5, <2>6, <2>7, <2>8 DEF Patched, Kn
  <2> QED
    BY <2>9 DEF r
<1>11. CASE swaps
  <2> DEFINE t == [renamed EXCEPT ![pos2] = copy]
             p == Poke(kk.lv2, {x.umount}, "hook")
  <2>1. r = [kk EXCEPT !.table = t, !.lv2 = p, !.saved = slot]
    BY <1>2, <1>11
  <2>2. pos \in disks /\ pos2 \in taken
    <3>1. disks \in SUBSET (0..15) /\ disks # {} /\ taken \in SUBSET (0..15) /\ taken # {}
      BY <1>11, SlotsAssumption
    <3> HIDE DEF disks, taken
    <3> QED
      BY <3>1, MinIsIn
  <2>3. /\ pos \in SlotNumbers /\ pos2 \in SlotNumbers /\ usb < 0 /\ kk.table[pos].dev = "HDD0"
        /\ cache(pos2) \/ ps2(pos2)
    BY <2>2
  <2> HIDE DEF pos, pos2
  <2>4. /\ kk.table[pos2].dev \in {"HDD1", "BDVD_DRIVE"}
        /\ d => kk.table[pos2].name = "dev_bdvd"
    BY <2>3
  <2>5. copy \in Slots /\ copy.dev = "HDD0" /\ copy.name = "dev_bdvd" /\ Copy(copy)
    <3>1. kk.table[pos] \in Slots
      BY <1>1, <2>3
    <3> QED
      BY <2>3, <3>1 DEF Slots, MountNames, OldNames, Copy
  <2> HIDE DEF copy, renamed
  <2>6. t \in [SlotNumbers -> Slots] /\ t[pos2] = copy /\ \A n \in SlotNumbers : n # pos2 => t[n] = renamed[n]
    BY <1>5, <2>3, <2>5
  <2>7. \A n \in SlotNumbers : ~stick(n)
    BY <1>6, <2>3, <1>3
  <2> HIDE DEF t, cache, drive, stick, disk, ps2, taken, disks, usb
  <2>8. \A n \in SlotNumbers : renamed[n] = kk.table[n] \/ Renamed(renamed[n])
    BY <1>4, <2>7
  <2>9. x.umount \in Int /\ x.umount > \h4F0 /\ x.esize \in Int /\ x.mounts \in Int /\ x.csize \in Int /\ pos2 \in Int
    BY <1>1, <2>3, MacrosFacts, SlotsAssumption
  <2>10. Poked(kk.lv2, {x.umount}, "hook")
    <3>1. kk.lv2 \in Memories /\ "hook" \in Contents
      BY <1>1, FieldsOf DEF Contents
    <3> HIDE DEF x
    <3> QED
      BY <2>9, <3>1, PokeOne
  <2>11. p \in Memories
    BY <2>10 DEF Poked
  <2>12. slot \in [at : Int, umount : Int, slot : Slots, size : Int] /\ slot # NotSaved
         /\ slot.umount = x.umount /\ slot.slot = kk.table[pos2]
    <3>1. kk.table[pos2] \in Slots /\ x.mounts + pos2 * x.esize - 16 \in Int
      BY <1>1, <2>3, <2>9
    <3>2. NotSaved.umount = 0
      BY DEF NotSaved
    <3>3. slot.umount = x.umount /\ slot.slot = kk.table[pos2]
      OBVIOUS
    <3> QED
      BY <2>9, <3>1, <3>2, <3>3, SMT
  <2>13. p = Poke(kk.lv2, {MacrosOf(kk.console).umount}, "hook") /\ x.umount = MacrosOf(kk.console).umount
    OBVIOUS
  <2> HIDE DEF p, r, x, slot
  <2>14. r \in Kernels
    BY <1>1, <2>1, <2>6, <2>11, <2>12 DEF Kernels
  <2>15. /\ r.console = kk.console /\ r.alien = kk.alien /\ r.symbol = kk.symbol /\ r.lv1 = kk.lv1
         /\ r.vector = kk.vector /\ r.restore = kk.restore /\ r.saves = kk.saves
         /\ r.saved = slot /\ r.lv2 = p /\ r.table = t
    BY <1>1, <2>1 DEF Kernels
  <2>16. Calm(kk, r)
    <3>1. Quiet(kk, r)
      BY <2>12, <2>13, <2>15 DEF Quiet
    <3> QED
      BY <1>1, <2>14, <3>1, QuietIsCalm
  <2>17. RightSymbol(r)
    BY <1>1, <2>15 DEF RightSymbol
  <2>18. TableSound(r)
    <3>1. \A n \in SlotNumbers : Own(t[n]) \/ Renamed(t[n]) \/ Stick(t[n]) \/ Copy(t[n])
      BY <1>4, <2>5, <2>6
    <3> QED
      BY <2>12, <2>15, <3>1 DEF TableSound
  <2>19. SavedSound(r)
    <3>1. Loaded(r)
      BY <2>16 DEF Calm
    <3>2. Own(slot.slot) /\ slot.slot.dev \in {"BDVD_DRIVE", "HDD1"}
      BY <1>4, <2>3, <2>4, <2>12
    <3>3. slot.slot.dev = "HDD1" => \A n \in SlotNumbers : t[n].dev # "HDD1"
      <4>1. \A n \in SlotNumbers : n # pos2 /\ kk.table[pos2].dev = "HDD1" => kk.table[n].dev # "HDD1"
        BY <1>1, <2>3 DEF Alone, Singles
      <4> QED
        BY <1>4, <2>5, <2>6, <2>12, <4>1
    <3> QED
      BY <2>12, <2>13, <2>15, <3>1, <3>2, <3>3 DEF SavedSound
  <2>20. Alone(r)
    <3>1. "HDD0" \notin Singles
      BY UsbFacts DEF Singles
    <3> QED
      BY <1>7, <1>9, <2>5, <2>6, <2>15, <3>1 DEF Alone
  <2>21. Cached(r) => Cached(kk)
    BY <1>4, <2>3, <2>5, <2>6, <2>12, <2>15 DEF Cached
  <2>22. ASSUME NEW m \in SlotNumbers, NEW n \in SlotNumbers, m # n,
                t[m].name = "dev_bdvd", t[n].name = "dev_bdvd"
         PROVE  FALSE
    <3>1. \A l \in SlotNumbers : l # pos2 /\ t[l].name = "dev_bdvd" =>
             kk.table[l].name = "dev_bdvd" /\ ~drive(l)
      BY <1>4, <1>7, <2>6, <2>8
    <3>2. ASSUME NEW l \in SlotNumbers, l # pos2, t[l].name = "dev_bdvd" PROVE FALSE
      <4>1. kk.table[l].name = "dev_bdvd" /\ ~drive(l)
        BY <3>1, <3>2
      <4>2. CASE d
        BY <2>3, <2>4, <3>2, <4>1, <4>2 DEF OneDisc
      <4>3. CASE ~d
        <5>1. kk.table[l].dev # "HDD1"
          BY <4>3 DEF Cached
        <5> QED
          BY <1>8, <4>1, <4>3, <5>1
      <4> QED
        BY <4>2, <4>3
    <3> QED
      BY <2>22, <3>2
  <2>23. Patched(kk, d, r)
    BY <2>14, <2>15, <2>16, <2>17, <2>18, <2>19, <2>20, <2>21, <2>22 DEF Patched, Kn
  <2> QED
    BY <2>23 DEF r
<1> QED
  BY <1>10, <1>11
-----------------------------------------------------------------------------
(* The loading of a payload. *)

\* The words a payload adds to its pieces.
Added(v, p, i, r) ==
    (p \union Words(SK1E, IF v THEN 4 ELSE 2) \union i \union UNION {Words(a, 2) : a \in r}) \ p

\* The lent code is as shipped again, the pieces and the patches stay.
Written(kk, l, v, p, i, r, h, q) ==
    /\ q \in Kernels /\ q.console = kk.console /\ q.alien = kk.alien /\ q.symbol = kk.symbol
    /\ q.table = kk.table /\ q.saves = kk.saves /\ q.saved = NotSaved
    /\ IF v THEN q.restore = kk.vector ELSE q.restore = kk.restore /\ q.vector = kk.vector
    /\ DOMAIN q.lv1 = DOMAIN kk.lv1 \union h
    /\ DOMAIN q.lv2 = ((DOMAIN kk.lv2 \union l \union p) \ l) \union Added(v, p, i, r)
    /\ Peek(q.lv2, SK1E) = "patch"

\* Nothing kept is a value of what is kept.
LEMMA NotSavedIs == NotSaved \in [at : Int, umount : Int, slot : Slots, size : Int]
<1>1. Free \in Slots
  BY FreeFacts
<1> QED
  BY <1>1, SMT DEF NotSaved

\* What the generic load_payload leaves, whatever its words are.
LEMMA LoadWrites ==
  ASSUME NEW kk \in Kernels, NEW x, NEW l \in SUBSET Int, NEW p \in SUBSET Int,
         NEW i \in SUBSET Int, NEW r \in SUBSET Int, NEW h \in SUBSET Int, NEW v \in BOOLEAN,
         SK1E \notin p
  PROVE  Written(kk, l, v, p, i, r, h, LoadPayload(kk, x, l, v, p, i, r, h))
<1> DEFINE add == Added(v, p, i, r)
           m1 == Poke(kk.lv2, l, "copier")
           m2 == Poke(m1, p, "payload")
           m3 == Poke(m2, l, "shipped")
           m4 == Poke(m3, add, "patch")
           o == Poke(kk.lv1, h, "patch")
           q == LoadPayload(kk, x, l, v, p, i, r, h)
           rs == IF v THEN kk.vector ELSE kk.restore
           vt == IF v THEN "sk1e" ELSE kk.vector
<1>1. q = [kk EXCEPT !.lv1 = o, !.lv2 = m4, !.restore = rs, !.vector = vt, !.saved = NotSaved]
  BY DEF LoadPayload, Added
<1>2. /\ kk.lv2 \in Memories /\ kk.lv1 \in Memories
      /\ kk.vector \in Vectors /\ kk.restore \in Vectors \union {"none"}
  BY FieldsOf
<1>3. {"copier", "payload", "shipped", "patch"} \subseteq Contents
  BY DEF Contents
<1>4. SK1E \in Int /\ \h4F0 = SK1E
  BY SMT DEF SK1E
<1>5. add \in SUBSET Int /\ SK1E \in add
  <2>1. Words(SK1E, IF v THEN 4 ELSE 2) \in SUBSET Int
    BY <1>4, WordsAreInts
  <2>2. ASSUME NEW a \in r PROVE Words(a, 2) \in SUBSET Int
    BY WordsAreInts
  <2>3. SK1E \in Words(SK1E, IF v THEN 4 ELSE 2)
    <3>1. 0 \in 0..((IF v THEN 4 ELSE 2) - 1) /\ SK1E = SK1E + 4 * 0
      BY <1>4
    <3> HIDE DEF add
    <3> QED
      BY <3>1 DEF Words
  <2> QED
    BY <2>1, <2>2, <2>3 DEF Added
<1> HIDE DEF add
<1>6. Poked(kk.lv2, l, "copier")
  BY <1>2, <1>3, PokeIs
<1>7. m1 \in Memories
  BY <1>6 DEF Poked
<1> HIDE DEF m1
<1>8. Poked(m1, p, "payload")
  BY <1>3, <1>7, PokeIs
<1>9. m2 \in Memories
  BY <1>8 DEF Poked
<1> HIDE DEF m2
<1>10. Poked(m2, l, "shipped")
  BY <1>3, <1>9, PokeIs
<1>11. m3 \in Memories
  BY <1>10 DEF Poked
<1> HIDE DEF m3
<1>12. Poked(m3, add, "patch")
  BY <1>3, <1>5, <1>11, PokeIs
<1>13. m4 \in Memories /\ DOMAIN m4 = DOMAIN m3 \union add /\ Peek(m4, SK1E) = "patch"
  BY <1>5, <1>12 DEF Poked
<1>14. DOMAIN m3 = DOMAIN m2 \ l /\ DOMAIN m2 = DOMAIN m1 \union p /\ DOMAIN m1 = DOMAIN kk.lv2 \union l
  <2>1. DOMAIN m3 = DOMAIN m2 \ l
    BY <1>10 DEF Poked, m3
  <2>2. DOMAIN m2 = DOMAIN m1 \union p
    BY <1>8 DEF Poked, m2
  <2>3. DOMAIN m1 = DOMAIN kk.lv2 \union l
    BY <1>6 DEF Poked, m1
  <2> QED
    BY <2>1, <2>2, <2>3
<1>15. Poked(kk.lv1, h, "patch")
  BY <1>2, <1>3, PokeIs
<1>16. o \in Memories /\ DOMAIN o = DOMAIN kk.lv1 \union h
  BY <1>15 DEF Poked
<1>17. rs \in Vectors \union {"none"} /\ vt \in Vectors
  BY <1>2 DEF Vectors
<1>18. IF v THEN rs = kk.vector ELSE rs = kk.restore /\ vt = kk.vector
  OBVIOUS
<1> HIDE DEF m4, o, rs, vt, q
<1>19. q \in Kernels
  BY <1>1, <1>13, <1>16, <1>17, NotSavedIs DEF Kernels
<1>20. /\ q.console = kk.console /\ q.alien = kk.alien /\ q.symbol = kk.symbol
       /\ q.table = kk.table /\ q.saves = kk.saves /\ q.saved = NotSaved
       /\ q.restore = rs /\ q.vector = vt /\ q.lv1 = o /\ q.lv2 = m4
  BY <1>1 DEF Kernels
<1>21. DOMAIN q.lv2 = ((DOMAIN kk.lv2 \union l \union p) \ l) \union add
  BY <1>13, <1>14, <1>20
<1>22. IF v THEN q.restore = kk.vector ELSE q.restore = kk.restore /\ q.vector = kk.vector
  BY <1>18, <1>20
<1>23. Written(kk, l, v, p, i, r, h, q)
  BY <1>13, <1>16, <1>19, <1>20, <1>21, <1>22 DEF Written, add
<1> QED
  BY <1>23 DEF q

\* A console as it comes: no payload, and the words are as shipped.
LEMMA FreshIs ==
  ASSUME NEW c \in Firms, NEW a \in {"none", "wanin", "sys36"}
  PROVE  LET z == Fresh(c, a)
         IN  /\ Kn(z) /\ ~Loaded(z) /\ ~Cached(z)
             /\ z.console = c /\ z.alien = a /\ z.lv1 = << >> /\ z.lv2 = << >>
             /\ z.vector = "shipped" /\ z.restore = "none" /\ z.saves = << >> /\ z.saved = NotSaved
             /\ OwnWords(z) /\ \A n \in SlotNumbers : Own(z.table[n])
             /\ \A n \in SlotNumbers : z.table[n].name # "dev_bdvd"
<1> DEFINE z == Fresh(c, a)
           s(n) == CASE n = 0 -> Mounted("FLASH", "dev_flash")
                     [] n = 1 -> Mounted("HDD0", "dev_hdd0")
                     [] OTHER -> Free
           t == [n \in SlotNumbers |-> s(n)]
           y == <<MacrosOf(c).base, MacrosOf(c).call, MacrosOf(c).entry>>
<1>1. ASSUME NEW n \in SlotNumbers
      PROVE  s(n) \in {Mounted("FLASH", "dev_flash"), Mounted("HDD0", "dev_hdd0"), Free}
             /\ (n # 0 => s(n) # Mounted("FLASH", "dev_flash"))
             /\ (n # 1 => s(n) # Mounted("HDD0", "dev_hdd0"))
  BY DEF Mounted, Free
<1>2. ASSUME NEW m \in {Mounted("FLASH", "dev_flash"), Mounted("HDD0", "dev_hdd0"), Free}
      PROVE  m \in Slots /\ Own(m) /\ ~Copy(m) /\ m.name # "dev_bdvd"
             /\ m.dev \notin Singles
  <2>1. CASE m = Free
    BY <2>1, FreeFacts
  <2>2. CASE m = Mounted("FLASH", "dev_flash")
    <3>1. m.dev = "FLASH" /\ m.name = "dev_flash" /\ m.old = "" /\ m \in Slots
      BY <2>2 DEF Mounted, Slots, Devices, Fixed, MountNames, OldNames
    <3> QED
      BY <3>1, OwnNamesAre, UsbFacts DEF Own, Copy, Singles
  <2>3. CASE m = Mounted("HDD0", "dev_hdd0")
    <3>1. m.dev = "HDD0" /\ m.name = "dev_hdd0" /\ m.old = "" /\ m \in Slots
      BY <2>3 DEF Mounted, Slots, Devices, Fixed, MountNames, OldNames
    <3> QED
      BY <3>1, OwnNamesAre, UsbFacts DEF Own, Copy, Singles
  <2> QED
    BY <2>1, <2>2, <2>3
<1> HIDE DEF s
<1>3. \A n \in SlotNumbers : t[n] \in Slots /\ Own(t[n]) /\ ~Copy(t[n]) /\ t[n].name # "dev_bdvd"
                             /\ t[n].dev \notin Singles
  <2> TAKE n \in SlotNumbers
  <2>1. t[n] = s(n)
    OBVIOUS
  <2>2. s(n) \in {Mounted("FLASH", "dev_flash"), Mounted("HDD0", "dev_hdd0"), Free}
    BY <1>1
  <2> HIDE DEF t
  <2> QED
    BY <1>2, <2>1, <2>2
<1>4. z = [console |-> c, alien |-> a, symbol |-> y, lv2 |-> << >>, lv1 |-> << >>, vector |-> "shipped",
           table |-> t, saved |-> NotSaved, restore |-> "none", saves |-> << >>]
  BY DEF Fresh, s
<1>5. t \in [SlotNumbers -> Slots]
  BY <1>3
<1>6. y \in {<<MacrosOf(f).base, MacrosOf(f).call, MacrosOf(f).entry>> : f \in Firms}
  OBVIOUS
<1> HIDE DEF z, t
<1>7. /\ z.console = c /\ z.alien = a /\ z.symbol = y /\ z.lv1 = << >> /\ z.lv2 = << >>
      /\ z.vector = "shipped" /\ z.restore = "none" /\ z.saves = << >> /\ z.saved = NotSaved
      /\ z.table = t
  BY <1>4
<1> HIDE DEF y
<1>8. z \in Kernels
  <2>1. << >> \in Saves
    BY DEF Saves
  <2> QED
    BY <1>4, <1>5, <1>6, <2>1, Empties, NotSavedIs DEF Kernels, Vectors
<1>9. RightSymbol(z)
  BY <1>7 DEF RightSymbol, y
<1>10. TableSound(z) /\ SavedSound(z) /\ Alone(z)
  BY <1>3, <1>7 DEF TableSound, SavedSound, Alone
<1>11. ~Loaded(z)
  BY <1>7, Empties DEF Loaded, Peek
<1>12. ~Cached(z)
  <2>1. NotSaved.slot.dev = "none"
    BY FreeFacts DEF NotSaved
  <2> QED
    BY <1>3, <1>7, <2>1 DEF Cached, Singles
<1>13. OwnWords(z)
  BY <1>7, Empties DEF OwnWords
<1> QED
  BY <1>3, <1>7, <1>8, <1>9, <1>10, <1>11, <1>12, <1>13 DEF Kn, z

\* Loading over a kernel that has no payload: nothing was kept, and no slot is a copy.
LoadFrom(kk, q) ==
    /\ Kn(q) /\ Loaded(q) /\ q.saved = NotSaved /\ q.saves = kk.saves
    /\ q.table = kk.table /\ q.console = kk.console /\ q.alien = kk.alien
    /\ q.restore = kk.vector \/ (q.restore = kk.restore /\ q.vector = kk.vector)
    /\ OwnWords(kk) => OwnWords(q)

\* load_payload on a kernel without a payload: the kernel is sound, holds the
\* payload, and its words are those of a console just switched on and loaded.
LEMMA LoadSound ==
  ASSUME NEW kk, Kn(kk), ~Loaded(kk)
  PROVE  LoadFrom(kk, LoadOf(kk.console, kk))
<1> DEFINE f == kk.console
           q == LoadOf(f, kk)
           z == Fresh(f, kk.alien)
           b == LoadOf(f, z)
<1>1. kk \in Kernels /\ RightSymbol(kk) /\ TableSound(kk) /\ SavedSound(kk) /\ Alone(kk)
      /\ f \in Firms /\ kk.alien \in {"none", "wanin", "sys36"}
  BY FieldsOf DEF Kn
<1>2. PICK l, p, i, r, h \in SUBSET Int, v \in BOOLEAN : SK1E \notin p /\ LoadIs(f, l, v, p, i, r, h)
  BY <1>1, LoadRegular
<1>3. z \in Kernels /\ z.lv1 = << >> /\ z.lv2 = << >>
  BY <1>1, FreshIs DEF Kn
<1>4. q = LoadPayload(kk, MacrosOf(f), l, v, p, i, r, h) /\ b = LoadPayload(z, MacrosOf(f), l, v, p, i, r, h)
  <2>1. LoadIs(f, l, v, p, i, r, h)
    BY <1>2
  <2> HIDE DEF f, z
  <2> QED
    BY <2>1 DEF LoadIs
<1>5. Written(kk, l, v, p, i, r, h, q)
  BY <1>1, <1>2, <1>4, LoadWrites
<1>6. Written(z, l, v, p, i, r, h, b)
  <2> HIDE DEF z
  <2> QED
    BY <1>2, <1>3, <1>4, LoadWrites
<1> HIDE DEF q, b, z, f
<1>7. /\ q \in Kernels /\ q.console = kk.console /\ q.alien = kk.alien /\ q.symbol = kk.symbol
      /\ q.table = kk.table /\ q.saves = kk.saves /\ q.saved = NotSaved
      /\ q.restore = kk.vector \/ (q.restore = kk.restore /\ q.vector = kk.vector)
      /\ Peek(q.lv2, SK1E) = "patch"
  BY <1>5 DEF Written
<1>8. kk.saved = NotSaved
  BY <1>1 DEF SavedSound
<1>9. Loaded(q)
  BY <1>7 DEF Loaded
<1>10. RightSymbol(q) /\ TableSound(q) /\ SavedSound(q) /\ Alone(q)
  BY <1>1, <1>7, <1>8 DEF RightSymbol, TableSound, SavedSound, Alone
<1>11. ASSUME OwnWords(kk) PROVE OwnWords(q)
  <2>1. DOMAIN kk.lv1 \subseteq DOMAIN b.lv1 \union Protection /\ DOMAIN kk.lv2 \subseteq DOMAIN b.lv2
    BY <1>8, <1>11 DEF OwnWords, b, z, f
  <2>2. DOMAIN q.lv1 = DOMAIN kk.lv1 \union h
        /\ DOMAIN q.lv2 = ((DOMAIN kk.lv2 \union l \union p) \ l) \union Added(v, p, i, r)
    BY <1>5 DEF Written
  <2>3. DOMAIN b.lv1 = h /\ DOMAIN b.lv2 = (p \ l) \union Added(v, p, i, r)
    <3>1. DOMAIN b.lv1 = DOMAIN z.lv1 \union h
          /\ DOMAIN b.lv2 = ((DOMAIN z.lv2 \union l \union p) \ l) \union Added(v, p, i, r)
      BY <1>6 DEF Written
    <3> QED
      BY <1>3, <3>1, Empties
  <2>4. DOMAIN q.lv1 \subseteq DOMAIN b.lv1 \union Protection /\ DOMAIN q.lv2 \subseteq DOMAIN b.lv2
    BY <2>1, <2>2, <2>3
  <2> QED
    BY <1>7, <2>4 DEF OwnWords, b, z, f
<1>12. LoadFrom(kk, q)
  BY <1>7, <1>9, <1>10, <1>11 DEF LoadFrom, Kn
<1> QED
  BY <1>12 DEF q, f
-----------------------------------------------------------------------------
(* The storage patches, and what gives them back. *)

\* The word of the storage is no word of the payload.
LEMMA StorageAt ==
  ASSUME NEW f \in Firms
  PROVE  \E a2 \in Int, a1 \in [1..4 -> Int] :
            a2 # SK1E /\ StorageIs(f, a2, a1)
<1>1. PICK a2 \in Int, a1 \in [1..4 -> Int] :
         a2 > \h4F0 /\ a2 # MacrosOf(f).umount /\ StorageIs(f, a2, a1)
  BY StorageRegular
<1>2. a2 # SK1E
  BY <1>1, SMT DEF SK1E
<1>3. StorageIs(f, a2, a1)
  BY <1>1
<1> QED
  BY <1>2, <1>3, SMT

\* Only words of the storage change.
StorageStep(kk, r) ==
    /\ Kn(r) /\ r.console = kk.console /\ r.alien = kk.alien /\ r.table = kk.table /\ r.saved = kk.saved
    /\ r.vector = kk.vector /\ r.restore = kk.restore
    /\ Loaded(kk) => Loaded(r)

\* A step of the storage leaves a kernel sound.
LEMMA StorageStepIs ==
  ASSUME NEW kk, Kn(kk), NEW r \in Kernels,
         r.console = kk.console, r.alien = kk.alien, r.symbol = kk.symbol, r.table = kk.table,
         r.saved = kk.saved, r.vector = kk.vector, r.restore = kk.restore,
         Peek(r.lv2, SK1E) = Peek(kk.lv2, SK1E)
  PROVE  StorageStep(kk, r)
<1>1. Loaded(kk) <=> Loaded(r)
  BY DEF Loaded
<1>2. RightSymbol(r) /\ TableSound(r) /\ SavedSound(r) /\ Alone(r)
  BY <1>1 DEF Kn, RightSymbol, TableSound, SavedSound, Alone
<1> QED
  BY <1>1, <1>2 DEF StorageStep, Kn

\* A poke of what was there takes one word out of those that may differ.
Shrunk(mem, a, v, D, A) ==
    Poke(mem, {a}, v) \in Memories /\ DOMAIN Poke(mem, {a}, v) \subseteq D \union (A \ {a})

\* A word poked back to what it was differs no more.
LEMMA PokeBack ==
  ASSUME NEW mem \in Memories, NEW a \in Int, NEW v \in Contents, NEW D, NEW A,
         v # "shipped" => a \in D, DOMAIN mem \subseteq D \union A
  PROVE  Shrunk(mem, a, v, D, A)
<1>1. Poked(mem, {a}, v)
  BY PokeOne
<1> DEFINE p == Poke(mem, {a}, v)
<1>2. p \in Memories /\ DOMAIN p = IF v = "shipped" THEN DOMAIN mem \ {a} ELSE DOMAIN mem \union {a}
  BY <1>1 DEF Poked
<1> HIDE DEF p
<1>3. DOMAIN p \subseteq D \union (A \ {a})
  BY <1>2
<1> QED
  BY <1>2, <1>3 DEF p, Shrunk

\* The elements of a sequence.
LEMMA SeqElements ==
  ASSUME NEW S, NEW s \in Seq(S)
  PROVE  \A i \in 1..Len(s) : s[i] \in S
  OBVIOUS

\* What lv2_patch_storage keeps is five contents.
LEMMA SeqIs ==
  ASSUME NEW S, NEW s \in Seq(S), Len(s) = 5
  PROVE  s # << >> /\ \A i \in 1..5 : s[i] \in S
<1>1. s # << >>
  OBVIOUS
<1>2. \A i \in 1..Len(s) : s[i] \in S
  BY SeqElements
<1> QED
  BY <1>1, <1>2

\* Five pokes, wherever the words are.
GiveLv1(m, a1, s) == Poke(Poke(Poke(Poke(m, {a1[1]}, s[2]), {a1[2]}, s[3]), {a1[3]}, s[4]), {a1[4]}, s[5])

\* The four words of the hypervisor that are given back differ no more from a
\* memory in which they were as kept.
LEMMA GiveLv1Is ==
  ASSUME NEW m \in Memories, NEW a1 \in [1..4 -> Int], NEW s \in Seq(Contents), Len(s) = 5
  PROVE  /\ GiveLv1(m, a1, s) \in Memories
         /\ \A D : (\A i \in 1..4 : s[i + 1] # "shipped" => a1[i] \in D)
                   /\ DOMAIN m \subseteq D \union {a1[i] : i \in 1..4}
                   => DOMAIN GiveLv1(m, a1, s) \subseteq D
<1> DEFINE m1 == Poke(m, {a1[1]}, s[2])
           m2 == Poke(m1, {a1[2]}, s[3])
           m3 == Poke(m2, {a1[3]}, s[4])
           m4 == Poke(m3, {a1[4]}, s[5])
<1>1. a1[1] \in Int /\ a1[2] \in Int /\ a1[3] \in Int /\ a1[4] \in Int
  OBVIOUS
<1>2. s[2] \in Contents /\ s[3] \in Contents /\ s[4] \in Contents /\ s[5] \in Contents
  <2>1. \A i \in 1..5 : s[i] \in Contents
    BY SeqIs
  <2> QED
    BY <2>1
<1>3. m1 \in Memories
  <2>1. Poked(m, {a1[1]}, s[2])
    BY <1>1, <1>2, PokeOne
  <2> QED
    BY <2>1 DEF Poked
<1> HIDE DEF m1
<1>4. m2 \in Memories
  <2>1. Poked(m1, {a1[2]}, s[3])
    BY <1>1, <1>2, <1>3, PokeOne
  <2> QED
    BY <2>1 DEF Poked
<1> HIDE DEF m2
<1>5. m3 \in Memories
  <2>1. Poked(m2, {a1[3]}, s[4])
    BY <1>1, <1>2, <1>4, PokeOne
  <2> QED
    BY <2>1 DEF Poked
<1> HIDE DEF m3
<1>6. m4 \in Memories
  <2>1. Poked(m3, {a1[4]}, s[5])
    BY <1>1, <1>2, <1>5, PokeOne
  <2> QED
    BY <2>1 DEF Poked
<1>7. ASSUME NEW D, \A i \in 1..4 : s[i + 1] # "shipped" => a1[i] \in D,
             DOMAIN m \subseteq D \union {a1[i] : i \in 1..4}
      PROVE  DOMAIN m4 \subseteq D
  <2> DEFINE A0 == {a1[i] : i \in 1..4}
             A1 == A0 \ {a1[1]}
             A2 == A1 \ {a1[2]}
             A3 == A2 \ {a1[3]}
             A4 == A3 \ {a1[4]}
  <2>1. A4 = {}
    OBVIOUS
  <2>2. DOMAIN m \subseteq D \union A0
    BY <1>7
  <2>3. /\ s[2] # "shipped" => a1[1] \in D
        /\ s[3] # "shipped" => a1[2] \in D
        /\ s[4] # "shipped" => a1[3] \in D
        /\ s[5] # "shipped" => a1[4] \in D
    <3>1. (1 + 1 = 2) /\ (2 + 1 = 3) /\ (3 + 1 = 4) /\ (4 + 1 = 5)
      OBVIOUS
    <3> QED
      BY <1>7, <3>1
  <2> HIDE DEF A0
  <2>4. DOMAIN m1 \subseteq D \union A1
    <3>1. Shrunk(m, a1[1], s[2], D, A0)
      BY <1>1, <1>2, <2>2, <2>3, PokeBack
    <3> QED
      BY <3>1 DEF Shrunk, m1
  <2> HIDE DEF A1
  <2>5. DOMAIN m2 \subseteq D \union A2
    <3>1. Shrunk(m1, a1[2], s[3], D, A1)
      BY <1>1, <1>2, <1>3, <2>3, <2>4, PokeBack
    <3> QED
      BY <3>1 DEF Shrunk, m2
  <2> HIDE DEF A2
  <2>6. DOMAIN m3 \subseteq D \union A3
    <3>1. Shrunk(m2, a1[3], s[4], D, A2)
      BY <1>1, <1>2, <1>4, <2>3, <2>5, PokeBack
    <3> QED
      BY <3>1 DEF Shrunk, m3
  <2> HIDE DEF A3, m4
  <2>7. DOMAIN m4 \subseteq D \union A4
    <3>1. Shrunk(m3, a1[4], s[5], D, A3)
      BY <1>1, <1>2, <1>5, <2>3, <2>6, PokeBack
    <3> QED
      BY <3>1 DEF Shrunk, m4
  <2> QED
    BY <2>1, <2>7
<1> HIDE DEF m4
<1>8. GiveLv1(m, a1, s) = m4
  BY DEF GiveLv1, m1, m2, m3, m4
<1> QED
  BY <1>6, <1>7, <1>8

\* What UnpatchStorage returns.
GiveBackTo(kk, a2, a1) ==
    [kk EXCEPT !.lv2 = Poke(@, {a2}, kk.saves[1]), !.lv1 = GiveLv1(@, a1, kk.saves)]

\* The generic lv2_unpatch_storage gives back what was kept.
LEMMA GiveBackIs ==
  ASSUME NEW kk, Kn(kk), kk.saves # << >>, NEW a2 \in Int, NEW a1 \in [1..4 -> Int],
         a2 # SK1E
  PROVE  LET r == GiveBackTo(kk, a2, a1)
         IN  /\ r \in Kernels /\ StorageStep(kk, r) /\ r.saves = kk.saves
             /\ r.lv2 = Poke(kk.lv2, {a2}, kk.saves[1]) /\ r.lv1 = GiveLv1(kk.lv1, a1, kk.saves)
<1> DEFINE v == kk.saves[1]
           p == Poke(kk.lv2, {a2}, v)
           o == GiveLv1(kk.lv1, a1, kk.saves)
           r == GiveBackTo(kk, a2, a1)
<1>1. kk \in Kernels
  BY DEF Kn
<1>2. kk.lv1 \in Memories /\ kk.lv2 \in Memories /\ kk.saves \in Seq(Contents) /\ Len(kk.saves) = 5
  BY <1>1, FieldsOf
<1>3. v \in Contents
  BY <1>2
<1>4. r = [kk EXCEPT !.lv2 = p, !.lv1 = o]
  BY DEF GiveBackTo
<1> HIDE DEF v
<1>5. Poked(kk.lv2, {a2}, v)
  BY <1>2, <1>3, PokeOne
<1>6. p \in Memories /\ \A a : a # a2 => Peek(p, a) = Peek(kk.lv2, a)
  BY <1>5 DEF Poked
<1>7. o \in Memories
  BY <1>2, GiveLv1Is
<1> HIDE DEF p, o, r
<1>9. r \in Kernels
  BY <1>1, <1>4, <1>6, <1>7 DEF Kernels
<1>10. /\ r.console = kk.console /\ r.alien = kk.alien /\ r.symbol = kk.symbol /\ r.table = kk.table
       /\ r.saved = kk.saved /\ r.vector = kk.vector /\ r.restore = kk.restore /\ r.saves = kk.saves
       /\ r.lv2 = p /\ r.lv1 = o
  BY <1>1, <1>4 DEF Kernels
<1>11. Peek(r.lv2, SK1E) = Peek(kk.lv2, SK1E)
  BY <1>6, <1>10
<1>12. StorageStep(kk, r)
  BY <1>9, <1>10, <1>11, StorageStepIs
<1> QED
  BY <1>9, <1>10, <1>12 DEF r, p, o, v

\* lv2_unpatch_storage gives the words back, or leaves the kernel when it cannot map.
GivenOrStays(kk, r) ==
    /\ StorageStep(kk, r) /\ r.saves = kk.saves
    /\ r = GivenBack(kk) \/ (r = kk /\ kk.saves # << >>)
    /\ kk.saves = << >> => GivenBack(kk) = kk

\* With what the program keeps, lv2_unpatch_storage leaves the kernel sound.
LEMMA UnpatchStorageSound ==
  ASSUME NEW kk, Kn(kk), NEW ok \in BOOLEAN
  PROVE  GivenOrStays(kk, UnpatchStorageOf(kk.console, kk, ok))
<1> DEFINE f == kk.console
           r == UnpatchStorageOf(f, kk, ok)
<1>1. kk \in Kernels /\ f \in Firms
  BY FieldsOf DEF Kn
<1>2. PICK a2 \in Int, a1 \in [1..4 -> Int] : a2 # SK1E /\ StorageIs(f, a2, a1)
  BY <1>1, StorageAt
<1> DEFINE g == GiveBackTo(kk, a2, a1)
           U(o) == UnpatchStorage(kk, o, a2, a1)
<1>3. GivenBack(kk) = U(TRUE) /\ (r = U(ok) \/ r = U(TRUE))
  <2>1. StorageIs(f, a2, a1)
    BY <1>2
  <2>2. /\ UnpatchStorageOf(f, kk, TRUE) = U(TRUE)
        /\ UnpatchStorageOf(f, kk, ok) = U(ok) \/ UnpatchStorageOf(f, kk, ok) = U(TRUE)
    <3> HIDE DEF f
    <3> QED
      BY Zenon, <2>1 DEF StorageIs
  <2> QED
    BY <2>2 DEF GivenBack
<1>4. kk.saves = << >> => U(TRUE) = kk /\ U(ok) = kk
  BY DEF UnpatchStorage
<1>5. kk.saves # << >> => U(TRUE) = g /\ (U(ok) = g \/ U(ok) = kk)
  BY DEF UnpatchStorage, GiveBackTo, GiveLv1
<1> HIDE DEF U, r, g
<1>6. StorageStep(kk, kk)
  BY <1>1, StorageStepIs
<1>7. kk.saves # << >> => StorageStep(kk, g) /\ g.saves = kk.saves
  BY <1>2, GiveBackIs DEF g
<1>8. GivenOrStays(kk, r)
  BY <1>3, <1>4, <1>5, <1>6, <1>7 DEF GivenOrStays
<1> QED
  BY <1>8 DEF r, f

\* lv2_patch_storage, and what comes back of it.
LEMMA PatchStorageSound ==
  ASSUME NEW kk, Kn(kk), kk.saves = << >>, NEW ok \in BOOLEAN
  PROVE  /\ StorageStep(kk, PatchStorageOf(kk.console, kk, ok))
         /\ OwnWords(kk) => OwnWords(GivenBack(PatchStorageOf(kk.console, kk, ok)))
<1> DEFINE f == kk.console
           r == PatchStorageOf(f, kk, ok)
<1>1. kk \in Kernels /\ f \in Firms
  BY FieldsOf DEF Kn
<1>2. PICK a2 \in Int, a1 \in [1..4 -> Int] : a2 # SK1E /\ StorageIs(f, a2, a1)
  BY <1>1, StorageAt
<1>3. /\ PatchStorageOf(f, kk, ok) = PatchStorage(kk, ok, a2, a1)
      /\ \A y : UnpatchStorageOf(f, y, TRUE) = UnpatchStorage(y, TRUE, a2, a1)
  <2>1. StorageIs(f, a2, a1)
    BY <1>2
  <2> HIDE DEF f
  <2> QED
    BY Zenon, <2>1 DEF StorageIs
<1>4. CASE ~ok
  <2>1. r = kk
    BY <1>3, <1>4 DEF PatchStorage
  <2>2. GivenBack(kk) = kk
    BY <1>3 DEF GivenBack, UnpatchStorage
  <2>3. StorageStep(kk, kk)
    BY <1>1, StorageStepIs
  <2> QED
    BY <2>1, <2>2, <2>3
<1>5. CASE ok
  <2> DEFINE A == {a1[i] : i \in 1..4}
             s == <<Peek(kk.lv2, a2)>> \o [i \in 1..4 |-> Peek(kk.lv1, a1[i])]
             p == Poke(kk.lv2, {a2}, "storage")
             o == Poke(kk.lv1, A, "storage")
  <2>1. r = [kk EXCEPT !.saves = s, !.lv2 = p, !.lv1 = o]
    BY <1>3, <1>5 DEF PatchStorage
  <2>2. kk.lv1 \in Memories /\ kk.lv2 \in Memories /\ "storage" \in Contents
    BY <1>1, FieldsOf DEF Contents
  <2>3. /\ Peek(kk.lv2, a2) \in Contents /\ (Peek(kk.lv2, a2) # "shipped" => a2 \in DOMAIN kk.lv2)
        /\ \A i \in 1..4 : Peek(kk.lv1, a1[i]) \in Contents
                           /\ (Peek(kk.lv1, a1[i]) # "shipped" => a1[i] \in DOMAIN kk.lv1)
    BY <2>2, PeekIs
  <2>4. /\ s \in Seq(Contents) /\ Len(s) = 5 /\ s[1] = Peek(kk.lv2, a2)
        /\ \A i \in 1..4 : s[i + 1] = Peek(kk.lv1, a1[i])
    <3> DEFINE w == [i \in 1..4 |-> Peek(kk.lv1, a1[i])]
               u == <<Peek(kk.lv2, a2)>>
    <3>1. w \in Seq(Contents) /\ Len(w) = 4 /\ \A i \in 1..4 : w[i] = Peek(kk.lv1, a1[i])
      BY <2>3
    <3>2. u \in Seq(Contents) /\ Len(u) = 1 /\ u[1] = Peek(kk.lv2, a2)
      BY <2>3
    <3> HIDE DEF w, u
    <3> QED
      BY <3>1, <3>2 DEF w, u
  <2>5. A \in SUBSET Int
    OBVIOUS
  <2>6. Poked(kk.lv2, {a2}, "storage")
    BY <2>2, PokeOne
  <2>7. p \in Memories /\ DOMAIN p = DOMAIN kk.lv2 \union {a2}
        /\ \A a : a # a2 => Peek(p, a) = Peek(kk.lv2, a)
    BY <2>6 DEF Poked
  <2> HIDE DEF A, s
  <2>8. Poked(kk.lv1, A, "storage")
    BY <2>2, <2>5, PokeIs
  <2>9. o \in Memories /\ DOMAIN o = DOMAIN kk.lv1 \union A
    BY <2>8 DEF Poked
  <2> HIDE DEF p, o, r
  <2>10. s \in Saves
    BY <2>4 DEF Saves
  <2>11. r \in Kernels
    BY <1>1, <2>1, <2>7, <2>9, <2>10 DEF Kernels
  <2>12. /\ r.console = kk.console /\ r.alien = kk.alien /\ r.symbol = kk.symbol /\ r.table = kk.table
         /\ r.saved = kk.saved /\ r.vector = kk.vector /\ r.restore = kk.restore
         /\ r.saves = s /\ r.lv2 = p /\ r.lv1 = o
    BY <1>1, <2>1 DEF Kernels
  <2>14. Peek(r.lv2, SK1E) = Peek(kk.lv2, SK1E)
    BY <1>2, <2>7, <2>12
  <2>15. StorageStep(kk, r)
    BY <2>11, <2>12, <2>14, StorageStepIs
  <2>16. ASSUME OwnWords(kk) PROVE OwnWords(GivenBack(r))
    <3> DEFINE g == GiveBackTo(r, a2, a1)
    <3>1. r.saves # << >>
      <4>1. s # << >>
        BY <2>4, SeqIs
      <4> QED
        BY <2>12, <4>1
    <3>2. GivenBack(r) = g
      <4>1. UnpatchStorageOf(f, r, TRUE) = UnpatchStorage(r, TRUE, a2, a1)
        BY <1>3
      <4> QED
        BY <2>12, <3>1, <4>1 DEF GivenBack, UnpatchStorage, GiveBackTo, GiveLv1
    <3>3. Kn(r)
      BY <2>15 DEF StorageStep
    <3>4. /\ StorageStep(r, g)
          /\ g.lv2 = Poke(r.lv2, {a2}, r.saves[1]) /\ g.lv1 = GiveLv1(r.lv1, a1, r.saves)
      BY <1>2, <3>1, <3>3, GiveBackIs
    <3> HIDE DEF g
    <3>5. DOMAIN g.lv2 \subseteq DOMAIN kk.lv2
      <4> DEFINE E == DOMAIN kk.lv2
                 F == {a2}
                 v == s[1]
      <4>1. v \in Contents /\ (v # "shipped" => a2 \in E) /\ DOMAIN p \subseteq E \union F
        BY <2>3, <2>4, <2>7
      <4>2. F \ {a2} = {}
        OBVIOUS
      <4> HIDE DEF E, F, v
      <4>3. DOMAIN Poke(p, {a2}, v) \subseteq E \union (F \ {a2})
        <5>1. Shrunk(p, a2, v, E, F)
          BY <2>7, <4>1, PokeBack
        <5> QED
          BY <5>1 DEF Shrunk
      <4>4. g.lv2 = Poke(p, {a2}, v)
        BY <2>12, <3>4 DEF v
      <4> QED
        BY <4>2, <4>3, <4>4 DEF E
    <3>6. DOMAIN g.lv1 \subseteq DOMAIN kk.lv1
      <4>1. \A i \in 1..4 : s[i + 1] # "shipped" => a1[i] \in DOMAIN kk.lv1
        BY <2>3, <2>4
      <4>2. DOMAIN o \subseteq DOMAIN kk.lv1 \union {a1[i] : i \in 1..4}
        BY <2>9 DEF A
      <4>3. DOMAIN GiveLv1(o, a1, s) \subseteq DOMAIN kk.lv1
        BY <2>4, <2>9, <4>1, <4>2, GiveLv1Is
      <4> QED
        BY <2>12, <3>4, <4>3
    <3>7. g.console = kk.console /\ g.alien = kk.alien /\ g.saved = kk.saved
      BY <2>12, <3>4 DEF StorageStep
    <3>8. OwnWords(g)
      BY <2>16, <3>5, <3>6, <3>7 DEF OwnWords
    <3> QED
      BY <3>2, <3>8
  <2> QED
    BY <2>15, <2>16 DEF r, f
<1> QED
  BY <1>4, <1>5
-----------------------------------------------------------------------------
(* The invariant, step by step: what the steps have in common. *)

\* What the invariant says of the kernel alone.
LEMMA KnK ==
  ASSUME KInv
  PROVE  /\ Kn(k) /\ k \in Kernels /\ k.table \in [SlotNumbers -> Slots]
         /\ at \in Running => fw = k.console
         /\ SavedSound(k) /\ Alone(k) /\ RightSymbol(k) /\ k.console \in Firms
<1>1. k \in Kernels /\ RightSymbol(k) /\ TableSound(k) /\ SavedSound(k) /\ Alone(k)
      /\ (at \in Running => fw = k.console)
  BY DEF KInv, KsTypeOK, RightFirmware
<1> QED
  BY <1>1, FieldsOf DEF Kn

\* To change nothing is calm.
LEMMA CalmSame ==
  ASSUME NEW kk, Kn(kk)
  PROVE  Calm(kk, kk)
<1>1. Quiet(kk, kk)
  BY DEF Quiet
<1> QED
  BY <1>1, QuietIsCalm DEF Kn

\* Calm steps compose.
LEMMA CalmTrans ==
  ASSUME NEW kk, NEW r, NEW q, Calm(kk, r), Calm(r, q)
  PROVE  Calm(kk, q)
  BY DEF Calm

\* Two slots with the name of the disc.
Pair(kk, m, n) == m # n /\ kk.table[m].name = "dev_bdvd" /\ kk.table[n].name = "dev_bdvd"

\* Two such slots were there before.
OldPairs(kk, r) ==
    \A m, n \in SlotNumbers : Pair(r, m, n) =>
        Pair(kk, m, n) /\ r.table[m].dev = kk.table[m].dev /\ r.table[n].dev = kk.table[n].dev

\* A mount makes no second disc, nor a cache disc out of another device.
Mounts(kk, dev, name, r) ==
    /\ Kn(r) /\ Calm(kk, r) /\ OldPairs(kk, r) /\ r.saved = kk.saved
    /\ dev # "HDD1" /\ Cached(r) => Cached(kk)
    /\ MenuKernel(kk) => MenuKernel(r)
    /\ \A n \in SlotNumbers : r.table[n] = kk.table[n] \/ r.table[n].dev = dev

\* A mount of a mountable device is calm.
LEMMA MountStep ==
  ASSUME NEW kk, Kn(kk), NEW dev, NEW name, Mountable(kk, dev, name)
  PROVE  Mounts(kk, dev, name, Mount(kk, dev, name))
<1> DEFINE r == Mount(kk, dev, name)
           s == Mounted(dev, name)
<1>1. /\ Kn(r) /\ Calm(kk, r)
      /\ r.saved = kk.saved /\ r.lv2 = kk.lv2
      /\ \A n \in SlotNumbers : r.table[n] = kk.table[n] \/ r.table[n] = s
      /\ r.table = kk.table \/ \E n \in SlotNumbers :
            /\ r.table[n] = s /\ kk.table[n] = Free
            /\ \A m \in SlotNumbers : kk.table[m].name # name
            /\ \A m \in SlotNumbers \ {n} : r.table[m] = kk.table[m]
  BY MountSound
<1>2. s.dev = dev /\ s.name = name /\ Own(s)
  BY DEF Mounted, Own, Mountable
<1>3. r.console = kk.console
  BY <1>1 DEF Calm
<1> HIDE DEF r, s
<1>4. OldPairs(kk, r)
  <2>1. CASE r.table = kk.table
    BY <2>1 DEF OldPairs, Pair
  <2>2. CASE r.table # kk.table
    <3>1. PICK l \in SlotNumbers : /\ r.table[l] = s
                                   /\ \A m \in SlotNumbers : kk.table[m].name # name
                                   /\ \A m \in SlotNumbers \ {l} : r.table[m] = kk.table[m]
      BY <1>1, <2>2
    <3> SUFFICES ASSUME NEW m \in SlotNumbers, NEW n \in SlotNumbers, Pair(r, m, n)
                 PROVE  m # l /\ n # l
      BY <3>1 DEF OldPairs, Pair
    <3> QED
      BY <1>2, <3>1 DEF Pair
  <2> QED
    BY <2>1, <2>2
<1>5. dev # "HDD1" /\ Cached(r) => Cached(kk)
  BY <1>1, <1>2 DEF Cached
<1>6. MenuKernel(kk) => MenuKernel(r)
  BY <1>1, <1>2, <1>3 DEF MenuKernel
<1> QED
  BY <1>1, <1>2, <1>4, <1>5, <1>6 DEF Mounts, r

\* Steps that leave the words alone, with the phases they lead to.
Phases ==
    \/ at' = at /\ useMamba' = useMamba
    \/ at \in Settled /\ at' \in {"clean", "umounted", "menu", "booting", "leaving"}
    \/ at \in Early /\ at' = "leaving"

\* The payload is not taken out of the kernel.
PayloadStays == Loaded(k) => Loaded(k')

\* The parts of the invariant that are about the kernel and its words.
WordParts == RightFirmware /\ TableSound(k) /\ SavedSound(k) /\ Alone(k) /\ MarkSound /\ WordsSound
          /\ VectorSound /\ VectorFresh /\ k \in Kernels

\* A calm change of the kernel on the way through the phases keeps those parts.
LEMMA CalmStep ==
  ASSUME KInv, Kn(k'), Calm(k, k'), UNCHANGED <<fw, mode, pointers, found, stuck>>, Phases
  PROVE  WordParts'
<1>1. Kn(k) /\ (at \in Running => fw = k.console)
  BY KnK
<1>2. /\ k'.console = k.console /\ k'.vector = k.vector /\ k'.restore = k.restore /\ k'.saves = k.saves
      /\ Loaded(k) <=> Loaded(k')
      /\ OwnWords(k) => OwnWords(k')
      /\ OwnWords(GivenBack(k)) => OwnWords(GivenBack(k'))
  BY DEF Calm
<1>3. (at' \in Running) <=> (at \in Running)
  BY DEF Phases, Running, Early, Settled
<1>4. RightFirmware' /\ TableSound(k)' /\ SavedSound(k)' /\ Alone(k)' /\ (k \in Kernels)'
  BY <1>1, <1>2, <1>3 DEF Kn, RightFirmware
<1>5. MarkSound'
  <2>1. MarkSound
    BY DEF KInv
  <2>2. /\ at' = "begun" => at = "begun"
        /\ at' \in Settled \union {"loaded"} => at \in Settled \union {"loaded"}
    BY DEF Phases, Settled, Early
  <2> QED
    BY <1>2, <2>1, <2>2 DEF MarkSound
<1>6. WordsSound'
  <2>1. WordsSound
    BY DEF KInv
  <2>2. UnpatchStorageOf(fw, k, TRUE) = GivenBack(k) \/ at \notin Running
    BY <1>1 DEF GivenBack
  <2>3. UnpatchStorageOf(fw', k', TRUE) = GivenBack(k') \/ at' \notin Running
    BY <1>1, <1>2, <1>3 DEF GivenBack
  <2>4. ~stuck' => OwnWords(IF at' \in Running THEN UnpatchStorageOf(fw', k', TRUE) ELSE k')
    <3>1. CASE at \in Running
      BY <1>2, <1>3, <2>1, <2>2, <2>3, <3>1 DEF WordsSound
    <3>2. CASE at \notin Running
      BY <1>2, <1>3, <2>1, <3>2 DEF WordsSound
    <3> QED
      BY <3>1, <3>2
  <2>5. at' \in Early => k'.saves = << >> /\ pointers'
    <3>1. at' \in Early => at \in Early
      BY DEF Phases, Early, Settled
    <3> QED
      BY <1>2, <2>1, <3>1 DEF WordsSound
  <2>6. at' \in Running /\ k'.saves # << >> => pointers'
    BY <1>2, <1>3, <2>1 DEF WordsSound
  <2>7. at' = "set" /\ useMamba' => ~pointers'
    BY <2>1 DEF WordsSound, Phases
  <2> QED
    BY <2>4, <2>5, <2>6, <2>7 DEF WordsSound
<1>7. VectorSound'
  <2>1. VectorSound
    BY DEF KInv
  <2> QED
    BY <1>2, <1>3, <2>1 DEF VectorSound
<1>8. VectorFresh'
  <2>1. VectorFresh
    BY DEF KInv
  <2> QED
    BY <1>2, <2>1 DEF VectorFresh, Phases
<1> QED
  BY <1>4, <1>5, <1>6, <1>7, <1>8 DEF WordParts

\* The console does something under the program.
LEMMA EventStep ==
  ASSUME KInv, UNCHANGED <<at, noBDVD, cobra, mamba, discless, statics, found, stuck>>,
         Kn(k'), Calm(k, k'), Cached(k') => Cached(k), MenuKernel(k) => MenuKernel(k'),
         OldPairs(k, k')
  PROVE  KInv' /\ PayloadStays
<1>1. /\ UNCHANGED <<at, noBDVD, cobra, mamba, discless, found, stuck>>
      /\ UNCHANGED <<fw, mode, useCobra, useMamba, pointers, one>>
  BY DEF statics
<1>2. WordParts'
  <2>1. Phases
    BY <1>1 DEF Phases
  <2> QED
    BY <1>1, <2>1, CalmStep
<1>3. KsTypeOK'
  BY <1>1, <1>2 DEF KInv, KsTypeOK, WordParts
<1>4. CacheSound'
  <2>1. Loaded(k) <=> Loaded(k')
    BY DEF Calm
  <2>2. CacheSound
    BY DEF KInv
  <2> QED
    BY <1>1, <2>1, <2>2 DEF CacheSound
<1>5. Flags'
  <2>1. Flags
    BY DEF KInv
  <2> QED
    BY <1>1, <2>1 DEF Flags
<1>6. InMenu'
  <2>1. InMenu
    BY DEF KInv
  <2> QED
    BY <1>1, <2>1 DEF InMenu
<1>7. Discs'
  <2>1. Discs
    BY DEF KInv
  <2> QED
    BY <1>1, <2>1 DEF Discs, OldPairs, Pair
<1>8. PayloadStays
  BY DEF Calm, PayloadStays
<1>9. KInv'
  BY <1>2, <1>3, <1>4, <1>5, <1>6, <1>7 DEF KInv, WordParts
<1> QED
  BY <1>8, <1>9

\* The program goes on to another phase, with the words as they are.
LEMMA PhaseStep ==
  ASSUME KInv, UNCHANGED <<fw, mode, pointers, found, stuck>>, Kn(k'), Calm(k, k'), Phases,
         KsTypeOK', CacheSound', Flags', InMenu', Discs'
  PROVE  KInv'
<1>1. WordParts'
  BY CalmStep
<1> QED
  BY <1>1 DEF KInv, WordParts

-----------------------------------------------------------------------------
(* The console *)

\* A disc is inserted.
LEMMA InsertStep ==
  ASSUME KInv, InsertDisc
  PROVE  KInv' /\ PayloadStays
<1> DEFINE k1 == Mount(k, "PATA0_BDVD_DRIVE", "dev_bdvd")
           k2 == Mount(k1, "BDVD_DRIVE", "dev_ps2disc")
<1>1. /\ \A n \in SlotNumbers : k.table[n].dev \notin Drives
      /\ k' = k2
      /\ UNCHANGED <<at, noBDVD, cobra, mamba, discless, statics, found, stuck>>
  BY DEF InsertDisc
<1>2. Kn(k)
  BY KnK
<1>3. Mountable(k, "PATA0_BDVD_DRIVE", "dev_bdvd")
  BY <1>1, OwnNamesAre DEF Mountable, Drives, Devices, Fixed, MountNames
<1> HIDE DEF k1
<1>4. Mounts(k, "PATA0_BDVD_DRIVE", "dev_bdvd", k1)
  BY <1>2, <1>3, MountStep DEF k1
<1>5. Mountable(k1, "BDVD_DRIVE", "dev_ps2disc")
  <2>1. "BDVD_DRIVE" \notin Singles
    BY UsbFacts DEF Singles
  <2> QED
    BY <2>1, OwnNamesAre DEF Mountable, Devices, Fixed, MountNames
<1> HIDE DEF k2
<1>6. Kn(k1)
  BY <1>4 DEF Mounts
<1>7. Mounts(k1, "BDVD_DRIVE", "dev_ps2disc", k2)
  BY <1>5, <1>6, MountStep DEF k2
<1>8. Kn(k2) /\ Calm(k, k2)
  BY <1>4, <1>7, CalmTrans DEF Mounts
<1>9. Cached(k2) => Cached(k)
  BY <1>4, <1>7 DEF Mounts
<1>10. MenuKernel(k) => MenuKernel(k2)
  BY <1>4, <1>7 DEF Mounts
<1>11. OldPairs(k, k2)
  <2>1. OldPairs(k, k1) /\ OldPairs(k1, k2)
    BY <1>4, <1>7 DEF Mounts
  <2> QED
    BY <2>1 DEF OldPairs
<1> QED
  BY <1>1, <1>8, <1>9, <1>10, <1>11, EventStep

\* What is left when slots become free.
LEMMA FreedStep ==
  ASSUME NEW kk, Kn(kk), NEW t \in [SlotNumbers -> Slots],
         \A n \in SlotNumbers : t[n] = kk.table[n] \/ t[n] = Free
  PROVE  LET r == [kk EXCEPT !.table = t]
         IN  /\ Kn(r) /\ Calm(kk, r) /\ (Cached(r) => Cached(kk))
             /\ MenuKernel(kk) => MenuKernel(r)
             /\ OldPairs(kk, r) /\ r.table = t /\ r.saved = kk.saved /\ r.lv2 = kk.lv2
<1> DEFINE r == [kk EXCEPT !.table = t]
<1>1. Kn(r) /\ Calm(kk, r) /\ r.saved = kk.saved /\ r.lv2 = kk.lv2 /\ r.table = t
  BY FreedSound
<1> HIDE DEF r
<1>2. r.console = kk.console
  BY <1>1 DEF Calm
<1>3. Cached(r) => Cached(kk)
  BY <1>1, FreeFacts DEF Cached
<1>4. MenuKernel(kk) => MenuKernel(r)
  BY <1>1, <1>2, FreeFacts DEF MenuKernel
<1>5. OldPairs(kk, r)
  BY <1>1, FreeFacts DEF OldPairs, Pair
<1> QED
  BY <1>1, <1>3, <1>4, <1>5 DEF r

\* A disc is ejected.
LEMMA EjectStep ==
  ASSUME KInv, EjectDisc
  PROVE  KInv' /\ PayloadStays
<1> DEFINE k1 == Umount(k, "dev_bdvd")
           k2 == Umount(k1, "dev_ps2disc")
           t == [n \in SlotNumbers |-> IF k2.table[n].dev \in Drives THEN Free ELSE k2.table[n]]
           k3 == [k2 EXCEPT !.table = t]
<1>1. /\ k' = k3
      /\ UNCHANGED <<at, noBDVD, cobra, mamba, discless, statics, found, stuck>>
  BY DEF EjectDisc, Ejected
<1>2. Kn(k) /\ SavedSound(k)
  BY KnK
<1>3. Umounted(k, "dev_bdvd", k1)
  BY <1>2, UmountSound
<1> HIDE DEF k1
<1>4. Kn(k1)
  BY <1>3 DEF Umounted
<1>5. Umounted(k1, "dev_ps2disc", k2)
  BY <1>4, UmountSound
<1> HIDE DEF k2
<1>6. Kn(k2) /\ k2.table \in [SlotNumbers -> Slots]
  BY <1>5, FieldsOf DEF Umounted, Kn
<1>7. t \in [SlotNumbers -> Slots] /\ \A n \in SlotNumbers : t[n] = k2.table[n] \/ t[n] = Free
  BY <1>6, FreeFacts
<1> HIDE DEF t
<1>8. /\ Kn(k3) /\ Calm(k2, k3) /\ (Cached(k3) => Cached(k2))
      /\ MenuKernel(k2) => MenuKernel(k3)
      /\ OldPairs(k2, k3)
  BY <1>6, <1>7, FreedStep
<1> HIDE DEF k3
<1>9. Calm(k, k3)
  <2>1. Calm(k, k1) /\ Calm(k1, k2)
    BY <1>3, <1>5 DEF Umounted
  <2>2. Calm(k, k2)
    BY <2>1, CalmTrans
  <2> QED
    BY <1>8, <2>2, CalmTrans
<1>10. NotSaved.slot.dev = "none"
  BY FreeFacts DEF NotSaved
<1>11. ASSUME NEW kk, NEW r, NEW name, Umounted(kk, name, r), Cached(r) PROVE Cached(kk)
  BY <1>10, <1>11, FreeFacts DEF Umounted, Cached
<1>12. Cached(k3) => Cached(k)
  BY <1>3, <1>5, <1>8, <1>11
<1>13. ASSUME NEW kk, NEW r, NEW name, Umounted(kk, name, r), MenuKernel(kk) PROVE MenuKernel(r)
  <2>1. r.console = kk.console
    BY <1>13 DEF Umounted, Calm
  <2> QED
    BY <1>13, <2>1, FreeFacts DEF Umounted, MenuKernel
<1>14. MenuKernel(k) => MenuKernel(k3)
  BY <1>3, <1>5, <1>8, <1>13
<1>15. \A n \in SlotNumbers : k2.table[n].name # "dev_bdvd"
  <2>1. \A n \in SlotNumbers : k1.table[n].name # "dev_bdvd"
    BY <1>3 DEF Umounted
  <2>2. ASSUME k1.saved # NotSaved, k1.saved.slot.dev = "BDVD_DRIVE" PROVE k1.saved.slot.name # "dev_bdvd"
    <3>1. Own(k1.saved.slot) /\ k1.saved.slot \in Slots
      BY <1>4, <2>2, FieldsOf DEF Kn, SavedSound
    <3> QED
      BY <2>2, <3>1, OwnFacts
  <2> QED
    BY <1>5, <2>1, <2>2, FreeFacts DEF Umounted
<1>16. OldPairs(k, k3)
  BY <1>8, <1>15 DEF OldPairs, Pair
<1> QED
  BY <1>1, <1>8, <1>9, <1>12, <1>14, <1>16, EventStep

\* A USB device is plugged in.
LEMMA PlugStep ==
  ASSUME KInv, NEW u \in Units, Plug(u)
  PROVE  KInv' /\ PayloadStays
<1> DEFINE k1 == Mount(k, Mass(u), DevUsb(u))
<1>1. /\ \A n \in SlotNumbers : k.table[n].dev # Mass(u)
      /\ k' = k1
      /\ UNCHANGED <<at, noBDVD, cobra, mamba, discless, statics, found, stuck>>
  BY DEF Plug
<1>2. Kn(k)
  BY KnK
<1>3. Mountable(k, Mass(u), DevUsb(u))
  <2>1. Mass(u) \in Devices /\ Mass(u) \notin Fixed /\ DevUsb(u) \in MountNames
    BY UsbFacts
  <2>2. DevUsb(u) \in OwnNames(Mass(u))
    BY OwnNamesAre
  <2> QED
    BY <1>1, <2>1, <2>2 DEF Mountable, Fixed
<1> HIDE DEF k1
<1>4. Mounts(k, Mass(u), DevUsb(u), k1)
  BY <1>2, <1>3, MountStep DEF k1
<1>5. Mass(u) # "HDD1"
  BY DEF Mass
<1> QED
  BY <1>1, <1>4, <1>5, EventStep DEF Mounts

\* A USB device is pulled out.
LEMMA UnplugStep ==
  ASSUME KInv, NEW u \in Units, Unplug(u)
  PROVE  KInv' /\ PayloadStays
<1> DEFINE t == [n \in SlotNumbers |-> IF k.table[n].dev = Mass(u) THEN Free ELSE k.table[n]]
           k1 == [k EXCEPT !.table = t]
<1>1. /\ k' = k1
      /\ UNCHANGED <<at, noBDVD, cobra, mamba, discless, statics, found, stuck>>
  BY DEF Unplug
<1>2. Kn(k) /\ k.table \in [SlotNumbers -> Slots]
  BY KnK
<1>3. t \in [SlotNumbers -> Slots] /\ \A n \in SlotNumbers : t[n] = k.table[n] \/ t[n] = Free
  BY <1>2, FreeFacts
<1> HIDE DEF t
<1>4. /\ Kn(k1) /\ Calm(k, k1) /\ (Cached(k1) => Cached(k))
      /\ MenuKernel(k) => MenuKernel(k1)
      /\ OldPairs(k, k1)
  BY <1>2, <1>3, FreedStep
<1> HIDE DEF k1
<1> QED
  BY <1>1, <1>4, EventStep
-----------------------------------------------------------------------------
(* The program up to the menu *)

\* The console switched off: as shipped, whatever was in it.
LEMMA ShippedStep ==
  ASSUME KInv, k' = Fresh(k.console, k.alien), at' = "xmb", mamba' = "no", discless' = "no",
         stuck' = FALSE, found' = "shipped", noBDVD' \in 0..2, UNCHANGED <<cobra, statics>>
  PROVE  KInv'
<1>1. k.console \in Firms /\ k.alien \in {"none", "wanin", "sys36"}
  BY KnK, FieldsOf
<1> DEFINE z == Fresh(k.console, k.alien)
<1>2. /\ Kn(z) /\ ~Loaded(z) /\ ~Cached(z) /\ z.vector = "shipped" /\ OwnWords(z)
      /\ \A n \in SlotNumbers : z.table[n].name # "dev_bdvd"
  BY <1>1, FreshIs
<1>3. k' = z
  OBVIOUS
<1> HIDE DEF z
<1>4. UNCHANGED <<fw, mode, useCobra, useMamba, pointers, one>>
  BY DEF statics
<1>5. at' = "xmb" /\ "xmb" \notin Running /\ "xmb" \in Idle /\ "xmb" \notin Settled /\ "xmb" \notin Early
  BY DEF Running, Early, Settled, Idle
<1>6. KsTypeOK'
  BY <1>2, <1>3, <1>4, <1>5 DEF KInv, KsTypeOK, Kn, Vectors
<1>7. RightFirmware' /\ TableSound(k)' /\ SavedSound(k)' /\ Alone(k)'
  BY <1>2, <1>3, <1>5 DEF Kn, RightFirmware
<1>8. CacheSound'
  BY <1>2, <1>3 DEF CacheSound
<1>9. Flags'
  BY <1>5 DEF Flags
<1>10. MarkSound' /\ InMenu' /\ VectorFresh'
  BY <1>5 DEF MarkSound, InMenu, VectorFresh
<1>11. Discs'
  BY <1>2, <1>3 DEF Discs
<1>12. WordsSound'
  BY <1>2, <1>3, <1>5 DEF WordsSound
<1>13. VectorSound'
  BY <1>2, <1>3, <1>5 DEF VectorSound
<1> QED
  BY <1>6, <1>7, <1>8, <1>9, <1>10, <1>11, <1>12, <1>13 DEF KInv

\* The kernel a program begins with.
Cleared(kk) == [kk EXCEPT !.restore = "none", !.saves = << >>]

\* The kernel a program begins with is as sound as before.
LEMMA ClearedIs ==
  ASSUME NEW kk, Kn(kk)
  PROVE  LET c == Cleared(kk)
         IN  /\ Kn(c) /\ Kn(Led(c)) /\ c.restore = "none" /\ c.saves = << >> /\ c.vector = kk.vector
             /\ Led(c).saves = << >> /\ Led(c).restore = kk.vector
             /\ \A q \in {c, Led(c)} :
                   /\ q.console = kk.console /\ q.alien = kk.alien /\ q.symbol = kk.symbol
                   /\ q.lv1 = kk.lv1 /\ q.lv2 = kk.lv2 /\ q.table = kk.table /\ q.saved = kk.saved
<1> DEFINE c == Cleared(kk)
           d == Led(c)
<1>1. kk \in Kernels /\ RightSymbol(kk) /\ TableSound(kk) /\ SavedSound(kk) /\ Alone(kk)
  BY DEF Kn
<1>2. << >> \in Saves /\ kk.vector \in Vectors /\ "sk1e" \in Vectors
  BY <1>1, FieldsOf DEF Saves, Vectors
<1>3. c \in Kernels /\ c.restore = "none" /\ c.saves = << >> /\ c.vector = kk.vector
      /\ c.console = kk.console /\ c.alien = kk.alien /\ c.symbol = kk.symbol
      /\ c.lv1 = kk.lv1 /\ c.lv2 = kk.lv2 /\ c.table = kk.table /\ c.saved = kk.saved
  BY <1>1, <1>2 DEF Cleared, Kernels
<1> HIDE DEF c
<1>4. d \in Kernels /\ d.restore = c.vector /\ d.saves = c.saves
      /\ d.console = c.console /\ d.alien = c.alien /\ d.symbol = c.symbol
      /\ d.lv1 = c.lv1 /\ d.lv2 = c.lv2 /\ d.table = c.table /\ d.saved = c.saved
  BY <1>2, <1>3 DEF Led, Kernels
<1> HIDE DEF d
<1>5. ASSUME NEW q \in Kernels, q.console = kk.console, q.symbol = kk.symbol,
             q.lv2 = kk.lv2, q.table = kk.table, q.saved = kk.saved
      PROVE  Kn(q)
  BY <1>1, <1>5 DEF Kn, RightSymbol, TableSound, SavedSound, Alone, Loaded
<1>6. Kn(c)
  BY <1>3, <1>5
<1>7. Kn(d)
  BY <1>3, <1>4, <1>5
<1> QED
  BY <1>3, <1>4, <1>6, <1>7 DEF c, d

\* The program begins: the firmware and the payload are detected.
LEMMA BeginStep ==
  ASSUME KInv, Begin
  PROVE  KInv' /\ PayloadStays
<1> DEFINE c == Cleared(k)
           f == k.console
           r == PayloadLoaded(f, c)
<1>1. Kn(k) /\ SavedSound(k) /\ RightSymbol(k) /\ f \in Firms
  BY KnK
<1>2. Detected(k) = f
  BY <1>1, DetectedIs DEF RightSymbol
<1>3. /\ at \in {"xmb", "back"}
      /\ fw' = f /\ k' = r.kernel /\ mode' = r.mode
      /\ found' = k.vector
      /\ discless' = IF discless = "on" THEN "off" ELSE discless
      /\ useCobra' = (cobra \/ mamba = "resident")
      /\ useMamba' = FALSE /\ pointers' = TRUE /\ one' = FALSE
      /\ at' = "begun"
      /\ UNCHANGED <<noBDVD, cobra, mamba, stuck>>
  BY <1>2 DEF Begin, Cleared
<1>4. /\ Kn(c) /\ Kn(Led(c)) /\ c.restore = "none" /\ c.saves = << >> /\ c.vector = k.vector
      /\ Led(c).saves = << >> /\ Led(c).restore = k.vector
      /\ \A q \in {c, Led(c)} :
            /\ q.console = k.console /\ q.alien = k.alien /\ q.symbol = k.symbol
            /\ q.lv1 = k.lv1 /\ q.lv2 = k.lv2 /\ q.table = k.table /\ q.saved = k.saved
  BY <1>1, ClearedIs
<1> HIDE DEF c
<1>5. /\ r.kernel = c \/ r.kernel = Led(c)
      /\ r.mode \in {"zero", "hermes", "sky10", "wanin", "sys36"}
      /\ r.mode = "zero" => r.kernel = c /\ ~Loaded(c)
      /\ r.mode \in {"hermes", "sky10"} => Loaded(c)
  <2>1. c.console = f /\ c.alien = k.alien /\ k.alien \in {"none", "wanin", "sys36"}
    BY <1>1, <1>4, FieldsOf DEF Kn
  <2> HIDE DEF f
  <2> QED
    BY <1>1, <2>1, PayloadLoadedIs
<1> HIDE DEF r, f
<1>6. /\ Kn(k') /\ k'.saves = << >> /\ k'.console = f
      /\ k'.console = k.console /\ k'.alien = k.alien
      /\ k'.lv1 = k.lv1 /\ k'.lv2 = k.lv2 /\ k'.table = k.table /\ k'.saved = k.saved
  BY <1>3, <1>4, <1>5 DEF f
<1>7. (Loaded(k') <=> Loaded(k)) /\ (Loaded(c) <=> Loaded(k)) /\ (Cached(k') <=> Cached(k))
  BY <1>4, <1>6 DEF Loaded, Cached
<1>8. /\ "begun" \in Running /\ "begun" \in Early /\ "begun" \notin Settled
      /\ at \notin Running
  BY <1>3 DEF Running, Early, Settled
<1>9. KsTypeOK'
  <2>1. KsTypeOK
    BY DEF KInv
  <2>2. k.vector \in Vectors
    BY <2>1, FieldsOf DEF KsTypeOK
  <2> QED
    BY <1>1, <1>3, <1>5, <1>6, <1>8, <2>1, <2>2 DEF KsTypeOK, Kn
<1>10. RightFirmware' /\ TableSound(k)' /\ SavedSound(k)' /\ Alone(k)'
  BY <1>3, <1>6 DEF Kn, RightFirmware
<1>11. CacheSound'
  BY <1>3, <1>7 DEF CacheSound, KInv
<1>12. Flags'
  BY <1>3, <1>8 DEF Flags, Settled
<1>13. MarkSound'
  BY <1>3, <1>5, <1>7, <1>8 DEF MarkSound
<1>14. InMenu' /\ Discs'
  BY <1>3 DEF InMenu, Discs
<1>15. WordsSound'
  <2>1. ~stuck => OwnWords(k)
    BY <1>8 DEF KInv, WordsSound
  <2>2. OwnWords(k) => OwnWords(k')
    BY <1>6 DEF OwnWords
  <2>3. GivenBack(k') = k'
    <3> DEFINE q == k'
    <3>1. Kn(q) /\ q.saves = << >>
      BY <1>6
    <3> HIDE DEF q
    <3>2. GivenOrStays(q, UnpatchStorageOf(q.console, q, TRUE))
      BY <3>1, UnpatchStorageSound
    <3>3. GivenBack(q) = q
      BY <3>1, <3>2 DEF GivenOrStays
    <3> QED
      BY <3>3 DEF q
  <2>4. UnpatchStorageOf(fw', k', TRUE) = k'
    BY <1>3, <1>6, <2>3 DEF GivenBack
  <2> QED
    BY <1>3, <1>6, <1>8, <2>1, <2>2, <2>4 DEF WordsSound
<1>16. VectorSound'
  <2>1. k' = c \/ k' = Led(c)
    BY <1>3, <1>5
  <2>2. CASE k' = c
    BY <1>3, <1>4, <2>2 DEF VectorSound
  <2>3. CASE k' = Led(c)
    <3>1. k.vector # "none"
      BY <1>1, FieldsOf DEF Kn, Vectors
    <3> QED
      BY <1>3, <1>4, <1>8, <2>3, <3>1 DEF VectorSound
  <2> QED
    BY <2>1, <2>2, <2>3
<1>17. VectorFresh'
  BY <1>3, <1>4, <1>5 DEF VectorFresh
<1>18. PayloadStays
  BY <1>7 DEF PayloadStays
<1>19. KInv'
  BY <1>9, <1>10, <1>11, <1>12, <1>13, <1>14, <1>15, <1>16, <1>17 DEF KInv
<1> QED
  BY <1>18, <1>19

\* With nothing kept of the storage there is nothing to give back.
LEMMA NothingKept ==
  ASSUME NEW kk, Kn(kk), kk.saves = << >>
  PROVE  UnpatchStorageOf(kk.console, kk, TRUE) = kk
<1>1. GivenOrStays(kk, UnpatchStorageOf(kk.console, kk, TRUE))
  BY UnpatchStorageSound
<1> QED
  BY <1>1 DEF GivenOrStays, GivenBack

\* The hypervisor is opened before the payload is written.
Opened(kk, o) == [kk EXCEPT !.lv1 = o]

\* Opening the hypervisor leaves the kernel sound and its words its own.
LEMMA OpenedIs ==
  ASSUME NEW kk, Kn(kk), NEW o, o = kk.lv1 \/ o = Poke(kk.lv1, Protection, "patch")
  PROVE  LET q == Opened(kk, o)
         IN  /\ Kn(q) /\ q.console = kk.console /\ q.alien = kk.alien /\ q.table = kk.table
             /\ q.saved = kk.saved /\ q.saves = kk.saves /\ q.vector = kk.vector
             /\ q.restore = kk.restore /\ (Loaded(q) <=> Loaded(kk))
             /\ OwnWords(kk) => OwnWords(q)
<1> DEFINE q == Opened(kk, o)
<1>1. kk \in Kernels /\ RightSymbol(kk) /\ TableSound(kk) /\ SavedSound(kk) /\ Alone(kk)
  BY DEF Kn
<1>2. o \in Memories /\ DOMAIN o \subseteq DOMAIN kk.lv1 \union Protection
  <2>1. kk.lv1 \in Memories /\ "patch" \in Contents
    BY <1>1, FieldsOf DEF Contents
  <2>2. Protection \in SUBSET Int
    BY SMT DEF Protection
  <2>3. Poked(kk.lv1, Protection, "patch")
    BY <2>1, <2>2, PokeIs
  <2> QED
    BY <2>1, <2>3 DEF Poked
<1>3. q \in Kernels /\ q.console = kk.console /\ q.alien = kk.alien /\ q.symbol = kk.symbol
      /\ q.lv1 = o /\ q.lv2 = kk.lv2 /\ q.table = kk.table /\ q.saved = kk.saved
      /\ q.saves = kk.saves /\ q.vector = kk.vector /\ q.restore = kk.restore
  BY <1>1, <1>2 DEF Opened, Kernels
<1> HIDE DEF q
<1>4. Kn(q) /\ (Loaded(q) <=> Loaded(kk))
  BY <1>1, <1>3 DEF Kn, RightSymbol, TableSound, SavedSound, Alone, Loaded
<1>5. OwnWords(kk) => OwnWords(q)
  BY <1>2, <1>3 DEF OwnWords
<1> QED
  BY <1>3, <1>4, <1>5 DEF q

\* The payload is loaded.
LEMMA LoadStep ==
  ASSUME KInv, Load
  PROVE  KInv'
<1> DEFINE o == IF fw \in {"355", "355dex"} THEN Poke(k.lv1, Protection, "patch") ELSE k.lv1
           q == Opened(k, o)
           r == LoadOf(fw, q)
           takes == fw # "341" /\ ~useCobra
<1>1. /\ at = "begun" /\ mode = "zero"
      /\ k' = r
      /\ useMamba' = takes
      /\ mamba' = IF takes /\ fw # "460deh" THEN "loaded" ELSE mamba
      /\ discless' = IF takes /\ fw # "460deh" THEN "no" ELSE discless
      /\ at' = "loaded"
      /\ UNCHANGED <<noBDVD, cobra, fw, mode, useCobra, pointers, one, found, stuck>>
  BY DEF Load, Opened
<1>2. Kn(k) /\ SavedSound(k) /\ (at \in Running => fw = k.console)
  BY KnK
<1>3. "begun" \in Running /\ "begun" \in Early /\ "loaded" \in Running /\ "loaded" \in Early
      /\ "loaded" \notin Settled
  BY DEF Running, Early, Settled
<1>4. fw = k.console
  BY <1>1, <1>2, <1>3
<1>5. o = k.lv1 \/ o = Poke(k.lv1, Protection, "patch")
  OBVIOUS
<1> HIDE DEF o, r
<1>6. /\ Kn(q) /\ q.console = k.console /\ q.alien = k.alien /\ q.table = k.table
      /\ q.saved = k.saved /\ q.saves = k.saves /\ q.vector = k.vector
      /\ q.restore = k.restore /\ (Loaded(q) <=> Loaded(k))
      /\ OwnWords(k) => OwnWords(q)
  BY <1>2, <1>5, OpenedIs
<1> HIDE DEF q
<1>7. ~Loaded(k) /\ ~Cached(k)
  BY <1>1, <1>3 DEF KInv, MarkSound, CacheSound
<1>8. LoadFrom(q, r)
  BY <1>4, <1>6, <1>7, LoadSound DEF r
<1>9. k.saves = << >> /\ pointers /\ k.restore = "none" /\ k.vector = found
  <2>1. WordsSound /\ VectorFresh /\ VectorSound
    BY DEF KInv
  <2> QED
    BY <1>1, <1>3, <2>1 DEF WordsSound, VectorFresh, VectorSound
<1>10. /\ Kn(r) /\ Loaded(r) /\ r.saved = NotSaved /\ r.saves = << >> /\ r.table = k.table
       /\ r.console = fw /\ r.alien = k.alien
       /\ r.restore = found \/ (r.restore = "none" /\ r.vector = found)
       /\ OwnWords(k) => OwnWords(r)
  BY <1>4, <1>6, <1>8, <1>9 DEF LoadFrom
<1>11. ~Cached(r)
  <2>1. NotSaved.slot.dev = "none"
    BY FreeFacts DEF NotSaved
  <2> QED
    BY <1>7, <1>10, <2>1 DEF Cached
<1>12. KsTypeOK'
  BY <1>1, <1>3, <1>10 DEF KInv, KsTypeOK, Kn
<1>13. RightFirmware' /\ TableSound(k)' /\ SavedSound(k)' /\ Alone(k)'
  BY <1>1, <1>10 DEF Kn, RightFirmware
<1>14. CacheSound'
  BY <1>1, <1>11 DEF CacheSound
<1>15. Flags'
  <2>1. /\ useCobra <=> cobra \/ mamba = "resident"
        /\ discless # "on" /\ ~one
    BY <1>1, <1>3 DEF KInv, Flags
  <2> QED
    BY <1>1, <1>3, <2>1 DEF Flags, Settled
<1>16. MarkSound' /\ InMenu' /\ Discs' /\ VectorFresh'
  BY <1>1, <1>3, <1>10 DEF MarkSound, InMenu, Discs, VectorFresh
<1>17. WordsSound'
  <2>1. UnpatchStorageOf(fw, k, TRUE) = k
    BY <1>2, <1>4, <1>9, NothingKept
  <2>2. ~stuck => OwnWords(k)
    BY <1>1, <1>3, <2>1 DEF KInv, WordsSound
  <2>3. UnpatchStorageOf(fw, r, TRUE) = r
    BY <1>10, NothingKept
  <2> QED
    BY <1>1, <1>3, <1>9, <1>10, <2>2, <2>3 DEF WordsSound
<1>18. VectorSound'
  <2>1. found # "none"
    BY DEF KInv, KsTypeOK, Vectors
  <2> QED
    BY <1>1, <1>3, <1>10, <2>1 DEF VectorSound
<1> QED
  BY <1>12, <1>13, <1>14, <1>15, <1>16, <1>17, <1>18 DEF KInv
\* With nothing kept of the storage, to keep the words is to be calm.
LEMMA CalmWords ==
  ASSUME NEW kk, Kn(kk), NEW q, Kn(q), kk.saves = << >>, q.saves = << >>,
         q.console = kk.console, q.alien = kk.alien, q.vector = kk.vector, q.restore = kk.restore,
         Loaded(kk) <=> Loaded(q), OwnWords(kk) => OwnWords(q)
  PROVE  Calm(kk, q)
<1>1. GivenBack(kk) = kk /\ GivenBack(q) = q
  BY NothingKept DEF GivenBack
<1>2. q.symbol = kk.symbol
  BY DEF Kn, RightSymbol
<1> QED
  BY <1>1, <1>2 DEF Calm

\* The payload of the console is there already.
LEMMA AlreadyStep ==
  ASSUME KInv, AlreadyLoaded
  PROVE  KInv'
<1>1. /\ at = "begun" /\ mode \in {"hermes", "sky10"} /\ at' = "loaded"
      /\ UNCHANGED <<k, noBDVD, cobra, mamba, discless>>
      /\ UNCHANGED <<fw, mode, useCobra, useMamba, pointers, one, found, stuck>>
  BY DEF AlreadyLoaded, console, statics
<1>2. /\ "begun" \in Running /\ "begun" \in Early /\ "loaded" \in Running /\ "loaded" \in Early
      /\ "loaded" \notin Settled /\ "begun" \notin Settled
  BY DEF Running, Early, Settled
<1>3. KsTypeOK'
  BY <1>1, <1>2 DEF KInv, KsTypeOK
<1>4. RightFirmware' /\ TableSound(k)' /\ SavedSound(k)' /\ Alone(k)'
  BY <1>1, <1>2 DEF KInv, RightFirmware
<1>5. Flags'
  <2>1. Flags
    BY DEF KInv
  <2> QED
    BY <1>1, <1>2, <2>1 DEF Flags
<1>6. CacheSound'
  <2>1. ~useMamba
    BY <1>1 DEF KInv, Flags
  <2> QED
    BY <1>1, <2>1 DEF KInv, CacheSound
<1>7. MarkSound'
  BY <1>1 DEF KInv, MarkSound
<1>8. InMenu' /\ Discs' /\ VectorFresh'
  BY <1>1 DEF InMenu, Discs, VectorFresh
<1>9. WordsSound'
  <2>1. WordsSound
    BY DEF KInv
  <2> QED
    BY <1>1, <1>2, <2>1 DEF WordsSound
<1>10. VectorSound'
  BY <1>1, <1>2 DEF KInv, VectorSound
<1> QED
  BY <1>3, <1>4, <1>5, <1>6, <1>7, <1>8, <1>9, <1>10 DEF KInv

\* exit() before the menu.
LEMMA GiveUpStep ==
  ASSUME KInv, GiveUp, at \in Early, Kn(k'), Calm(k, k'), Cached(k') => Cached(k)
  PROVE  KInv' /\ PayloadStays
<1>1. /\ at' = "leaving"
      /\ UNCHANGED <<noBDVD, cobra, mamba, discless>>
      /\ UNCHANGED <<fw, mode, useCobra, useMamba, pointers, one, found, stuck>>
  BY DEF GiveUp, statics
<1>2. "leaving" \in Running /\ "leaving" \notin Early /\ "leaving" \notin Settled
  BY DEF Running, Early, Settled
<1>3. Phases
  BY <1>1 DEF Phases
<1>4. KsTypeOK'
  BY <1>1, <1>2 DEF KInv, KsTypeOK, Kn
<1>5. CacheSound'
  <2>1. Loaded(k) <=> Loaded(k')
    BY DEF Calm
  <2>2. CacheSound
    BY DEF KInv
  <2> QED
    BY <1>1, <2>1, <2>2 DEF CacheSound
<1>6. Flags'
  <2>1. discless # "on"
    BY DEF KInv, Flags
  <2> QED
    BY <1>1, <1>2, <2>1 DEF Flags
<1>7. InMenu' /\ Discs'
  BY <1>1 DEF InMenu, Discs
<1>8. PayloadStays
  BY DEF Calm, PayloadStays
<1>9. KInv'
  BY <1>1, <1>3, <1>4, <1>5, <1>6, <1>7, PhaseStep
<1> QED
  BY <1>8, <1>9

\* The hypervisor cannot be mapped to load.
LEMMA MapFailsStep ==
  ASSUME KInv, MapFails
  PROVE  KInv' /\ PayloadStays
<1>1. at \in Early /\ k' = k /\ GiveUp
  BY DEF MapFails, Early
<1>2. Kn(k) /\ Calm(k, k)
  BY KnK, CalmSame
<1> QED
  BY <1>1, <1>2, GiveUpStep

\* Syscall 8 does not answer.
LEMMA NoSyscall8Step ==
  ASSUME KInv, NoSyscall8
  PROVE  KInv' /\ PayloadStays
<1>1. at \in Early /\ k' = k /\ GiveUp
  BY DEF NoSyscall8, Early
<1>2. Kn(k) /\ Calm(k, k)
  BY KnK, CalmSame
<1> QED
  BY <1>1, <1>2, GiveUpStep

\* The payload of another program is there.
LEMMA ForeignStep ==
  ASSUME KInv, ForeignPayload
  PROVE  KInv' /\ PayloadStays
<1> DEFINE o == IF mode = "wanin" THEN Poke(k.lv1, Protection, "patch") ELSE k.lv1
           q == Opened(k, o)
<1>1. at \in Early /\ GiveUp
  BY DEF ForeignPayload, Early
<1>2. Kn(k) /\ k \in Kernels
  BY KnK
<1>3. k' = q
  <2>1. CASE mode = "wanin"
    BY <2>1 DEF ForeignPayload, Opened
  <2>2. CASE mode # "wanin"
    <3>1. k' = k
      BY <2>2 DEF ForeignPayload
    <3>2. k = [k EXCEPT !.lv1 = k.lv1]
      BY <1>2 DEF Kernels
    <3> QED
      BY <2>2, <3>1, <3>2 DEF Opened
  <2> QED
    BY <2>1, <2>2
<1>4. o = k.lv1 \/ o = Poke(k.lv1, Protection, "patch")
  OBVIOUS
<1> HIDE DEF o
<1>5. /\ Kn(q) /\ q.console = k.console /\ q.alien = k.alien /\ q.table = k.table
      /\ q.saved = k.saved /\ q.saves = k.saves /\ q.vector = k.vector
      /\ q.restore = k.restore /\ (Loaded(q) <=> Loaded(k))
      /\ OwnWords(k) => OwnWords(q)
  BY <1>2, <1>4, OpenedIs
<1> HIDE DEF q
<1>6. k.saves = << >>
  BY <1>1 DEF KInv, WordsSound
<1>7. Calm(k, q)
  BY <1>2, <1>5, <1>6, CalmWords
<1>8. Cached(q) => Cached(k)
  BY <1>5 DEF Cached
<1> QED
  BY <1>1, <1>3, <1>5, <1>7, <1>8, GiveUpStep

\* The storage is patched and the settings are read.
LEMMA SettleStep ==
  ASSUME KInv, NEW ok \in BOOLEAN, Settle(ok)
  PROVE  KInv'
<1> DEFINE c == useCobra /\ noBDVD # 1
           m == useMamba /\ noBDVD # 1
           r == IF useMamba THEN k ELSE PatchStorageOf(fw, k, ok)
<1>1. /\ at = "loaded" /\ k' = r /\ pointers' = ~useMamba
      /\ useMamba' = m
      /\ discless' = IF noBDVD = 2 /\ ~c /\ ~m THEN "on" ELSE discless
      /\ \/ useCobra' = c /\ UNCHANGED mamba
         \/ m /\ ~c /\ mamba = "loaded" /\ useCobra' = TRUE /\ mamba' = "resident"
      /\ at' = "set"
      /\ UNCHANGED <<noBDVD, cobra, fw, mode, one, found, stuck>>
  BY DEF Settle
<1>2. Kn(k) /\ (at \in Running => fw = k.console) /\ KsTypeOK
  BY KnK DEF KInv
<1>3. /\ "loaded" \in Running /\ "loaded" \in Early /\ "loaded" \notin Settled
      /\ "set" \in Running /\ "set" \notin Early /\ "set" \in Settled
  BY DEF Running, Early, Settled
<1>4. fw = k.console /\ k.saves = << >>
  BY <1>1, <1>2, <1>3 DEF KInv, WordsSound
<1>5. /\ StorageStep(k, r)
      /\ OwnWords(k) => OwnWords(GivenBack(r))
      /\ useMamba => r.saves = << >>
  <2>1. StorageStep(k, k) /\ GivenBack(k) = k
    <3>1. GivenOrStays(k, UnpatchStorageOf(k.console, k, TRUE))
      BY <1>2, UnpatchStorageSound
    <3>2. StorageStep(k, k)
      BY <1>2, StorageStepIs DEF Kn
    <3> QED
      BY <1>4, <3>1, <3>2 DEF GivenOrStays
  <2>2. ~useMamba => StorageStep(k, r) /\ (OwnWords(k) => OwnWords(GivenBack(r)))
    BY <1>2, <1>4, PatchStorageSound
  <2> HIDE DEF r
  <2>3. useMamba => r = k
    BY DEF r
  <2> QED
    BY <1>4, <2>1, <2>2, <2>3
<1> HIDE DEF r
<1>6. /\ Kn(r) /\ r.console = fw /\ r.alien = k.alien /\ r.table = k.table /\ r.saved = k.saved
      /\ r.vector = k.vector /\ r.restore = k.restore /\ (Loaded(k) => Loaded(r))
  BY <1>4, <1>5 DEF StorageStep
<1>7. Loaded(k) /\ (Cached(r) <=> Cached(k))
  <2>1. Loaded(k)
    BY <1>1 DEF KInv, MarkSound
  <2> QED
    BY <1>6, <2>1 DEF Cached
<1>8. /\ useCobra <=> cobra \/ mamba = "resident"
      /\ discless # "on" /\ ~one
  BY <1>1, <1>3 DEF KInv, Flags
<1>9. KsTypeOK'
  <2>1. /\ useCobra' \in BOOLEAN /\ useMamba' \in BOOLEAN /\ pointers' \in BOOLEAN
        /\ mamba' \in {"no", "loaded", "resident"} /\ discless' \in {"no", "on", "off"}
    BY <1>1, <1>2 DEF KsTypeOK
  <2> QED
    BY <1>1, <1>2, <1>3, <1>6, <2>1 DEF KsTypeOK, Kn
<1>10. RightFirmware' /\ TableSound(k)' /\ SavedSound(k)' /\ Alone(k)'
  BY <1>1, <1>6 DEF Kn, RightFirmware
<1>11. CacheSound'
  <2>1. Cached(k) => /\ noBDVD # 0 /\ ~useMamba
                     /\ noBDVD = 2 => ~cobra /\ mamba # "resident"
    BY <1>1 DEF KInv, CacheSound
  <2>2. Cached(k') <=> Cached(k)
    BY <1>1, <1>7
  <2>3. Loaded(k')
    BY <1>1, <1>6, <1>7
  <2>4. Cached(k) => mamba' = mamba /\ ~useMamba'
    BY <1>1, <2>1
  <2> QED
    BY <1>1, <2>1, <2>2, <2>3, <2>4 DEF CacheSound
<1>12. Flags'
  <2>1. useCobra' <=> noBDVD # 1 /\ (cobra \/ mamba' = "resident")
    BY <1>1, <1>8
  <2>2. discless' = "on" => ~useCobra' /\ ~useMamba'
    BY <1>1, <1>8
  <2> QED
    BY <1>1, <1>3, <1>8, <2>1, <2>2 DEF Flags
<1>13. MarkSound' /\ InMenu' /\ Discs' /\ VectorFresh'
  BY <1>1, <1>6, <1>7 DEF MarkSound, InMenu, Discs, VectorFresh
<1>14. WordsSound'
  <2>1. UnpatchStorageOf(fw, k, TRUE) = k
    BY <1>2, <1>4, NothingKept
  <2>2. ~stuck => OwnWords(k)
    BY <1>1, <1>3, <2>1 DEF KInv, WordsSound
  <2>3. UnpatchStorageOf(fw, r, TRUE) = GivenBack(r)
    BY <1>6 DEF GivenBack
  <2>4. ~stuck' => OwnWords(UnpatchStorageOf(fw', k', TRUE))
    BY <1>1, <1>5, <2>2, <2>3
  <2>5. k'.saves # << >> => pointers'
    BY <1>1, <1>5
  <2>6. useMamba' => ~pointers'
    BY <1>1
  <2> QED
    BY <1>1, <1>3, <2>4, <2>5, <2>6 DEF WordsSound
<1>15. VectorSound'
  BY <1>1, <1>3, <1>6 DEF KInv, VectorSound
<1> QED
  BY <1>9, <1>10, <1>11, <1>12, <1>13, <1>14, <1>15 DEF KInv

-----------------------------------------------------------------------------
(* The way out *)

\* Syscall 8 led elsewhere leaves the kernel sound.
LEMMA VectorSet ==
  ASSUME NEW kk, Kn(kk), NEW v \in Vectors
  PROVE  LET r == [kk EXCEPT !.vector = v]
         IN  /\ Kn(r) /\ r.vector = v /\ (Loaded(kk) => Loaded(r))
             /\ r.console = kk.console /\ r.alien = kk.alien /\ r.table = kk.table
             /\ r.saved = kk.saved /\ (OwnWords(kk) => OwnWords(r))
<1> DEFINE r == [kk EXCEPT !.vector = v]
<1>1. kk \in Kernels /\ RightSymbol(kk) /\ TableSound(kk) /\ SavedSound(kk) /\ Alone(kk)
  BY DEF Kn
<1>2. r \in Kernels /\ r.vector = v /\ r.console = kk.console /\ r.alien = kk.alien
      /\ r.symbol = kk.symbol /\ r.lv1 = kk.lv1 /\ r.lv2 = kk.lv2 /\ r.table = kk.table
      /\ r.saved = kk.saved
  BY <1>1 DEF Kernels
<1> HIDE DEF r
<1>3. Kn(r) /\ (Loaded(kk) => Loaded(r))
  BY <1>1, <1>2 DEF Kn, RightSymbol, TableSound, SavedSound, Alone, Loaded
<1>4. OwnWords(kk) => OwnWords(r)
  BY <1>2 DEF OwnWords
<1> QED
  BY <1>2, <1>3, <1>4 DEF r

\* fun_exit leaves the words and syscall 8 as the program found them.
LEMMA ExitSound ==
  ASSUME KInv, at \in Running, NEW ok \in BOOLEAN
  PROVE  LET r == ExitKernel(ok)
         IN  /\ Kn(r) /\ r.console = k.console /\ r.alien = k.alien /\ r.table = k.table
             /\ r.saved = k.saved /\ (Loaded(k) => Loaded(r)) /\ r.vector = found
             /\ ~stuck /\ ~StorageStays(ok) => OwnWords(r)
<1> DEFINE U == UnpatchStorageOf(fw, k, ok)
           u == IF pointers THEN U ELSE k
           v == IF k.restore = "none" THEN u.vector ELSE k.restore
           r == [u EXCEPT !.vector = v]
<1>1. Kn(k) /\ fw = k.console
  BY KnK
<1>2. ExitKernel(ok) = r
  BY DEF ExitKernel
<1>3. GivenOrStays(k, U)
  BY <1>1, UnpatchStorageSound
<1>4. StorageStays(ok) <=> pointers /\ k.saves # << >> /\ U = k
  BY DEF StorageStays
<1>5. UnpatchStorageOf(fw, k, TRUE) = GivenBack(k)
  BY <1>1 DEF GivenBack
<1> HIDE DEF U
<1>6. StorageStep(k, u)
  <2>1. StorageStep(k, k)
    BY <1>1, StorageStepIs DEF Kn
  <2> QED
    BY <1>3, <2>1 DEF GivenOrStays
<1>7. ~stuck => OwnWords(GivenBack(k))
  BY <1>5 DEF KInv, WordsSound
<1>8. k.saves # << >> => pointers
  BY DEF KInv, WordsSound
<1>9. ~StorageStays(ok) => u = GivenBack(k)
  BY <1>3, <1>4, <1>8 DEF GivenOrStays
<1> HIDE DEF u
<1>10. /\ Kn(u) /\ u.console = k.console /\ u.alien = k.alien /\ u.table = k.table
       /\ u.saved = k.saved /\ u.vector = k.vector /\ (Loaded(k) => Loaded(u))
  BY <1>6 DEF StorageStep
<1>11. v = found /\ v \in Vectors
  <2>1. found \in Vectors
    BY DEF KInv, KsTypeOK
  <2> QED
    BY <1>10, <2>1 DEF KInv, VectorSound
<1> HIDE DEF v
<1>12. /\ Kn(r) /\ r.vector = v /\ (Loaded(u) => Loaded(r))
       /\ r.console = u.console /\ r.alien = u.alien /\ r.table = u.table
       /\ r.saved = u.saved /\ (OwnWords(u) => OwnWords(r))
  BY <1>10, <1>11, VectorSet
<1> HIDE DEF r
<1>13. ~stuck /\ ~StorageStays(ok) => OwnWords(r)
  BY <1>7, <1>9, <1>12
<1> QED
  BY <1>2, <1>10, <1>11, <1>12, <1>13

\* Whatever leaves the program through fun_exit keeps the invariant.
LEMMA LeaveStep ==
  ASSUME KInv, at \in Running, NEW ok \in BOOLEAN, k' = ExitKernel(ok), at' \in {"xmb", "game"},
         found' = found, stuck' <=> stuck \/ StorageStays(ok), stuck' \in BOOLEAN,
         UNCHANGED <<noBDVD, cobra, statics>>, mamba' \in {"no", "loaded", "resident"},
         discless' \in {"no", "on", "off"}, mamba' = mamba \/ ~Cached(k), Flags', Discs'
  PROVE  KInv' /\ PayloadStays
<1> DEFINE r == ExitKernel(ok)
<1>1. /\ Kn(r) /\ r.console = k.console /\ r.alien = k.alien /\ r.table = k.table
      /\ r.saved = k.saved /\ (Loaded(k) => Loaded(r)) /\ r.vector = found
      /\ ~stuck /\ ~StorageStays(ok) => OwnWords(r)
  BY ExitSound
<1>2. k' = r
  OBVIOUS
<1> HIDE DEF r
<1>3. at' \in Idle /\ at' \notin Running
  BY DEF Idle, Running, Early, Settled
<1>4. UNCHANGED <<fw, mode, useCobra, useMamba, pointers, one>>
  BY DEF statics
<1>5. KsTypeOK'
  BY <1>1, <1>2, <1>3, <1>4 DEF KInv, KsTypeOK, Kn
<1>6. RightFirmware' /\ TableSound(k)' /\ SavedSound(k)' /\ Alone(k)'
  BY <1>1, <1>2, <1>3 DEF Kn, RightFirmware
<1>7. CacheSound'
  <2>1. Cached(r) <=> Cached(k)
    BY <1>1 DEF Cached
  <2>2. CacheSound
    BY DEF KInv
  <2> QED
    BY <1>1, <1>2, <2>1, <2>2 DEF CacheSound
<1>8. MarkSound' /\ InMenu' /\ VectorFresh'
  BY DEF MarkSound, InMenu, VectorFresh, Settled
<1>9. WordsSound'
  BY <1>1, <1>2, <1>3 DEF WordsSound, Running
<1>10. VectorSound'
  BY <1>1, <1>2, <1>3 DEF VectorSound
<1>11. PayloadStays
  BY <1>1, <1>2 DEF PayloadStays
<1>12. KInv'
  BY <1>5, <1>6, <1>7, <1>8, <1>9, <1>10 DEF KInv
<1> QED
  BY <1>11, <1>12

\* The program starts again for Mamba.
LEMMA RelaunchStep ==
  ASSUME KInv, Relaunch
  PROVE  KInv' /\ PayloadStays
<1>1. /\ at = "set" /\ useMamba /\ ~useCobra
      /\ k' = ExitKernel(TRUE)
      /\ mamba' \in {"no", "loaded", "resident"}
      /\ at' = "xmb"
      /\ UNCHANGED <<noBDVD, cobra, discless, statics, found, stuck>>
  BY DEF Relaunch
<1>2. "set" \in Running /\ "xmb" \notin Early /\ "xmb" \notin Settled
  BY DEF Running, Early, Settled
<1>3. ~StorageStays(TRUE)
  BY <1>1 DEF KInv, WordsSound, StorageStays
<1>4. ~Cached(k)
  BY <1>1 DEF KInv, CacheSound
<1>5. discless # "on"
  BY <1>1 DEF KInv, Flags
<1>6. Flags'
  BY <1>1, <1>2, <1>5 DEF Flags
<1>7. Discs'
  BY <1>1 DEF Discs
<1>8. stuck' \in BOOLEAN /\ (stuck' <=> stuck \/ StorageStays(TRUE)) /\ discless' \in {"no", "on", "off"}
  BY <1>1, <1>3 DEF KInv, KsTypeOK
<1> QED
  BY <1>1, <1>2, <1>4, <1>6, <1>7, <1>8, LeaveStep

\* fun_exit, to the XMB or to a game.
LEMMA FunExitStep ==
  ASSUME KInv, NEW ok \in BOOLEAN, FunExit(ok)
  PROVE  KInv' /\ PayloadStays
<1>1. /\ at \in {"leaving", "booting"}
      /\ k' = ExitKernel(ok)
      /\ stuck' = (stuck \/ StorageStays(ok))
      /\ discless' = IF at = "leaving" /\ ~useCobra /\ discless = "on" THEN "off" ELSE discless
      /\ at' = IF at = "leaving" THEN "xmb" ELSE "game"
      /\ UNCHANGED <<noBDVD, cobra, mamba, statics, found>>
  BY DEF FunExit
<1>2. /\ at \in Running /\ at' \in {"xmb", "game"} /\ "booting" \in Settled
      /\ "xmb" \notin Early /\ "xmb" \notin Settled /\ "game" \notin Early /\ "game" \notin Settled
      /\ "leaving" \notin Settled
  BY <1>1 DEF Running, Early, Settled
<1>3. UNCHANGED <<useCobra, useMamba, one>>
  BY <1>1 DEF statics
<1>4. KsTypeOK
  BY DEF KInv
<1>5. discless' \in {"no", "on", "off"}
  BY <1>1, <1>4 DEF KsTypeOK
<1>6. stuck' \in BOOLEAN /\ (stuck' <=> stuck \/ StorageStays(ok))
  <2>1. StorageStays(ok) \in BOOLEAN
    BY DEF StorageStays
  <2> QED
    BY <1>1, <1>4, <2>1 DEF KsTypeOK
<1>7. Flags'
  <2>1. Flags
    BY DEF KInv
  <2>2. CASE at = "leaving"
    <3>1. discless = "on" => ~useCobra
      BY <2>1, <2>2 DEF Flags
    <3>2. discless' # "on" /\ at' = "xmb"
      BY <1>1, <2>2, <3>1
    <3> QED
      BY <1>2, <3>2 DEF Flags
  <2>3. CASE at = "booting"
    <3>1. useCobra <=> noBDVD # 1 /\ (cobra \/ mamba = "resident")
      BY <1>2, <2>1, <2>3 DEF Flags
    <3>2. at' = "game"
      BY <1>1, <2>3
    <3> QED
      BY <1>1, <1>2, <1>3, <3>1, <3>2 DEF Flags
  <2> QED
    BY <1>1, <2>2, <2>3
<1>8. Discs'
  <2>1. k'.table = k.table
    <3> DEFINE r == ExitKernel(ok)
    <3>1. r.table = k.table
      BY <1>2, ExitSound
    <3> QED
      BY <1>1, <3>1
  <2>2. Discs
    BY DEF KInv
  <2>3. at' \in {"booting", "game"} => at = "booting"
    BY <1>1
  <2> QED
    BY <1>1, <1>2, <1>3, <2>1, <2>2, <2>3 DEF Discs
<1>9. mamba' \in {"no", "loaded", "resident"} /\ mamba' = mamba
  BY <1>1, <1>4 DEF KsTypeOK
<1> QED
  BY <1>1, <1>2, <1>5, <1>6, <1>7, <1>8, <1>9, LeaveStep

\* A game ends.
LEMMA GameEndsStep ==
  ASSUME KInv, GameEnds
  PROVE  KInv'
<1>1. /\ at = "game" /\ at' = "back"
      /\ UNCHANGED <<k, noBDVD, cobra, mamba, discless>>
      /\ UNCHANGED <<fw, mode, useCobra, useMamba, pointers, one, found, stuck>>
  BY DEF GameEnds, console, statics
<1>2. /\ "game" \notin Running /\ "back" \notin Running /\ "back" \notin Early /\ "back" \notin Settled
      /\ "back" \in Idle
  BY DEF Running, Early, Settled, Idle
<1>3. KsTypeOK'
  BY <1>1, <1>2 DEF KInv, KsTypeOK
<1>4. RightFirmware' /\ TableSound(k)' /\ SavedSound(k)' /\ Alone(k)'
  BY <1>1, <1>2 DEF KInv, RightFirmware
<1>5. Flags' /\ MarkSound' /\ InMenu' /\ VectorFresh'
  BY <1>1, <1>2 DEF Flags, MarkSound, InMenu, VectorFresh
<1>6. CacheSound'
  BY <1>1 DEF KInv, CacheSound
<1>7. Discs'
  BY <1>1 DEF Discs
<1>8. WordsSound'
  <2>1. WordsSound
    BY DEF KInv
  <2> QED
    BY <1>1, <1>2, <2>1 DEF WordsSound
<1>9. VectorSound'
  BY <1>1, <1>2 DEF KInv, VectorSound
<1> QED
  BY <1>3, <1>4, <1>5, <1>6, <1>7, <1>8, <1>9 DEF KInv
-----------------------------------------------------------------------------
(* The menu *)

\* unpatch_bdvdemu before the menu.
LEMMA UnpatchStep ==
  ASSUME KInv, Unpatch
  PROVE  KInv'
<1> DEFINE r == UnpatchBdvdemuOf(fw, k)
<1>1. /\ at = "set"
      /\ useCobra' = (useCobra /\ noBDVD # 1)
      /\ useMamba' = (noBDVD # 1 /\ (mamba = "resident" \/ useMamba))
      /\ k' = r
      /\ at' = "clean"
      /\ UNCHANGED <<noBDVD, cobra, mamba, discless, fw, mode, pointers, one, found, stuck>>
  BY DEF Unpatch
<1>2. /\ "set" \in Running /\ "set" \in Settled /\ "clean" \in Settled /\ "clean" \in Running
      /\ "clean" \notin Early
  BY DEF Running, Early, Settled
<1>3. Kn(k) /\ fw = k.console /\ KsTypeOK
  BY <1>1, <1>2, KnK DEF KInv
<1>4. Restored(k, r)
  BY <1>3, UnpatchSound
<1> HIDE DEF r
<1>5. Phases
  BY <1>1, <1>2 DEF Phases
<1>6. KsTypeOK'
  BY <1>1, <1>2, <1>3, <1>4 DEF KsTypeOK, Restored, Kn
<1>7. Cached(r) => Cached(k)
  <2>1. NotSaved.slot.dev = "none"
    BY FreeFacts DEF NotSaved
  <2> QED
    BY <1>4, <2>1 DEF Restored, Cached
<1>8. CacheSound'
  <2>1. Loaded(k) <=> Loaded(r)
    BY <1>4 DEF Restored, Calm
  <2>2. CacheSound
    BY DEF KInv
  <2> QED
    BY <1>1, <1>7, <2>1, <2>2 DEF CacheSound
<1>9. Flags'
  <2>1. /\ useCobra <=> noBDVD # 1 /\ (cobra \/ mamba = "resident")
        /\ discless = "on" => ~useCobra
        /\ ~one
    BY <1>1, <1>2 DEF KInv, Flags
  <2> QED
    BY <1>1, <1>2, <2>1 DEF Flags
<1>10. InMenu' /\ Discs'
  BY <1>1, <1>4 DEF InMenu, MenuKernel, Restored, Discs
<1> QED
  BY <1>1, <1>4, <1>5, <1>6, <1>8, <1>9, <1>10, PhaseStep DEF Restored

\* The disc is umounted for the cache disc.
LEMMA UmountStep ==
  ASSUME KInv, UmountBdvd
  PROVE  KInv'
<1> DEFINE r == Umount(k, "dev_bdvd")
<1>1. /\ at = "clean" /\ noBDVD # 0 /\ ~useCobra
      /\ k' = r
      /\ at' = "umounted"
      /\ UNCHANGED <<noBDVD, cobra, mamba, discless, found, stuck>>
      /\ UNCHANGED <<fw, mode, useCobra, useMamba, pointers, one>>
  BY DEF UmountBdvd, statics
<1>2. /\ "clean" \in Settled /\ "umounted" \in Settled /\ "umounted" \in Running
      /\ "umounted" \notin Early
  BY DEF Running, Early, Settled
<1>3. Kn(k) /\ KsTypeOK /\ MenuKernel(k)
  BY <1>1, KnK DEF KInv, InMenu
<1>4. Umounted(k, "dev_bdvd", r)
  BY <1>3, UmountSound
<1> HIDE DEF r
<1>5. /\ Kn(r) /\ Calm(k, r) /\ r.saved = NotSaved /\ r.lv2 = k.lv2 /\ r.console = k.console
      /\ \A n \in SlotNumbers : r.table[n].name # "dev_bdvd"
      /\ \A n \in SlotNumbers : r.table[n] = k.table[n] \/ r.table[n] = Free
  BY <1>3, <1>4 DEF Umounted, MenuKernel, Calm
<1>6. Phases
  BY <1>1, <1>2 DEF Phases
<1>7. KsTypeOK'
  BY <1>1, <1>2, <1>3, <1>5 DEF KsTypeOK, Kn
<1>8. Cached(r) => Cached(k)
  BY <1>3, <1>5, FreeFacts DEF Cached, MenuKernel
<1>9. CacheSound'
  <2>1. Loaded(k) <=> Loaded(r)
    BY <1>5 DEF Calm
  <2>2. CacheSound
    BY DEF KInv
  <2> QED
    BY <1>1, <1>8, <2>1, <2>2 DEF CacheSound
<1>10. Flags'
  <2>1. /\ useCobra <=> noBDVD # 1 /\ (cobra \/ mamba = "resident")
        /\ discless = "on" => ~useCobra
        /\ ~one
    BY <1>1, <1>2 DEF KInv, Flags
  <2> QED
    BY <1>1, <1>2, <2>1 DEF Flags
<1>11. InMenu'
  BY <1>1, <1>3, <1>5, FreeFacts DEF InMenu, MenuKernel
<1>12. Discs'
  BY <1>1, <1>5 DEF Discs
<1> QED
  BY <1>1, <1>5, <1>6, <1>7, <1>9, <1>10, <1>11, <1>12, PhaseStep

\* Where the discs have their own names there is one, unless a cache disc is mounted.
LEMMA TwoDiscs ==
  ASSUME NEW kk, Kn(kk), MenuKernel(kk), NEW m \in SlotNumbers, NEW n \in SlotNumbers, Pair(kk, m, n)
  PROVE  Cached(kk)
<1>1. kk.table \in [SlotNumbers -> Slots] /\ Alone(kk)
  BY FieldsOf DEF Kn
<1>2. Own(kk.table[m]) /\ Own(kk.table[n]) /\ kk.table[m] \in Slots /\ kk.table[n] \in Slots
  BY <1>1 DEF MenuKernel
<1>3. kk.table[m].dev \in {"HDD1", "PATA0_BDVD_DRIVE"} /\ kk.table[n].dev \in {"HDD1", "PATA0_BDVD_DRIVE"}
  BY <1>2, OwnFacts DEF Pair
<1>4. kk.table[m].dev # kk.table[n].dev
  BY <1>1, <1>3 DEF Alone, Pair, Singles
<1> QED
  BY <1>3, <1>4 DEF Cached

\* The cache disc is mounted as the disc.
LEMMA MountCacheStep ==
  ASSUME KInv, MountCache
  PROVE  KInv'
<1> DEFINE r == Mount(k, "HDD1", "dev_bdvd")
<1>1. /\ at = "umounted"
      /\ k' = r
      /\ at' = "menu"
      /\ UNCHANGED <<noBDVD, cobra, mamba, discless, found, stuck>>
      /\ UNCHANGED <<fw, mode, useCobra, useMamba, pointers, one>>
  BY DEF MountCache, statics
<1>2. /\ "umounted" \in Settled /\ "menu" \in Settled /\ "menu" \in Running /\ "menu" \notin Early
  BY DEF Running, Early, Settled
<1>3. Kn(k) /\ KsTypeOK /\ MenuKernel(k) /\ k.table \in [SlotNumbers -> Slots]
  BY <1>1, KnK DEF KInv, InMenu
<1>4. Kn(r) /\ Calm(k, r) /\ OldPairs(k, r) /\ MenuKernel(r)
  <2>1. CASE "dev_bdvd" \in Names(k)
    <3>1. r = k
      BY <2>1 DEF Mount
    <3>2. Calm(k, k) /\ OldPairs(k, k)
      BY <1>3, CalmSame DEF OldPairs
    <3> QED
      BY <1>3, <3>1, <3>2
  <2>2. CASE "dev_bdvd" \notin Names(k)
    <3>1. \A n \in SlotNumbers : k.table[n].name # "dev_bdvd"
      BY <2>2 DEF Names
    <3>2. \A n \in SlotNumbers : k.table[n].dev # "HDD1"
      <4> TAKE n \in SlotNumbers
      <4>1. Own(k.table[n]) /\ k.table[n] \in Slots
        BY <1>3 DEF MenuKernel
      <4> QED
        BY <3>1, <4>1, OwnFacts
    <3>3. Mountable(k, "HDD1", "dev_bdvd")
      BY <1>3, <3>2, OwnNamesAre DEF Mountable, MenuKernel, Devices, Fixed, MountNames
    <3> HIDE DEF r
    <3>4. Mounts(k, "HDD1", "dev_bdvd", r)
      BY <1>3, <3>3, MountStep DEF r
    <3> QED
      BY <1>3, <3>4 DEF Mounts
  <2> QED
    BY <2>1, <2>2
<1> HIDE DEF r
<1>5. Phases
  BY <1>1, <1>2 DEF Phases
<1>6. KsTypeOK'
  BY <1>1, <1>2, <1>3, <1>4 DEF KsTypeOK, Kn
<1>7. /\ useCobra <=> noBDVD # 1 /\ (cobra \/ mamba = "resident")
      /\ discless = "on" => ~useCobra
      /\ ~one /\ noBDVD # 0 /\ ~useCobra
  BY <1>1, <1>2 DEF KInv, Flags
<1>8. CacheSound'
  <2>1. Loaded(r)
    <3>1. Loaded(k)
      BY <1>1, <1>2 DEF KInv, MarkSound
    <3> QED
      BY <1>4, <3>1 DEF Calm
  <2> QED
    BY <1>1, <1>7, <2>1 DEF CacheSound
<1>9. Flags'
  BY <1>1, <1>2, <1>7 DEF Flags
<1>10. InMenu'
  BY <1>1, <1>4 DEF InMenu
<1>11. Discs'
  <2>1. \A m, n \in SlotNumbers : ~Pair(k, m, n)
    BY <1>1 DEF KInv, Discs, Pair
  <2>2. \A m, n \in SlotNumbers : ~Pair(r, m, n)
    BY <1>4, <2>1 DEF OldPairs
  <2> QED
    BY <1>1, <2>2 DEF Discs, Pair
<1> QED
  BY <1>1, <1>4, <1>5, <1>6, <1>8, <1>9, <1>10, <1>11, PhaseStep

\* The disc keeps its name.
LEMMA KeepDiscStep ==
  ASSUME KInv, KeepDisc
  PROVE  KInv'
<1>1. /\ at = "clean" /\ (noBDVD = 0 \/ useCobra) /\ at' = "menu"
      /\ UNCHANGED <<k, noBDVD, cobra, mamba, discless>>
      /\ UNCHANGED <<fw, mode, useCobra, useMamba, pointers, one, found, stuck>>
  BY DEF KeepDisc, console, statics
<1>2. /\ "clean" \in Settled /\ "menu" \in Settled /\ "menu" \in Running /\ "menu" \notin Early
  BY DEF Running, Early, Settled
<1>3. Kn(k) /\ KsTypeOK /\ MenuKernel(k) /\ Calm(k, k)
  BY <1>1, KnK, CalmSame DEF KInv, InMenu
<1>4. Phases
  BY <1>1, <1>2 DEF Phases
<1>5. KsTypeOK'
  BY <1>1, <1>2, <1>3 DEF KsTypeOK
<1>6. /\ useCobra <=> noBDVD # 1 /\ (cobra \/ mamba = "resident")
      /\ discless = "on" => ~useCobra
      /\ ~one
  BY <1>1, <1>2 DEF KInv, Flags
<1>7. CacheSound'
  BY <1>1 DEF KInv, CacheSound
<1>8. Flags'
  BY <1>1, <1>2, <1>6 DEF Flags
<1>9. InMenu'
  BY <1>1, <1>3 DEF InMenu
<1>10. ~Cached(k)
  <2>1. Cached(k) => /\ noBDVD # 0
                     /\ noBDVD = 2 => ~cobra /\ mamba # "resident"
    BY DEF KInv, CacheSound
  <2>2. noBDVD \in 0..2
    BY <1>3 DEF KsTypeOK
  <2> QED
    BY <1>1, <1>6, <2>1, <2>2
<1>11. Discs'
  <2>1. \A m, n \in SlotNumbers : ~Pair(k, m, n)
    BY <1>3, <1>10, TwoDiscs
  <2> QED
    BY <1>1, <2>1 DEF Discs, Pair
<1>12. Kn(k') /\ Calm(k, k')
  BY <1>1, <1>3
<1> QED
  BY <1>1, <1>4, <1>5, <1>7, <1>8, <1>9, <1>11, <1>12, PhaseStep

\* The user leaves the menu.
LEMMA QuitStep ==
  ASSUME KInv, Quit
  PROVE  KInv'
<1>1. /\ at = "menu" /\ at' = "leaving"
      /\ UNCHANGED <<k, noBDVD, cobra, mamba, discless>>
      /\ UNCHANGED <<fw, mode, useCobra, useMamba, pointers, one, found, stuck>>
  BY DEF Quit, console, statics
<1>2. /\ "menu" \in Settled /\ "leaving" \notin Settled /\ "leaving" \in Running /\ "leaving" \notin Early
  BY DEF Running, Early, Settled
<1>3. Kn(k) /\ KsTypeOK /\ Calm(k, k)
  BY KnK, CalmSame DEF KInv
<1>4. Phases
  BY <1>1, <1>2 DEF Phases
<1>5. KsTypeOK'
  BY <1>1, <1>2, <1>3 DEF KsTypeOK
<1>6. CacheSound'
  BY <1>1 DEF KInv, CacheSound
<1>7. Flags'
  <2>1. discless = "on" => ~useCobra
    BY <1>1, <1>2 DEF KInv, Flags
  <2> QED
    BY <1>1, <1>2, <2>1 DEF Flags
<1>8. InMenu' /\ Discs'
  BY <1>1 DEF InMenu, Discs
<1>9. Kn(k') /\ Calm(k, k')
  BY <1>1, <1>3
<1> QED
  BY <1>1, <1>4, <1>5, <1>6, <1>7, <1>8, <1>9, PhaseStep

\* What the launch leaves: the kernel as it was, or renamed once.
Launched(r) ==
    /\ Kn(r) /\ Calm(k, r) /\ (Cached(r) => Cached(k))
    /\ \A m, n \in SlotNumbers : Pair(r, m, n) =>
          noBDVD # 0 /\ ~useCobra /\ (r.table[m].dev \in Drives \/ r.table[n].dev \in Drives)

\* A kernel of the menu, before a launch.
Ready(kk) ==
    /\ Kn(kk) /\ Calm(k, kk) /\ (Cached(kk) => Cached(k)) /\ MenuKernel(kk)
    /\ \A m, n \in SlotNumbers : ~Pair(kk, m, n)

\* A kernel of the menu is one a launch may leave.
LEMMA ReadyIsLaunched ==
  ASSUME NEW kk, Ready(kk)
  PROVE  Launched(kk)
  BY DEF Ready, Launched

\* One call of patch_bdvdemu, from a kernel of the menu.
LEMMA CallSound ==
  ASSUME KInv, at = "menu", NEW kk, Ready(kk), NEW flags, NEW emu
  PROVE  LET r == PatchCall([one |-> FALSE, k |-> kk], flags, emu)
         IN  /\ r.one \in BOOLEAN /\ Launched(r.k)
             /\ r.one = FALSE => Ready(r.k)
<1> DEFINE d == noBDVD # 0 /\ ~useCobra
           s == [one |-> FALSE, k |-> kk]
           swapped == IF emu = 2 THEN NtfsFlag ELSE flags
           sent == IF noBDVD # 0 /\ ~useCobra /\ swapped = NtfsFlag THEN HddFlag ELSE swapped
           p == PatchBdvdemuOf(fw, kk, d, sent)
           r == PatchCall(s, flags, emu)
<1>1. r = s \/ r = [one |-> TRUE, k |-> p]
  BY DEF PatchCall
<1>2. s.one = FALSE /\ s.k = kk
  OBVIOUS
<1>3. CASE r = s
  <2> HIDE DEF r, s
  <2>1. Launched(kk)
    BY ReadyIsLaunched
  <2> QED
    BY <1>2, <1>3, <2>1 DEF r, s
<1>4. CASE r = [one |-> TRUE, k |-> p]
  <2>1. "menu" \in Settled /\ "menu" \in Running
    BY DEF Running, Settled
  <2>2. fw = k.console /\ KsTypeOK
    BY <2>1, KnK DEF KInv
  <2>3. Kn(kk) /\ Calm(k, kk) /\ (Cached(kk) => Cached(k)) /\ MenuKernel(kk)
        /\ \A m, n \in SlotNumbers : ~Pair(kk, m, n)
    BY DEF Ready
  <2>4. kk.console = fw /\ Loaded(kk)
    <3>1. Loaded(k)
      BY <2>1 DEF KInv, MarkSound
    <3> QED
      BY <2>2, <2>3, <3>1 DEF Calm
  <2>5. ~d => ~Cached(kk)
    <3>1. useCobra <=> noBDVD # 1 /\ (cobra \/ mamba = "resident")
      BY <2>1 DEF KInv, Flags
    <3>2. Cached(k) => /\ noBDVD # 0
                       /\ noBDVD = 2 => ~cobra /\ mamba # "resident"
      BY DEF KInv, CacheSound
    <3>3. noBDVD \in 0..2
      BY <2>2 DEF KsTypeOK
    <3> QED
      BY <2>3, <3>1, <3>2, <3>3
  <2>6. OneDisc(kk)
    BY <2>3 DEF OneDisc, Pair
  <2>7. d \in BOOLEAN
    <3>1. useCobra \in BOOLEAN
      BY <2>2 DEF KsTypeOK
    <3> QED
      BY <3>1
  <2>8. d => noBDVD # 0 /\ ~useCobra
    OBVIOUS
  <2> HIDE DEF d, sent, swapped
  <2>9. Patched(kk, d, p)
    BY <2>3, <2>4, <2>5, <2>6, <2>7, PatchSound DEF MenuKernel
  <2> HIDE DEF p, r
  <2>10. Calm(k, p)
    BY <2>3, <2>9, CalmTrans DEF Patched
  <2>11. Launched(p)
    BY <2>3, <2>8, <2>9, <2>10 DEF Patched, Launched, Pair
  <2>12. r.one = TRUE /\ r.k = p
    BY <1>4
  <2> QED
    BY <2>11, <2>12 DEF r, s
<1> QED
  BY <1>1, <1>3, <1>4

\* A game is launched, with one call of patch_bdvdemu or two.
LEMMA LaunchStep ==
  ASSUME KInv, NEW flags, NEW bdemu, NEW ext, NEW patched, Launch(flags, bdemu, ext, patched)
  PROVE  KInv'
<1> DEFINE emu == IF flags = HddFlag THEN bdemu ELSE ext
           emulated == (flags = HddFlag /\ bdemu # 0) \/ (flags # HddFlag /\ ext = 1)
           ps2 == IF noBDVD = 0 \/ useCobra THEN Mount(k, "BDVD_DRIVE", "dev_ps2disc") ELSE k
           s0 == [one |-> one, k |-> k]
           s1 == IF emulated THEN PatchCall([one |-> one, k |-> ps2], flags, emu) ELSE s0
           s2 == IF noBDVD # 0 /\ ~useCobra THEN PatchCall(s1, NtfsFlag, ext) ELSE s1
<1>1. /\ at = "menu" /\ k' = s2.k /\ one' = s2.one /\ at' = "booting"
      /\ UNCHANGED <<noBDVD, cobra, mamba, discless, fw, mode, useCobra, useMamba, pointers,
                     found, stuck>>
  BY DEF Launch
<1>2. /\ "menu" \in Settled /\ "booting" \in Settled /\ "booting" \in Running /\ "booting" \notin Early
  BY DEF Running, Early, Settled
<1>3. Kn(k) /\ KsTypeOK /\ MenuKernel(k)
  BY <1>1, KnK DEF KInv, InMenu
<1>4. /\ useCobra <=> noBDVD # 1 /\ (cobra \/ mamba = "resident")
      /\ discless = "on" => ~useCobra
      /\ ~one /\ one \in BOOLEAN
  BY <1>1, <1>2 DEF KInv, Flags, KsTypeOK
<1>5. one = FALSE
  BY <1>4
<1>6. Ready(k)
  <2>1. \A m, n \in SlotNumbers : ~Pair(k, m, n)
    BY <1>1 DEF KInv, Discs, Pair
  <2>2. Calm(k, k)
    BY <1>3, CalmSame
  <2> QED
    BY <1>3, <2>1, <2>2 DEF Ready
<1>7. Ready(ps2)
  <2> DEFINE r == Mount(k, "BDVD_DRIVE", "dev_ps2disc")
  <2>1. Mountable(k, "BDVD_DRIVE", "dev_ps2disc")
    <3>1. "BDVD_DRIVE" \notin Singles
      BY UsbFacts DEF Singles
    <3> QED
      BY <3>1, OwnNamesAre DEF Mountable, Devices, Fixed, MountNames
  <2> HIDE DEF r
  <2>2. Mounts(k, "BDVD_DRIVE", "dev_ps2disc", r)
    BY <1>3, <2>1, MountStep DEF r
  <2>3. Ready(r)
    BY <1>3, <1>6, <2>2 DEF Mounts, Ready, OldPairs
  <2> QED
    BY <1>6, <2>3 DEF r
<1> HIDE DEF ps2, emu
<1>8. s1.one \in BOOLEAN /\ Launched(s1.k) /\ (s1.one = FALSE => Ready(s1.k)) /\ s1 = [one |-> s1.one, k |-> s1.k]
  <2> DEFINE call == PatchCall([one |-> one, k |-> ps2], flags, emu)
  <2>1. call.one \in BOOLEAN /\ Launched(call.k) /\ (call.one = FALSE => Ready(call.k))
    BY <1>1, <1>5, <1>7, CallSound
  <2>2. call = [one |-> call.one, k |-> call.k]
    BY DEF PatchCall
  <2>3. s0.one = FALSE /\ s0.k = k /\ s0 = [one |-> s0.one, k |-> s0.k] /\ Launched(k)
    BY <1>5, <1>6, ReadyIsLaunched
  <2> HIDE DEF call, s0, emulated
  <2>4. s1 = call \/ s1 = s0
    BY DEF call
  <2> HIDE DEF s1
  <2> QED
    BY <1>6, <2>1, <2>2, <2>3, <2>4
<1> HIDE DEF s1
<1>9. s2.one \in BOOLEAN /\ Launched(s2.k)
  <2> DEFINE call == PatchCall(s1, NtfsFlag, ext)
  <2>1. CASE s1.one = TRUE
    <3>1. call = s1
      BY <2>1 DEF PatchCall
    <3> QED
      BY <1>8, <3>1
  <2>2. CASE s1.one = FALSE
    <3>1. s1 = [one |-> FALSE, k |-> s1.k] /\ Ready(s1.k)
      BY <1>8, <2>2
    <3> DEFINE kk == s1.k
    <3> HIDE DEF kk
    <3>2. s1 = [one |-> FALSE, k |-> kk] /\ Ready(kk)
      BY <3>1 DEF kk
    <3> DEFINE c2 == PatchCall([one |-> FALSE, k |-> kk], NtfsFlag, ext)
    <3>3. c2.one \in BOOLEAN /\ Launched(c2.k)
      BY <1>1, <3>2, CallSound
    <3>4. call = c2
      BY <3>2
    <3> HIDE DEF c2, call
    <3>5. s2 = call \/ s2 = s1
      BY DEF call
    <3> HIDE DEF s2
    <3> QED
      BY <1>8, <3>3, <3>4, <3>5
  <2> QED
    BY <1>8, <2>1, <2>2
<1> HIDE DEF s2
<1>10. /\ Kn(k') /\ Calm(k, k') /\ (Cached(k') => Cached(k)) /\ one' \in BOOLEAN
       /\ \A m, n \in SlotNumbers : Pair(k', m, n) =>
             noBDVD # 0 /\ ~useCobra /\ (k'.table[m].dev \in Drives \/ k'.table[n].dev \in Drives)
  BY <1>1, <1>9 DEF Launched
<1>11. Phases
  BY <1>1, <1>2 DEF Phases
<1>12. KsTypeOK'
  BY <1>1, <1>2, <1>3, <1>10 DEF KsTypeOK, Kn
<1>13. CacheSound'
  <2>1. Loaded(k) <=> Loaded(k')
    BY <1>10 DEF Calm
  <2>2. CacheSound
    BY DEF KInv
  <2> QED
    BY <1>1, <1>10, <2>1, <2>2 DEF CacheSound
<1>14. Flags'
  BY <1>1, <1>2, <1>4 DEF Flags
<1>15. InMenu'
  BY <1>1 DEF InMenu
<1>16. Discs'
  BY <1>1, <1>10 DEF Discs, Pair
<1> QED
  BY <1>1, <1>10, <1>11, <1>12, <1>13, <1>14, <1>15, <1>16, PhaseStep

-----------------------------------------------------------------------------
(* The invariant *)

\* A console as shipped satisfies the invariant.
LEMMA KInit ==
  ASSUME Init
  PROVE  KInv
<1>1. PICK c \in Consoles : \E a \in {"none", "wanin", "sys36"} : k = Fresh(c, a)
  <2>1. \E c \in Consoles :
           \E a \in (IF c = "355" THEN {"none", "wanin", "sys36"} ELSE {"none"}) : k = Fresh(c, a)
    BY DEF Init
  <2> QED
    BY <2>1
<1>2. PICK a \in {"none", "wanin", "sys36"} : k = Fresh(c, a)
  BY <1>1
<1>3. c \in Firms
  BY ConsolesAssumption DEF Firms
<1> DEFINE z == Fresh(c, a)
<1>4. /\ Kn(z) /\ ~Loaded(z) /\ ~Cached(z) /\ z.vector = "shipped" /\ OwnWords(z)
      /\ \A n \in SlotNumbers : z.table[n].name # "dev_bdvd"
  BY <1>3, FreshIs
<1>5. k = z
  BY <1>2
<1> HIDE DEF z
<1>6. /\ at = "xmb" /\ noBDVD \in 0..2 /\ cobra \in BOOLEAN
      /\ mamba = "no" /\ discless = "no" /\ fw = "none" /\ mode = "zero"
      /\ useCobra = FALSE /\ useMamba = FALSE /\ pointers = FALSE /\ one = FALSE
      /\ found = "shipped" /\ stuck = FALSE
  BY NoDriveAssumption DEF Init
<1>7. "xmb" \notin Running /\ "xmb" \in Idle /\ "xmb" \notin Settled /\ "xmb" \notin Early
  BY DEF Running, Early, Settled, Idle
<1>8. KsTypeOK
  BY <1>4, <1>5, <1>6, <1>7 DEF KsTypeOK, Kn, Vectors
<1>9. RightFirmware /\ TableSound(k) /\ SavedSound(k) /\ Alone(k)
  BY <1>4, <1>5, <1>6, <1>7 DEF Kn, RightFirmware
<1>10. CacheSound /\ Discs
  BY <1>4, <1>5 DEF CacheSound, Discs
<1>11. Flags /\ MarkSound /\ InMenu /\ VectorFresh
  BY <1>6, <1>7 DEF Flags, MarkSound, InMenu, VectorFresh
<1>12. WordsSound /\ VectorSound
  BY <1>4, <1>5, <1>6, <1>7 DEF WordsSound, VectorSound
<1> QED
  BY <1>8, <1>9, <1>10, <1>11, <1>12 DEF KInv

\* The mark is set in the menu, where nothing is to launch.
LEMMA NothingStep ==
  ASSUME KInv, NothingToLaunch
  PROVE  KInv'
<1>1. UNCHANGED <<k, noBDVD, cobra, mamba, discless, at>>
      /\ UNCHANGED <<fw, mode, useCobra, useMamba, pointers, one, found, stuck>>
  BY DEF NothingToLaunch, console, statics
<1>2. /\ KsTypeOK' /\ RightFirmware' /\ TableSound(k)' /\ SavedSound(k)' /\ Alone(k)'
      /\ CacheSound' /\ Flags'
  BY <1>1 DEF KInv, KsTypeOK, RightFirmware, CacheSound, Flags
<1>3. MarkSound' /\ InMenu' /\ Discs' /\ WordsSound' /\ VectorSound' /\ VectorFresh'
  BY <1>1 DEF KInv, MarkSound, InMenu, Discs, WordsSound, VectorSound, VectorFresh
<1> QED
  BY <1>2, <1>3 DEF KInv

\* The invariant is about the variables only.
LEMMA KStutter ==
  ASSUME KInv, UNCHANGED vars
  PROVE  KInv'
<1>1. UNCHANGED <<k, noBDVD, cobra, mamba, discless, at>>
      /\ UNCHANGED <<fw, mode, useCobra, useMamba, pointers, one, found, stuck>>
  BY DEF vars, console, statics
<1>2. /\ KsTypeOK' /\ RightFirmware' /\ TableSound(k)' /\ SavedSound(k)' /\ Alone(k)'
      /\ CacheSound' /\ Flags'
  BY <1>1 DEF KInv, KsTypeOK, RightFirmware, CacheSound, Flags
<1>3. MarkSound' /\ InMenu' /\ Discs' /\ WordsSound' /\ VectorSound' /\ VectorFresh'
  BY <1>1 DEF KInv, MarkSound, InMenu, Discs, WordsSound, VectorSound, VectorFresh
<1> QED
  BY <1>2, <1>3 DEF KInv

\* The invariant is inductive: one step per action.
LEMMA KNext ==
  ASSUME KInv, [Next]_vars
  PROVE  KInv'
<1>1. CASE InsertDisc
  BY <1>1, InsertStep
<1>2. CASE EjectDisc
  BY <1>2, EjectStep
<1>3. ASSUME NEW u \in Units, Plug(u) \/ Unplug(u) PROVE KInv'
  BY <1>3, PlugStep, UnplugStep
<1>4. CASE PowerOff
  <2>1. noBDVD' \in 0..2
    BY <1>4 DEF PowerOff, KInv, KsTypeOK
  <2> QED
    BY <1>4, <2>1, ShippedStep DEF PowerOff
<1>5. CASE Begin
  BY <1>5, BeginStep
<1>6. CASE Load
  BY <1>6, LoadStep
<1>7. CASE AlreadyLoaded
  BY <1>7, AlreadyStep
<1>8. CASE MapFails
  BY <1>8, MapFailsStep
<1>9. CASE ForeignPayload
  BY <1>9, ForeignStep
<1>10. ASSUME NEW ok \in BOOLEAN, Settle(ok) PROVE KInv'
  BY <1>10, SettleStep
<1>11. CASE NoSyscall8
  BY <1>11, NoSyscall8Step
<1>12. CASE Relaunch
  BY <1>12, RelaunchStep
<1>13. CASE Unpatch
  BY <1>13, UnpatchStep
<1>14. CASE UmountBdvd
  BY <1>14, UmountStep
<1>15. CASE MountCache
  BY <1>15, MountCacheStep
<1>16. CASE KeepDisc
  BY <1>16, KeepDiscStep
<1>17. ASSUME NEW flags, NEW bdemu, NEW ext, NEW patched, Launch(flags, bdemu, ext, patched) PROVE KInv'
  BY <1>17, LaunchStep
<1>18. CASE Quit
  BY <1>18, QuitStep
<1>19. ASSUME NEW ok \in BOOLEAN, FunExit(ok) PROVE KInv'
  BY <1>19, FunExitStep
<1>20. ASSUME NEW n \in NoDriveModes, SetNoBDVD(n) PROVE KInv'
  <2>1. noBDVD' \in 0..2
    BY <1>20, NoDriveAssumption DEF SetNoBDVD
  <2> QED
    BY <1>20, <2>1, ShippedStep DEF SetNoBDVD
<1>21. CASE GameEnds
  BY <1>21, GameEndsStep
<1>22. CASE UNCHANGED vars
  BY <1>22, KStutter
<1>23. CASE NothingToLaunch
  BY <1>23, NothingStep
<1> QED
  BY <1>1, <1>2, <1>3, <1>4, <1>5, <1>6, <1>7, <1>8, <1>9, <1>10, <1>11, <1>12, <1>13, <1>14,
     <1>15, <1>16, <1>17, <1>18, <1>19, <1>20, <1>21, <1>22, <1>23 DEF Next

\* The inductive invariant holds in every reachable state, for every set of the
\* twenty-one firmwares and every set of settings of the drive.
THEOREM KernelSound == Spec => []KInv
<1>1. Init => KInv
  BY KInit
<1>2. KInv /\ [Next]_vars => KInv'
  BY KNext
<1> QED
  BY <1>1, <1>2, PTL DEF Spec

-----------------------------------------------------------------------------
(* The mark at 7EF220 *)

\* A mark is there for a launch since the program last settled, and only beside
\* a payload: so that the program that begins finds it, and undoes it or loads
\* the payload anew.
MarkInv ==
    /\ libfs \in BOOLEAN /\ must_patch \in BOOLEAN /\ owes \in BOOLEAN
    /\ libfs => owes
    /\ libfs => Loaded(k)
    /\ at \in Early => (libfs => must_patch)
    /\ at = "loaded" => (libfs => ~useMamba)

\* No mark, or the mark as it was, in a kernel that keeps its payload.
LEMMA MarkKept ==
  ASSUME MarkInv, UNCHANGED marks, PayloadStays, at' \notin Early \/ UNCHANGED <<at, useMamba>>
  PROVE  MarkInv'
<1>1. UNCHANGED <<libfs, must_patch, owes>>
  BY DEF marks
<1>2. (libfs => Loaded(k))'
  BY <1>1 DEF MarkInv, PayloadStays
<1>3. (at \in Early => (libfs => must_patch))' /\ (at = "loaded" => (libfs => ~useMamba))'
  BY <1>1 DEF MarkInv, Early
<1> QED
  BY <1>1, <1>2, <1>3 DEF MarkInv

\* A console that is switched on has no mark.
LEMMA MarkGone ==
  ASSUME MarkInv, libfs' = FALSE, owes' \in BOOLEAN, must_patch' \in BOOLEAN
  PROVE  MarkInv'
  BY DEF MarkInv

\* The steps from the begin of the program to its settings.
LEMMA MarkStart ==
  ASSUME KInv, MarkInv, Begin \/ Load \/ AlreadyLoaded \/ (\E ok \in BOOLEAN : Settle(ok))
  PROVE  MarkInv'
<1>1. CASE Begin
  <2>1. /\ UNCHANGED <<libfs, owes>> /\ at' = "begun" /\ must_patch' = (libfs /\ Loaded(k))
    BY <1>1 DEF Begin, Loaded
  <2>2. Loaded(k) => Loaded(k')
    BY <1>1, BeginStep DEF PayloadStays
  <2>3. must_patch' \in BOOLEAN /\ (libfs => must_patch')
    BY <2>1 DEF MarkInv
  <2> QED
    BY <2>1, <2>2, <2>3 DEF MarkInv
<1>2. CASE Load
  <2>1. libfs' = FALSE /\ UNCHANGED <<must_patch, owes>>
    BY <1>2 DEF Load
  <2> QED
    BY <2>1, MarkGone DEF MarkInv
<1>3. CASE AlreadyLoaded
  <2>1. at = "begun" /\ at' = "loaded" /\ UNCHANGED <<k, useMamba, libfs, must_patch, owes>>
    BY <1>3 DEF AlreadyLoaded, console, statics, marks
  <2>2. ~useMamba
    BY <2>1 DEF KInv, Flags
  <2> QED
    BY <2>1, <2>2 DEF MarkInv, Early
<1>4. ASSUME NEW ok \in BOOLEAN, Settle(ok) PROVE MarkInv'
  <2>1. /\ at = "loaded" /\ libfs' = (libfs /\ (useMamba \/ ~must_patch))
        /\ owes' = FALSE /\ must_patch' = must_patch
    BY <1>4 DEF Settle, StillMarked
  <2>2. libfs' = FALSE
    BY <2>1 DEF MarkInv, Early
  <2> QED
    BY <2>1, <2>2, MarkGone DEF MarkInv
<1> QED
  BY <1>1, <1>2, <1>3, <1>4

\* The launches.
LEMMA MarkLaunch ==
  ASSUME KInv, KInv', MarkInv,
         NothingToLaunch \/ \E flags, bdemu, ext, patched : Launch(flags, bdemu, ext, patched)
  PROVE  MarkInv'
<1>1. at = "menu" /\ at' \in {"menu", "booting"} /\ must_patch' = must_patch
  BY DEF NothingToLaunch, Launch
<1>2. \E marked \in BOOLEAN : libfs' = (libfs \/ marked) /\ owes' = (owes \/ marked)
  <2>1. CASE NothingToLaunch
    BY <2>1 DEF NothingToLaunch, MarkInv
  <2>2. ASSUME NEW flags, NEW bdemu, NEW ext, NEW patched, Launch(flags, bdemu, ext, patched)
        PROVE  \E marked \in BOOLEAN : libfs' = (libfs \/ marked) /\ owes' = (owes \/ marked)
    <3> DEFINE marked == patched /\ (IF flags = HddFlag THEN bdemu # 0 ELSE ext = 2)
    <3>1. libfs' = (libfs \/ marked) /\ owes' = (owes \/ marked)
      BY <2>2 DEF Launch
    <3>2. marked \in BOOLEAN
      OBVIOUS
    <3> HIDE DEF marked
    <3> QED
      BY <3>1, <3>2
  <2> QED
    BY <2>1, <2>2
<1>3. Loaded(k)'
  BY <1>1 DEF KInv, MarkSound, Settled
<1>4. at' \notin Early
  BY <1>1 DEF Early
<1>5. libfs' \in BOOLEAN /\ owes' \in BOOLEAN /\ (libfs' => owes')
  BY <1>2 DEF MarkInv
<1> QED
  BY <1>1, <1>3, <1>4, <1>5 DEF MarkInv, Early

\* What is known of the mark is inductive, beside the invariant of the kernel.
LEMMA MarkNext ==
  ASSUME KInv, MarkInv, [Next]_vars
  PROVE  MarkInv'
<1>0. KInv'
  BY KNext
<1>1. ASSUME UNCHANGED <<at, statics, marks>>, PayloadStays PROVE MarkInv'
  BY <1>1, MarkKept DEF statics
<1>2. ASSUME UNCHANGED marks, PayloadStays, at' \notin Early PROVE MarkInv'
  BY <1>2, MarkKept
<1>3. UNCHANGED k => PayloadStays
  BY DEF PayloadStays
<1>4. CASE InsertDisc
  BY <1>1, <1>4, InsertStep DEF InsertDisc
<1>5. CASE EjectDisc
  BY <1>1, <1>5, EjectStep DEF EjectDisc
<1>6. ASSUME NEW u \in Units, Plug(u) \/ Unplug(u) PROVE MarkInv'
  BY <1>1, <1>6, PlugStep, UnplugStep DEF Plug, Unplug
<1>7. CASE PowerOff
  BY <1>7, MarkGone DEF PowerOff, MarkInv
<1>8. CASE Begin \/ Load \/ AlreadyLoaded \/ (\E ok \in BOOLEAN : Settle(ok))
  BY <1>8, MarkStart
<1>9. CASE MapFails \/ ForeignPayload \/ NoSyscall8
  <2>1. PayloadStays
    BY <1>9, MapFailsStep, ForeignStep, NoSyscall8Step
  <2>2. UNCHANGED marks /\ at' = "leaving"
    BY <1>9 DEF MapFails, ForeignPayload, NoSyscall8, GiveUp
  <2> QED
    BY <1>2, <2>1, <2>2 DEF Early
<1>10. CASE Relaunch
  BY <1>2, <1>10, RelaunchStep DEF Relaunch, Early
<1>11. CASE Unpatch \/ UmountBdvd \/ MountCache \/ KeepDisc
  <2>1. UNCHANGED marks /\ at' \in {"clean", "umounted", "menu"}
    BY <1>11 DEF Unpatch, UmountBdvd, MountCache, KeepDisc
  <2>2. Loaded(k)'
    BY <1>0, <2>1 DEF KInv, MarkSound, Settled
  <2> QED
    BY <1>2, <2>1, <2>2 DEF PayloadStays, Early
<1>12. ASSUME NEW flags, NEW bdemu, NEW ext, NEW patched, Launch(flags, bdemu, ext, patched)
       PROVE  MarkInv'
  BY <1>0, <1>12, MarkLaunch
<1>13. CASE NothingToLaunch
  BY <1>0, <1>13, MarkLaunch
<1>14. CASE Quit \/ GameEnds
  <2>1. UNCHANGED <<k, marks>> /\ at' \in {"leaving", "back"}
    BY <1>14 DEF Quit, GameEnds, console
  <2> QED
    BY <1>2, <1>3, <2>1 DEF Early
<1>15. ASSUME NEW ok \in BOOLEAN, FunExit(ok) PROVE MarkInv'
  <2>1. UNCHANGED marks /\ at' \in {"xmb", "game"}
    BY <1>15 DEF FunExit
  <2> QED
    BY <1>2, <1>15, <2>1, FunExitStep DEF Early
<1>16. ASSUME NEW n \in NoDriveModes, SetNoBDVD(n) PROVE MarkInv'
  BY <1>16, MarkGone DEF SetNoBDVD, MarkInv
<1>17. CASE UNCHANGED vars
  BY <1>1, <1>3, <1>17 DEF vars, console
<1> QED
  BY <1>4, <1>5, <1>6, <1>7, <1>8, <1>9, <1>10, <1>11, <1>12, <1>13, <1>14, <1>15, <1>16, <1>17
     DEF Next

\* Outside the program the kernel holds its payload and no more, but for the
\* mark of a launch since the program last settled, and syscall 8 leads where it
\* led before (fun_exit, load_payload and lv2_unpatch_storage of every firmware,
\* and the word 7EF220 that the launch sets and main() undoes).
THEOREM SystemIsAsFound == Spec => []SystemAsFound
<1>1. KInv /\ MarkInv => SystemAsFound
  <2> SUFFICES ASSUME KInv, MarkInv, at \in {"xmb", "game", "back"}, ~stuck
               PROVE  /\ DOMAIN k.lv1 \subseteq DOMAIN Kept.lv1 \union Protection
                      /\ DOMAIN k.lv2 \subseteq DOMAIN Kept.lv2 \union
                            (IF k.saved = NotSaved THEN {} ELSE {MacrosOf(k.console).umount})
                      /\ k.vector = found
                      /\ at = "xmb" => discless # "on"
                      /\ libfs => owes
    BY DEF SystemAsFound
  <2>1. at \notin Running
    BY DEF Running, Early, Settled
  <2>2. OwnWords(k)
    BY <2>1 DEF KInv, WordsSound
  <2>3. k.vector = found
    BY <2>1 DEF KInv, VectorSound
  <2>4. at = "xmb" => discless # "on"
    BY DEF KInv, Flags
  <2>5. libfs => owes
    BY DEF MarkInv
  <2> QED
    BY <2>2, <2>3, <2>4, <2>5 DEF OwnWords, Kept
<1>2. Init => KInv /\ MarkInv
  <2>1. ASSUME Init PROVE MarkInv
    BY <2>1 DEF Init, MarkInv
  <2> QED
    BY <2>1, KInit
<1>3. (KInv /\ MarkInv) /\ [Next]_vars => (KInv /\ MarkInv)'
  BY KNext, MarkNext
<1> QED
  BY <1>1, <1>2, <1>3, PTL DEF Spec

\* In the menu every device has its own name again, whatever was launched and
\* plugged before (lv2_unpatch_bdvdemu of every firmware).
THEOREM MountsHaveComeBack == Spec => []MountsComeBack
<1>1. KInv => MountsComeBack
  BY DEF KInv, InMenu, MenuKernel, MountsComeBack, Own
<1> QED
  BY <1>1, KernelSound, PTL

\* A game that starts or runs sees one device as the disc (lv2_patch_bdvdemu
\* of every firmware).
THEOREM GamesSeeOneDisc == Spec => []OneDiscAtATime
<1>1. KInv => OneDiscAtATime
  <2> DEFINE S == {n \in SlotNumbers : k.table[n].name = "dev_bdvd"}
  <2> SUFFICES ASSUME KInv, at \in {"booting", "game"},
                      noBDVD = 0 \/ useCobra \/ \A n \in SlotNumbers : k.table[n].dev \notin Drives
               PROVE  Cardinality(S) <= 1
    BY DEF OneDiscAtATime
  <2>1. \A m, n \in S : m = n
    BY DEF KInv, Discs
  <2> HIDE DEF S
  <2>2. CASE S = {}
    BY <2>2, FS_EmptySet
  <2>3. CASE S # {}
    <3>1. PICK m \in S : TRUE
      BY <2>3
    <3>2. S = {m}
      BY <2>1, <3>1
    <3>3. Cardinality({m}) = 1
      BY FS_Singleton
    <3> QED
      BY <3>2, <3>3
  <2> QED
    BY <2>2, <2>3
<1> QED
  BY <1>1, KernelSound, PTL
=============================================================================
