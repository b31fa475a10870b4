------------------------------- MODULE Firmwares -------------------------------
(***************************************************************************)
(* The twenty-one payload files src/source/payload<v>/payload_<v>.c: for   *)
(* each firmware its addresses (the macros at the head of the file) and    *)
(* its eight functions, each the operator of Lv2Patches applied to them;   *)
(* and the dispatch on the firmware main.c does.                           *)
(***************************************************************************)
EXTENDS Lv2Patches

HasSymbol(k, x) == k.symbol = <<x.base, x.call, x.entry>>

\* ---- 341 ----
Macros_341 == Macros(\h2EB128, 813, \h1BB93C, \h7E0000, \h50B50, \h1B9220, \h3EE504,
        \h100, \hF0)
is_firm_341(k) == HasSymbol(k, Macros_341)
is_payload_loaded_341(k) == HermesLoaded(k)
load_payload_341(k) ==
    LoadPayload(k, Macros_341, OwnSyscall(Macros_341), FALSE, {\h7E0000, \h50B50},
        {\h282204}, {\h2821FC, \h17CE0}, {})
lv2_patch_storage_341(k, ok) ==
    PatchStorage(k, ok, \h2CF880, <<\h16F3B8, \h16F3DC, \h16F454, \h16F45C>>)
lv2_unpatch_storage_341(k, ok) ==
    UnpatchStorage(k, ok, \h2CF880, <<\h16F3B8, \h16F3DC, \h16F454, \h16F45C>>)
lv2_unpatch_bdvdemu_341(k) == UnpatchBdvdemu(k, Macros_341, \hFF0)
lv2_patch_bdvdemu_341(k, noBDVD, flags) ==
    PatchBdvdemu(k, Macros_341, \hFF0, noBDVD, flags)

\* ---- 355 ----
Macros_355 == Macros(\h346570, 813, \h195A68, \hEF48, \hF348, \h19334C, \h3F64C4,
        \h100, \hF0)
is_firm_355(k) == HasSymbol(k, Macros_355)
is_payload_loaded_355(k) == Sk1eLoaded355(k)
load_payload_355(k) ==
    LoadPayload(k, Macros_355, OwnSyscall(Macros_355), TRUE, {\hEF48, \hF348},
        {\h55F14, \h55F1C, \h7AF68, \h7AF7C, \h2B3298, \h28A40C, \hE7F0}, {\h55EA0,
        \h55F64, \h28A404}, {})
lv2_patch_storage_355(k, ok) ==
    PatchStorage(k, ok, \h2D7820, <<\h16F3B8, \h16F3DC, \h16F454, \h16F45C>>)
lv2_unpatch_storage_355(k, ok) ==
    UnpatchStorage(k, ok, \h2D7820, <<\h16F3B8, \h16F3DC, \h16F454, \h16F45C>>)
lv2_unpatch_bdvdemu_355(k) == UnpatchBdvdemu(k, Macros_355, \hFF0)
lv2_patch_bdvdemu_355(k, noBDVD, flags) ==
    PatchBdvdemu(k, Macros_355, \hFF0, noBDVD, flags)

\* ---- 355dex ----
Macros_355dex == Macros(\h361578, 813, \h19BE24, \hF590, \hF990, \h199708, \h4114C4,
        \h100, \hF0)
is_firm_355dex(k) == HasSymbol(k, Macros_355dex)
is_payload_loaded_355dex(k) == Sk1eLoaded(k)
load_payload_355dex(k) ==
    LoadPayload(k, Macros_355dex, OwnSyscall(Macros_355dex), TRUE, {\hF590, \hF990},
        {\h59800, \h59808, \h7EF60, \h7EF74, \h59854, \h59858, \h2909F0, \h2C8AB8,
        \hEE38}, {\h5978C, \h2909E8}, {})
lv2_patch_storage_355dex(k, ok) ==
    PatchStorage(k, ok, \h2EF270, <<\h16F3B8, \h16F3DC, \h16F454, \h16F45C>>)
lv2_unpatch_storage_355dex(k, ok) ==
    UnpatchStorage(k, TRUE, \h2EF270, <<\h16F3B8, \h16F3DC, \h16F454, \h16F45C>>)
lv2_unpatch_bdvdemu_355dex(k) == UnpatchBdvdemu(k, Macros_355dex, \hFF0)
lv2_patch_bdvdemu_355dex(k, noBDVD, flags) ==
    PatchBdvdemu(k, Macros_355dex, \hFF0, noBDVD, flags)

\* ---- 421 ----
Macros_421 == Macros(\h35BCA8, 813, \h1B65C8, \h3D90, \h4190, \h1B46C8, \h45807C,
        \h110, \h100)
is_firm_421(k) == HasSymbol(k, Macros_421)
is_payload_loaded_421(k) == Sk1eLoaded(k)
load_payload_421(k) ==
    LoadPayload(k, Macros_421, OwnSyscall(Macros_421), TRUE, {\h3D90, \h4190},
        {\h57094, \h5709C, \h5AA58, \h5AA6C, \h570E8, \h570EC, \h296270, \h2C257C,
        \h3560}, {\h57020, \h296268}, {\h370A28, \h370A30, \h370A38, \h370A40})
lv2_patch_storage_421(k, ok) ==
    PatchStorage(k, ok, \h2E7920, <<\h16F758, \h16F77C, \h16F7F4, \h16F7FC>>)
lv2_unpatch_storage_421(k, ok) ==
    UnpatchStorage(k, TRUE, \h2E7920, <<\h16F758, \h16F77C, \h16F7F4, \h16F7FC>>)
lv2_unpatch_bdvdemu_421(k) == UnpatchBdvdemu(k, Macros_421, \h10F0)
lv2_patch_bdvdemu_421(k, noBDVD, flags) ==
    PatchBdvdemu(k, Macros_421, \h10F0, noBDVD, flags)

\* ---- 421dex ----
Macros_421dex == Macros(\h37A1B0, 813, \h1BC9B8, \h3D90, \h4190, \h1BAAB8, \h47007C,
        \h110, \h100)
is_firm_421dex(k) == HasSymbol(k, Macros_421dex)
is_payload_loaded_421dex(k) == Sk1eLoaded(k)
load_payload_421dex(k) ==
    LoadPayload(k, Macros_421dex, OwnSyscall(Macros_421dex), TRUE, {\h3D90, \h4190},
        {\h5A9AC, \h5A9B4, \h5E370, \h5E384, \h5AA00, \h5AA04, \h29C8CC, \h2D973C,
        \h3560}, {\h5A938, \h29C8C4}, {\h370A28, \h370A30, \h370A38, \h370A40})
lv2_patch_storage_421dex(k, ok) ==
    PatchStorage(k, ok, \h302098, <<\h16F758, \h16F77C, \h16F7F4, \h16F7FC>>)
lv2_unpatch_storage_421dex(k, ok) ==
    UnpatchStorage(k, TRUE, \h302098, <<\h16F758, \h16F77C, \h16F7F4, \h16F7FC>>)
lv2_unpatch_bdvdemu_421dex(k) == UnpatchBdvdemu(k, Macros_421dex, \h10F0)
lv2_patch_bdvdemu_421dex(k, noBDVD, flags) ==
    PatchBdvdemu(k, Macros_421dex, \h10F0, noBDVD, flags)

\* ---- 430 ----
Macros_430 == Macros(\h35DBE0, 813, \h1B6950, \h3D90, \h4190, \h1B5070, \h458098,
        \h118, \h108)
is_firm_430(k) == HasSymbol(k, Macros_430)
is_payload_loaded_430(k) == Sk1eLoaded(k)
load_payload_430(k) ==
    LoadPayload(k, Macros_430, OwnSyscall(Macros_430), TRUE, {\h3D90, \h4190},
        {\h571E4, \h571EC, \h5ABA8, \h5ABBC, \h57238, \h5723C, \h2979E4, \h2C3CF8,
        \h2C3CD4, \h3560}, {\h57170, \h2979DC}, {\h370AA8, \h370AB0, \h370AB8,
        \h370AC0})
lv2_patch_storage_430(k, ok) ==
    PatchStorage(k, ok, \h2E9218, <<\h16FA60, \h16FA84, \h16FAFC, \h16FB04>>)
\* mutant: one address of 4.21
lv2_unpatch_storage_430_with_421(k, ok) ==
    UnpatchStorage(k, TRUE, \h2E9218, <<\h16FA60, \h16FA84, \h16F7F4, \h16FB04>>)
lv2_unpatch_storage_430(k, ok) ==
    UnpatchStorage(k, TRUE, \h2E9218, <<\h16FA60, \h16FA84, \h16FAFC, \h16FB04>>)
\* mutants: the table ends before its last slot; no drive taken for a drive
lv2_unpatch_bdvdemu_430_short(k) == UnpatchBdvdemu(k, Macros_430, \h1000)
lv2_patch_bdvdemu_430_inverted(k, noBDVD, flags) ==
    PatchBdvdemu(k, Macros_430, \h116C, ~noBDVD, flags)
lv2_unpatch_bdvdemu_430(k) == UnpatchBdvdemu(k, Macros_430, \h116C)
lv2_patch_bdvdemu_430(k, noBDVD, flags) ==
    PatchBdvdemu(k, Macros_430, \h116C, noBDVD, flags)

\* ---- 430dex ----
Macros_430dex == Macros(\h37C068, 1020, \h1510, \h3D90, \h4190, \h1B5070, \h478098,
        \h118, \h108)
is_firm_430dex(k) == HasSymbol(k, Macros_430dex)
is_payload_loaded_430dex(k) == Sk1eLoaded(k)
load_payload_430dex(k) ==
    LoadPayload(k, Macros_430dex, OwnSyscall(Macros_430dex), TRUE, {\h3D90, \h4190},
        {\h5AAFC, \h5AB00, \h5E4C0, \h5E4D4, \h5AB50, \h5AB54, \h29E040, \h2DAE70,
        \h3560}, {\h37E048, \h1500, \h5AA88, \h29E038}, {\h370AA8, \h370AB0,
        \h370AB8, \h370AC0})
lv2_patch_storage_430dex(k, ok) ==
    PatchStorage(k, ok, \h303940, <<\h16FA60, \h16FA84, \h16FAFC, \h16FB04>>)
lv2_unpatch_storage_430dex(k, ok) ==
    UnpatchStorage(k, TRUE, \h303940, <<\h16FA60, \h16FA84, \h16FAFC, \h16FB04>>)
lv2_unpatch_bdvdemu_430dex(k) == UnpatchBdvdemu(k, Macros_430dex, \h116C)
lv2_patch_bdvdemu_430dex(k, noBDVD, flags) ==
    PatchBdvdemu(k, Macros_430dex, \h116C, noBDVD, flags)

\* ---- 431 ----
Macros_431 == Macros(\h35DBE0, 813, \h1B6958, \h3D90, \h4190, \h1B5078, \h458098,
        \h118, \h108)
is_firm_431(k) == HasSymbol(k, Macros_431)
is_payload_loaded_431(k) == Sk1eLoaded(k)
load_payload_431(k) ==
    LoadPayload(k, Macros_431, Routine9(Macros_431), TRUE, {\h171C, \h3D90, \h4190},
        {\h571E8, \h571F0, \h5ABAC, \h5ABC0, \h5723C, \h57240, \h2979EC, \h2C3D04,
        \h3560}, {\h57174, \h2979E4, \h35DC28, \h35DC30}, {})
lv2_patch_storage_431(k, ok) ==
    PatchStorage(k, ok, \h2E9228, <<\h16FA60, \h16FA84, \h16FAFC, \h16FB04>>)
lv2_unpatch_storage_431(k, ok) ==
    UnpatchStorage(k, TRUE, \h2E9228, <<\h16FA60, \h16FA84, \h16FAFC, \h16FB04>>)
lv2_unpatch_bdvdemu_431(k) == UnpatchBdvdemu(k, Macros_431, \h116C)
lv2_patch_bdvdemu_431(k, noBDVD, flags) ==
    PatchBdvdemu(k, Macros_431, \h116C, noBDVD, flags)

\* ---- 440 ----
Macros_440 == Macros(\h35E260, 813, \h1B5934, \h3D90, \h4190, \h1B4054, \h458098,
        \h118, \h108)
is_firm_440(k) == HasSymbol(k, Macros_440)
is_payload_loaded_440(k) == Sk1eLoaded(k)
load_payload_440(k) ==
    LoadPayload(k, Macros_440, Routine9(Macros_440), TRUE, {\h171C, \h3D90, \h4190},
        {\h56130, \h56138, \h59AF4, \h59B08, \h5614C, \h56184, \h55FD8, \h56208,
        \h561FC, \h296DF4, \h2C42A8, \h3560}, {\h560BC, \h296DEC, \h2C428C, \h35E2A8,
        \h35E2B0}, {})
lv2_patch_storage_440(k, ok) ==
    PatchStorage(k, ok, \h2E9798, <<\h16FA60, \h16FA84, \h16FAFC, \h16FB04>>)
lv2_unpatch_storage_440(k, ok) ==
    UnpatchStorage(k, TRUE, \h2E9798, <<\h16FA60, \h16FA84, \h16FAFC, \h16FB04>>)
lv2_unpatch_bdvdemu_440(k) == UnpatchBdvdemu(k, Macros_440, \h116C)
lv2_patch_bdvdemu_440(k, noBDVD, flags) ==
    PatchBdvdemu(k, Macros_440, \h116C, noBDVD, flags)

\* ---- 441 ----
Macros_441 == Macros(\h35E260, 813, \h1B593C, \h3D90, \h4190, \h1B405C, \h458098,
        \h118, \h108)
is_firm_441(k) == HasSymbol(k, Macros_441)
is_payload_loaded_441(k) == Sk1eLoaded(k)
load_payload_441(k) ==
    LoadPayload(k, Macros_441, OwnSyscall(Macros_441), TRUE, {\h3D90, \h4190},
        {\h56134, \h5613C, \h59AF8, \h59B0C, \h56188, \h5618C, \h296DFC, \h2C42B4,
        \h2C4290, \h3560}, {\h560C0, \h296DF4}, {\h370AA8, \h370AB0, \h370AB8,
        \h370AC0})
lv2_patch_storage_441(k, ok) ==
    PatchStorage(k, ok, \h2E97A8, <<\h16FA60, \h16FA84, \h16FAFC, \h16FB04>>)
lv2_unpatch_storage_441(k, ok) ==
    UnpatchStorage(k, TRUE, \h2E97A8, <<\h16FA60, \h16FA84, \h16FAFC, \h16FB04>>)
lv2_unpatch_bdvdemu_441(k) == UnpatchBdvdemu(k, Macros_441, \h116C)
lv2_patch_bdvdemu_441(k, noBDVD, flags) ==
    PatchBdvdemu(k, Macros_441, \h116C, noBDVD, flags)

\* ---- 446 ----
Macros_446 == Macros(\h35E860, 813, \h1B5B9C, \h3D90, \h4190, \h1B42BC, \h458098,
        \h118, \h108)
is_firm_446(k) == HasSymbol(k, Macros_446)
is_payload_loaded_446(k) == Sk1eLoaded(k)
load_payload_446(k) ==
    LoadPayload(k, Macros_446, OwnSyscall(Macros_446), TRUE, {\h3D90, \h4190},
        {\h56134, \h5613C, \h59AF8, \h59B0C, \h56188, \h5618C, \h29731C, \h2C47D4,
        \h2C47B0, \h3560}, {\h560C0, \h297314, \h2C47B8}, {\h370AA8, \h370AB0,
        \h370AB8, \h370AC0})
lv2_patch_storage_446(k, ok) ==
    PatchStorage(k, ok, \h2E9CC8, <<\h16FA60, \h16FA84, \h16FAFC, \h16FB04>>)
lv2_unpatch_storage_446(k, ok) ==
    UnpatchStorage(k, TRUE, \h2E9CC8, <<\h16FA60, \h16FA84, \h16FAFC, \h16FB04>>)
lv2_unpatch_bdvdemu_446(k) == UnpatchBdvdemu(k, Macros_446, \h116C)
lv2_patch_bdvdemu_446(k, noBDVD, flags) ==
    PatchBdvdemu(k, Macros_446, \h116C, noBDVD, flags)

\* ---- 450 ----
Macros_450 == Macros(\h35F0D0, 813, \h1A6C78, \h3D90, \h4190, \h1A5398, \h471F98,
        \h118, \h108)
is_firm_450(k) == HasSymbol(k, Macros_450)
is_payload_loaded_450(k) == Sk1eLoaded(k)
load_payload_450(k) ==
    LoadPayload(k, Macros_450, OwnSyscall(Macros_450), TRUE, {\h3D90, \h4190},
        {\h56130, \h56138, \h59AF4, \h59B08, \h56184, \h56188, \h26F628, \h29DD44,
        \h29DD20, \h3560}, {\h560BC, \h26F620}, {\h370AA8, \h370AB0, \h370AB8,
        \h370AC0})
lv2_patch_storage_450(k, ok) ==
    PatchStorage(k, ok, \h2E8EF0, <<\h16FA60, \h16FA84, \h16FAFC, \h16FB04>>)
lv2_unpatch_storage_450(k, ok) ==
    UnpatchStorage(k, TRUE, \h2E8EF0, <<\h16FA60, \h16FA84, \h16FAFC, \h16FB04>>)
lv2_unpatch_bdvdemu_450(k) == UnpatchBdvdemu(k, Macros_450, \h116C)
lv2_patch_bdvdemu_450(k, noBDVD, flags) ==
    PatchBdvdemu(k, Macros_450, \h116C, noBDVD, flags)

\* ---- 450dex ----
Macros_450dex == Macros(\h383658, 813, \h1AD128, \h3D90, \h4190, \h1AB848, \h49B6A8,
        \h118, \h108)
is_firm_450dex(k) == HasSymbol(k, Macros_450dex)
is_payload_loaded_450dex(k) == Sk1eLoaded(k)
load_payload_450dex(k) ==
    LoadPayload(k, Macros_450dex, OwnSyscall(Macros_450dex), TRUE, {\h3D90, \h4190},
        {\h59B00, \h59B08, \h5D4C4, \h5D4D8, \h59B54, \h275D44, \h2B820C, \h3560},
        {\h59A8C, \h275D3C}, {\h370AA8, \h370AB0, \h370AB8, \h370AC0})
lv2_patch_storage_450dex(k, ok) ==
    PatchStorage(k, ok, \h3089A8, <<\h16FA60, \h16FA84, \h16FAFC, \h16FB04>>)
lv2_unpatch_storage_450dex(k, ok) ==
    UnpatchStorage(k, TRUE, \h3089A8, <<\h16FA60, \h16FA84, \h16FAFC, \h16FB04>>)
lv2_unpatch_bdvdemu_450dex(k) == UnpatchBdvdemu(k, Macros_450dex, \h116C)
lv2_patch_bdvdemu_450dex(k, noBDVD, flags) ==
    PatchBdvdemu(k, Macros_450dex, \h116C, noBDVD, flags)

\* ---- 453 ----
Macros_453 == Macros(\h35F300, 813, \h1A6DE0, \h3D90, \h4190, \h1A5500, \h471F98,
        \h118, \h108)
is_firm_453(k) == HasSymbol(k, Macros_453)
is_payload_loaded_453(k) == Sk1eLoaded(k)
load_payload_453(k) ==
    LoadPayload(k, Macros_453, OwnSyscall(Macros_453), TRUE, {\h3D90, \h4190},
        {\h56134, \h5613C, \h59AF8, \h59B0C, \h56188, \h5618C, \h26F7FC, \h29DF1C,
        \h29DEF8, \h3560}, {\h560C0, \h26F7F4}, {\h370AA8, \h370AB0, \h370AB8,
        \h370AC0})
lv2_patch_storage_453(k, ok) ==
    PatchStorage(k, ok, \h2E9080, <<\h16FA60, \h16FA84, \h16FAFC, \h16FB04>>)
lv2_unpatch_storage_453(k, ok) ==
    UnpatchStorage(k, TRUE, \h2E9080, <<\h16FA60, \h16FA84, \h16FAFC, \h16FB04>>)
lv2_unpatch_bdvdemu_453(k) == UnpatchBdvdemu(k, Macros_453, \h116C)
lv2_patch_bdvdemu_453(k, noBDVD, flags) ==
    PatchBdvdemu(k, Macros_453, \h116C, noBDVD, flags)

\* ---- 455 ----
Macros_455 == Macros(\h362680, 813, \h1A82CC, \h3D90, \h4190, \h1A69EC, \h479F98,
        \h118, \h108)
is_firm_455(k) == HasSymbol(k, Macros_455)
is_payload_loaded_455(k) == Sk1eLoaded(k)
load_payload_455(k) ==
    LoadPayload(k, Macros_455, OwnSyscall(Macros_455), TRUE, {\h3D90, \h4190},
        {\h563F4, \h563FC, \h5A2F0, \h56448, \h56414, \h26F7FC, \h29F76C, \h29F748,
        \h3560}, {\h56380, \h26F7F4, \h27103C, \h271044}, {\h370F28, \h370F30,
        \h370F38, \h370F40})
lv2_patch_storage_455(k, ok) ==
    PatchStorage(k, ok, \h2EB898, <<\h16FA60, \h16FA84, \h16FAFC, \h16FB04>>)
lv2_unpatch_storage_455(k, ok) ==
    UnpatchStorage(k, TRUE, \h2EB898, <<\h16FA60, \h16FA84, \h16FAFC, \h16FB04>>)
lv2_unpatch_bdvdemu_455(k) == UnpatchBdvdemu(k, Macros_455, \h116C)
lv2_patch_bdvdemu_455(k, noBDVD, flags) ==
    PatchBdvdemu(k, Macros_455, \h116C, noBDVD, flags)

\* ---- 460deh ----
Macros_460deh == Macros(\h3B2730, 813, \h1AE034, \h3D90, \h4190, \h1AC754, \h4D1728,
        \h118, \h108)
is_firm_460deh(k) == HasSymbol(k, Macros_460deh)
is_payload_loaded_460deh(k) == Sk1eLoaded(k)
load_payload_460deh(k) ==
    LoadPayload(k, Macros_460deh, OwnSyscall(Macros_460deh), TRUE, {\h3D90, \h4190},
        {\h5A3B4, \h5A3BC, \h5E410, \h5E424, \h5A408, \h2771C4, \h2D1488, \h3560},
        {\h59FE4, \h23740C, \h5A340, \h2771BC}, {})
lv2_patch_storage_460deh(k, ok) ==
    PatchStorage(k, ok, \h32CBE0, <<\h177A60, \h177A84, \h177AFC, \h177B04>>)
lv2_unpatch_storage_460deh(k, ok) ==
    UnpatchStorage(k, TRUE, \h32CBE0, <<\h177A60, \h177A84, \h177AFC, \h177B04>>)
lv2_unpatch_bdvdemu_460deh(k) == UnpatchBdvdemu(k, Macros_460deh, \h116C)
lv2_patch_bdvdemu_460deh(k, noBDVD, flags) ==
    PatchBdvdemu(k, Macros_460deh, \h116C, noBDVD, flags)

\* ---- 460dex ----
Macros_460dex == Macros(\h38A120, 813, \h1AD3EC, \h3D90, \h4190, \h1ABB0C, \h4A36D0,
        \h118, \h108)
is_firm_460dex(k) == HasSymbol(k, Macros_460dex)
is_payload_loaded_460dex(k) == Sk1eLoaded(k)
load_payload_460dex(k) ==
    LoadPayload(k, Macros_460dex, OwnSyscall(Macros_460dex), TRUE, {\h3D90, \h4190},
        {\h59FCC, \h59FD4, \h5E028, \h5E03C, \h5A020, \h5A024, \h2764FC, \h2BB028,
        \h2BB004, \h3560}, {\h59BFC, \h2367C4, \h59F58, \h2764F4}, {})
lv2_patch_storage_460dex(k, ok) ==
    PatchStorage(k, ok, \h30E450, <<\h16FA60, \h16FA84, \h16FAFC, \h16FB04>>)
lv2_unpatch_storage_460dex(k, ok) ==
    UnpatchStorage(k, TRUE, \h30E450, <<\h16FA60, \h16FA84, \h16FAFC, \h16FB04>>)
lv2_unpatch_bdvdemu_460dex(k) == UnpatchBdvdemu(k, Macros_460dex, \h116C)
lv2_patch_bdvdemu_460dex(k, noBDVD, flags) ==
    PatchBdvdemu(k, Macros_460dex, \h116C, noBDVD, flags)

\* ---- 470 ----
Macros_470 == Macros(\h363B60, 813, \h2A1408, \h3D90, \h4190, \h29FB28, \h479FC0,
        \h118, \h108)
is_firm_470(k) == HasSymbol(k, Macros_470)
is_payload_loaded_470(k) == Sk1eLoaded(k)
load_payload_470(k) ==
    LoadPayload(k, Macros_470, OwnSyscall(Macros_470), TRUE, {\h3D90, \h4190},
        {\h565FC, \h56604, \h5A6E0, \h5A6F4, \h56650, \h2670E4, \h2975E4, \h3560},
        {\h5622C, \h2275EC, \h56588, \h2670DC}, {})
lv2_patch_storage_470(k, ok) ==
    PatchStorage(k, ok, \h2ECA30, <<\h16FA60, \h16FA84, \h16FAFC, \h16FB04>>)
lv2_unpatch_storage_470(k, ok) ==
    UnpatchStorage(k, TRUE, \h2ECA30, <<\h16FA60, \h16FA84, \h16FAFC, \h16FB04>>)
lv2_unpatch_bdvdemu_470(k) == UnpatchBdvdemu(k, Macros_470, \h116C)
lv2_patch_bdvdemu_470(k, noBDVD, flags) ==
    PatchBdvdemu(k, Macros_470, \h116C, noBDVD, flags)

\* ---- 470dex ----
Macros_470dex == Macros(\h38A368, 813, \h2BC5AC, \h3D90, \h4190, \h2BACC8, \h4A3678,
        \h118, \h108)
is_firm_470dex(k) == HasSymbol(k, Macros_470dex)
is_payload_loaded_470dex(k) == Sk1eLoaded(k)
load_payload_470dex(k) ==
    LoadPayload(k, Macros_470dex, OwnSyscall(Macros_470dex), TRUE, {\h3D90, \h4190},
        {\h59FCC, \h59FD4, \h5E0B0, \h5E0C4, \h5A020, \h26D800, \h2B24A4, \h3560},
        {\h59BFC, \h22DAC8, \h59F58, \h26D7F8}, {})
lv2_patch_storage_470dex(k, ok) ==
    PatchStorage(k, ok, \h30E4F8, <<\h16FA60, \h16FA84, \h16FAFC, \h16FB04>>)
lv2_unpatch_storage_470dex(k, ok) ==
    UnpatchStorage(k, TRUE, \h30E4F8, <<\h16FA60, \h16FA84, \h16FAFC, \h16FB04>>)
lv2_unpatch_bdvdemu_470dex(k) == UnpatchBdvdemu(k, Macros_470dex, \h116C)
lv2_patch_bdvdemu_470dex(k, noBDVD, flags) ==
    PatchBdvdemu(k, Macros_470dex, \h116C, noBDVD, flags)

\* ---- 475 ----
Macros_475 == Macros(\h363BE0, 813, \h2A1480, \h3D90, \h4190, \h29FBA0, \h479FC0,
        \h118, \h108)
is_firm_475(k) == HasSymbol(k, Macros_475)
is_payload_loaded_475(k) == Sk1eLoaded(k)
load_payload_475(k) ==
    LoadPayload(k, Macros_475, OwnSyscall(Macros_475), TRUE, {\h3D90, \h4190},
        {\h56600, \h56608, \h5A6E4, \h5A6F8, \h56654, \h56658, \h267158, \h29765C,
        \h3560}, {\h56230, \h2275F4, \h5658C, \h267150}, {})
lv2_patch_storage_475(k, ok) ==
    PatchStorage(k, ok, \h2ECAB0, <<\h16FA60, \h16FA84, \h16FAFC, \h16FB04>>)
lv2_unpatch_storage_475(k, ok) ==
    UnpatchStorage(k, TRUE, \h2ECAB0, <<\h16FA60, \h16FA84, \h16FAFC, \h16FB04>>)
lv2_unpatch_bdvdemu_475(k) == UnpatchBdvdemu(k, Macros_475, \h116C)
lv2_patch_bdvdemu_475(k, noBDVD, flags) ==
    PatchBdvdemu(k, Macros_475, \h116C, noBDVD, flags)

\* ---- 475dex ----
Macros_475dex == Macros(\h38A3E8, 813, \h2BC624, \h3D90, \h4190, \h2BAD40, \h4A3678,
        \h118, \h108)
is_firm_475dex(k) == HasSymbol(k, Macros_475dex)
is_payload_loaded_475dex(k) == Sk1eLoaded(k)
load_payload_475dex(k) ==
    LoadPayload(k, Macros_475dex, OwnSyscall(Macros_475dex), TRUE, {\h3D90, \h4190},
        {\h59FD0, \h59FD8, \h5E0B4, \h5E0C8, \h5A024, \h26D874, \h2B251C, \h3560},
        {\h59C00, \h22DAD0, \h59F5C, \h26D86C}, {})
lv2_patch_storage_475dex(k, ok) ==
    PatchStorage(k, ok, \h30E568, <<\h16FA60, \h16FA84, \h16FAFC, \h16FB04>>)
lv2_unpatch_storage_475dex(k, ok) ==
    UnpatchStorage(k, TRUE, \h30E568, <<\h16FA60, \h16FA84, \h16FAFC, \h16FB04>>)
lv2_unpatch_bdvdemu_475dex(k) == UnpatchBdvdemu(k, Macros_475dex, \h116C)
lv2_patch_bdvdemu_475dex(k, noBDVD, flags) ==
    PatchBdvdemu(k, Macros_475dex, \h116C, noBDVD, flags)
-----------------------------------------------------------------------------
(* The dispatch: the chain of is_firm_* and the function pointers that      *)
(* set_bdvdemu_* installs.                                                  *)

MacrosOf(f) ==
    CASE f = "341" -> Macros_341
      [] f = "355" -> Macros_355
      [] f = "355dex" -> Macros_355dex
      [] f = "421" -> Macros_421
      [] f = "421dex" -> Macros_421dex
      [] f = "430" -> Macros_430
      [] f = "430dex" -> Macros_430dex
      [] f = "431" -> Macros_431
      [] f = "440" -> Macros_440
      [] f = "441" -> Macros_441
      [] f = "446" -> Macros_446
      [] f = "450" -> Macros_450
      [] f = "450dex" -> Macros_450dex
      [] f = "453" -> Macros_453
      [] f = "455" -> Macros_455
      [] f = "460deh" -> Macros_460deh
      [] f = "460dex" -> Macros_460dex
      [] f = "470" -> Macros_470
      [] f = "470dex" -> Macros_470dex
      [] f = "475" -> Macros_475
      [] f = "475dex" -> Macros_475dex

IsFirm(f, k) ==
    CASE f = "341" -> is_firm_341(k)
      [] f = "355" -> is_firm_355(k)
      [] f = "355dex" -> is_firm_355dex(k)
      [] f = "421" -> is_firm_421(k)
      [] f = "421dex" -> is_firm_421dex(k)
      [] f = "430" -> is_firm_430(k)
      [] f = "430dex" -> is_firm_430dex(k)
      [] f = "431" -> is_firm_431(k)
      [] f = "440" -> is_firm_440(k)
      [] f = "441" -> is_firm_441(k)
      [] f = "446" -> is_firm_446(k)
      [] f = "450" -> is_firm_450(k)
      [] f = "450dex" -> is_firm_450dex(k)
      [] f = "453" -> is_firm_453(k)
      [] f = "455" -> is_firm_455(k)
      [] f = "460deh" -> is_firm_460deh(k)
      [] f = "460dex" -> is_firm_460dex(k)
      [] f = "470" -> is_firm_470(k)
      [] f = "470dex" -> is_firm_470dex(k)
      [] f = "475" -> is_firm_475(k)
      [] f = "475dex" -> is_firm_475dex(k)

PayloadLoaded(f, k) ==
    CASE f = "341" -> is_payload_loaded_341(k)
      [] f = "355" -> is_payload_loaded_355(k)
      [] f = "355dex" -> is_payload_loaded_355dex(k)
      [] f = "421" -> is_payload_loaded_421(k)
      [] f = "421dex" -> is_payload_loaded_421dex(k)
      [] f = "430" -> is_payload_loaded_430(k)
      [] f = "430dex" -> is_payload_loaded_430dex(k)
      [] f = "431" -> is_payload_loaded_431(k)
      [] f = "440" -> is_payload_loaded_440(k)
      [] f = "441" -> is_payload_loaded_441(k)
      [] f = "446" -> is_payload_loaded_446(k)
      [] f = "450" -> is_payload_loaded_450(k)
      [] f = "450dex" -> is_payload_loaded_450dex(k)
      [] f = "453" -> is_payload_loaded_453(k)
      [] f = "455" -> is_payload_loaded_455(k)
      [] f = "460deh" -> is_payload_loaded_460deh(k)
      [] f = "460dex" -> is_payload_loaded_460dex(k)
      [] f = "470" -> is_payload_loaded_470(k)
      [] f = "470dex" -> is_payload_loaded_470dex(k)
      [] f = "475" -> is_payload_loaded_475(k)
      [] f = "475dex" -> is_payload_loaded_475dex(k)

LoadOf(f, k) ==
    CASE f = "341" -> load_payload_341(k)
      [] f = "355" -> load_payload_355(k)
      [] f = "355dex" -> load_payload_355dex(k)
      [] f = "421" -> load_payload_421(k)
      [] f = "421dex" -> load_payload_421dex(k)
      [] f = "430" -> load_payload_430(k)
      [] f = "430dex" -> load_payload_430dex(k)
      [] f = "431" -> load_payload_431(k)
      [] f = "440" -> load_payload_440(k)
      [] f = "441" -> load_payload_441(k)
      [] f = "446" -> load_payload_446(k)
      [] f = "450" -> load_payload_450(k)
      [] f = "450dex" -> load_payload_450dex(k)
      [] f = "453" -> load_payload_453(k)
      [] f = "455" -> load_payload_455(k)
      [] f = "460deh" -> load_payload_460deh(k)
      [] f = "460dex" -> load_payload_460dex(k)
      [] f = "470" -> load_payload_470(k)
      [] f = "470dex" -> load_payload_470dex(k)
      [] f = "475" -> load_payload_475(k)
      [] f = "475dex" -> load_payload_475dex(k)

PatchStorageOf(f, k, ok) ==
    CASE f = "341" -> lv2_patch_storage_341(k, ok)
      [] f = "355" -> lv2_patch_storage_355(k, ok)
      [] f = "355dex" -> lv2_patch_storage_355dex(k, ok)
      [] f = "421" -> lv2_patch_storage_421(k, ok)
      [] f = "421dex" -> lv2_patch_storage_421dex(k, ok)
      [] f = "430" -> lv2_patch_storage_430(k, ok)
      [] f = "430dex" -> lv2_patch_storage_430dex(k, ok)
      [] f = "431" -> lv2_patch_storage_431(k, ok)
      [] f = "440" -> lv2_patch_storage_440(k, ok)
      [] f = "441" -> lv2_patch_storage_441(k, ok)
      [] f = "446" -> lv2_patch_storage_446(k, ok)
      [] f = "450" -> lv2_patch_storage_450(k, ok)
      [] f = "450dex" -> lv2_patch_storage_450dex(k, ok)
      [] f = "453" -> lv2_patch_storage_453(k, ok)
      [] f = "455" -> lv2_patch_storage_455(k, ok)
      [] f = "460deh" -> lv2_patch_storage_460deh(k, ok)
      [] f = "460dex" -> lv2_patch_storage_460dex(k, ok)
      [] f = "470" -> lv2_patch_storage_470(k, ok)
      [] f = "470dex" -> lv2_patch_storage_470dex(k, ok)
      [] f = "475" -> lv2_patch_storage_475(k, ok)
      [] f = "475dex" -> lv2_patch_storage_475dex(k, ok)

UnpatchStorageOf(f, k, ok) ==
    CASE f = "341" -> lv2_unpatch_storage_341(k, ok)
      [] f = "355" -> lv2_unpatch_storage_355(k, ok)
      [] f = "355dex" -> lv2_unpatch_storage_355dex(k, ok)
      [] f = "421" -> lv2_unpatch_storage_421(k, ok)
      [] f = "421dex" -> lv2_unpatch_storage_421dex(k, ok)
      [] f = "430" -> lv2_unpatch_storage_430(k, ok)
      [] f = "430dex" -> lv2_unpatch_storage_430dex(k, ok)
      [] f = "431" -> lv2_unpatch_storage_431(k, ok)
      [] f = "440" -> lv2_unpatch_storage_440(k, ok)
      [] f = "441" -> lv2_unpatch_storage_441(k, ok)
      [] f = "446" -> lv2_unpatch_storage_446(k, ok)
      [] f = "450" -> lv2_unpatch_storage_450(k, ok)
      [] f = "450dex" -> lv2_unpatch_storage_450dex(k, ok)
      [] f = "453" -> lv2_unpatch_storage_453(k, ok)
      [] f = "455" -> lv2_unpatch_storage_455(k, ok)
      [] f = "460deh" -> lv2_unpatch_storage_460deh(k, ok)
      [] f = "460dex" -> lv2_unpatch_storage_460dex(k, ok)
      [] f = "470" -> lv2_unpatch_storage_470(k, ok)
      [] f = "470dex" -> lv2_unpatch_storage_470dex(k, ok)
      [] f = "475" -> lv2_unpatch_storage_475(k, ok)
      [] f = "475dex" -> lv2_unpatch_storage_475dex(k, ok)

UnpatchBdvdemuOf(f, k) ==
    CASE f = "341" -> lv2_unpatch_bdvdemu_341(k)
      [] f = "355" -> lv2_unpatch_bdvdemu_355(k)
      [] f = "355dex" -> lv2_unpatch_bdvdemu_355dex(k)
      [] f = "421" -> lv2_unpatch_bdvdemu_421(k)
      [] f = "421dex" -> lv2_unpatch_bdvdemu_421dex(k)
      [] f = "430" -> lv2_unpatch_bdvdemu_430(k)
      [] f = "430dex" -> lv2_unpatch_bdvdemu_430dex(k)
      [] f = "431" -> lv2_unpatch_bdvdemu_431(k)
      [] f = "440" -> lv2_unpatch_bdvdemu_440(k)
      [] f = "441" -> lv2_unpatch_bdvdemu_441(k)
      [] f = "446" -> lv2_unpatch_bdvdemu_446(k)
      [] f = "450" -> lv2_unpatch_bdvdemu_450(k)
      [] f = "450dex" -> lv2_unpatch_bdvdemu_450dex(k)
      [] f = "453" -> lv2_unpatch_bdvdemu_453(k)
      [] f = "455" -> lv2_unpatch_bdvdemu_455(k)
      [] f = "460deh" -> lv2_unpatch_bdvdemu_460deh(k)
      [] f = "460dex" -> lv2_unpatch_bdvdemu_460dex(k)
      [] f = "470" -> lv2_unpatch_bdvdemu_470(k)
      [] f = "470dex" -> lv2_unpatch_bdvdemu_470dex(k)
      [] f = "475" -> lv2_unpatch_bdvdemu_475(k)
      [] f = "475dex" -> lv2_unpatch_bdvdemu_475dex(k)

PatchBdvdemuOf(f, k, noBDVD, flags) ==
    CASE f = "341" -> lv2_patch_bdvdemu_341(k, noBDVD, flags)
      [] f = "355" -> lv2_patch_bdvdemu_355(k, noBDVD, flags)
      [] f = "355dex" -> lv2_patch_bdvdemu_355dex(k, noBDVD, flags)
      [] f = "421" -> lv2_patch_bdvdemu_421(k, noBDVD, flags)
      [] f = "421dex" -> lv2_patch_bdvdemu_421dex(k, noBDVD, flags)
      [] f = "430" -> lv2_patch_bdvdemu_430(k, noBDVD, flags)
      [] f = "430dex" -> lv2_patch_bdvdemu_430dex(k, noBDVD, flags)
      [] f = "431" -> lv2_patch_bdvdemu_431(k, noBDVD, flags)
      [] f = "440" -> lv2_patch_bdvdemu_440(k, noBDVD, flags)
      [] f = "441" -> lv2_patch_bdvdemu_441(k, noBDVD, flags)
      [] f = "446" -> lv2_patch_bdvdemu_446(k, noBDVD, flags)
      [] f = "450" -> lv2_patch_bdvdemu_450(k, noBDVD, flags)
      [] f = "450dex" -> lv2_patch_bdvdemu_450dex(k, noBDVD, flags)
      [] f = "453" -> lv2_patch_bdvdemu_453(k, noBDVD, flags)
      [] f = "455" -> lv2_patch_bdvdemu_455(k, noBDVD, flags)
      [] f = "460deh" -> lv2_patch_bdvdemu_460deh(k, noBDVD, flags)
      [] f = "460dex" -> lv2_patch_bdvdemu_460dex(k, noBDVD, flags)
      [] f = "470" -> lv2_patch_bdvdemu_470(k, noBDVD, flags)
      [] f = "470dex" -> lv2_patch_bdvdemu_470dex(k, noBDVD, flags)
      [] f = "475" -> lv2_patch_bdvdemu_475(k, noBDVD, flags)
      [] f = "475dex" -> lv2_patch_bdvdemu_475dex(k, noBDVD, flags)

\* The order of the tests in main.
Order == <<"341", "355", "355dex", "421", "421dex", "430", "431", "430dex", "440", "441",
           "446", "450", "450dex", "453", "455", "460deh", "460dex", "470", "470dex",
           "475", "475dex">>

Detected(k) == Order[Min({i \in DOMAIN Order : IsFirm(Order[i], k)})]
=============================================================================
