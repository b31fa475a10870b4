---------------------------- MODULE MCGameLists -----------------------------
(* GameLists for TLC: games that exist twice, one of every kind, and more  *)
(* of them than the list has room for.                                     *)
EXTENDS GameLists
F(id, kind) == [id |-> id, kind |-> kind]
MCLibrary ==
  [hdd |-> {F(2, "folder"), F(5, "ps3"), F(4, "psx"), F(3, "film")},
   usb |-> {F(2, "folder"), F(1, "psx"), F(5, "homebrew")},
   bdvd |-> {F(1, "folder"), F(6, "psx")},
   ntfs |-> {F(2, "ps3"), F(3, "film"), F(6, "psx")}]
=============================================================================
