----------------------------- MODULE MCGameGrid -----------------------------
(* GameGrid for TLC: two cells, a game that is on two devices, and a list  *)
(* of two pages.                                                           *)
EXTENDS GameGrid
Folders(ids) == {[id |-> i, kind |-> "folder"] : i \in ids}
MCShelf == [hdd |-> Folders({2}), usb |-> Folders({1, 2}), bdvd |-> Folders({4})]
=============================================================================
