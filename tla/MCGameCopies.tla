---------------------------- MODULE MCGameCopies ----------------------------
(* Two games and the drives of the smallest machine they can get mixed up  *)
(* on: a big PS3 game that USB has to split, which may also be in the      *)
(* drive, and a PS1 game.                                                  *)
EXTENDS GameCopies
=============================================================================
