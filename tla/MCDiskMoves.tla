----------------------------- MODULE MCDiskMoves -----------------------------
(* DiskMoves for TLC: a game with both folders and one without PS3_GM01; a *)
(* package on the hard disk and one that is copied, and two slots: the     *)
(* folder of a stopped installation is used again by the next, and a       *)
(* package can wait in the other slot meanwhile.                           *)
EXTENDS DiskMoves

(* A bound: in one behaviour the games are played or the packages are      *)
(* installed. The two share the disk and the stops but no folder.          *)
NoGamePlayed ==
  /\ note = [f \in Folders |-> NoNote]
  /\ \A f \in Folders : place[f] \in {"home", "nowhere"}
  /\ bdpc \in {"start", "backGm01", "idle"} /\ bdodd = {}
NoPackageTouched == pkpc = "idle" /\ source = Pkgs /\ done = {} /\ pkodd = {} /\ temp[1] = NoEntry
OneOfThem == NoGamePlayed \/ NoPackageTouched
=============================================================================
