------------------------------ MODULE MCFastCopy ------------------------------
(* FastCopy for TLC: a buffer of three units, parts of six, files from     *)
(* seven on split. The files: empty, below a buffer, a whole buffer, more  *)
(* than one, more than a part, and joined ones whose first fragment is a   *)
(* buffer, less, or more. A batch takes two files.                         *)
EXTENDS FastCopy

Plain == {<<0>>, <<1>>, <<3>>, <<4>>}
Split == {<<7>>, <<12>>, <<13>>}
Joined == {<<1, 2>>, <<3, 1>>, <<4, 3, 1>>, <<5, 5>>}
MCDirs ==
  {<<file>> : file \in Plain \cup Split \cup Joined}
  \cup {<<a, b>> : a, b \in {<<1>>, <<4>>, <<3, 1>>, <<7>>}}
  \cup {<< <<1>>, <<0>>, <<1>>, <<1>> >>, << <<1>>, <<4>>, <<1, 1>> >>}
=============================================================================
