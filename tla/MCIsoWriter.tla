----------------------------- MODULE MCIsoWriter -----------------------------
(* IsoExtract for TLC. Sectors of 160 bytes hold two or three records      *)
(* behind the first two, and a record is at most 75 bytes long, so that    *)
(* directories take several sectors and end before, at and behind the end  *)
(* of one; a file takes more than one record from seven sectors on and may *)
(* be extracted in pieces of four from six on; an image has parts of       *)
(* eleven.                                                                 *)
EXTENDS IsoExtract

File(len, size) == [len |-> len, parts |-> <<size>>]
Joined(len, parts) == [len |-> len, parts |-> parts]
Dir(parent, len, files) == [parent |-> parent, len |-> len, update |-> FALSE, files |-> files]
Update(parent, files) == [parent |-> parent, len |-> 10, update |-> TRUE, files |-> files]

(* All trees of up to five directories, each with a file.                  *)
Lineage(parents, d) ==
  LET up[k \in 1 .. d] == IF k = 1 THEN {1} ELSE {k} \cup up[parents[k]] IN up[d]
Shapes ==
  LET shape[n \in 1 .. 5] ==
        IF n = 1 THEN {<<1>>}
        ELSE UNION {{Append(s, p) : p \in Lineage(s, n - 1)} : s \in shape[n - 1]}
  IN UNION {shape[n] : n \in 1 .. 5}
Trees ==
  {[d \in DOMAIN s |-> Dir(s[d], lens[d], <<File(3, d - 1)>>)] :
     s \in Shapes, lens \in {<<0, 1, 1, 1, 1>>, <<0, 1, 16, 1, 16>>, <<0, 16, 16, 16, 16>>}}

(* Seven directories, the smallest number for which the sort changes how   *)
(* records are distributed over sectors.                                   *)
Reordered ==
  {[d \in 1 .. 7 |-> Dir(<<1, 1, 2, 2, 2, 2, 1>>[d], <<0, 1, a, b, c, e, 1>>[d],
                         IF d \in {1, 6} THEN <<File(1, 1)>> ELSE <<>>)] :
     a \in {1, 16}, b \in {1, 16}, c \in {1, 16}, e \in {1, 16}}

(* A sector filled to the last byte, and an image in parts of two          *)
(* directories.                                                            *)
Full ==
  {<<Dir(1, 0, <<File(15, 0), File(5, 0), File(len, 3), File(5, 0), File(1, 2)>>)>> : len \in {4, 5}}
Pair == {<<Dir(1, 0, <<>>), Dir(1, 3, <<File(1, size)>>)>> : size \in {4, 7}}

(* One directory with files of all lengths and sizes that matter.          *)
Flat ==
  {<<Dir(1, 0, <<File(len[1], size[1]), File(len[2], size[2]), File(len[3], size[3])>>)>> :
     len \in {<<1, 1, 1>>, <<8, 1, 15>>, <<15, 15, 15>>, <<1, 15, 4>>, <<13, 1, 1>>},
     size \in {<<0, 1, 13>>, <<12, 10, 0>>, <<11, 4, 8>>, <<5, 25, 2>>, <<4, 4, 12>>}}

Long ==
  {<<Dir(1, 0, <<Joined(8, <<12, 3>>), File(1, 0), File(15, 4), File(len, 1), File(1, 2)>>),
     Update(1, <<File(1, 4)>>), Dir(2, 1, <<File(4, 3)>>)>> : len \in {1, 4, 8, 15}}

MCWritten == {<<Dir(1, 0, <<File(1, 13), Joined(4, <<6, 5>>)>>)>>}
TooMany == {[d \in 1 .. 9 |-> Dir(1, 1, <<>>)]}
MCFolders == Trees \cup Reordered \cup Full \cup Pair \cup Flat \cup Long \cup MCWritten \cup TooMany
=============================================================================
