---------------------------- MODULE MCArchiveCopy ----------------------------
(* ArchiveCopy for TLC: every kind of file, a folder, and two items one    *)
(* after the other, copied and moved.                                      *)
EXTENDS ArchiveCopy
One(kind, parts) == [dir |-> FALSE, files |-> <<[kind |-> kind, parts |-> parts]>>]
Folder == [dir |-> TRUE, files |-> <<[kind |-> "plain", parts |-> <<0>>], [kind |-> "plain", parts |-> <<1>>]>>]
Empty == [dir |-> TRUE, files |-> <<>>]
MCJobs ==
  [move : BOOLEAN, items : {<<One("plain", <<2>>), One("plain", <<1>>)>>}]
    \cup [move : {TRUE}, items : {<<One("split", <<1, 1>>), One("join", <<0, 1>>)>>,
                                   <<Folder, Empty, One("part", <<1>>)>>, <<One("join", <<1, 2>>)>>}]
=============================================================================
