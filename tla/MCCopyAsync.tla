----------------------------- MODULE MCCopyAsync -----------------------------
(* CopyAsync for TLC, with the numbers of the code: files of no chunk, of  *)
(* one, two, three and four, with last chunks on either side of 555 bytes. *)
EXTENDS CopyAsync

Tails == {1, 553, 554, 555, 65535, 65536}
MCSizes == {0} \cup {chunks * Chunk + tail : chunks \in {0, 1, 3}, tail \in Tails}
=============================================================================
