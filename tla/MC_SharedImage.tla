--------------------------- MODULE MC_SharedImage ---------------------------
(* An instance of SharedImage for TLC. *)
EXTENDS SharedImage, TLC

MCCalls ==
  [op : {"convert"}, to : Boxes]
  \cup [op : {"write", "exec", "device"}]
  \cup [op : {"resize"}, cut : BOOLEAN]
  \cup [op : {"create"}, fs : {"fat32"}, wrap : BOOLEAN]

Sym == Permutations(Procs)
=============================================================================
