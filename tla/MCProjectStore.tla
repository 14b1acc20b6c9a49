--------------------------- MODULE MCProjectStore ---------------------------
(***************************************************************************)
(* Small instances of ProjectStore for TLC.                                *)
(***************************************************************************)
EXTENDS ProjectStore, TLC

CONSTANTS c1, c2, c3, r1, r2

AllHighlighted == [r \in Runs |-> "hl"]
HighlightThenVideo == [r \in Runs |-> IF r = r1 THEN "hl" ELSE "video"]

(* Which operations are not open together: a confirmation and a video may  *)
(* be, every other operation is alone; or only those that replace the      *)
(* draft keep apart.                                                       *)
OthersApart == (Ops \ {"confirm", "video"}) \X Ops
WriterPairs == DraftWriters \X DraftWriters

CallerSymmetry == Permutations(Callers)
=============================================================================
