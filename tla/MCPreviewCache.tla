--------------------------- MODULE MCPreviewCache ---------------------------
(***************************************************************************)
(* Small instances of PreviewCache for TLC.                                *)
(***************************************************************************)
EXTENDS PreviewCache, TLC

CONSTANTS t1, t2, p1, p2, u1, u2, s1, s2

(* A sentence that is a clip of its own and part of a longer one. *)
ShortAndLong == {<<s1>>, <<s1, s2>>}
Asking == {<<u1, <<s1>>>>, <<u2, <<s1>>>>, <<u1, <<s1, s2>>>>}

OneProcess == [t \in Threads |-> p1]
TwoProcesses == [t \in Threads |-> IF t = t1 THEN p1 ELSE p2]

=============================================================================
