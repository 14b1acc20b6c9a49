------------------------- MODULE MCLecturePipeline -------------------------
(* Two jobs on a deck of two pages.                                        *)
EXTENDS LecturePipeline, TLC

CONSTANTS j1, j2

MCNarrations == {<<"ask", "full">>}
MCOutlines == {<<<<1>>, <<2>>>>}
MCDraft == <<2, 0>>
MCDraft3 == <<1, 0, 1>>
Symmetry == Permutations(Jobs)
=============================================================================
