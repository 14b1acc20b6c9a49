----------------------------- MODULE MCStudyLog -----------------------------
(***************************************************************************)
(* Small instances of StudyLog for TLC.                                    *)
(***************************************************************************)
EXTENDS StudyLog, TLC

CONSTANTS u1, ad, s1, s2, s3, x1, x2, q1, q2, p1, p2, r1, r2, e1, e2

StudyEndpoints == {"create", "run", "events", "admit", "export"}
Alike == Permutations({q1, q2}) \cup Permutations({s1, s2})

=============================================================================
