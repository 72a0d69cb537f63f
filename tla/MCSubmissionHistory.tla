----------------------- MODULE MCSubmissionHistory ------------------------
(* SubmissionHistory on small sets; requests are interchangeable, and so   *)
(* are users, and so are the flags, which are only compared.               *)
EXTENDS SubmissionHistory, TLC

CONSTANTS r1, r2, u1, u2, f1, f2

Interchangeable == Permutations({r1, r2}) \cup Permutations({u1, u2})
                       \cup Permutations({f1, f2})
============================================================================
