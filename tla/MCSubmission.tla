--------------------------- MODULE MCSubmission ---------------------------
(* Submission on small sets.  Requests are interchangeable, and so are     *)
(* users: no definition of Submission tells two of them apart.             *)
EXTENDS SubmissionLedger, TLC

CONSTANTS r1, r2, u1, u2

Interchangeable == Permutations({r1, r2}) \cup Permutations({u1, u2})
============================================================================
