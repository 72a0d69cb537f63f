---------------------------- MODULE MCCatalogue ----------------------------
(* Catalogue on small sets; requests are interchangeable. *)
EXTENDS Catalogue, TLC

CONSTANTS r1, r2, r3

Interchangeable == Permutations({r1, r2, r3})
============================================================================
