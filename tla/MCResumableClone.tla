--------------------------- MODULE MCResumableClone ---------------------------
(* Repositories that are interchangeable and two spellings of one target path. *)
EXTENDS ResumableClone, TLC

CONSTANTS a, b, c, path, pathSlash

Symmetry == Permutations(Repos)
===============================================================================
