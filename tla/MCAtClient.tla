---------------------------- MODULE MCAtClient ----------------------------
(***************************************************************************)
(* Small instances of AtClient for TLC.                                    *)
(***************************************************************************)
EXTENDS AtClient, TLC

\* The application threads are interchangeable where all of them do the same.
Symmetry == Permutations(Callers)
=============================================================================
