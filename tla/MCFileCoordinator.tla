-------------------------- MODULE MCFileCoordinator --------------------------
(***************************************************************************)
(* FileCoordinator with two processes, or with three and two files: one    *)
(* may hold the lock of a file that has lost its name while the others     *)
(* meet at the new one.                                                    *)
(***************************************************************************)
EXTENDS FileCoordinator, TLC

CONSTANTS w1, w2, w3, f1, f2

ProcessSymmetry == Permutations({w1, w2, w3}) \cup Permutations({f1, f2})
=============================================================================
