------------------------------ MODULE MCTapLoop ------------------------------
(* Small instances of TapLoop for TLC.  Callers with a valid token are       *)
(* interchangeable; descriptor numbers are not, the kernel orders them.      *)
EXTENDS TapLoop, TLC

NoDescriptor == -1
Interchangeable == Permutations(Valid)

=============================================================================
