---------------------------- MODULE MC_AmxKernels ----------------------------
(* A small instance of AmxKernels: two worker threads, interchangeable.    *)
EXTENDS AmxKernels, TLC

CONSTANTS t1, t2

MC_Threads == {t1, t2}

Symmetry == Permutations(MC_Threads)

=============================================================================
