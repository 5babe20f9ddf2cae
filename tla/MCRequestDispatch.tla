-------------------------- MODULE MCRequestDispatch --------------------------
(* Symmetry for the safety runs of RequestDispatch: handles, Close calls   *)
(* and calls of the same size are interchangeable.                         *)
EXTENDS RequestDispatch, TLC

Symmetry ==
    UNION {Permutations(S) : S \in {Handles, CloseCalls, LargeCalls, Calls \ LargeCalls}}
=============================================================================
