----------------------------- MODULE MCCbtVerify -----------------------------
(***************************************************************************)
(* CbtVerify on three interchangeable circuits.                            *)
(***************************************************************************)
EXTENDS CbtVerify, TLC

CONSTANTS c1, c2, c3

MCCircs == {c1, c2, c3}
MCSymmetry == Permutations(MCCircs)
=============================================================================
