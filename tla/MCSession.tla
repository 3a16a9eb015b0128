----------------------------- MODULE MCSession -----------------------------
(* Instances of Session for TLC. *)
EXTENDS Session, TLC

CONSTANTS t1, t2, none

TwoTexts == {t1, t2}
Symmetry == Permutations(TwoTexts)
=============================================================================
