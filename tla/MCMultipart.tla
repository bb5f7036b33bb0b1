----------------------------- MODULE MCMultipart -----------------------------
EXTENDS Multipart, TLC

Symmetry == Permutations(Reqs)

(* The part lists that clients complete with: two parts; a part listed     *)
(* twice, or none at all; one part.                                        *)
OnlyTwo == {<<1, 2>>}
TwoOrTwice == {<<1, 2>>, <<1, 1>>, <<>>}
Single == {<<1>>}
=============================================================================
