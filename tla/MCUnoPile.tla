----------------------------- MODULE MCUnoPile -----------------------------
(***************************************************************************)
(* The pile with every face of the printed set.                            *)
(***************************************************************************)
EXTENDS UnoPile, FiniteSetsExt

\* One set has 116 cards and 58 different faces (card.h:138-266).
ASSUME SetSize == MapThenSumSet(CARD_SET, Faces) = 116

MCFace == Faces
=============================================================================
