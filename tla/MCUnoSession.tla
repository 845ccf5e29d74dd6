---------------------------- MODULE MCUnoSession ----------------------------
(***************************************************************************)
(* Instances of UnoSession for TLC.                                        *)
(***************************************************************************)
EXTENDS UnoSession, TLC

CONSTANTS u1, u2, c1, c2

\* Users are interchangeable, and so are connections.
Sym == Permutations(Uid) \cup Permutations(Conn)
=============================================================================
