--------------------------- MODULE MCUnoAccounts ---------------------------
(***************************************************************************)
(* An instance of UnoAccounts for TLC: two spellings of one account.       *)
(***************************************************************************)
EXTENDS UnoAccounts

CONSTANTS ann, Ann, p1, p2

Lower == [n \in {ann, Ann} |-> ann]
=============================================================================
