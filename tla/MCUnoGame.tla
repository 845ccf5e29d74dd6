----------------------------- MODULE MCUnoGame -----------------------------
(***************************************************************************)
(* Instances of UnoGame for TLC.  The decks hold a pair of equal number    *)
(* cards, so that a card can be played ahead of turn, and one card of each *)
(* kind whose effect differs.                                              *)
(***************************************************************************)
EXTENDS UnoGame, TLC

CONSTANTS u1, u2, u3, n1, n2, s, r, d2, d4, w

\* A pair of red ones, a red +2, a wild +4 and a wild card: the pile.
DeckP == {n1, n2, d2, d4, w}
FaceP == (n1 :> compose_card(COLOR_RED, FUNC_0 + 1))
      @@ (n2 :> compose_card(COLOR_RED, FUNC_0 + 1))
      @@ (d2 :> compose_card(COLOR_RED, FUNC_DRAW2))
      @@ (d4 :> compose_card(COLOR_ALL, FUNC_DRAW4))
      @@ (w  :> compose_card(COLOR_ALL, FUNC_CHGCOLOR))

\* A pair of red ones, a red skip and a red +2: the clock.
DeckC == {n1, n2, s, d2}
FaceC == (n1 :> compose_card(COLOR_RED, FUNC_0 + 1))
      @@ (n2 :> compose_card(COLOR_RED, FUNC_0 + 1))
      @@ (s  :> compose_card(COLOR_RED, FUNC_SKIP))
      @@ (d2 :> compose_card(COLOR_RED, FUNC_DRAW2))

\* A pair of red ones, a red skip, a red reverse and a red +2: the turn order.
DeckT == {n1, n2, s, r, d2}
FaceT == (n1 :> compose_card(COLOR_RED, FUNC_0 + 1))
      @@ (n2 :> compose_card(COLOR_RED, FUNC_0 + 1))
      @@ (s  :> compose_card(COLOR_RED, FUNC_SKIP))
      @@ (r  :> compose_card(COLOR_RED, FUNC_REVERSE))
      @@ (d2 :> compose_card(COLOR_RED, FUNC_DRAW2))

\* Users are interchangeable, and so are cards with the same face.
Sym == Permutations(Uid) \cup Permutations({n1, n2})
=============================================================================
