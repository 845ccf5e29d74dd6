SPECIFICATION FairSpec
CONSTANTS
  u1 = u1
  u2 = u2
  u3 = u3
  n1 = n1
  n2 = n2
  s = s
  r = r
  d2 = d2
  d4 = d4
  w = w
  Uid = {u1, u2}
  NoUid = NoUid
  Garbage = Garbage
  Deck <- DeckC
  face <- FaceC
  PlayerCounts = {2}
  MaxDraw = 4
  PLAYER_START_CARD_COUNT = 1
  DEALER_START_CARD_EXT_COUNT = 1
  TIMER_DEALING_INTERVAL = 2
  TIMER_SELECT_FIRST_CARD_INTERVAL = 2
  TIMER_PLAYER_THINKING = 3
  PUNISH_FOR_LAST_FUNC_CARD = 2
  PUNISH_FOR_NO_UNO = 2
PROPERTIES
  TurnsKeepComing
