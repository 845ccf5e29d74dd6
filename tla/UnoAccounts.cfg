SPECIFICATION FairSpec
CONSTANTS
  ann = ann
  Ann = Ann
  p1 = p1
  p2 = p2
  Name = {ann, Ann}
  trim_and_lower <- Lower
  Password = {p1, p2}
  NoUser = NoUser
  MaxRequests = 3
INVARIANTS
  TypeOK
  VerdictTrueOfSomeMoment
  LastChangeWins
PROPERTIES
  EveryRequestAnswered
CHECK_DEADLOCK FALSE
