SPECIFICATION FairSpec
CONSTANT MaxTasks = 4
INVARIANTS
  TypeOK
  CallbackSeen
  NeverBlocksOnWork
PROPERTIES
  AnswersInOrder
  EveryTaskAnswered
