SPECIFICATION FairSpec
CONSTANT MaxTasks = 1
PROPERTY StopReturns
