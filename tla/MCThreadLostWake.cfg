SPECIFICATION FairSpec
CONSTANTS
  w1 = w1
  w2 = w2
  w3 = w3
  main = main
  Main = main
  Workers = {w1}
  Labels <- MCLabels
  MainLabel = "main"
  Script <- OneThenJoinAll
  MayFail = {}
  JoinBudget = 6
  JoinAllBudget = 6
  MaxSignals = 0
PROPERTY JoinAllReturns
CHECK_DEADLOCK FALSE
