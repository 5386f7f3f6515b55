SPECIFICATION FairSpec
CONSTANTS
  w1 = w1
  w2 = w2
  w3 = w3
  main = main
  Main = main
  Workers = {w1, w2, w3}
  Labels <- MCLabels
  MainLabel = "main"
  Script <- TwoJoinsThenJoinAll
  MayFail = {w1}
  JoinBudget = 9
  JoinAllBudget = 9
  MaxSignals = 1
INVARIANT TypeOK
INVARIANT DoneBacked
INVARIANT SpawnsCounted
INVARIANT JoinsBacked
INVARIANT NoStaleSleeper
INVARIANT BudgetBound
PROPERTY JoinAllBarrier
PROPERTY LateJoinAllReturns
CHECK_DEADLOCK FALSE
