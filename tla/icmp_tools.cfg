SPECIFICATION FairSpec
CONSTANTS
  p1 = p1
  t1 = t1
  Procs = {p1, t1}
  Kind <- Kinds
  Ident <- Idents
  Distance = 2
  MaxTtl = 3
  timeout = 1
  Stranger = Stranger
  MaxRounds = 2
  MaxCopies = 1
  MaxForeign = 1
INVARIANTS ReceivedAtMostSent OwnRepliesOnly AnswersMatchRounds PrintsTheRoute
PROPERTY RoundsEnd
CHECK_DEADLOCK FALSE
