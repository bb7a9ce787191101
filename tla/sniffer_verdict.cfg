SPECIFICATION ProgramsSpec
CONSTANTS
  Readers = {r1, r2}
  Writers = {w1, w2}
  NoText = NoText
  Torn = Torn
  Pairs <- AllPairs
  Cap = 2
  Kinds <- AllKinds
  MaxExtra = 2
  Room = 2
  Users = {u1, u2}
  Pids = {1, 2}
  OtherPorts = {8, 9}
  Dumps <- MCDumps
  Values <- MCValues
  Junk = Junk
  Makers <- AllMakers
  Totals <- MCTotals
  Garbage <- MCGarbage
INVARIANT WrongMeansDamaged
CHECK_DEADLOCK FALSE
