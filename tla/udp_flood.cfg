SPECIFICATION FairSpec
CONSTANTS
  r1 = r1
  r2 = r2
  c1 = c1
  c2 = c2
  w1 = w1
  w2 = w2
  Reqs = {r1}
  Clients = {c1, c2}
  Workers = {w1}
  Source <- OneClient
  Stranger = c2
  QCap = 2
  MaxBoots = 1
  MaxOthers = 1
  NoReq = NoReq
  NoAddr = NoAddr
PROPERTIES QueuedIsAnswered
CHECK_DEADLOCK FALSE
