SPECIFICATION Spec
CONSTANTS
  r1 = r1
  r2 = r2
  c1 = c1
  c2 = c2
  w1 = w1
  w2 = w2
  Reqs = {r1, r2}
  Clients = {c1, c2}
  Source <- TwoClients
  Workers = {w1, w2}
  Stranger = c2
  QCap = 1
  MaxOthers = 0
  MaxBoots = 1
  NoReq = NoReq
  NoAddr = NoAddr
SYMMETRY Threads
INVARIANT NothingLost
PROPERTIES RepliesAreTimes RepeatsOnlyOnFailure
CHECK_DEADLOCK FALSE
