SPECIFICATION KernelSpec
CONSTANTS
  CPUs = {c1, c2}
  Names <- MCNames
  Addrs = {a1, a2}
  q1 = q1
  q2 = q2
  Queries <- MCQueries
  NameOf <- MCNameOf
  MaxNodes = 3
  None = None
  m1 = m1
  m2 = m2
  w1 = w1
  Procs = {m1, m2, w1}
  Kind <- Kinds
  Length <- Lengths
  BufLen = 2
  Behind = 1
  NUL = NUL
  Junk = Junk
INVARIANTS LeaksNeedOverlap HoldersCounted GetReturnsMessage
PROPERTY ImplementsDns
CHECK_DEADLOCK FALSE
SYMMETRY MCSymmetry
