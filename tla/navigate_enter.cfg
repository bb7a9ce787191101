SPECIFICATION Spec
CONSTANTS
  home = home
  sub = sub
  blind = blind
  shut = shut
  Dirs = {home, sub, blind, shut}
  File = File
  Junk = Junk
  Parent <- Tree
  Listings <- Contents
  Readable = {home, sub}
  Searchable = {home, sub, blind}
  Home = home
  Cwd0 = sub
  Height = 3
  Slots = 7
  MaxChanges = 2
INVARIANTS OpensOnlyDirectories
CHECK_DEADLOCK FALSE
